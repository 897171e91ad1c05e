-------------------------- MODULE SalmEngineProofs --------------------------
(***************************************************************************)
(* Proofs about SalmEngine, for any loads, slots, groups, jobs and margin: *)
(* a row that is live is in one place of the engine and a row that is free *)
(* is in none, through preemption, fallback decodes, alignment, throws and *)
(* cancellation; what admission reserves and holds back is what the slots  *)
(* and the preempted rows really own.                                      *)
(*                                                                         *)
(* The module starts with what its operators on sums, ranks and lists do:  *)
(* a recursive function over a finite set or a sequence is what its        *)
(* definition says because a function with its equations exists.           *)
(***************************************************************************)
EXTENDS SalmEngine, FiniteSetTheorems, WellFoundedInduction, SequenceTheorems, TLAPS

-----------------------------------------------------------------------------
(* Induction: a set of numbers, or of subsets of a finite set, has a least   *)
(* member.                                                                   *)

Family(B, S) == B # {} /\ \A C \in B : C \subseteq S

LEMMA LeastSubset ==
  ASSUME NEW S, IsFiniteSet(S), NEW B, Family(B, S)
  PROVE  \E C \in B : \A D \in B : ~(D \subseteq C /\ D # C)
<1> DEFINE R == StrictSubsetOrdering(S)
<1>1. FiniteSubsetsOf(S) = SUBSET S
  BY FS_FiniteSubsetsOfFinite
<1>2. IsWellFoundedOn(R, SUBSET S)
  BY <1>1, FS_StrictSubsetOrderingWellFounded
<1>a. B \subseteq SUBSET S /\ B # {}
  BY DEF Family
<1> HIDE DEF R
<1>3. PICK C \in B : \A D \in B : ~(<<D, C>> \in R)
  BY <1>2, <1>a, WFMin
<1>4. QED
  BY <1>3, <1>a DEF R, StrictSubsetOrdering

LEMMA LeastNatural ==
  ASSUME NEW S \in SUBSET Nat, S # {}
  PROVE  \E n \in S : \A m \in S : n <= m
<1>1. PICK k \in S : TRUE
  OBVIOUS
<1> DEFINE T == {0 .. n : n \in {m \in S : m <= k}}
<1>2. IsFiniteSet(0 .. k)
  BY FS_Interval
<1>3. Family(T, 0 .. k)
  <2>1. \A n \in Nat : n <= k => 0 .. n \subseteq 0 .. k
    OBVIOUS
  <2>2. 0 .. k \in T
    OBVIOUS
  <2>3. QED
    BY <2>1, <2>2 DEF Family
<1> HIDE DEF T
<1>4. PICK C \in T : \A D \in T : ~(D \subseteq C /\ D # C)
  BY <1>2, <1>3, LeastSubset
<1>5. PICK n \in {m \in S : m <= k} : C = 0 .. n
  BY DEF T
<1>6. ASSUME NEW m \in S, m < n PROVE FALSE
  <2>1. 0 .. m \in T
    BY <1>6 DEF T
  <2>2. 0 .. m \subseteq 0 .. n /\ n \in 0 .. n /\ n \notin 0 .. m
    BY <1>6
  <2>3. QED
    BY <1>4, <1>5, <2>1, <2>2
<1>7. \A m \in S : n <= m
  BY <1>6
<1>8. QED
  BY <1>7

-----------------------------------------------------------------------------
(* Sums over finite sets.                                                    *)


One(C) == CHOOSE x \in C : TRUE

\* g has the sums of v over the subsets of S.
SumsUp(g, v, S) ==
  /\ g \in [SUBSET S -> Nat]
  /\ \A C \in SUBSET S : g[C] = IF C = {} THEN 0 ELSE v[One(C)] + g[C \ {One(C)}]

LEMMA SumsExist ==
  ASSUME NEW D, NEW v \in [D -> Nat], NEW S \in SUBSET D, IsFiniteSet(S)
  PROVE  \E g : SumsUp(g, v, S)
<1> DEFINE Upto(g, n) == /\ g \in [SUBSET S -> Nat]
                         /\ \A C \in SUBSET S : Cardinality(C) <= n =>
                              g[C] = IF C = {} THEN 0 ELSE v[One(C)] + g[C \ {One(C)}]
           Bad == {n \in Nat : ~\E g : Upto(g, n)}
<1>0. \A C \in SUBSET S : IsFiniteSet(C) /\ Cardinality(C) \in Nat /\ Cardinality(C) <= Cardinality(S)
  BY FS_Subset, FS_CardinalityType
<1>1. \A C \in SUBSET S : C # {} => /\ One(C) \in C /\ v[One(C)] \in Nat
                                    /\ C \ {One(C)} \in SUBSET S
                                    /\ Cardinality(C \ {One(C)}) = Cardinality(C) - 1
  <2> SUFFICES ASSUME NEW C \in SUBSET S, C # {}
               PROVE  /\ One(C) \in C /\ v[One(C)] \in Nat
                      /\ C \ {One(C)} \in SUBSET S
                      /\ Cardinality(C \ {One(C)}) = Cardinality(C) - 1
    OBVIOUS
  <2>1. One(C) \in C
    BY DEF One
  <2>2. Cardinality(C \ {One(C)}) = Cardinality(C) - 1
    BY <1>0, <2>1, FS_RemoveElement
  <2>3. QED
    BY <2>1, <2>2
<1>2. ASSUME Bad # {} PROVE FALSE
  <2>a. Bad \in SUBSET Nat
    OBVIOUS
  <2> HIDE DEF Bad
  <2>1. PICK n \in Bad : \A m \in Bad : n <= m
    BY <1>2, <2>a, LeastNatural
  <2>b. n \in Nat /\ \A m \in Nat : m < n => m \notin Bad
    BY <2>a, <2>1
  <2>c. \A m \in Nat : m \in Bad <=> ~\E g : Upto(g, m)
    BY DEF Bad
  <2>2. CASE n = 0
    <3> DEFINE g == [C \in SUBSET S |-> 0]
    <3>1. ASSUME NEW C \in SUBSET S, Cardinality(C) <= 0 PROVE C = {}
      <4>1. SUFFICES ASSUME C # {} PROVE FALSE
        OBVIOUS
      <4>2. C \ {One(C)} \in SUBSET S /\ Cardinality(C \ {One(C)}) = Cardinality(C) - 1
        BY <1>1, <4>1
      <4>3. Cardinality(C \ {One(C)}) \in Nat /\ Cardinality(C) \in Nat
        BY <1>0, <4>2
      <4>4. QED
        BY <3>1, <4>2, <4>3
    <3>2. Upto(g, 0)
      BY <3>1
    <3>3. QED
      BY <2>1, <2>2, <2>b, <2>c, <3>2, ZenonT(40)
  <2>3. CASE n # 0
    <3>1. n - 1 \in Nat /\ n - 1 \notin Bad
      BY <2>b, <2>3
    <3>2. PICK g : Upto(g, n - 1)
      BY <2>c, <3>1
    <3> DEFINE h == [C \in SUBSET S |-> IF Cardinality(C) <= n - 1 THEN g[C]
                                        ELSE v[One(C)] + g[C \ {One(C)}]]
    <3>3. \A C \in SUBSET S : ~(Cardinality(C) <= n - 1) => C # {}
      <4>1. Cardinality({}) = 0 /\ 0 <= n - 1
        BY <3>1, FS_EmptySet
      <4>2. QED
        BY <4>1
    <3>4. h \in [SUBSET S -> Nat]
      <4>1. ASSUME NEW C \in SUBSET S PROVE h[C] \in Nat
        <5>1. CASE Cardinality(C) <= n - 1
          BY <3>2, <5>1
        <5>2. CASE ~(Cardinality(C) <= n - 1)
          <6>1. C # {}
            BY <1>0, <3>1, <3>3, <5>2
          <6>2. v[One(C)] \in Nat /\ g[C \ {One(C)}] \in Nat
            BY <1>1, <3>2, <6>1
          <6>3. QED
            BY <5>2, <6>2
        <5>3. QED
          BY <5>1, <5>2
      <4>2. QED
        BY <4>1
    <3>5. ASSUME NEW C \in SUBSET S, Cardinality(C) <= n
          PROVE  h[C] = IF C = {} THEN 0 ELSE v[One(C)] + h[C \ {One(C)}]
      <4>1. CASE C = {}
        <5>1. Cardinality(C) = 0
          BY <4>1, FS_EmptySet
        <5>2. h[C] = g[C] /\ g[C] = 0
          BY <3>1, <3>2, <4>1, <5>1
        <5>3. QED
          BY <4>1, <5>2
      <4>2. CASE C # {}
        <5>1. /\ C \ {One(C)} \in SUBSET S
              /\ Cardinality(C \ {One(C)}) <= n - 1
          <6>1. C \ {One(C)} \in SUBSET S /\ Cardinality(C \ {One(C)}) = Cardinality(C) - 1
            BY <1>1, <4>2
          <6>2. Cardinality(C) \in Nat
            BY <1>0
          <6>3. QED
            BY <2>b, <3>5, <6>1, <6>2
        <5>2. h[C \ {One(C)}] = g[C \ {One(C)}]
          BY <5>1
        <5>3. h[C] = v[One(C)] + g[C \ {One(C)}]
          <6>a. h[C] = IF Cardinality(C) <= n - 1 THEN g[C] ELSE v[One(C)] + g[C \ {One(C)}]
            OBVIOUS
          <6> HIDE DEF h
          <6>1. CASE Cardinality(C) <= n - 1
            BY <3>2, <4>2, <6>1, <6>a
          <6>2. CASE ~(Cardinality(C) <= n - 1)
            BY <6>2, <6>a
          <6>3. QED
            BY <6>1, <6>2
        <5>4. QED
          BY <4>2, <5>2, <5>3
      <4>3. QED
        BY <4>1, <4>2
    <3> HIDE DEF h
    <3>6. Upto(h, n)
      BY <3>4, <3>5
    <3> HIDE DEF Upto
    <3>7. n \notin Bad
      BY <2>b, <2>c, <3>6
    <3>8. QED
      BY <2>1, <3>7
  <2>4. QED
    BY <2>2, <2>3
<1>3. Cardinality(S) \in Nat /\ Cardinality(S) \notin Bad
  BY <1>0, <1>2
<1>4. PICK g : Upto(g, Cardinality(S))
  BY <1>3
<1>5. SumsUp(g, v, S)
  BY <1>0, <1>4 DEF SumsUp
<1>6. QED
  BY <1>5

LEMMA SumsAgree ==
  ASSUME NEW D, NEW v \in [D -> Nat], NEW S \in SUBSET D, IsFiniteSet(S),
         NEW E, NEW w \in [E -> Nat], NEW T \in SUBSET E, S \subseteq T,
         \A x \in S : v[x] = w[x],
         NEW g, SumsUp(g, v, S), NEW h, SumsUp(h, w, T)
  PROVE  \A C \in SUBSET S : g[C] = h[C]
<1> DEFINE Bad == {C \in SUBSET S : g[C] # h[C]}
<1>1. ASSUME Bad # {} PROVE FALSE
  <2>a. Family(Bad, S)
    BY <1>1 DEF Family
  <2>b. PICK C \in Bad : \A B \in Bad : ~(B \subseteq C /\ B # C)
    <3> HIDE DEF Bad
    <3>1. QED
      BY <2>a, LeastSubset
  <2>1. C \in Bad /\ \A B \in Bad : ~(B \subseteq C /\ B # C)
    BY <2>b
  <2>2. CASE C = {}
    BY <2>1, <2>2 DEF SumsUp
  <2>3. CASE C # {}
    <3>1. One(C) \in C
      BY <2>3 DEF One
    <3>2. C \ {One(C)} \notin Bad /\ C \ {One(C)} \in SUBSET S
      BY <2>1, <3>1
    <3>3. g[C \ {One(C)}] = h[C \ {One(C)}] /\ v[One(C)] = w[One(C)]
      BY <2>1, <3>1, <3>2
    <3>4. g[C] = v[One(C)] + g[C \ {One(C)}] /\ h[C] = w[One(C)] + h[C \ {One(C)}]
      BY <2>1, <2>3 DEF SumsUp
    <3>5. QED
      BY <2>1, <3>3, <3>4
  <2>4. QED
    BY <2>2, <2>3
<1>2. QED
  BY <1>1

LEMMA TotalDef ==
  ASSUME NEW D, NEW v \in [D -> Nat], NEW S \in SUBSET D, IsFiniteSet(S)
  PROVE  \E g : SumsUp(g, v, S) /\ Total(v, S) = g[S]
<1> DEFINE Is(it) == it = [C \in SUBSET S |-> IF C = {} THEN 0
                                     ELSE v[CHOOSE x \in C : TRUE] + it[C \ {CHOOSE x \in C : TRUE}]]
<1>1. Total(v, S) = (CHOOSE it : Is(it))[S]
  BY DEF Total, MapThenSumSet, MapThenFoldSet
<1>2. PICK g : SumsUp(g, v, S)
  BY SumsExist
<1>3. Is(g)
  BY <1>2 DEF SumsUp, One
<1> DEFINE it == CHOOSE it : Is(it)
<1>4. Is(it)
  BY <1>3
<1>5. SumsUp(it, v, S)
  <2> HIDE DEF it
  <2>1. DOMAIN it = SUBSET S
    BY <1>4
  <2>2. \A C \in SUBSET S : it[C] = IF C = {} THEN 0 ELSE v[One(C)] + it[C \ {One(C)}]
    BY <1>4 DEF One
  <2> DEFINE Bad == {C \in SUBSET S : it[C] \notin Nat}
  <2>3. ASSUME Bad # {} PROVE FALSE
    <3>a. Family(Bad, S)
      BY <2>3 DEF Family
    <3>b. PICK C \in Bad : \A B \in Bad : ~(B \subseteq C /\ B # C)
      <4> HIDE DEF Bad
      <4>1. QED
        BY <3>a, LeastSubset
    <3>1. C \in Bad /\ \A B \in Bad : ~(B \subseteq C /\ B # C)
      BY <3>b
    <3>2. CASE C = {}
      <4>1. it[C] = 0
        BY <2>2, <3>1, <3>2
      <4>2. QED
        BY <3>1, <4>1
    <3>3. CASE C # {}
      <4>1. One(C) \in C
        BY <3>3 DEF One
      <4>2. it[C \ {One(C)}] \in Nat /\ v[One(C)] \in Nat
        BY <3>1, <4>1
      <4>3. QED
        BY <2>2, <3>1, <3>3, <4>2
    <3>4. QED
      BY <3>2, <3>3
  <2>4. it \in [SUBSET S -> Nat]
    <3>1. it = [C \in SUBSET S |-> it[C]]
      BY <1>4
    <3>2. \A C \in SUBSET S : it[C] \in Nat
      BY <2>3
    <3>3. QED
      BY <3>1, <3>2
  <2>5. QED
    BY <2>2, <2>4 DEF SumsUp
<1>6. QED
  BY <1>1, <1>5

(* The value of a sum does not depend on how it is written.                  *)
LEMMA TotalSame ==
  ASSUME NEW D, NEW v \in [D -> Nat], NEW S \in SUBSET D, IsFiniteSet(S),
         NEW E, NEW w \in [E -> Nat], S \subseteq E, \A x \in S : v[x] = w[x]
  PROVE  Total(v, S) \in Nat /\ Total(v, S) = Total(w, S)
<1>1. PICK g : SumsUp(g, v, S) /\ Total(v, S) = g[S]
  BY TotalDef
<1>2. PICK h : SumsUp(h, w, S) /\ Total(w, S) = h[S]
  BY TotalDef
<1>3. g[S] = h[S]
  BY <1>1, <1>2, SumsAgree
<1>4. g[S] \in Nat
  BY <1>1 DEF SumsUp
<1>5. QED
  BY <1>1, <1>2, <1>3, <1>4

LEMMA TotalEmpty ==
  ASSUME NEW D, NEW v \in [D -> Nat]
  PROVE  Total(v, {}) = 0
<1>1. IsFiniteSet({})
  BY FS_EmptySet
<1>2. PICK g : SumsUp(g, v, {}) /\ Total(v, {}) = g[{}]
  BY <1>1, TotalDef
<1>3. QED
  BY <1>2 DEF SumsUp

(* It does not depend on the order in which members are taken.               *)
LEMMA TotalRemove ==
  ASSUME NEW D, NEW v \in [D -> Nat], NEW S \in SUBSET D, IsFiniteSet(S), NEW x \in S
  PROVE  /\ Total(v, S) = v[x] + Total(v, S \ {x})
         /\ Total(v, S) \in Nat /\ Total(v, S \ {x}) \in Nat /\ v[x] \in Nat
<1>1. PICK g : SumsUp(g, v, S) /\ Total(v, S) = g[S]
  BY TotalDef
<1> DEFINE Bad == {C \in SUBSET S : \E z \in C : g[C] # v[z] + g[C \ {z}]}
<1>2. ASSUME Bad # {} PROVE FALSE
  <2>a. Family(Bad, S)
    BY <1>2 DEF Family
  <2>b. PICK C \in Bad : \A B \in Bad : ~(B \subseteq C /\ B # C)
    <3> HIDE DEF Bad
    <3>1. QED
      BY <2>a, LeastSubset
  <2>1. C \in Bad /\ \A B \in Bad : ~(B \subseteq C /\ B # C)
    BY <2>b
  <2>2. PICK z \in C : g[C] # v[z] + g[C \ {z}]
    BY <2>1
  <2> DEFINE y == One(C)
  <2>3. y \in C /\ g[C] = v[y] + g[C \ {y}]
    BY <1>1, <2>1, <2>2 DEF SumsUp, One
  <2> HIDE DEF y
  <2>4. y # z
    BY <2>2, <2>3
  <2>5. C \ {y} \notin Bad /\ C \ {z} \notin Bad /\ C \ {y} \in SUBSET S /\ C \ {z} \in SUBSET S
    BY <2>1, <2>2, <2>3
  <2>6. g[C \ {y}] = v[z] + g[(C \ {y}) \ {z}] /\ g[C \ {z}] = v[y] + g[(C \ {z}) \ {y}]
    BY <2>2, <2>3, <2>4, <2>5
  <2>7. (C \ {y}) \ {z} = (C \ {z}) \ {y}
    OBVIOUS
  <2>8. v[z] \in Nat /\ v[y] \in Nat /\ g[(C \ {z}) \ {y}] \in Nat
    BY <1>1, <2>1, <2>2, <2>3 DEF SumsUp
  <2>9. g[(C \ {y}) \ {z}] = g[(C \ {z}) \ {y}]
    BY <2>7
  <2>10. g[C] = v[z] + g[C \ {z}]
    <3> HIDE DEF Bad
    <3>1. QED
      BY <2>3, <2>6, <2>8, <2>9
  <2>11. QED
    BY <2>2, <2>10
<1>3. g[S] = v[x] + g[S \ {x}] /\ v[x] \in Nat /\ g[S] \in Nat /\ g[S \ {x}] \in Nat
  <2>1. S \notin Bad
    BY <1>2
  <2>2. QED
    BY <1>1, <2>1 DEF SumsUp
<1>4. PICK h : SumsUp(h, v, S \ {x}) /\ Total(v, S \ {x}) = h[S \ {x}]
  <2>1. S \ {x} \in SUBSET D /\ IsFiniteSet(S \ {x})
    BY FS_RemoveElement
  <2>2. QED
    BY <2>1, TotalDef
<1>5. h[S \ {x}] = g[S \ {x}]
  <2>1. S \ {x} \in SUBSET D /\ IsFiniteSet(S \ {x}) /\ S \ {x} \subseteq S
    BY FS_RemoveElement
  <2>2. QED
    BY <1>1, <1>4, <2>1, SumsAgree
<1>6. QED
  BY <1>1, <1>3, <1>4, <1>5

(* A sum over a union of disjoint sets.                                      *)
LEMMA TotalSplit ==
  ASSUME NEW D, NEW v \in [D -> Nat], NEW A \in SUBSET D, IsFiniteSet(A),
         NEW B \in SUBSET D, IsFiniteSet(B), A \cap B = {}
  PROVE  /\ Total(v, A \cup B) = Total(v, A) + Total(v, B)
         /\ Total(v, A) \in Nat /\ Total(v, B) \in Nat
<1>0. \A C \in SUBSET A : IsFiniteSet(C) /\ IsFiniteSet(C \cup B)
  BY FS_Subset, FS_Union
<1>1. \A C \in SUBSET A : Total(v, C) \in Nat
  BY <1>0, TotalSame
<1>2. Total(v, B) \in Nat
  BY TotalSame
<1> DEFINE Bad == {C \in SUBSET A : Total(v, C \cup B) # Total(v, C) + Total(v, B)}
<1>3. ASSUME Bad # {} PROVE FALSE
  <2>a. Family(Bad, A)
    BY <1>3 DEF Family
  <2>b. PICK C \in Bad : \A E \in Bad : ~(E \subseteq C /\ E # C)
    <3> HIDE DEF Bad
    <3>1. QED
      BY <2>a, LeastSubset
  <2>1. C \in Bad /\ \A E \in Bad : ~(E \subseteq C /\ E # C)
    BY <2>b
  <2>2. CASE C = {}
    <3>1. C \cup B = B /\ Total(v, C) = 0
      BY <2>2, TotalEmpty
    <3>2. Total(v, C \cup B) = Total(v, C) + Total(v, B)
      BY <1>2, <3>1
    <3>3. QED
      BY <2>1, <3>2
  <2>3. CASE C # {}
    <3>1. PICK x \in C : TRUE
      BY <2>3
    <3>2. (C \cup B) \ {x} = (C \ {x}) \cup B
      BY <2>1, <3>1
    <3>3. Total(v, C) = v[x] + Total(v, C \ {x}) /\ v[x] \in Nat
      BY <1>0, <2>1, <3>1, TotalRemove
    <3>4. Total(v, C \cup B) = v[x] + Total(v, (C \cup B) \ {x})
      <4>1. C \cup B \in SUBSET D /\ x \in C \cup B /\ IsFiniteSet(C \cup B)
        BY <1>0, <2>1, <3>1
      <4>2. QED
        BY <4>1, TotalRemove
    <3>5. Total(v, (C \ {x}) \cup B) = Total(v, C \ {x}) + Total(v, B)
      BY <2>1, <3>1
    <3>6. Total(v, C \ {x}) \in Nat
      BY <1>1, <2>1
    <3>7. QED
      BY <1>2, <2>1, <3>2, <3>3, <3>4, <3>5, <3>6
  <2>4. QED
    BY <2>2, <2>3
<1>4. QED
  BY <1>1, <1>2, <1>3

-----------------------------------------------------------------------------
(* Recursion along an interval.                                              *)

LEMMA Upward ==
  ASSUME NEW n \in Nat, NEW P \in SUBSET (0 .. n), 0 \in P,
         \A i \in 1 .. n : i - 1 \in P => i \in P
  PROVE  P = 0 .. n
<1>1. ASSUME NEW i \in 0 .. n, i \notin P PROVE FALSE
  <2> DEFINE Bad == {j \in 0 .. n : j \notin P}
  <2>1. Bad \in SUBSET Nat /\ Bad # {}
    BY <1>1
  <2> HIDE DEF Bad
  <2>2. PICK j \in Bad : \A k \in Bad : j <= k
    BY <2>1, LeastNatural
  <2>3. j \in 0 .. n /\ j \notin P
    BY DEF Bad
  <2>4. j # 0 /\ j - 1 \notin Bad /\ j - 1 \in 0 .. n
    BY <2>2, <2>3
  <2>5. QED
    BY <2>3, <2>4 DEF Bad
<1>2. QED
  BY <1>1

(* A function that is defined from its value before.                         *)
Machine(n, X, base, step) == n \in Nat /\ base \in X /\ step \in [1 .. n -> [X -> X]]

LEMMA Recursion ==
  ASSUME NEW n, NEW X, NEW base, NEW step, Machine(n, X, base, step)
  PROVE  \E f \in [0 .. n -> X] : f[0] = base /\ \A i \in 1 .. n : f[i] = step[i][f[i - 1]]
<1>0. n \in Nat /\ base \in X /\ step \in [1 .. n -> [X -> X]]
  BY DEF Machine
<1> DEFINE Upto(f, m) == /\ f \in [0 .. n -> X] /\ f[0] = base
                         /\ \A i \in 1 .. m : f[i] = step[i][f[i - 1]]
           P == {m \in 0 .. n : \E f : Upto(f, m)}
<1>1. 0 \in P
  <2> DEFINE f == [i \in 0 .. n |-> base]
  <2>1. Upto(f, 0)
    BY <1>0
  <2> HIDE DEF f, Upto
  <2>2. \E g : Upto(g, 0)
    BY <2>1
  <2>3. QED
    BY <1>0, <2>2
<1>2. ASSUME NEW m \in 1 .. n, m - 1 \in P PROVE m \in P
  <2>1. PICK f : Upto(f, m - 1)
    BY <1>0, <1>2
  <2> DEFINE h == [f EXCEPT ![m] = step[m][f[m - 1]]]
  <2>2. f[m - 1] \in X /\ step[m] \in [X -> X]
    BY <1>0, <2>1
  <2>3. h \in [0 .. n -> X] /\ h[0] = base
    BY <1>0, <2>1, <2>2
  <2>4. ASSUME NEW i \in 1 .. m PROVE h[i] = step[i][h[i - 1]]
    BY <1>0, <2>1
  <2>5. Upto(h, m)
    BY <1>0, <2>3, <2>4
  <2> HIDE DEF h, Upto
  <2>6. QED
    BY <2>5
<1>3. P = 0 .. n
  <2>1. P \in SUBSET (0 .. n)
    OBVIOUS
  <2> HIDE DEF P
  <2>2. QED
    BY <1>0, <1>1, <1>2, <2>1, Upward
<1>4. PICK f : Upto(f, n)
  <2>1. n \in P
    <3> HIDE DEF P
    <3>1. QED
      BY <1>0, <1>3
  <2> HIDE DEF Upto
  <2>2. QED
    BY <2>1
<1>5. QED
  BY <1>4

-----------------------------------------------------------------------------
(* Sequences that list a set: each of its members once, nothing else.        *)

Once(s) == \A i, j \in DOMAIN s : s[i] = s[j] => i = j

Lists(s, A) ==
  /\ s \in Seq(A) /\ Once(s)
  /\ \A a \in A : \E i \in DOMAIN s : s[i] = a

LEMMA ListsRange == ASSUME NEW s, NEW A, Lists(s, A) PROVE ToSet(s) = A
BY DEF Lists, ToSet

LEMMA OnceLists == ASSUME NEW D, NEW s \in Seq(D), Once(s) PROVE Lists(s, ToSet(s))
<1>1. ToSet(s) = {s[i] : i \in DOMAIN s}
  BY DEF ToSet
<1>2. s \in Seq(ToSet(s))
  BY <1>1
<1>3. QED
  BY <1>1, <1>2 DEF Lists

LEMMA ListsEmpty == Lists(<<>>, {})
BY DEF Lists, Once

LEMMA ListsOne == ASSUME NEW a PROVE Lists(<<a>>, {a})
BY DEF Lists, Once

LEMMA ListsConcat ==
  ASSUME NEW s, NEW t, NEW A, NEW B, Lists(s, A), Lists(t, B), A \cap B = {}
  PROVE  Lists(s \o t, A \cup B)
<1>1. /\ s \in Seq(A) /\ t \in Seq(B) /\ Once(s) /\ Once(t)
      /\ \A a \in A : \E i \in DOMAIN s : s[i] = a
      /\ \A b \in B : \E i \in DOMAIN t : t[i] = b
  BY DEF Lists
<1>2. s \o t \in Seq(A \cup B)
  <2>1. s \in Seq(A \cup B) /\ t \in Seq(A \cup B)
    BY <1>1
  <2>2. QED
    BY <2>1
<1>3. /\ DOMAIN (s \o t) = 1 .. Len(s) + Len(t)
      /\ \A i \in 1 .. Len(s) : (s \o t)[i] = s[i] /\ s[i] \in A
      /\ \A i \in Len(s) + 1 .. Len(s) + Len(t) : (s \o t)[i] = t[i - Len(s)] /\ t[i - Len(s)] \in B
      /\ DOMAIN s = 1 .. Len(s) /\ DOMAIN t = 1 .. Len(t) /\ Len(s) \in Nat /\ Len(t) \in Nat
  BY <1>1
<1>4. Once(s \o t)
  <2> SUFFICES ASSUME NEW i \in 1 .. Len(s) + Len(t), NEW j \in 1 .. Len(s) + Len(t),
                      (s \o t)[i] = (s \o t)[j]
               PROVE  i = j
    BY <1>3 DEF Once
  <2>1. CASE i <= Len(s) /\ j <= Len(s)
    <3>1. i \in DOMAIN s /\ j \in DOMAIN s /\ s[i] = s[j]
      BY <1>3, <2>1
    <3>2. QED
      BY <1>1, <3>1 DEF Once
  <2>2. CASE ~(i <= Len(s)) /\ ~(j <= Len(s))
    <3>1. i - Len(s) \in DOMAIN t /\ j - Len(s) \in DOMAIN t /\ t[i - Len(s)] = t[j - Len(s)]
      BY <1>3, <2>2
    <3>2. i - Len(s) = j - Len(s)
      BY <1>1, <3>1 DEF Once
    <3>3. QED
      BY <1>3, <3>2
  <2>3. CASE (i <= Len(s)) # (j <= Len(s))
    BY <1>3, <2>3
  <2>4. QED
    BY <2>1, <2>2, <2>3
<1>5. ASSUME NEW c \in A \cup B PROVE \E i \in DOMAIN (s \o t) : (s \o t)[i] = c
  <2>1. CASE c \in A
    <3>1. PICK i \in DOMAIN s : s[i] = c
      BY <1>1, <2>1
    <3>2. i \in DOMAIN (s \o t) /\ (s \o t)[i] = c
      BY <1>3, <3>1
    <3>3. QED
      BY <3>2
  <2>2. CASE c \in B
    <3>1. PICK i \in DOMAIN t : t[i] = c
      BY <1>1, <2>2
    <3>2. i + Len(s) \in DOMAIN (s \o t) /\ (s \o t)[i + Len(s)] = c
      BY <1>3, <3>1
    <3>3. QED
      BY <3>2
  <2>3. QED
    BY <2>1, <2>2
<1>6. QED
  BY <1>2, <1>4, <1>5 DEF Lists

LEMMA ListsAppend ==
  ASSUME NEW s, NEW A, Lists(s, A), NEW a, a \notin A
  PROVE  Lists(Append(s, a), A \cup {a})
<1>1. Lists(s \o <<a>>, A \cup {a})
  BY ListsOne, ListsConcat
<1>2. s \o <<a>> = Append(s, a)
  BY DEF Lists
<1>3. QED
  BY <1>1, <1>2

(* A part of a sequence, from its k-th element on or up to it.               *)
LEMMA ListsPart ==
  ASSUME NEW s, NEW A, Lists(s, A), NEW k \in 0 .. Len(s)
  PROVE  /\ Lists(SubSeq(s, 1, k), ToSet(SubSeq(s, 1, k)))
         /\ Lists(SubSeq(s, k + 1, Len(s)), A \ ToSet(SubSeq(s, 1, k)))
         /\ ToSet(SubSeq(s, 1, k)) \subseteq A
         /\ ToSet(SubSeq(s, 1, k)) = {s[i] : i \in 1 .. k}
<1> DEFINE p == SubSeq(s, 1, k)
           q == SubSeq(s, k + 1, Len(s))
           B == {s[i] : i \in 1 .. k}
<1>1. /\ s \in Seq(A) /\ Once(s) /\ DOMAIN s = 1 .. Len(s) /\ Len(s) \in Nat
      /\ \A a \in A : \E i \in DOMAIN s : s[i] = a
  BY DEF Lists
<1>2. /\ p \in Seq(A) /\ Len(p) = k /\ DOMAIN p = 1 .. k /\ \A i \in 1 .. k : p[i] = s[i]
  BY <1>1
<1> DEFINE m == Len(s) - k
<1>3. /\ q \in Seq(A) /\ Len(q) = m /\ DOMAIN q = 1 .. m /\ m \in Nat
      /\ \A i \in 1 .. m : q[i] = s[k + i] /\ k + i \in 1 .. Len(s)
  <2>1. q \in Seq(A) /\ Len(q) = m
    <3>1. k + 1 \in Int /\ Len(s) \in Int /\ \A i \in k + 1 .. Len(s) : s[i] \in A
      BY <1>1
    <3>2. q \in Seq(A) /\ Len(q) = IF k + 1 <= Len(s) THEN Len(s) - (k + 1) + 1 ELSE 0
      BY <3>1, SubSeqProperties
    <3>3. k <= Len(s) /\ k \in Int
      BY <1>1
    <3> HIDE DEF q
    <3>4. QED
      BY <3>1, <3>2, <3>3
  <2>2. \A i \in 1 .. m : q[i] = s[k + 1 + i - 1] /\ k + 1 + i - 1 = k + i /\ k + i \in 1 .. Len(s)
    BY <1>1
  <2>3. DOMAIN q = 1 .. m /\ m \in Nat
    <3>1. DOMAIN q = 1 .. Len(q) /\ Len(q) \in Nat
      BY <2>1
    <3> HIDE DEF q, m
    <3>2. QED
      BY <2>1, <3>1
  <2>4. \A i \in 1 .. m : q[i] = s[k + i] /\ k + i \in 1 .. Len(s)
    BY <2>2
  <2> HIDE DEF q, m
  <2>5. QED
    BY <2>1, <2>3, <2>4
<1> HIDE DEF p, q, m
<1>4. ToSet(p) = B
  BY <1>2 DEF ToSet
<1>5. Lists(p, ToSet(p))
  <2>1. Once(p)
    BY <1>1, <1>2 DEF Once
  <2>2. QED
    BY <1>2, <2>1, OnceLists
<1>6. B \subseteq A
  BY <1>1
<1>7. Lists(q, A \ B)
  <2>1. ASSUME NEW i \in 1 .. m PROVE q[i] \in A \ B
    <3>1. q[i] = s[k + i] /\ k + i \in 1 .. Len(s) /\ q[i] \in A
      BY <1>1, <1>3
    <3>2. \A j \in 1 .. k : j \in 1 .. Len(s) /\ j # k + i
      BY <1>1, <1>3
    <3>3. \A j \in 1 .. k : s[j] # s[k + i]
      BY <1>1, <3>1, <3>2 DEF Once
    <3>4. QED
      BY <3>1, <3>3
  <2>2. q \in Seq(A \ B)
    <3>1. Len(q) \in Nat /\ q = [i \in 1 .. Len(q) |-> q[i]] /\ \A i \in 1 .. Len(q) : q[i] \in A \ B
      BY <1>3, <2>1
    <3> HIDE DEF B
    <3>2. QED
      BY <3>1
  <2>3. Once(q)
    <3> SUFFICES ASSUME NEW i \in 1 .. m, NEW j \in 1 .. m, q[i] = q[j]
                 PROVE  i = j
      BY <1>3 DEF Once
    <3>1. k + i \in DOMAIN s /\ k + j \in DOMAIN s /\ s[k + i] = s[k + j]
      BY <1>1, <1>3
    <3>2. k + i = k + j
      BY <1>1, <3>1 DEF Once
    <3>3. k \in Int /\ i \in Int /\ j \in Int
      BY <1>1, <1>3
    <3>4. QED
      BY <3>2, <3>3
  <2>4. ASSUME NEW a \in A \ B PROVE \E i \in DOMAIN q : q[i] = a
    <3>1. PICK i \in DOMAIN s : s[i] = a
      BY <1>1
    <3>2. i \in 1 .. Len(s) /\ i > k
      BY <1>1, <3>1
    <3>3. i - k \in 1 .. m /\ k + (i - k) = i
      BY <1>1, <3>2 DEF m
    <3>4. i - k \in DOMAIN q /\ q[i - k] = a
      BY <1>3, <3>1, <3>3
    <3>5. QED
      BY <3>4
  <2>5. QED
    BY <2>2, <2>3, <2>4 DEF Lists
<1>8. QED
  BY <1>4, <1>5, <1>6, <1>7 DEF p, q, m

LEMMA ListsTail ==
  ASSUME NEW s, NEW A, Lists(s, A), s # <<>>
  PROVE  Head(s) \in A /\ Lists(Tail(s), A \ {Head(s)})
<1>1. s \in Seq(A) /\ Len(s) \in Nat /\ Len(s) >= 1 /\ Tail(s) = SubSeq(s, 2, Len(s)) /\ Head(s) = s[1]
  BY DEF Lists
<1>2. 1 \in 0 .. Len(s) /\ 1 + 1 = 2
  BY <1>1
<1>3. /\ Lists(SubSeq(s, 1 + 1, Len(s)), A \ ToSet(SubSeq(s, 1, 1)))
      /\ ToSet(SubSeq(s, 1, 1)) = {s[i] : i \in 1 .. 1}
  BY <1>2, ListsPart
<1>4. {s[i] : i \in 1 .. 1} = {s[1]}
  OBVIOUS
<1>5. s[1] \in A
  BY <1>1
<1>6. QED
  BY <1>1, <1>2, <1>3, <1>4, <1>5

LEMMA ListsFront ==
  ASSUME NEW s, NEW A, Lists(s, A), s # <<>>
  PROVE  Last(s) \in A /\ Lists(Front(s), A \ {Last(s)})
<1>1. /\ s \in Seq(A) /\ Once(s) /\ DOMAIN s = 1 .. Len(s) /\ Len(s) \in Nat /\ Len(s) >= 1
      /\ \A a \in A : \E i \in DOMAIN s : s[i] = a
  BY DEF Lists
<1> DEFINE k == Len(s) - 1
<1>2. k \in 0 .. Len(s) /\ Front(s) = SubSeq(s, 1, k) /\ Last(s) = s[Len(s)] /\ Last(s) \in A
  BY <1>1 DEF Front, Last
<1>3. /\ Lists(SubSeq(s, 1, k), ToSet(SubSeq(s, 1, k)))
      /\ ToSet(SubSeq(s, 1, k)) = {s[i] : i \in 1 .. k}
  <2> HIDE DEF k
  <2>1. QED
    BY <1>2, ListsPart
<1>4. {s[i] : i \in 1 .. k} = A \ {s[Len(s)]}
  BY <1>1 DEF Once
<1>5. QED
  BY <1>2, <1>3, <1>4

(* The image of a list under a function that keeps its members apart.        *)
LEMMA ListsImage ==
  ASSUME NEW s, NEW A, Lists(s, A), NEW f, \A a, b \in A : f[a] = f[b] => a = b
  PROVE  Lists([i \in DOMAIN s |-> f[s[i]]], {f[a] : a \in A})
<1>1. /\ s \in Seq(A) /\ Once(s) /\ DOMAIN s = 1 .. Len(s) /\ Len(s) \in Nat
      /\ (\A a \in A : \E i \in DOMAIN s : s[i] = a) /\ \A i \in DOMAIN s : s[i] \in A
  BY DEF Lists
<1> DEFINE q == [i \in DOMAIN s |-> f[s[i]]]
<1>2. q \in Seq({f[a] : a \in A})
  BY <1>1
<1>3. Once(q)
  BY <1>1 DEF Once
<1>4. \A b \in {f[a] : a \in A} : \E i \in DOMAIN q : q[i] = b
  BY <1>1
<1>5. QED
  BY <1>2, <1>3, <1>4 DEF Lists

LEMMA ListsFinite ==
  ASSUME NEW s, NEW A, Lists(s, A)
  PROVE  IsFiniteSet(A) /\ Cardinality(A) = Len(s)
<1>1. /\ s \in Seq(A) /\ Once(s) /\ DOMAIN s = 1 .. Len(s) /\ Len(s) \in Nat
      /\ (\A a \in A : \E i \in DOMAIN s : s[i] = a) /\ \A i \in DOMAIN s : s[i] \in A
  BY DEF Lists
<1>2. s \in Surjection(1 .. Len(s), A) /\ s \in Injection(1 .. Len(s), A)
  <2>1. s \in [1 .. Len(s) -> A]
    BY <1>1
  <2>2. QED
    BY <1>1, <2>1 DEF Injection, Surjection, IsInjective, Once
<1>3. IsFiniteSet(1 .. Len(s)) /\ Cardinality(1 .. Len(s)) = Len(s)
  <2>1. 1 \in Int /\ Len(s) \in Int
    BY <1>1
  <2>2. IsFiniteSet(1 .. Len(s)) /\ Cardinality(1 .. Len(s)) = IF 1 > Len(s) THEN 0 ELSE Len(s) - 1 + 1
    BY <2>1, FS_Interval
  <2>3. (IF 1 > Len(s) THEN 0 ELSE Len(s) - 1 + 1) = Len(s)
    BY <1>1
  <2>4. QED
    BY <2>2, <2>3
<1>4. QED
  BY <1>2, <1>3, FS_Surjection

-----------------------------------------------------------------------------
(* What Only keeps: it takes the elements at the places h, in order.         *)

Picks(q, h, s, S) ==
  /\ DOMAIN q = DOMAIN h
  /\ \A k \in DOMAIN h : h[k] \in DOMAIN s /\ s[h[k]] \in S /\ q[k] = s[h[k]]
  /\ \A k, l \in DOMAIN h : h[k] = h[l] => k = l
  /\ \A i \in DOMAIN s : s[i] \in S => \E k \in DOMAIN h : h[k] = i

LEMMA OnlyPicks ==
  ASSUME NEW D, NEW s \in Seq(D), NEW S
  PROVE  Only(s, S) \in Seq(D) /\ \E h : Picks(Only(s, S), h, s, S)
<1> DEFINE n == Len(s)
           X == Seq(D)
           step == [i \in 1 .. n |-> [q \in X |-> IF s[i] \in S THEN Append(q, s[i]) ELSE q]]
           Is(f) == f = [i \in 0 .. n |->
                           IF i = 0 THEN <<>>
                           ELSE IF s[i] \in S THEN Append(f[i - 1], s[i]) ELSE f[i - 1]]
           it == CHOOSE f : Is(f)
<1>1. n \in Nat /\ DOMAIN s = 1 .. n /\ \A i \in 1 .. n : s[i] \in D
  OBVIOUS
<1>2. <<>> \in X /\ step \in [1 .. n -> [X -> X]]
  BY <1>1
<1>3. \E f \in [0 .. n -> X] : f[0] = <<>> /\ \A i \in 1 .. n : f[i] = step[i][f[i - 1]]
  <2>1. Machine(n, X, <<>>, step)
    BY <1>1, <1>2 DEF Machine
  <2> HIDE DEF step, X, n
  <2>2. QED
    BY <2>1, Recursion
<1>4. PICK f \in [0 .. n -> X] : f[0] = <<>> /\ \A i \in 1 .. n : f[i] = step[i][f[i - 1]]
  BY <1>3
<1>5. \A i \in 1 .. n : f[i - 1] \in X /\ f[i] = IF s[i] \in S THEN Append(f[i - 1], s[i]) ELSE f[i - 1]
  <2> SUFFICES ASSUME NEW i \in 1 .. n
               PROVE  f[i - 1] \in X /\ f[i] = IF s[i] \in S THEN Append(f[i - 1], s[i]) ELSE f[i - 1]
    OBVIOUS
  <2>1. i - 1 \in 0 .. n
    BY <1>1
  <2>2. f[i - 1] \in X
    BY <1>4, <2>1
  <2>3. f[i] = step[i][f[i - 1]]
    BY <1>4
  <2> HIDE DEF X
  <2>4. step[i][f[i - 1]] = IF s[i] \in S THEN Append(f[i - 1], s[i]) ELSE f[i - 1]
    BY <2>2
  <2>5. QED
    BY <2>2, <2>3, <2>4
<1>6. Is(f)
  <2> DEFINE g == [i \in 0 .. n |-> IF i = 0 THEN <<>>
                           ELSE IF s[i] \in S THEN Append(f[i - 1], s[i]) ELSE f[i - 1]]
  <2>1. ASSUME NEW i \in 0 .. n PROVE f[i] = g[i]
    <3>1. CASE i = 0
      BY <1>4, <3>1
    <3>2. CASE i # 0
      <4>1. i \in 1 .. n
        BY <1>1, <3>2
      <4>2. QED
        BY <1>5, <3>2, <4>1
    <3>3. QED
      BY <3>1, <3>2
  <2>2. DOMAIN f = 0 .. n
    BY <1>4
  <2> HIDE DEF X, step, n
  <2>3. QED
    BY <2>1, <2>2
<1>7. Is(it) /\ Only(s, S) = it[n]
  BY <1>6, Zenon DEF Only
<1> HIDE DEF it
<1>8. it[0] = <<>> /\ \A i \in 1 .. n : it[i] = IF s[i] \in S THEN Append(it[i - 1], s[i]) ELSE it[i - 1]
  <2>1. \A i \in 0 .. n : it[i] = IF i = 0 THEN <<>>
                                 ELSE IF s[i] \in S THEN Append(it[i - 1], s[i]) ELSE it[i - 1]
    BY <1>7
  <2>2. 0 \in 0 .. n /\ \A i \in 1 .. n : i \in 0 .. n /\ i # 0
    BY <1>1
  <2> HIDE DEF n
  <2>3. QED
    BY <2>1, <2>2
<1> DEFINE Good(i, h) == /\ it[i] \in X
                         /\ DOMAIN it[i] = DOMAIN h /\ h \in Seq(1 .. n)
                         /\ \A k \in DOMAIN h : h[k] \in 1 .. i /\ s[h[k]] \in S /\ it[i][k] = s[h[k]]
                         /\ \A k, l \in DOMAIN h : h[k] = h[l] => k = l
                         /\ \A j \in 1 .. i : s[j] \in S => \E k \in DOMAIN h : h[k] = j
           P == {i \in 0 .. n : \E h : Good(i, h)}
<1>9. 0 \in P
  <2>1. Good(0, <<>>)
    BY <1>8
  <2> HIDE DEF Good
  <2>2. \E h : Good(0, h)
    BY <2>1
  <2>3. QED
    BY <1>1, <2>2
<1>10. ASSUME NEW i \in 1 .. n, i - 1 \in P PROVE i \in P
  <2>1. PICK h : Good(i - 1, h)
    BY <1>10
  <2>4. it[i - 1] \in X /\ DOMAIN it[i - 1] = DOMAIN h /\ h \in Seq(1 .. n)
    BY <2>1
  <2>5. \A k \in DOMAIN h : h[k] \in 1 .. i - 1 /\ s[h[k]] \in S /\ it[i - 1][k] = s[h[k]]
    BY <2>1
  <2>6. \A k, l \in DOMAIN h : h[k] = h[l] => k = l
    BY <2>1
  <2>7. \A j \in 1 .. i - 1 : s[j] \in S => \E k \in DOMAIN h : h[k] = j
    BY <2>1
  <2>2. CASE s[i] \in S
    <3> DEFINE h2 == Append(h, i)
    <3>1. it[i] = Append(it[i - 1], s[i]) /\ s[i] \in D
      BY <1>1, <1>8, <2>2
    <3>2. /\ h2 \in Seq(1 .. n) /\ DOMAIN h2 = 1 .. Len(h) + 1 /\ h2[Len(h) + 1] = i
          /\ DOMAIN h = 1 .. Len(h) /\ Len(h) \in Nat /\ \A k \in 1 .. Len(h) : h2[k] = h[k]
      BY <2>4
    <3>3. /\ it[i] \in X /\ Len(it[i - 1]) = Len(h)
          /\ DOMAIN it[i] = 1 .. Len(h) + 1 /\ it[i][Len(h) + 1] = s[i]
          /\ \A k \in 1 .. Len(h) : it[i][k] = it[i - 1][k]
      BY <2>4, <3>1, <3>2
    <3> HIDE DEF h2
    <3>9. \A k \in 1 .. Len(h) : /\ h2[k] \in 1 .. i - 1 /\ s[h2[k]] \in S
                                  /\ it[i - 1][k] = s[h2[k]]
      BY <2>5, <3>2
    <3>4. ASSUME NEW k \in DOMAIN h2
          PROVE  h2[k] \in 1 .. i /\ s[h2[k]] \in S /\ it[i][k] = s[h2[k]]
      <4>1. CASE k = Len(h) + 1
        BY <2>2, <3>2, <3>3, <4>1
      <4>2. CASE k # Len(h) + 1
        <5>1. k \in 1 .. Len(h)
          BY <3>2, <4>2
        <5>2. /\ h2[k] \in 1 .. i - 1 /\ s[h2[k]] \in S /\ it[i - 1][k] = s[h2[k]]
              /\ it[i][k] = it[i - 1][k]
          BY <3>3, <3>9, <5>1
        <5>3. 1 .. i - 1 \subseteq 1 .. i
          BY <1>10
        <5>4. QED
          BY <5>2, <5>3
      <4>3. QED
        BY <4>1, <4>2
    <3>5. ASSUME NEW k \in DOMAIN h2, NEW l \in DOMAIN h2, h2[k] = h2[l] PROVE k = l
      <4>0. \A m \in 1 .. Len(h) : h2[m] # i
        <5>1. i \notin 1 .. i - 1
          BY <1>10
        <5>2. QED
          BY <3>9, <5>1
      <4>1. CASE k = Len(h) + 1 \/ l = Len(h) + 1
        <5>1. h2[Len(h) + 1] = i /\ k \in 1 .. Len(h) + 1 /\ l \in 1 .. Len(h) + 1 /\ Len(h) \in Nat
          BY <3>2
        <5>2. h2[k] = i /\ h2[l] = i
          BY <3>5, <4>1, <5>1
        <5>3. k \notin 1 .. Len(h) /\ l \notin 1 .. Len(h)
          BY <4>0, <5>2
        <5>4. QED
          BY <5>1, <5>3
      <4>2. CASE ~(k = Len(h) + 1 \/ l = Len(h) + 1)
        <5>1. k \in 1 .. Len(h) /\ l \in 1 .. Len(h)
          BY <3>2, <4>2
        <5>2. h[k] = h[l]
          BY <3>2, <3>5, <5>1
        <5>3. QED
          BY <2>6, <3>2, <5>1, <5>2
      <4>3. QED
        BY <4>1, <4>2
    <3>6. ASSUME NEW j \in 1 .. i, s[j] \in S PROVE \E k \in DOMAIN h2 : h2[k] = j
      <4>1. CASE j = i
        <5>1. Len(h) + 1 \in DOMAIN h2 /\ h2[Len(h) + 1] = j
          BY <3>2, <4>1
        <5>2. QED
          BY <5>1
      <4>2. CASE j # i
        <5>1. j \in 1 .. i - 1
          BY <4>2
        <5>2. PICK k \in DOMAIN h : h[k] = j
          BY <2>7, <3>6, <5>1
        <5>3. k \in DOMAIN h2 /\ h2[k] = j
          BY <3>2, <5>2
        <5>4. QED
          BY <5>3
      <4>3. QED
        BY <4>1, <4>2
    <3>7. Good(i, h2)
      BY <3>2, <3>3, <3>4, <3>5, <3>6
    <3>11. i \in 0 .. n
      BY <2>2
    <3> HIDE DEF Good
    <3>12. QED
      BY <3>7, <3>11
  <2>3. CASE s[i] \notin S
    <3>1. it[i] = it[i - 1]
      BY <1>8, <2>3
    <3>2. \A j \in 1 .. i : s[j] \in S => j \in 1 .. i - 1
      BY <2>3
    <3>5. \A k \in DOMAIN h : h[k] \in 1 .. i /\ s[h[k]] \in S /\ it[i][k] = s[h[k]]
      <4>1. 1 .. i - 1 \subseteq 1 .. i
        BY <1>10
      <4>2. QED
        BY <2>5, <3>1, <4>1
    <3>6. \A j \in 1 .. i : s[j] \in S => \E k \in DOMAIN h : h[k] = j
      BY <2>7, <3>2
    <3>3. Good(i, h)
      BY <2>4, <2>6, <3>1, <3>5, <3>6
    <3> HIDE DEF Good
    <3>4. QED
      BY <1>1, <3>3
  <2>8. QED
    BY <2>2, <2>3
<1>11. P = 0 .. n
  <2>1. P \in SUBSET (0 .. n)
    OBVIOUS
  <2> HIDE DEF P
  <2>2. QED
    BY <1>1, <1>9, <1>10, <2>1, Upward
<1>12. PICK h : Good(n, h)
  <2>1. n \in P
    <3> HIDE DEF P, n
    <3>1. QED
      BY <1>1, <1>11
  <2> HIDE DEF Good
  <2>2. QED
    BY <2>1
<1>13. Picks(Only(s, S), h, s, S)
  BY <1>1, <1>7, <1>12 DEF Picks
<1>14. Only(s, S) \in Seq(D)
  BY <1>7, <1>12
<1>15. QED
  BY <1>13, <1>14

LEMMA ListsOnly ==
  ASSUME NEW s, NEW A, Lists(s, A), NEW S
  PROVE  Lists(Only(s, S), A \cap S) /\ Lists(Without(s, S), A \ S)
<1>1. ASSUME NEW T PROVE Lists(Only(s, T), A \cap T)
  <2>1. /\ s \in Seq(A) /\ Once(s) /\ DOMAIN s = 1 .. Len(s) /\ Len(s) \in Nat
        /\ (\A a \in A : \E i \in DOMAIN s : s[i] = a) /\ \A i \in DOMAIN s : s[i] \in A
    BY DEF Lists
  <2> DEFINE q == Only(s, T)
  <2>2. q \in Seq(A) /\ \E h : Picks(q, h, s, T)
    BY <2>1, OnlyPicks
  <2> HIDE DEF q
  <2>3. PICK h : Picks(q, h, s, T)
    BY <2>2
  <2>4. q \in Seq(A \cap T)
    BY <2>1, <2>2, <2>3 DEF Picks
  <2>5. Once(q)
    BY <2>1, <2>3 DEF Picks, Once
  <2>6. \A a \in A \cap T : \E k \in DOMAIN q : q[k] = a
    BY <2>1, <2>3 DEF Picks
  <2>7. QED
    BY <2>4, <2>5, <2>6 DEF q, Lists
<1>2. A \cap (ToSet(s) \ S) = A \ S
  BY ListsRange
<1>3. Lists(Only(s, ToSet(s) \ S), A \cap (ToSet(s) \ S))
  BY <1>1
<1>4. QED
  BY <1>1, <1>2, <1>3 DEF Without

-----------------------------------------------------------------------------
(* The members of a finite set in the order of distinct keys.                *)

Below(key, S, x) == {y \in S : key[y] < key[x]}

Ranks(q, S, key) ==
  /\ key \in [S -> Nat] /\ \A x, y \in S : key[x] = key[y] => x = y
  /\ q = [k \in 1 .. Cardinality(S) |-> q[k]]
  /\ \A k \in 1 .. Cardinality(S) :
       q[k] = CHOOSE x \in S : Cardinality(Below(key, S, x)) = k - 1

LEMMA Ranked ==
  ASSUME NEW S, IsFiniteSet(S), NEW key, NEW q, Ranks(q, S, key)
  PROVE  Lists(q, S)
<1>0. /\ key \in [S -> Nat] /\ \A x, y \in S : key[x] = key[y] => x = y
      /\ q = [k \in 1 .. Cardinality(S) |-> q[k]]
      /\ \A k \in 1 .. Cardinality(S) :
           q[k] = CHOOSE x \in S : Cardinality(Below(key, S, x)) = k - 1
  BY DEF Ranks
<1> DEFINE n == Cardinality(S)
           rank == [x \in S |-> Cardinality(Below(key, S, x)) + 1]
<1>1. n \in Nat
  BY FS_CardinalityType
<1>2. ASSUME NEW x \in S
      PROVE  /\ IsFiniteSet(Below(key, S, x)) /\ Cardinality(Below(key, S, x)) \in 0 .. n - 1
  <2>1. Below(key, S, x) \in SUBSET (S \ {x})
    BY <1>0 DEF Below
  <2>2. IsFiniteSet(S \ {x}) /\ Cardinality(S \ {x}) = n - 1
    BY FS_RemoveElement
  <2>3. IsFiniteSet(Below(key, S, x)) /\ Cardinality(Below(key, S, x)) <= n - 1
    BY <2>1, <2>2, FS_Subset
  <2>4. Cardinality(Below(key, S, x)) \in Nat
    BY <2>3, FS_CardinalityType
  <2>5. QED
    BY <1>1, <2>3, <2>4
<1>3. rank \in [S -> 1 .. n]
  BY <1>1, <1>2
<1>4. ASSUME NEW x \in S, NEW y \in S, key[x] < key[y] PROVE rank[x] < rank[y]
  <2>1. Below(key, S, x) \cup {x} \in SUBSET Below(key, S, y) /\ x \notin Below(key, S, x)
    BY <1>0, <1>4 DEF Below
  <2>2. Cardinality(Below(key, S, x) \cup {x}) = Cardinality(Below(key, S, x)) + 1
    BY <1>2, <2>1, FS_AddElement
  <2>3. Cardinality(Below(key, S, x) \cup {x}) <= Cardinality(Below(key, S, y))
    BY <1>2, <2>1, FS_Subset
  <2>4. QED
    BY <1>2, <2>2, <2>3
<1>5. \A x, y \in S : rank[x] = rank[y] => x = y
  <2> SUFFICES ASSUME NEW x \in S, NEW y \in S, rank[x] = rank[y], x # y PROVE FALSE
    OBVIOUS
  <2>1. key[x] < key[y] \/ key[y] < key[x]
    <3>1. key[x] \in Nat /\ key[y] \in Nat /\ key[x] # key[y]
      BY <1>0
    <3>2. QED
      BY <3>1
  <2>2. rank[x] \in 1 .. n /\ rank[y] \in 1 .. n
    BY <1>3
  <2> HIDE DEF rank
  <2>3. QED
    BY <1>4, <2>1, <2>2
<1> HIDE DEF rank
<1>6. \A k \in 1 .. n : \E x \in S : rank[x] = k
  <2>1. rank \in Injection(S, 1 .. n)
    BY <1>3, <1>5 DEF Injection, IsInjective
  <2>2. IsFiniteSet(1 .. n) /\ Cardinality(1 .. n) = n
    <3>1. 1 \in Int /\ n \in Int
      BY <1>1
    <3> HIDE DEF n
    <3>2. QED
      BY <1>1, <3>1, FS_Interval
  <2>3. rank \in Surjection(S, 1 .. n)
    BY <2>1, <2>2, FS_Injection
  <2>4. QED
    BY <2>3 DEF Surjection
<1>7. \A k \in 1 .. n : q[k] \in S /\ rank[q[k]] = k
  <2> SUFFICES ASSUME NEW k \in 1 .. n PROVE q[k] \in S /\ rank[q[k]] = k
    OBVIOUS
  <2>1. \E x \in S : Cardinality(Below(key, S, x)) = k - 1
    <3>1. PICK x \in S : rank[x] = k
      BY <1>6
    <3>2. Cardinality(Below(key, S, x)) \in 0 .. n - 1
      BY <1>2
    <3>3. QED
      BY <3>1, <3>2 DEF rank
  <2>2. q[k] = CHOOSE x \in S : Cardinality(Below(key, S, x)) = k - 1
    BY <1>0
  <2>3. q[k] \in S /\ Cardinality(Below(key, S, q[k])) = k - 1
    BY <2>1, <2>2
  <2>4. QED
    BY <2>3 DEF rank
<1>8. q \in Seq(S)
  BY <1>0, <1>1, <1>7
<1>9. Once(q)
  BY <1>0, <1>7 DEF Once
<1>10. ASSUME NEW a \in S PROVE \E k \in DOMAIN q : q[k] = a
  <2>1. rank[a] \in 1 .. n
    BY <1>3
  <2>2. q[rank[a]] = a
    BY <1>5, <1>7, <2>1
  <2>3. QED
    BY <1>0, <2>1, <2>2
<1>11. QED
  BY <1>8, <1>9, <1>10 DEF Lists

LEMMA ListsInOrder ==
  ASSUME NEW S \in SUBSET Nat, IsFiniteSet(S)
  PROVE  Lists(InOrder(S), S)
<1> DEFINE key == [x \in S |-> x]
           q == InOrder(S)
<1>1. q = [k \in 1 .. Cardinality(S) |-> CHOOSE x \in S : Cardinality({y \in S : y < x}) = k - 1]
  BY DEF InOrder, Sorted
<1>2. \A x \in S : Below(key, S, x) = {y \in S : y < x}
  BY DEF Below
<1> DEFINE pick(k) == CHOOSE x \in S : Cardinality({y \in S : y < x}) = k - 1
<1>3. \A k \in 1 .. Cardinality(S) : q[k] = CHOOSE x \in S : Cardinality(Below(key, S, x)) = k - 1
  BY <1>1, <1>2
<1>4. key \in [S -> Nat] /\ \A x, y \in S : key[x] = key[y] => x = y
  OBVIOUS
<1>5. q = [k \in 1 .. Cardinality(S) |-> q[k]]
  BY <1>1
<1> HIDE DEF key, q
<1>6. Ranks(q, S, key)
  BY <1>3, <1>4, <1>5 DEF Ranks
<1>8. Lists(q, S)
  BY <1>6, Ranked
<1>7. QED
  BY <1>8 DEF q

-----------------------------------------------------------------------------
(* The inductive invariant.                                                  *)

PCs == {"off", "top", "flush", "cancel", "cancelled", "harvest", "reap", "launch", "submit",
        "idle", "idleflush", "idletake", "admit", "place", "step", "commit", "grow",
        "drain", "lastflush"}
RowType    == [ticket : Nat, live : BOOLEAN, cancel : BOOLEAN, second : BOOLEAN]
JobType    == [rows : Seq(Nat), done : BOOLEAN]
ReadyType  == [row : Nat, error : BOOLEAN]
TakenType  == [row : Nat, error : BOOLEAN, need : Nat, full : Nat]
SlotType   == [row : Nat, gen : Nat, pos : Nat, cells : Nat, full : Nat,
               armed : BOOLEAN, shares : BOOLEAN]
KeptType   == [on : BOOLEAN, gen : Nat, share : Nat, armed : BOOLEAN]
ResultType == [row : Nat, kind : {"value", "error", "cancelled"}]

TypeInv ==
  /\ pc \in PCs /\ load \in Loads /\ open \in BOOLEAN /\ next \in Nat
  /\ row \in Seq(RowType) /\ waiting \in Seq(Nat) /\ jobs \in Seq(JobType)
  /\ ready \in Seq(ReadyType) /\ taken \in Seq(TakenType)
  /\ slot \in [Slots -> SlotType] /\ order \in Seq(Slots)
  /\ kept \in [1 .. MaxTickets -> KeptType] /\ reencode \in Seq(Nat)
  /\ cached \in Nat
  /\ growing \in Seq(Slots) /\ fallbackReady \in Seq(Nat) /\ preemptedReady \in Seq(Nat)
  /\ pendReady \in BOOLEAN /\ pendLanes \in SUBSET Slots
  /\ tsReady \in Seq(Nat) /\ aligning \in JobType /\ finished \in Seq(ResultType)

(* What is empty where: the locals of one part of the loop.                  *)
Phases ==
  /\ pc = "cancel" => finished = <<>>
  /\ taken # <<>> => /\ pc \in {"launch", "submit", "place"}
                     /\ Cardinality({i \in DOMAIN taken : ~taken[i].error}) + Len(order) <= NumSlots
  /\ fallbackReady # <<>> \/ preemptedReady # <<>> => pc = "grow"

Live == {r \in DOMAIN row : row[r].live}

(* Rows are numbered up, those that are not live are free, and the live ones *)
(* have tickets of their own.                                                *)
Numbered ==
  /\ Len(row) <= next /\ next <= MaxTickets
  /\ Lists(freeRows, DOMAIN row \ Live)
  /\ \A r \in Live : row[r].ticket < next
  /\ \A r, q \in Live : row[r].ticket = row[q].ticket => r = q

(* The places of the engine, each a list of rows; a row is in one of them    *)
(* when it is live, else in none.                                            *)
JobRows(js) == UNION {ToSet(js[i].rows) : i \in DOMAIN js}
JobsApart(js) ==
  /\ \A i \in DOMAIN js : Lists(js[i].rows, ToSet(js[i].rows))
  /\ \A i, j \in DOMAIN js : i # j => ToSet(js[i].rows) \cap ToSet(js[j].rows) = {}

SlotRows(sl, S) == {sl[s].row : s \in S}
SlotsApart(sl, S) == \A s, t \in S : sl[s].row = sl[t].row => s = t

Listed(q) == Lists(q, ToSet(q))
ReadyRows == ToSet(RowsOf(ready))
TakenRows == ToSet(RowsOf(taken))
EndedRows == ToSet(RowsOf(finished))

Apart ==
  /\ Listed(waiting) /\ JobsApart(jobs) /\ Listed(reencode)
  /\ Listed(RowsOf(ready)) /\ Listed(RowsOf(taken))
  /\ Listed(fallbackReady) /\ Listed(preemptedReady)
  /\ Listed(order) /\ SlotsApart(slot, Active)
  /\ Listed(tsReady) /\ Listed(aligning.rows) /\ Listed(RowsOf(finished))

In(r, S) == IF r \in S THEN 1 ELSE 0

Placed(r) ==
  In(r, ToSet(waiting)) + In(r, JobRows(jobs)) + In(r, ToSet(reencode))
  + In(r, ReadyRows) + In(r, TakenRows)
  + In(r, ToSet(fallbackReady)) + In(r, ToSet(preemptedReady))
  + In(r, SlotRows(slot, Active))
  + In(r, ToSet(tsReady)) + In(r, ToSet(aligning.rows)) + In(r, EndedRows)

Accounted == Apart /\ \A r \in Nat : Placed(r) = In(r, Live)

(* What a preempted row keeps, and what admission holds back for those on    *)
(* their way through the encoder.                                            *)
InEncoder == JobRows(jobs) \cup ToSet(reencode)
Back == {r \in 1 .. MaxTickets : kept[r].on}
Held == Back \cap InEncoder

KeptInv ==
  /\ Back \subseteq InEncoder \cup ReadyRows \cup TakenRows \cup ToSet(preemptedReady)
  /\ Back \subseteq Live
  /\ ToSet(reencode) \subseteq Back
  /\ \A r \in (1 .. MaxTickets) \ Held : kept[r].share = 0
  /\ reencoding = Cardinality(Held)
  /\ resuming = Shares(Held)

Reserved == reserved = Cells(slot, Active)

IInv ==
  /\ TypeInv /\ Phases
  /\ Busy => Numbered /\ Accounted /\ KeptInv /\ Reserved

-----------------------------------------------------------------------------
(* Cells of slots and shares of rows.                                        *)

LEMMA TotalHere ==
  ASSUME NEW D, NEW v \in [D -> Nat], NEW S \in SUBSET D, IsFiniteSet(S),
         NEW w, w = [x \in S |-> v[x]]
  PROVE  Total(w, S) = Total(v, S) /\ Total(v, S) \in Nat
<1>1. w \in [S -> Nat] /\ S \subseteq S /\ \A x \in S : v[x] = w[x]
  OBVIOUS
<1>2. QED
  BY <1>1, TotalSame

Parts(v, D, A, B) ==
  /\ v \in [D -> Nat] /\ A \in SUBSET D /\ B \in SUBSET D
  /\ IsFiniteSet(A) /\ IsFiniteSet(B) /\ A \cap B = {}

LEMMA TotalParts ==
  ASSUME NEW v, NEW D, NEW A, NEW B, Parts(v, D, A, B)
  PROVE  Total(v, A \cup B) = Total(v, A) + Total(v, B)
BY TotalSplit DEF Parts

LEMMA TotalZero ==
  ASSUME NEW D, NEW v \in [D -> Nat], NEW S \in SUBSET D, IsFiniteSet(S), \A x \in S : v[x] = 0
  PROVE  Total(v, S) = 0
<1> DEFINE Bad == {C \in SUBSET S : Total(v, C) # 0}
<1>1. ASSUME Bad # {} PROVE FALSE
  <2>1. Family(Bad, S)
    BY <1>1 DEF Family
  <2>2. PICK C \in Bad : \A B \in Bad : ~(B \subseteq C /\ B # C)
    <3> HIDE DEF Bad
    <3>1. QED
      BY <2>1, LeastSubset
  <2>3. C \in SUBSET S /\ Total(v, C) # 0
    OBVIOUS
  <2>4. C # {}
    <3>1. Total(v, {}) = 0
      BY TotalEmpty
    <3>2. QED
      BY <2>3, <3>1
  <2>5. PICK x \in C : TRUE
    BY <2>4
  <2>6. C \in SUBSET D /\ IsFiniteSet(C)
    BY <2>3, FS_Subset
  <2>7. Total(v, C) = v[x] + Total(v, C \ {x})
    BY <2>6, TotalRemove
  <2>8. C \ {x} \notin Bad /\ C \ {x} \in SUBSET S
    BY <2>2, <2>3
  <2>9. v[x] = 0 /\ Total(v, C \ {x}) = 0
    BY <2>3, <2>8
  <2>10. QED
    BY <2>3, <2>7, <2>9
<1>2. QED
  BY <1>1

LEMMA SlotsFinite == IsFiniteSet(Slots) /\ \A S \in SUBSET Slots : IsFiniteSet(S)
<1>1. 1 \in Int /\ NumSlots \in Int
  BY EngineAssumption
<1>2. IsFiniteSet(Slots)
  BY <1>1, FS_Interval DEF Slots
<1>3. QED
  BY <1>2, FS_Subset

SlotsTyped(sl) == sl \in [Slots -> SlotType]
CellsOf(sl) == [s \in Slots |-> sl[s].cells]

LEMMA CellsAre ==
  ASSUME NEW sl, SlotsTyped(sl), NEW S \in SUBSET Slots
  PROVE  /\ CellsOf(sl) \in [Slots -> Nat]
         /\ Cells(sl, S) = Total(CellsOf(sl), S) /\ Cells(sl, S) \in Nat
<1>1. CellsOf(sl) \in [Slots -> Nat]
  BY DEF CellsOf, SlotsTyped, SlotType
<1>2. [s \in S |-> sl[s].cells] = [s \in S |-> CellsOf(sl)[s]]
  BY DEF CellsOf
<1>3. IsFiniteSet(S)
  BY SlotsFinite
<1> DEFINE w == [s \in S |-> sl[s].cells]
<1>4. w = [s \in S |-> CellsOf(sl)[s]]
  BY <1>2
<1>5. Cells(sl, S) = Total(w, S)
  BY DEF Cells
<1> HIDE DEF w
<1>6. QED
  BY <1>1, <1>3, <1>4, <1>5, TotalHere

LEMMA CellsSplit ==
  ASSUME NEW sl, SlotsTyped(sl), NEW A \in SUBSET Slots, NEW B \in SUBSET Slots, A \cap B = {}
  PROVE  Cells(sl, A \cup B) = Cells(sl, A) + Cells(sl, B)
<1>1. CellsOf(sl) \in [Slots -> Nat] /\ A \cup B \in SUBSET Slots
  BY CellsAre
<1>2. IsFiniteSet(A) /\ IsFiniteSet(B)
  BY SlotsFinite
<1>3. Total(CellsOf(sl), A \cup B) = Total(CellsOf(sl), A) + Total(CellsOf(sl), B)
  BY <1>1, <1>2, TotalSplit
<1>4. QED
  BY <1>1, <1>3, CellsAre

LEMMA CellsSame ==
  ASSUME NEW sl, SlotsTyped(sl), NEW to, SlotsTyped(to), NEW S \in SUBSET Slots,
         \A s \in S : sl[s].cells = to[s].cells
  PROVE  Cells(sl, S) = Cells(to, S)
<1>1. CellsOf(sl) \in [Slots -> Nat] /\ CellsOf(to) \in [Slots -> Nat]
  BY CellsAre
<1>2. IsFiniteSet(S) /\ S \subseteq Slots /\ \A s \in S : CellsOf(sl)[s] = CellsOf(to)[s]
  BY SlotsFinite DEF CellsOf
<1>3. Total(CellsOf(sl), S) = Total(CellsOf(to), S)
  BY <1>1, <1>2, TotalSame
<1>4. QED
  BY <1>3, CellsAre

LEMMA CellsOne ==
  ASSUME NEW sl, SlotsTyped(sl), NEW s \in Slots
  PROVE  Cells(sl, {s}) = sl[s].cells
<1>1. CellsOf(sl) \in [Slots -> Nat] /\ {s} \in SUBSET Slots /\ s \in {s} /\ {s} \ {s} = {}
  BY CellsAre
<1>2. IsFiniteSet({s})
  BY FS_Singleton
<1>3. Total(CellsOf(sl), {s}) = CellsOf(sl)[s] + Total(CellsOf(sl), {s} \ {s})
  BY <1>1, <1>2, TotalRemove
<1>4. Total(CellsOf(sl), {s} \ {s}) = 0
  BY <1>1, TotalEmpty
<1>5. CellsOf(sl)[s] = sl[s].cells /\ CellsOf(sl)[s] \in Nat
  BY <1>1 DEF CellsOf
<1>6. Cells(sl, {s}) = Total(CellsOf(sl), {s})
  BY <1>1, CellsAre
<1>7. QED
  BY <1>3, <1>4, <1>5, <1>6

LEMMA CellsNone == ASSUME NEW sl, SlotsTyped(sl) PROVE Cells(sl, {}) = 0
<1>1. CellsOf(sl) \in [Slots -> Nat] /\ {} \in SUBSET Slots /\ Cells(sl, {}) = Total(CellsOf(sl), {})
  BY CellsAre
<1>2. QED
  BY <1>1, TotalEmpty

(* The shares of the rows S, by what k keeps for the rows up to m.           *)
SharesOf(k, S) == Total([r \in S |-> k[r].share], S)
KeptTyped(k, m) == m \in Nat /\ k \in [1 .. m -> KeptType]
ShareOf(k, m) == [r \in 1 .. m |-> k[r].share]

LEMMA SharesAre ==
  ASSUME NEW k, NEW m, KeptTyped(k, m), NEW S \in SUBSET (1 .. m)
  PROVE  /\ ShareOf(k, m) \in [1 .. m -> Nat] /\ IsFiniteSet(S)
         /\ SharesOf(k, S) = Total(ShareOf(k, m), S) /\ SharesOf(k, S) \in Nat
<1>1. ShareOf(k, m) \in [1 .. m -> Nat] /\ 1 \in Int /\ m \in Int
  BY DEF ShareOf, KeptTyped, KeptType
<1>2. IsFiniteSet(S)
  <2>1. IsFiniteSet(1 .. m)
    BY <1>1, FS_Interval
  <2>2. QED
    BY <2>1, FS_Subset
<1> DEFINE w == [r \in S |-> k[r].share]
<1>3. w = [r \in S |-> ShareOf(k, m)[r]]
  BY DEF ShareOf
<1>4. SharesOf(k, S) = Total(w, S)
  BY DEF SharesOf
<1> DEFINE D == 1 .. m
<1>5. ShareOf(k, m) \in [D -> Nat] /\ S \in SUBSET D
  BY <1>1
<1> HIDE DEF w, D
<1>6. Total(w, S) = Total(ShareOf(k, m), S) /\ Total(ShareOf(k, m), S) \in Nat
  BY <1>2, <1>3, <1>5, TotalHere, ZenonT(40)
<1>7. QED
  BY <1>1, <1>2, <1>4, <1>6

LEMMA SharesSplit ==
  ASSUME NEW k, NEW m, KeptTyped(k, m), NEW A \in SUBSET (1 .. m), NEW B \in SUBSET (1 .. m),
         A \cap B = {}
  PROVE  SharesOf(k, A \cup B) = SharesOf(k, A) + SharesOf(k, B)
<1>1. ShareOf(k, m) \in [1 .. m -> Nat] /\ IsFiniteSet(A) /\ IsFiniteSet(B) /\ A \cup B \in SUBSET (1 .. m)
  BY SharesAre
<1>2. Total(ShareOf(k, m), A \cup B) = Total(ShareOf(k, m), A) + Total(ShareOf(k, m), B)
  <2>1. Parts(ShareOf(k, m), 1 .. m, A, B)
    BY <1>1 DEF Parts
  <2>2. QED
    BY <2>1, TotalParts
<1>3. QED
  BY <1>1, <1>2, SharesAre

LEMMA SharesSame ==
  ASSUME NEW k, NEW m, KeptTyped(k, m), NEW l, KeptTyped(l, m), NEW S \in SUBSET (1 .. m),
         \A r \in S : k[r].share = l[r].share
  PROVE  SharesOf(k, S) = SharesOf(l, S)
<1>1. /\ ShareOf(k, m) \in [1 .. m -> Nat] /\ ShareOf(l, m) \in [1 .. m -> Nat] /\ IsFiniteSet(S)
      /\ S \subseteq 1 .. m
  BY SharesAre
<1>2. \A r \in S : ShareOf(k, m)[r] = ShareOf(l, m)[r]
  BY DEF ShareOf
<1>3. Total(ShareOf(k, m), S) = Total(ShareOf(l, m), S)
  BY <1>1, <1>2, TotalSame
<1>4. QED
  BY <1>3, SharesAre

LEMMA SharesZero ==
  ASSUME NEW k, NEW m, KeptTyped(k, m), NEW S \in SUBSET (1 .. m), \A r \in S : k[r].share = 0
  PROVE  SharesOf(k, S) = 0
<1>1. ShareOf(k, m) \in [1 .. m -> Nat] /\ IsFiniteSet(S)
  BY SharesAre
<1>2. \A r \in S : ShareOf(k, m)[r] = 0
  BY DEF ShareOf
<1>3. Total(ShareOf(k, m), S) = 0
  BY <1>1, <1>2, TotalZero
<1>4. QED
  BY <1>3, SharesAre

LEMMA SharesOne ==
  ASSUME NEW k, NEW m, KeptTyped(k, m), NEW r \in 1 .. m
  PROVE  SharesOf(k, {r}) = k[r].share
<1>1. ShareOf(k, m) \in [1 .. m -> Nat] /\ {r} \in SUBSET (1 .. m) /\ IsFiniteSet({r})
  <2>1. {r} \in SUBSET (1 .. m)
    OBVIOUS
  <2>2. QED
    BY <2>1, SharesAre
<1>2. r \in {r} /\ {r} \ {r} = {}
  OBVIOUS
<1> DEFINE D == 1 .. m
<1>8. ShareOf(k, m) \in [D -> Nat] /\ {r} \in SUBSET D
  BY <1>1
<1> HIDE DEF D
<1>3. Total(ShareOf(k, m), {r}) = ShareOf(k, m)[r] + Total(ShareOf(k, m), {r} \ {r})
  BY <1>1, <1>2, <1>8, TotalRemove
<1>4. Total(ShareOf(k, m), {r} \ {r}) = 0
  BY <1>2, <1>8, TotalEmpty
<1>5. ShareOf(k, m)[r] = k[r].share /\ ShareOf(k, m)[r] \in Nat
  BY <1>1 DEF ShareOf
<1>6. SharesOf(k, {r}) = Total(ShareOf(k, m), {r})
  BY <1>1, SharesAre
<1>7. QED
  BY <1>3, <1>4, <1>5, <1>6

-----------------------------------------------------------------------------
(* The jobs.                                                                 *)

LEMMA JobsNone == JobsApart(<<>>) /\ JobRows(<<>>) = {}
BY DEF JobsApart, JobRows

LEMMA JobsAppend ==
  ASSUME NEW js \in Seq(JobType), JobsApart(js), NEW job \in JobType,
         NEW A, Lists(job.rows, A), A \cap JobRows(js) = {}
  PROVE  /\ Append(js, job) \in Seq(JobType)
         /\ JobsApart(Append(js, job)) /\ JobRows(Append(js, job)) = JobRows(js) \cup A
<1> DEFINE n == Len(js)
           q == Append(js, job)
<1>1. /\ q \in Seq(JobType) /\ DOMAIN q = 1 .. n + 1 /\ q[n + 1] = job /\ n \in Nat
      /\ DOMAIN js = 1 .. n /\ \A i \in 1 .. n : q[i] = js[i]
  OBVIOUS
<1>2. ToSet(job.rows) = A
  BY ListsRange
<1> HIDE DEF q, n
<1>3. \A i \in 1 .. n : ToSet(js[i].rows) \subseteq JobRows(js)
  BY <1>1 DEF JobRows
<1>4. \A i \in DOMAIN q : i \in 1 .. n \/ i = n + 1
  BY <1>1
<1>5. JobsApart(q)
  <2>1. \A i \in DOMAIN q : Lists(q[i].rows, ToSet(q[i].rows))
    BY <1>1, <1>2, <1>4 DEF JobsApart
  <2>2. ASSUME NEW i \in DOMAIN q, NEW j \in DOMAIN q, i # j
        PROVE  ToSet(q[i].rows) \cap ToSet(q[j].rows) = {}
    <3>1. CASE i \in 1 .. n /\ j \in 1 .. n
      BY <1>1, <2>2, <3>1 DEF JobsApart
    <3>2. CASE i = n + 1 \/ j = n + 1
      BY <1>1, <1>2, <1>3, <1>4, <2>2, <3>2
    <3>3. QED
      BY <1>4, <3>1, <3>2
  <2>3. QED
    BY <2>1, <2>2 DEF JobsApart
<1>6. JobRows(q) = JobRows(js) \cup A
  <2>1. \A i \in 1 .. n : ToSet(q[i].rows) = ToSet(js[i].rows)
    BY <1>1
  <2>2. ToSet(q[n + 1].rows) = A
    BY <1>1, <1>2
  <2>3. DOMAIN q = (DOMAIN js) \cup {n + 1}
    BY <1>1
  <2>4. QED
    BY <1>1, <2>1, <2>2, <2>3 DEF JobRows
<1>7. QED
  BY <1>1, <1>5, <1>6 DEF q

LEMMA JobsTail ==
  ASSUME NEW js \in Seq(JobType), JobsApart(js), js # <<>>
  PROVE  /\ Tail(js) \in Seq(JobType) /\ js[1] \in JobType
         /\ JobsApart(Tail(js)) /\ JobRows(Tail(js)) = JobRows(js) \ ToSet(js[1].rows)
         /\ Lists(js[1].rows, ToSet(js[1].rows)) /\ ToSet(js[1].rows) \subseteq JobRows(js)
<1> DEFINE n == Len(js)
           q == Tail(js)
<1>1. /\ q \in Seq(JobType) /\ DOMAIN q = 1 .. n - 1 /\ n \in Nat /\ n >= 1
      /\ DOMAIN js = 1 .. n /\ \A i \in 1 .. n - 1 : q[i] = js[i + 1] /\ i + 1 \in 1 .. n
  OBVIOUS
<1> HIDE DEF q, n
<1>2. JobsApart(q)
  <2>1. \A i \in DOMAIN q : q[i] = js[i + 1] /\ i + 1 \in DOMAIN js
    BY <1>1
  <2>2. \A i \in DOMAIN q : Lists(q[i].rows, ToSet(q[i].rows))
    BY <2>1 DEF JobsApart
  <2>3. ASSUME NEW i \in DOMAIN q, NEW j \in DOMAIN q, i # j
        PROVE  ToSet(q[i].rows) \cap ToSet(q[j].rows) = {}
    <3>1. i + 1 # j + 1 /\ i + 1 \in DOMAIN js /\ j + 1 \in DOMAIN js
      BY <1>1, <2>3
    <3>2. ToSet(js[i + 1].rows) \cap ToSet(js[j + 1].rows) = {}
      BY <3>1 DEF JobsApart
    <3>3. QED
      BY <2>1, <3>2
  <2>4. QED
    BY <2>2, <2>3 DEF JobsApart
<1>3. JobRows(q) = JobRows(js) \ ToSet(js[1].rows)
  <2>1. ASSUME NEW r \in JobRows(q) PROVE r \in JobRows(js) \ ToSet(js[1].rows)
    <3>1. PICK i \in 1 .. n - 1 : r \in ToSet(q[i].rows)
      BY <1>1 DEF JobRows
    <3>2. i + 1 \in DOMAIN js /\ 1 \in DOMAIN js /\ i + 1 # 1 /\ r \in ToSet(js[i + 1].rows)
      BY <1>1, <3>1
    <3>3. QED
      BY <3>2 DEF JobRows, JobsApart
  <2>2. ASSUME NEW r \in JobRows(js), r \notin ToSet(js[1].rows) PROVE r \in JobRows(q)
    <3>1. PICK i \in 1 .. n : r \in ToSet(js[i].rows)
      BY <1>1 DEF JobRows
    <3>2. i - 1 \in 1 .. n - 1 /\ (i - 1) + 1 = i
      BY <1>1, <2>2, <3>1
    <3>3. r \in ToSet(q[i - 1].rows)
      BY <1>1, <3>1, <3>2
    <3>4. QED
      BY <1>1, <3>2, <3>3 DEF JobRows
  <2>3. QED
    BY <2>1, <2>2
<1>4. 1 \in DOMAIN js /\ js[1] \in JobType
  BY <1>1
<1>5. Lists(js[1].rows, ToSet(js[1].rows)) /\ ToSet(js[1].rows) \subseteq JobRows(js)
  BY <1>4 DEF JobsApart, JobRows
<1>6. QED
  BY <1>1, <1>2, <1>3, <1>4, <1>5 DEF q

JobEnds(js, i, to) == i \in DOMAIN js /\ to = [js EXCEPT ![i].done = TRUE]

LEMMA JobsDone ==
  ASSUME NEW js \in Seq(JobType), NEW i, NEW to, JobEnds(js, i, to)
  PROVE  to \in Seq(JobType) /\ (JobsApart(js) => JobsApart(to)) /\ JobRows(to) = JobRows(js)
<1>0. i \in DOMAIN js /\ to = [js EXCEPT ![i].done = TRUE]
  BY DEF JobEnds
<1>1. /\ DOMAIN to = DOMAIN js /\ to \in Seq(JobType)
      /\ \A j \in DOMAIN js : to[j].rows = js[j].rows
  <2>1. \A j \in DOMAIN js : js[j] \in JobType
    OBVIOUS
  <2>2. \A j \in DOMAIN js : to[j] = IF j = i THEN [js[i] EXCEPT !.done = TRUE] ELSE js[j]
    BY <1>0
  <2>3. \A j \in DOMAIN js : to[j] \in JobType /\ to[j].rows = js[j].rows
    BY <2>1, <2>2 DEF JobType
  <2>4. DOMAIN to = 1 .. Len(js) /\ DOMAIN js = 1 .. Len(js) /\ Len(js) \in Nat
    BY <1>0
  <2>5. to \in [1 .. Len(js) -> JobType]
    BY <1>0, <2>3, <2>4
  <2>6. to \in Seq(JobType)
    BY <2>4, <2>5, SeqDef
  <2>7. QED
    BY <2>3, <2>4, <2>6
<1>2. JobsApart(js) => JobsApart(to)
  BY <1>1 DEF JobsApart
<1>3. JobRows(to) = JobRows(js)
  <2>1. {ToSet(to[j].rows) : j \in DOMAIN to} = {ToSet(js[j].rows) : j \in DOMAIN js}
    BY <1>1
  <2>2. QED
    BY <2>1 DEF JobRows
<1>4. QED
  BY <1>1, <1>2, <1>3

-----------------------------------------------------------------------------
(* The rows of entries.                                                      *)

Entries(es) == \E X : es \in Seq(X)

LEMMA RowsOfConcat ==
  ASSUME NEW es, Entries(es), NEW fs, Entries(fs)
  PROVE  RowsOf(es \o fs) = RowsOf(es) \o RowsOf(fs)
<1>1. PICK X : es \in Seq(X)
  BY DEF Entries
<1>2. PICK Y : fs \in Seq(Y)
  BY DEF Entries
<1> DEFINE n == Len(es)
           m == Len(fs)
           a == RowsOf(es \o fs)
           b == RowsOf(es) \o RowsOf(fs)
<1>3. n \in Nat /\ m \in Nat /\ DOMAIN es = 1 .. n /\ DOMAIN fs = 1 .. m
  BY <1>1, <1>2
<1>4. DOMAIN (es \o fs) = 1 .. n + m
  BY <1>1, <1>2
<1>5. \A i \in 1 .. n + m : (es \o fs)[i] = IF i <= n THEN es[i] ELSE fs[i - n]
  BY <1>1, <1>2
<1>6. /\ RowsOf(es) \in Seq({es[i].row : i \in 1 .. n}) /\ Len(RowsOf(es)) = n
      /\ RowsOf(fs) \in Seq({fs[i].row : i \in 1 .. m}) /\ Len(RowsOf(fs)) = m
  BY <1>3 DEF RowsOf
<1>7. /\ DOMAIN b = 1 .. n + m
      /\ \A i \in 1 .. n + m : b[i] = IF i <= n THEN RowsOf(es)[i] ELSE RowsOf(fs)[i - n]
      /\ b = [i \in 1 .. n + m |-> b[i]]
  <2> DEFINE p == RowsOf(es)
             q == RowsOf(fs)
  <2>1. p \in Seq({es[i].row : i \in 1 .. n}) /\ q \in Seq({fs[i].row : i \in 1 .. m}) /\ Len(p) = n /\ Len(q) = m
    BY <1>6
  <2> HIDE DEF p, q
  <2>2. PICK U, V : p \in Seq(U) /\ q \in Seq(V)
    BY <2>1
  <2>3. /\ DOMAIN (p \o q) = 1 .. n + m
        /\ \A i \in 1 .. n + m : (p \o q)[i] = IF i <= n THEN p[i] ELSE q[i - n]
        /\ p \o q = [i \in 1 .. n + m |-> (p \o q)[i]]
    <3>1. p \in Seq(U \cup V) /\ q \in Seq(U \cup V)
      BY <2>2
    <3>2. /\ p \o q \in Seq(U \cup V) /\ Len(p \o q) = Len(p) + Len(q)
          /\ \A i \in 1 .. Len(p) + Len(q) : (p \o q)[i] = IF i <= Len(p) THEN p[i] ELSE q[i - Len(p)]
      BY <3>1, ConcatProperties
    <3> DEFINE c == p \o q
    <3>3. /\ c \in Seq(U \cup V) /\ Len(c) = n + m
          /\ \A i \in 1 .. n + m : c[i] = IF i <= n THEN p[i] ELSE q[i - n]
      BY <2>1, <3>2
    <3> HIDE DEF c
    <3>4. c = [i \in 1 .. Len(c) |-> c[i]] /\ DOMAIN c = 1 .. Len(c)
      BY <3>3
    <3>5. QED
      BY <3>3, <3>4 DEF c
  <2>4. QED
    BY <2>3 DEF p, q
<1>8. /\ DOMAIN a = 1 .. n + m /\ \A i \in 1 .. n + m : a[i] = (es \o fs)[i].row
      /\ a = [i \in 1 .. n + m |-> a[i]]
  BY <1>4 DEF RowsOf
<1>9. ASSUME NEW i \in 1 .. n + m PROVE a[i] = b[i]
  <2>1. CASE i <= n
    <3>1. i \in 1 .. n
      BY <1>3, <2>1
    <3>2. a[i] = es[i].row /\ b[i] = RowsOf(es)[i] /\ RowsOf(es)[i] = es[i].row
      BY <1>3, <1>5, <1>7, <1>8, <2>1, <3>1 DEF RowsOf
    <3>3. QED
      BY <3>2
  <2>2. CASE ~(i <= n)
    <3>1. i - n \in 1 .. m
      BY <1>3, <2>2
    <3>2. a[i] = fs[i - n].row /\ b[i] = RowsOf(fs)[i - n] /\ RowsOf(fs)[i - n] = fs[i - n].row
      BY <1>3, <1>5, <1>7, <1>8, <2>2, <3>1 DEF RowsOf
    <3>3. QED
      BY <3>2
  <2>3. QED
    BY <2>1, <2>2
<1> HIDE DEF a, b
<1>10. a = b
  BY <1>7, <1>8, <1>9
<1>11. QED
  BY <1>10 DEF a, b

LEMMA RowsOfNone == RowsOf(<<>>) = <<>>
BY DEF RowsOf

LEMMA RowsOfNew ==
  ASSUME NEW q, Entries(q), NEW es, DOMAIN es = DOMAIN q, \A i \in DOMAIN q : es[i].row = q[i]
  PROVE  RowsOf(es) = q
<1>1. PICK X : q \in Seq(X)
  BY DEF Entries
<1>2. q = [i \in DOMAIN q |-> q[i]]
  BY <1>1
<1>3. QED
  BY <1>2 DEF RowsOf

LEMMA RowsOfPart ==
  ASSUME NEW es, Entries(es), NEW k \in 0 .. Len(es)
  PROVE  RowsOf(SubSeq(es, k + 1, Len(es))) = SubSeq(RowsOf(es), k + 1, Len(RowsOf(es)))
<1>1. PICK X : es \in Seq(X)
  BY DEF Entries
<1> DEFINE n == Len(es)
           Y == {es[i].row : i \in 1 .. n}
           q == RowsOf(es)
<1>2. n \in Nat /\ DOMAIN es = 1 .. n /\ q \in Seq(Y) /\ Len(q) = n /\ k + 1 \in Int /\ n \in Int
  BY <1>1 DEF RowsOf
<1>3. \A i \in 1 .. n : q[i] = es[i].row
  BY <1>2 DEF RowsOf
<1>4. \A i \in k + 1 .. n : es[i] \in X /\ q[i] \in Y
  BY <1>1, <1>2
<1> DEFINE a == SubSeq(es, k + 1, n)
           b == SubSeq(q, k + 1, n)
           m == n - k
<1>5. /\ a \in Seq(X) /\ Len(a) = IF k + 1 <= n THEN n - (k + 1) + 1 ELSE 0
      /\ \A i \in 1 .. n - (k + 1) + 1 : a[i] = es[k + 1 + i - 1]
  <2> HIDE DEF n, q, Y
  <2>1. QED
    BY <1>2, <1>4, SubSeqProperties
<1>6. /\ b \in Seq(Y) /\ Len(b) = IF k + 1 <= n THEN n - (k + 1) + 1 ELSE 0
      /\ \A i \in 1 .. n - (k + 1) + 1 : b[i] = q[k + 1 + i - 1]
  <2> HIDE DEF n, q, Y
  <2>1. QED
    BY <1>2, <1>4, SubSeqProperties
<1>7. m \in Nat /\ m = (IF k + 1 <= n THEN n - (k + 1) + 1 ELSE 0) /\ m = n - (k + 1) + 1
  <2>1. k \in 0 .. n /\ n \in Nat
    BY <1>2
  <2> HIDE DEF n
  <2>2. QED
    BY <2>1
<1>8. /\ DOMAIN a = 1 .. m /\ DOMAIN b = 1 .. m /\ b = [i \in 1 .. m |-> b[i]]
  <2> HIDE DEF a, b, m, n
  <2>1. QED
    BY <1>5, <1>6, <1>7
<1>9. \A i \in 1 .. m : k + 1 + i - 1 \in 1 .. n
  BY <1>2
<1>10. \A i \in 1 .. m : b[i] = a[i].row
  <2> HIDE DEF a, b, m, n, q
  <2>1. QED
    BY <1>3, <1>5, <1>6, <1>7, <1>9
<1>11. RowsOf(a) = b
  <2> HIDE DEF a, b, m, n, q
  <2>1. QED
    BY <1>8, <1>10 DEF RowsOf
<1>12. QED
  BY <1>2, <1>11

(* The rows of the entries that are kept.                                    *)
LEMMA RowsOfWithout ==
  ASSUME NEW es \in Seq(ReadyType), NEW A, Lists(RowsOf(es), A), NEW S, NEW B,
         B = {e \in ToSet(es) : e.row \in S}
  PROVE  /\ Without(es, B) \in Seq(ReadyType)
         /\ Lists(RowsOf(Without(es, B)), A \ S)
<1> DEFINE T == ToSet(es) \ B
           q == Only(es, T)
<1>1. q = Without(es, B)
  BY DEF Without
<1>2. q \in Seq(ReadyType) /\ \E h : Picks(q, h, es, T)
  BY OnlyPicks
<1> HIDE DEF q, T
<1>3. PICK h : Picks(q, h, es, T)
  BY <1>2
<1>4. \A i \in DOMAIN es : es[i] \in T <=> es[i].row \notin S
  BY DEF T, ToSet
<1>5. /\ RowsOf(es) \in Seq(A) /\ Once(RowsOf(es))
      /\ \A a \in A : \E i \in DOMAIN es : es[i].row = a
      /\ \A i \in DOMAIN es : es[i].row \in A
  <2>1. /\ RowsOf(es) \in Seq(A) /\ Once(RowsOf(es))
        /\ \A a \in A : \E i \in DOMAIN RowsOf(es) : RowsOf(es)[i] = a
    BY DEF Lists
  <2>2. DOMAIN RowsOf(es) = DOMAIN es /\ \A i \in DOMAIN es : RowsOf(es)[i] = es[i].row
    BY DEF RowsOf
  <2>3. \A i \in DOMAIN RowsOf(es) : RowsOf(es)[i] \in A
    BY <2>1
  <2>4. QED
    BY <2>1, <2>2, <2>3
<1>6. \A i, j \in DOMAIN es : es[i].row = es[j].row => i = j
  BY <1>5 DEF Once, RowsOf
<1> DEFINE p == RowsOf(q)
<1>7. DOMAIN p = DOMAIN q /\ DOMAIN q = 1 .. Len(q) /\ Len(q) \in Nat /\ \A i \in DOMAIN q : p[i] = q[i].row
  BY <1>2 DEF RowsOf
<1>8. p = [i \in 1 .. Len(q) |-> p[i]]
  BY <1>2 DEF RowsOf
<1> HIDE DEF p
<1>9. \A i \in 1 .. Len(q) : p[i] \in A \ S
  BY <1>3, <1>4, <1>5, <1>7 DEF Picks
<1>10. p \in Seq(A \ S)
  BY <1>7, <1>8, <1>9
<1>11. Once(p)
  BY <1>3, <1>6, <1>7 DEF Once, Picks
<1>12. ASSUME NEW a \in A \ S PROVE \E k \in DOMAIN p : p[k] = a
  <2>1. PICK i \in DOMAIN es : es[i].row = a
    BY <1>5
  <2>2. es[i] \in T
    BY <1>4, <2>1
  <2>3. PICK k \in DOMAIN h : h[k] = i
    BY <1>3, <2>2 DEF Picks
  <2>4. k \in DOMAIN p /\ p[k] = a
    BY <1>3, <1>7, <2>1, <2>3 DEF Picks
  <2>5. QED
    BY <2>4
<1>13. Lists(p, A \ S)
  BY <1>10, <1>11, <1>12 DEF Lists
<1>14. QED
  BY <1>1, <1>2, <1>13 DEF p

-----------------------------------------------------------------------------
(* Steps that move no row.                                                   *)

Accounts == Numbered /\ Accounted /\ KeptInv /\ Reserved

LEMMA AccountsSame ==
  ASSUME Accounts,
         UNCHANGED <<load, next, row, freeRows, waiting, jobs, ready, taken, slot, order,
                     kept, reencode, reencoding, resuming, reserved, fallbackReady,
                     preemptedReady, tsReady, aligning, finished>>
  PROVE  Accounts'
<1>1. Live' = Live /\ MaxTickets' = MaxTickets /\ Active' = Active
  BY DEF Live, MaxTickets, Active
<1>2. Numbered'
  BY <1>1 DEF Accounts, Numbered
<1>3. Apart'
  BY <1>1 DEF Accounts, Accounted, Apart, RowsOf
<1>4. \A r \in Nat : Placed(r)' = Placed(r)
  BY <1>1 DEF Placed, ReadyRows, TakenRows, EndedRows, RowsOf
<1>5. Accounted'
  BY <1>1, <1>3, <1>4 DEF Accounts, Accounted, In
<1>6. KeptInv'
  BY <1>1 DEF Accounts, KeptInv, Held, Back, InEncoder, ReadyRows, TakenRows, RowsOf, Shares
<1>7. Reserved'
  BY <1>1 DEF Accounts, Reserved
<1>8. QED
  BY <1>2, <1>5, <1>6, <1>7 DEF Accounts

Rest == <<load, source, rowVars, queues, kv, growth, pend, ends>>

LEMMA PcStep ==
  ASSUME IInv, Busy, UNCHANGED Rest, pc' \in PCs, Phases'
  PROVE  IInv'
<1>1. TypeInv'
  BY DEF IInv, TypeInv, Rest, source, rowVars, queues, kv, growth, pend, ends, MaxTickets
<1>2. Accounts'
  <2>1. Accounts
    BY DEF IInv, Accounts
  <2>2. QED
    BY <2>1, AccountsSame DEF Rest, source, rowVars, queues, kv, growth, pend, ends
<1>3. QED
  BY <1>1, <1>2 DEF IInv, Accounts

(* A phase may change when the locals of the old one are empty.              *)
LEMMA PhaseStep ==
  ASSUME Phases, UNCHANGED <<taken, order, fallbackReady, preemptedReady, finished>>,
         pc' = "cancel" => finished = <<>>,
         taken # <<>> => pc' \in {"launch", "submit", "place"},
         pc = "grow" => pc' = "grow"
  PROVE  Phases'
BY DEF Phases

LEMMA KeepsFlushed == IInv /\ Flushed => IInv'
<1> SUFFICES ASSUME IInv, Flushed PROVE IInv'
  OBVIOUS
<1>1. /\ pc \in FlushPhases \ {"lastflush"} /\ finished = <<>> /\ UNCHANGED Rest
      /\ pc' = CASE pc = "flush" -> "cancel" [] pc = "cancelled" -> "harvest"
                 [] pc = "idleflush" -> "idletake"
  BY DEF Flushed, Rest
<1>2. pc' \in {"cancel", "harvest", "idletake"}
  BY <1>1 DEF FlushPhases
<1>3. Busy /\ pc' \in PCs /\ pc # "grow"
  BY <1>1, <1>2 DEF Busy, PCs, FlushPhases
<1>4. taken = <<>> /\ Phases
  BY <1>1 DEF IInv, Phases, FlushPhases
<1>5. Phases'
  BY <1>1, <1>2, <1>3, <1>4, PhaseStep DEF Rest, queues, kv, growth, ends
<1>6. QED
  BY <1>1, <1>3, <1>5, PcStep

LEMMA KeepsNothingPosted == IInv /\ NothingPosted => IInv'
<1> SUFFICES ASSUME IInv, NothingPosted PROVE IInv'
  OBVIOUS
<1>1. pc = "cancel" /\ pc' = "harvest" /\ UNCHANGED Rest
  BY DEF NothingPosted, Rest
<1>2. Busy /\ pc' \in PCs /\ pc # "grow"
  BY <1>1 DEF Busy, PCs
<1>3. taken = <<>> /\ Phases
  BY <1>1 DEF IInv, Phases
<1>4. Phases'
  BY <1>1, <1>2, <1>3, PhaseStep DEF Rest, queues, kv, growth, ends
<1>5. QED
  BY <1>1, <1>2, <1>4, PcStep

LEMMA KeepsHarvested == IInv /\ Harvested => IInv'
<1> SUFFICES ASSUME IInv, Harvested PROVE IInv'
  OBVIOUS
<1>1. pc \in {"harvest", "reap"} /\ pc' = "launch" /\ UNCHANGED Rest
  BY DEF Harvested, Rest
<1>2. Busy /\ pc' \in PCs /\ pc # "grow"
  BY <1>1 DEF Busy, PCs
<1>3. Phases
  BY DEF IInv
<1>4. Phases'
  BY <1>1, <1>2, <1>3, PhaseStep DEF Rest, queues, kv, growth, ends
<1>5. QED
  BY <1>1, <1>2, <1>4, PcStep

LEMMA KeepsIdling == IInv /\ Idling => IInv'
<1> SUFFICES ASSUME IInv, Idling PROVE IInv'
  OBVIOUS
<1>1. pc = "idle" /\ UNCHANGED Rest /\ pc' \in {"admit", "top", "drain", "idleflush"}
  BY DEF Idling, Rest
<1>2. Busy /\ pc' \in PCs /\ pc # "grow" /\ pc' # "cancel"
  BY <1>1 DEF Busy, PCs
<1>3. taken = <<>> /\ Phases
  BY <1>1 DEF IInv, Phases
<1>4. Phases'
  BY <1>1, <1>2, <1>3, PhaseStep DEF Rest, queues, kv, growth, ends
<1>5. QED
  BY <1>1, <1>2, <1>4, PcStep

LEMMA KeepsDrained == IInv /\ Drained => IInv'
<1> SUFFICES ASSUME IInv, Drained PROVE IInv'
  OBVIOUS
<1>1. pc = "drain" /\ UNCHANGED Rest /\ pc' = "lastflush"
  BY DEF Drained, Rest
<1>2. Busy /\ pc' \in PCs /\ pc # "grow" /\ pc' # "cancel"
  BY <1>1 DEF Busy, PCs
<1>3. taken = <<>> /\ Phases
  BY <1>1 DEF IInv, Phases
<1>4. Phases'
  BY <1>1, <1>2, <1>3, PhaseStep DEF Rest, queues, kv, growth, ends
<1>5. QED
  BY <1>1, <1>2, <1>4, PcStep

LEMMA KeepsCancel == ASSUME IInv, NEW t, Cancel(t) PROVE IInv'
<1>1. UNCHANGED <<pc, Rest>>
  BY DEF Cancel, Rest
<1>2. CASE Busy
  <2>1. pc' \in PCs
    BY <1>1 DEF IInv, TypeInv
  <2>2. Phases'
    BY <1>1 DEF IInv, Phases, Rest, queues, kv, growth, ends
  <2>3. UNCHANGED Rest
    BY <1>1 DEF Rest
  <2>4. QED
    BY <1>2, <2>1, <2>2, <2>3, PcStep
<1>3. CASE ~Busy
  BY <1>1, <1>3 DEF IInv, TypeInv, Phases, Busy, Rest, source, rowVars, queues, kv, growth, pend, ends, MaxTickets
<1>4. QED
  BY <1>2, <1>3

(* What is left of a call that throws, and what the next one starts from.    *)
LEMMA FreshAccounts ==
  ASSUME Fresh(TRUE) \/ Fresh(FALSE), load \in Loads, UNCHANGED load
  PROVE  /\ Accounts' /\ taken' = <<>> /\ finished' = <<>>
         /\ fallbackReady' = <<>> /\ preemptedReady' = <<>>
<1>1. /\ next' = 0 /\ row' = <<>> /\ freeRows' = <<>> /\ waiting' = <<>> /\ jobs' = <<>>
      /\ ready' = <<>> /\ taken' = <<>> /\ slot' = [s \in Slots |-> Idle] /\ order' = <<>>
      /\ kept' = [r \in 1 .. MaxTickets |-> NotKept] /\ reencode' = <<>> /\ reencoding' = 0
      /\ resuming' = 0 /\ reserved' = 0 /\ fallbackReady' = <<>> /\ preemptedReady' = <<>>
      /\ tsReady' = <<>> /\ aligning' = NoJob /\ finished' = <<>>
  BY DEF Fresh
<1>2. Live' = {} /\ DOMAIN row' = {} /\ Len(row') = 0
  BY <1>1 DEF Live
<1>3. MaxTickets \in Nat /\ MaxTickets' = MaxTickets
  BY EngineAssumption DEF MaxTickets
<1>4. ToSet(<<>>) = {} /\ RowsOf(<<>>) = <<>>
  BY RowsOfNone DEF ToSet
<1>5. Listed(<<>>)
  BY <1>4, ListsEmpty DEF Listed
<1>6. Numbered'
  BY <1>1, <1>2, <1>3, ListsEmpty DEF Numbered
<1>7. Active' = {} /\ aligning'.rows = <<>>
  BY <1>1, <1>4 DEF Active, NoJob
<1>8. Apart'
  BY <1>1, <1>4, <1>5, <1>7, JobsNone DEF Apart, SlotsApart
<1>9. \A r \in Nat : Placed(r)' = 0
  BY <1>1, <1>4, <1>7, JobsNone DEF Placed, In, ReadyRows, TakenRows, EndedRows, SlotRows
<1>10. Accounted'
  BY <1>2, <1>8, <1>9 DEF Accounted, In
<1>11. Back' = {} /\ InEncoder' = {} /\ Held' = {}
  BY <1>1, <1>3, <1>4, JobsNone DEF Back, InEncoder, Held, NotKept
<1>12. KeptInv'
  <2>1. Cardinality({}) = 0
    BY FS_EmptySet
  <2>2. Shares({})' = 0
    <3> DEFINE v == [r \in {} |-> kept'[r].share]
    <3>1. v \in [{} -> Nat]
      OBVIOUS
    <3>2. Shares({})' = Total(v, {})
      BY DEF Shares
    <3> HIDE DEF v
    <3>3. QED
      BY <3>1, <3>2, TotalEmpty
  <2>3. Shares(Held)' = 0
    BY <1>11, <2>2
  <2>4. \A r \in (1 .. MaxTickets)' : kept'[r].share = 0
    BY <1>1, <1>3 DEF NotKept
  <2>5. QED
    BY <1>1, <1>2, <1>4, <1>11, <2>1, <2>3, <2>4 DEF KeptInv
<1>13. Reserved'
  <2>1. SlotsTyped(slot')
    BY <1>1 DEF SlotsTyped, SlotType, Idle
  <2>2. Cells(slot', {}) = 0
    BY <2>1, CellsNone
  <2>3. QED
    BY <1>1, <1>7, <2>2 DEF Reserved
<1>14. QED
  BY <1>1, <1>6, <1>10, <1>12, <1>13 DEF Accounts

LEMMA FreshTypes ==
  ASSUME Fresh(TRUE) \/ Fresh(FALSE), IInv, UNCHANGED <<load, pend>>, pc' \in PCs
  PROVE  TypeInv'
<1>1. MaxTickets' = MaxTickets
  BY DEF MaxTickets
<1>2. /\ open' \in BOOLEAN /\ next' = 0 /\ row' = <<>> /\ waiting' = <<>>
      /\ jobs' = <<>> /\ ready' = <<>> /\ taken' = <<>> /\ order' = <<>> /\ reencode' = <<>>
      /\ cached' = 0 /\ growing' = <<>> /\ fallbackReady' = <<>> /\ preemptedReady' = <<>>
      /\ tsReady' = <<>> /\ finished' = <<>> /\ aligning' = NoJob
      /\ slot' = [s \in Slots |-> Idle] /\ kept' = [r \in 1 .. MaxTickets |-> NotKept]
  BY DEF Fresh
<1>3. aligning' \in JobType
  BY <1>2 DEF JobType, NoJob
<1>4. slot' \in [Slots -> SlotType]
  BY <1>2 DEF SlotType, Idle
<1>5. kept' \in [1 .. MaxTickets -> KeptType]
  BY <1>2 DEF KeptType, NotKept
<1>6. load' \in Loads /\ pendReady' \in BOOLEAN /\ pendLanes' \in SUBSET Slots
  BY DEF IInv, TypeInv, pend
<1>7. QED
  BY <1>1, <1>2, <1>3, <1>4, <1>5, <1>6 DEF TypeInv

LEMMA KeepsStart == IInv /\ Start => IInv'
<1> SUFFICES ASSUME IInv, Start PROVE IInv'
  OBVIOUS
<1>1. Fresh(TRUE) /\ pc' = "top" /\ UNCHANGED <<load, pend>> /\ load \in Loads
  BY DEF Start, IInv, TypeInv
<1>2. TypeInv'
  BY <1>1, FreshTypes DEF PCs
<1>3. /\ Accounts' /\ taken' = <<>> /\ finished' = <<>>
      /\ fallbackReady' = <<>> /\ preemptedReady' = <<>>
  BY <1>1, FreshAccounts
<1>4. Phases'
  BY <1>1, <1>3 DEF Phases
<1>5. QED
  BY <1>2, <1>3, <1>4 DEF IInv, Accounts

LEMMA KeepsThrow == IInv /\ Throw => IInv'
<1> SUFFICES ASSUME IInv, Throw PROVE IInv'
  OBVIOUS
<1>1. Fresh(FALSE) /\ pc' = "off" /\ UNCHANGED <<load, pend>> /\ load \in Loads
  BY DEF Throw, IInv, TypeInv
<1>2. TypeInv'
  BY <1>1, FreshTypes DEF PCs
<1>3. /\ Accounts' /\ taken' = <<>> /\ finished' = <<>>
      /\ fallbackReady' = <<>> /\ preemptedReady' = <<>>
  BY <1>1, FreshAccounts
<1>4. Phases'
  BY <1>1, <1>3 DEF Phases
<1>5. QED
  BY <1>2, <1>3, <1>4 DEF IInv, Accounts

LEMMA KeepsReturn == IInv /\ Return => IInv'
<1> SUFFICES ASSUME IInv, Return PROVE IInv'
  OBVIOUS
<1>1. /\ pc = "lastflush" /\ pc' = "off" /\ next' = 0 /\ row' = <<>> /\ freeRows' = <<>>
      /\ UNCHANGED <<load, open, queues, kv, growth, pend, ends>>
  BY DEF Return
<1>2. ~Busy'
  BY <1>1 DEF Busy
<1>3. TypeInv'
  BY <1>1 DEF IInv, TypeInv, queues, kv, growth, pend, ends, MaxTickets, PCs
<1>4. Phases'
  BY <1>1 DEF IInv, Phases, queues, kv, growth, ends
<1>5. QED
  BY <1>2, <1>3, <1>4 DEF IInv

LEMMA KeepsInit == Init => IInv
<1> SUFFICES ASSUME Init PROVE IInv
  OBVIOUS
<1>1. pc = "off" /\ ~Busy
  BY DEF Init, Busy
<1>2. TypeInv
  <2>1. slot \in [Slots -> SlotType]
    BY DEF Init, SlotType, Idle
  <2>2. kept \in [1 .. MaxTickets -> KeptType]
    BY DEF Init, KeptType, NotKept
  <2>3. aligning \in JobType
    BY DEF Init, JobType, NoJob
  <2>4. /\ pc \in PCs /\ load \in Loads /\ open \in BOOLEAN /\ next \in Nat
        /\ row = <<>> /\ waiting = <<>> /\ jobs = <<>> /\ ready = <<>> /\ taken = <<>>
        /\ order = <<>> /\ reencode = <<>> /\ cached \in Nat /\ growing = <<>>
        /\ fallbackReady = <<>> /\ preemptedReady = <<>> /\ tsReady = <<>> /\ finished = <<>>
        /\ pendReady \in BOOLEAN /\ pendLanes \in SUBSET Slots
    BY DEF Init, PCs
  <2>5. QED
    BY <2>1, <2>2, <2>3, <2>4 DEF TypeInv
<1>3. Phases
  BY DEF Init, Phases
<1>4. QED
  BY <1>1, <1>2, <1>3 DEF IInv

-----------------------------------------------------------------------------
(* Steps that leave every row in its place.                                  *)

LEMMA PlacesSame ==
  ASSUME Accounts, Apart', Reserved',
         UNCHANGED <<load, next, row, freeRows, kept, reencoding, resuming,
                     ToSet(waiting), JobRows(jobs), ToSet(reencode), ReadyRows, TakenRows,
                     ToSet(fallbackReady), ToSet(preemptedReady), SlotRows(slot, Active),
                     ToSet(tsReady), ToSet(aligning.rows), EndedRows>>
  PROVE  Accounts'
<1>1. Live' = Live /\ MaxTickets' = MaxTickets
  BY DEF Live, MaxTickets
<1>2. Numbered'
  BY <1>1 DEF Accounts, Numbered
<1>3. Accounted'
  BY <1>1 DEF Accounts, Accounted, Placed, In
<1>4. KeptInv'
  BY <1>1 DEF Accounts, KeptInv, Held, Back, InEncoder, Shares
<1>5. QED
  BY <1>2, <1>3, <1>4 DEF Accounts

LEMMA KeepsEncoderDone == IInv /\ EncoderDone => IInv'
<1> SUFFICES ASSUME IInv, EncoderDone PROVE IInv'
  OBVIOUS
<1>1. PICK i \in DOMAIN jobs : jobs' = [jobs EXCEPT ![i].done = TRUE]
  BY DEF EncoderDone
<1>2. UNCHANGED <<pc, load, source, rowVars, waiting, ready, taken, kv, growth, pend, ends>>
  BY DEF EncoderDone
<1>3. jobs \in Seq(JobType)
  BY DEF IInv, TypeInv
<1>7. JobEnds(jobs, i, jobs')
  BY <1>1 DEF JobEnds
<1>4. CASE Busy
  <2>1. Accounts /\ JobsApart(jobs)
    BY <1>4 DEF IInv, Accounts, Accounted, Apart
  <2>2. jobs' \in Seq(JobType) /\ JobsApart(jobs') /\ JobRows(jobs') = JobRows(jobs)
    <3>1. /\ jobs' \in Seq(JobType) /\ (JobsApart(jobs) => JobsApart(jobs'))
          /\ JobRows(jobs') = JobRows(jobs)
      BY <1>3, <1>7, JobsDone
    <3>2. QED
      BY <2>1, <3>1
  <2>3. TypeInv'
    BY <1>2, <2>2 DEF IInv, TypeInv, source, rowVars, kv, growth, pend, ends, MaxTickets
  <2>4. Phases'
    BY <1>2 DEF IInv, Phases, kv, growth, ends
  <2>5. Active' = Active
    BY <1>2 DEF Active, kv
  <2>6. Apart'
    BY <1>2, <2>1, <2>2, <2>5 DEF Accounts, Accounted, Apart, RowsOf, kv, growth, ends
  <2>7. Reserved'
    BY <1>2, <2>1, <2>5 DEF Accounts, Reserved, kv
  <2>8. Accounts'
    BY <1>2, <2>1, <2>2, <2>5, <2>6, <2>7, PlacesSame
       DEF source, rowVars, kv, growth, ends, ReadyRows, TakenRows, EndedRows, RowsOf
  <2>9. QED
    BY <2>3, <2>4, <2>8 DEF IInv, Accounts
<1>5. CASE ~Busy
  <2>1. jobs' \in Seq(JobType)
    BY <1>3, <1>7, JobsDone
  <2>2. TypeInv'
    BY <1>2, <2>1 DEF IInv, TypeInv, source, rowVars, kv, growth, pend, ends, MaxTickets
  <2>3. Phases'
    BY <1>2 DEF IInv, Phases, kv, growth, ends
  <2>4. QED
    BY <1>2, <1>5, <2>2, <2>3 DEF IInv, Busy
<1>6. QED
  BY <1>4, <1>5

LEMMA KeepsAlignmentDone == IInv /\ AlignmentDone => IInv'
<1> SUFFICES ASSUME IInv, AlignmentDone PROVE IInv'
  OBVIOUS
<1>1. /\ aligning' = [aligning EXCEPT !.done = TRUE] /\ aligning \in JobType
      /\ UNCHANGED <<pc, load, source, rowVars, queues, kv, growth, pend, tsReady, finished>>
  BY DEF AlignmentDone, IInv, TypeInv
<1>2. aligning' \in JobType /\ aligning'.rows = aligning.rows
  BY <1>1 DEF JobType
<1>3. TypeInv'
  BY <1>1, <1>2 DEF IInv, TypeInv, source, rowVars, queues, kv, growth, pend, MaxTickets
<1>4. Phases'
  BY <1>1 DEF IInv, Phases, queues, kv, growth
<1>5. ASSUME Busy PROVE Accounts'
  <2>1. Accounts
    BY <1>5 DEF IInv, Accounts
  <2>2. Active' = Active
    BY <1>1 DEF Active, kv
  <2>3. Apart'
    BY <1>1, <1>2, <2>1, <2>2 DEF Accounts, Accounted, Apart, RowsOf, queues, kv, growth
  <2>4. Reserved'
    BY <1>1, <2>1, <2>2 DEF Accounts, Reserved, kv
  <2>5. QED
    BY <1>1, <1>2, <2>1, <2>2, <2>3, <2>4, PlacesSame
       DEF source, rowVars, queues, kv, growth, ReadyRows, TakenRows, EndedRows, RowsOf
<1>6. QED
  BY <1>1, <1>3, <1>4, <1>5 DEF IInv, Accounts, Busy

(* A step that changes of the slots no row, and the cells with the sum.      *)
LEMMA SlotStep ==
  ASSUME IInv, Busy, slot' \in [Slots -> SlotType], \A s \in Slots : slot'[s].row = slot[s].row,
         reserved' = Cells(slot', Active),
         UNCHANGED <<load, source, rowVars, queues, order, kept, reencode, reencoding, resuming,
                     fallbackReady, preemptedReady, ends>>
  PROVE  Accounts'
<1>1. Accounts /\ order \in Seq(Slots)
  BY DEF IInv, TypeInv, Accounts
<1>2. Active' = Active /\ Active \subseteq Slots
  BY <1>1 DEF Active, ToSet
<1>3. SlotRows(slot', Active) = SlotRows(slot, Active) /\ SlotsApart(slot', Active)
  <2>1. \A s \in Active : slot'[s].row = slot[s].row
    BY <1>2
  <2>2. SlotsApart(slot, Active)
    BY <1>1 DEF Accounts, Accounted, Apart
  <2>3. QED
    BY <2>1, <2>2 DEF SlotRows, SlotsApart
<1>4. Apart'
  BY <1>1, <1>2, <1>3 DEF Accounts, Accounted, Apart, RowsOf, queues, ends
<1>5. Reserved'
  BY <1>2 DEF Reserved
<1>6. QED
  BY <1>1, <1>2, <1>3, <1>4, <1>5, PlacesSame
     DEF source, rowVars, queues, ends, ReadyRows, TakenRows, EndedRows, RowsOf

LEMMA CellsKept ==
  ASSUME IInv, Busy, slot' \in [Slots -> SlotType], \A s \in Slots : slot'[s].cells = slot[s].cells,
         UNCHANGED reserved
  PROVE  reserved' = Cells(slot', Active)
<1>1. Active \in SUBSET Slots /\ SlotsTyped(slot) /\ SlotsTyped(slot') /\ reserved = Cells(slot, Active)
  BY DEF IInv, TypeInv, Reserved, Active, ToSet, SlotsTyped
<1>2. Cells(slot, Active) = Cells(slot', Active)
  BY <1>1, CellsSame
<1>3. QED
  BY <1>1, <1>2

LEMMA KeepsStep == IInv /\ Step => IInv'
<1> SUFFICES ASSUME IInv, Step PROVE IInv'
  OBVIOUS
<1> DEFINE lanes == IF pendReady THEN pendLanes ELSE Active
           live == lanes \cap Active
           forward(S, sl) == [s \in Slots |-> IF s \in S THEN [sl[s] EXCEPT !.pos = @ + 1] ELSE sl[s]]
           run == IF pendReady THEN slot ELSE forward(Active, slot)
<1>1. /\ pc = "step" /\ pc' = "commit"
      /\ UNCHANGED <<load, source, rowVars, queues, order, kept, reencode, reencoding,
                     resuming, reserved, cached, growth, ends>>
      /\ slot' = forward(live, run) \/ slot' = run
      /\ pendReady' \in BOOLEAN /\ (pendLanes' = live \/ pendLanes' = {})
  BY DEF Step
<1>2. slot \in [Slots -> SlotType] /\ order \in Seq(Slots)
  BY DEF IInv, TypeInv
<1>3. live \in SUBSET Slots
  BY <1>2 DEF Active, ToSet
<1> DEFINE Moves(sl) == /\ sl \in [Slots -> SlotType]
                        /\ \A s \in Slots : sl[s].row = slot[s].row /\ sl[s].cells = slot[s].cells
<1>4. ASSUME NEW sl, Moves(sl), NEW S PROVE Moves(forward(S, sl))
  <2>1. \A s \in Slots : sl[s] \in SlotType
    BY <1>4
  <2>2. \A s \in Slots : LET to == [sl[s] EXCEPT !.pos = @ + 1] IN
          to \in SlotType /\ to.row = sl[s].row /\ to.cells = sl[s].cells
    BY <2>1 DEF SlotType
  <2>3. QED
    BY <1>4, <2>2
<1>5. Moves(slot)
  BY <1>2
<1>6. Moves(run)
  BY <1>4, <1>5
<1>7. Moves(slot')
  <2> HIDE DEF Moves, forward, run, live
  <2>1. Moves(forward(live, run))
    BY <1>4, <1>6
  <2>2. QED
    BY <1>1, <1>6, <2>1
<1>8. Busy
  BY <1>1 DEF Busy
<1>9. reserved' = Cells(slot', Active)
  BY <1>1, <1>7, <1>8, CellsKept
<1>10. Accounts'
  BY <1>1, <1>7, <1>8, <1>9, SlotStep DEF growth
<1>11. TypeInv'
  BY <1>1, <1>3, <1>7 DEF IInv, TypeInv, source, rowVars, queues, growth, ends, MaxTickets, PCs
<1>12. Phases'
  BY <1>1 DEF IInv, Phases, queues, growth
<1>13. QED
  BY <1>10, <1>11, <1>12 DEF IInv, Accounts

-----------------------------------------------------------------------------
(* What lists of rows come to.                                               *)

LEMMA RangeIn == ASSUME NEW X, NEW q \in Seq(X) PROVE ToSet(q) \subseteq X
<1>1. DOMAIN q = 1 .. Len(q) /\ \A i \in 1 .. Len(q) : q[i] \in X
  OBVIOUS
<1>2. QED
  BY <1>1 DEF ToSet

Splits(C, A, B) == A \cap B = {} /\ C = A \cup B

LEMMA InSplit == ASSUME NEW A, NEW B, NEW C, Splits(C, A, B), NEW r
                 PROVE  In(r, C) = In(r, A) + In(r, B)
BY DEF Splits, In

LEMMA SeqMore == ASSUME NEW X, NEW Y, X \subseteq Y, NEW q \in Seq(X) PROVE q \in Seq(Y)
<1>1. q \in [1 .. Len(q) -> X] /\ Len(q) \in Nat
  OBVIOUS
<1>2. q \in [1 .. Len(q) -> Y]
  BY <1>1
<1>3. QED
  BY <1>1, <1>2, SeqDef

LEMMA ListedIs == ASSUME NEW q, NEW A, Lists(q, A) PROVE Listed(q) /\ ToSet(q) = A
BY ListsRange DEF Listed

LEMMA EntriesMore ==
  ASSUME NEW X, NEW es \in Seq(X), NEW A, Lists(RowsOf(es), A),
         NEW fs \in Seq(X), NEW B, Lists(RowsOf(fs), B), A \cap B = {}
  PROVE  es \o fs \in Seq(X) /\ Lists(RowsOf(es \o fs), A \cup B)
<1>1. es \o fs \in Seq(X) /\ Entries(es) /\ Entries(fs)
  BY DEF Entries
<1>2. RowsOf(es \o fs) = RowsOf(es) \o RowsOf(fs)
  BY <1>1, RowsOfConcat
<1>3. Lists(RowsOf(es) \o RowsOf(fs), A \cup B)
  BY ListsConcat
<1>4. QED
  BY <1>1, <1>2, <1>3

LEMMA ResultsAre ==
  ASSUME NEW q \in Seq(Nat), NEW kind \in {"value", "error", "cancelled"}
  PROVE  Results(q, kind) \in Seq(ResultType) /\ RowsOf(Results(q, kind)) = q
<1> DEFINE es == Results(q, kind)
<1>1. /\ DOMAIN q = 1 .. Len(q) /\ Len(q) \in Nat /\ DOMAIN es = DOMAIN q
      /\ \A i \in DOMAIN q : q[i] \in Nat /\ es[i] = [row |-> q[i], kind |-> kind]
      /\ Entries(q)
  BY DEF Results, Entries
<1>2. es \in Seq(ResultType)
  BY <1>1 DEF ResultType, Results
<1>3. \A i \in DOMAIN q : es[i].row = q[i]
  BY <1>1
<1> HIDE DEF es
<1>4. RowsOf(es) = q
  BY <1>1, <1>3, RowsOfNew
<1>5. QED
  BY <1>2, <1>4 DEF es

LEMMA EndingsAre ==
  ASSUME NEW q \in Seq(Nat)
  PROVE  Endings(q) \in Seq(ResultType) /\ RowsOf(Endings(q)) = q
<1> DEFINE es == Endings(q)
<1>1. /\ DOMAIN q = 1 .. Len(q) /\ Len(q) \in Nat /\ DOMAIN es = DOMAIN q
      /\ \A i \in DOMAIN q : q[i] \in Nat /\ es[i] = [row |-> q[i], kind |-> Outcome(q[i])]
      /\ Entries(q)
  BY DEF Endings, Entries
<1>2. \A i \in DOMAIN q : es[i] \in ResultType
  BY <1>1 DEF ResultType, Outcome
<1>3. es \in Seq(ResultType)
  BY <1>1, <1>2 DEF Endings
<1>4. \A i \in DOMAIN q : es[i].row = q[i]
  BY <1>1
<1> HIDE DEF es
<1>5. RowsOf(es) = q
  BY <1>1, <1>4, RowsOfNew
<1>6. QED
  BY <1>3, <1>5 DEF es

LEMMA EncodedAre ==
  ASSUME NEW q \in Seq(Nat)
  PROVE  Encoded(q) \in Seq(ReadyType) /\ RowsOf(Encoded(q)) = q
<1> DEFINE es == Encoded(q)
<1>1. /\ DOMAIN q = 1 .. Len(q) /\ Len(q) \in Nat /\ DOMAIN es = DOMAIN q
      /\ \A i \in DOMAIN q : q[i] \in Nat /\ es[i] = [row |-> q[i], error |-> FALSE]
      /\ Entries(q)
  BY DEF Encoded, Entries
<1>2. es \in Seq(ReadyType)
  BY <1>1 DEF ReadyType, Encoded
<1>3. \A i \in DOMAIN q : es[i].row = q[i]
  BY <1>1
<1> HIDE DEF es
<1>4. RowsOf(es) = q
  BY <1>1, <1>3, RowsOfNew
<1>5. QED
  BY <1>2, <1>4 DEF es

LEMMA RowsNat == ASSUME NEW X, NEW es \in Seq(X), \A e \in X : e.row \in Nat
                 PROVE  RowsOf(es) \in Seq(Nat) /\ ToSet(RowsOf(es)) \subseteq Nat
<1>1. DOMAIN es = 1 .. Len(es) /\ Len(es) \in Nat /\ \A i \in DOMAIN es : es[i].row \in Nat
  OBVIOUS
<1>2. RowsOf(es) \in Seq(Nat)
  BY <1>1 DEF RowsOf
<1>3. QED
  BY <1>2 DEF ToSet

(* The rows of every place are live, and the live ones are of the tickets.   *)
LEMMA PlacesLive ==
  ASSUME IInv, Busy
  PROVE  /\ Accounts
         /\ ToSet(waiting) \subseteq Live /\ JobRows(jobs) \subseteq Live /\ ToSet(reencode) \subseteq Live
         /\ ReadyRows \subseteq Live /\ TakenRows \subseteq Live /\ ToSet(fallbackReady) \subseteq Live
         /\ ToSet(preemptedReady) \subseteq Live /\ SlotRows(slot, Active) \subseteq Live
         /\ ToSet(tsReady) \subseteq Live /\ ToSet(aligning.rows) \subseteq Live /\ EndedRows \subseteq Live
         /\ Live \subseteq DOMAIN row /\ DOMAIN row \subseteq 1 .. MaxTickets
         /\ MaxTickets \in Nat /\ Active \subseteq Slots
         /\ DOMAIN row \subseteq Nat
<1>1. Accounts /\ TypeInv
  BY DEF IInv, Accounts
<1>2. /\ ToSet(waiting) \subseteq Nat /\ ToSet(reencode) \subseteq Nat /\ ToSet(fallbackReady) \subseteq Nat
      /\ ToSet(preemptedReady) \subseteq Nat /\ ToSet(tsReady) \subseteq Nat
  BY <1>1, RangeIn DEF TypeInv
<1>3. ToSet(aligning.rows) \subseteq Nat
  BY <1>1, RangeIn DEF TypeInv, JobType
<1>4. ReadyRows \subseteq Nat /\ TakenRows \subseteq Nat /\ EndedRows \subseteq Nat
  <2>1. /\ \A e \in ReadyType : e.row \in Nat
        /\ \A e \in TakenType : e.row \in Nat
        /\ \A e \in ResultType : e.row \in Nat
    BY DEF ReadyType, TakenType, ResultType
  <2>2. ready \in Seq(ReadyType) /\ taken \in Seq(TakenType) /\ finished \in Seq(ResultType)
    BY <1>1 DEF TypeInv
  <2>3. QED
    BY <2>1, <2>2, RowsNat DEF ReadyRows, TakenRows, EndedRows
<1>5. Active \subseteq Slots
  BY <1>1 DEF TypeInv, Active, ToSet
<1>6. SlotRows(slot, Active) \subseteq Nat
  BY <1>1, <1>5 DEF TypeInv, SlotRows, SlotType
<1>7. JobRows(jobs) \subseteq Nat
  <2>1. jobs \in Seq(JobType)
    BY <1>1 DEF TypeInv
  <2>2. ASSUME NEW i \in DOMAIN jobs PROVE ToSet(jobs[i].rows) \subseteq Nat
    <3>1. jobs[i] \in JobType
      BY <2>1
    <3>2. jobs[i].rows \in Seq(Nat)
      BY <3>1 DEF JobType
    <3>3. QED
      BY <3>2, RangeIn
  <2>3. QED
    BY <2>2 DEF JobRows
<1>8. \A r \in Nat : Placed(r) = In(r, Live)
  BY <1>1 DEF Accounts, Accounted
<1>9. /\ ToSet(waiting) \subseteq Live /\ JobRows(jobs) \subseteq Live /\ ToSet(reencode) \subseteq Live
      /\ ReadyRows \subseteq Live /\ TakenRows \subseteq Live /\ ToSet(fallbackReady) \subseteq Live
      /\ ToSet(preemptedReady) \subseteq Live /\ SlotRows(slot, Active) \subseteq Live
      /\ ToSet(tsReady) \subseteq Live /\ ToSet(aligning.rows) \subseteq Live /\ EndedRows \subseteq Live
  BY <1>2, <1>3, <1>4, <1>6, <1>7, <1>8 DEF Placed, In
<1>10. MaxTickets \in Nat
  <2>1. load.kinds \in Seq(Kinds)
    BY <1>1, EngineAssumption DEF TypeInv
  <2>2. QED
    BY <2>1 DEF MaxTickets
<1>11. DOMAIN row \subseteq 1 .. MaxTickets
  <2>1. row \in Seq(RowType) /\ Len(row) <= next /\ next <= MaxTickets /\ next \in Nat
    BY <1>1 DEF TypeInv, Accounts, Numbered
  <2>2. DOMAIN row = 1 .. Len(row) /\ Len(row) \in Nat
    BY <2>1
  <2>3. QED
    BY <1>10, <2>1, <2>2
<1>12. Live \subseteq DOMAIN row
  BY DEF Live
<1>13. QED
  BY <1>1, <1>5, <1>9, <1>10, <1>11, <1>12

-----------------------------------------------------------------------------
(* Growing, and the ends of requests.                                        *)

LEMMA CellsBut ==
  ASSUME NEW sl, SlotsTyped(sl), NEW S \in SUBSET Slots, NEW s \in S
  PROVE  Cells(sl, S) = Cells(sl, S \ {s}) + sl[s].cells
<1>1. {s} \in SUBSET Slots /\ S \ {s} \in SUBSET Slots /\ (S \ {s}) \cap {s} = {} /\ S = (S \ {s}) \cup {s}
      /\ s \in Slots
  OBVIOUS
<1>2. Cells(sl, (S \ {s}) \cup {s}) = Cells(sl, S \ {s}) + Cells(sl, {s})
  BY <1>1, CellsSplit
<1>3. Cells(sl, {s}) = sl[s].cells
  BY <1>1, CellsOne
<1>4. QED
  BY <1>1, <1>2, <1>3

LEMMA LoadType ==
  ASSUME load \in Loads
  PROVE  /\ Prompt \in Nat /\ Prefix \in Nat /\ Budget \in Nat /\ GrowCells \in Nat /\ Pool \in Nat
         /\ MaxTickets \in Nat /\ load.kinds \in Seq(Kinds)
<1>1. load \in [kinds : Seq(Kinds), cancels : {load.cancels}, prompt : Nat \ {0},
                prefix : 1 .. load.prompt, budget : Nat \ {0}, grow : Nat, pool : Nat]
  BY EngineAssumption
<1>2. QED
  BY <1>1 DEF Prompt, Prefix, Budget, GrowCells, Pool, MaxTickets

LEMMA HeadTail ==
  ASSUME NEW X, NEW q \in Seq(X), q # <<>>
  PROVE  Head(q) \in X /\ Tail(q) \in Seq(X)
OBVIOUS

LEMMA KeepsGrow == IInv /\ Grow => IInv'
<1> SUFFICES ASSUME IInv, Grow PROVE IInv'
  OBVIOUS
<1> DEFINE g == Growing
           want == Least(slot[g].full, Need(g) + GrowCells)
           grant == IF Fits(g, want) THEN want ELSE Need(g)
<1>1. /\ pc = "grow" /\ growing # <<>> /\ growing' = Tail(growing)
      /\ UNCHANGED <<pc, load, source, rowVars, queues, order, kept, reencode, reencoding,
                     resuming, cached, fallbackReady, preemptedReady, pend, ends>>
      /\ IF Short(g)
         THEN /\ reserved' = reserved + grant - slot[g].cells
              /\ slot' = [slot EXCEPT ![g].cells = grant]
         ELSE UNCHANGED <<reserved, slot>>
  BY DEF Grow
<1>2. Busy /\ TypeInv
  BY <1>1 DEF Busy, IInv
<1>3. g \in Slots /\ Tail(growing) \in Seq(Slots)
  BY <1>1, <1>2, HeadTail DEF TypeInv, Growing
<1>4. slot \in [Slots -> SlotType] /\ slot[g] \in SlotType
  BY <1>2, <1>3 DEF TypeInv
<1>5. grant \in Nat
  <2>1. slot[g].full \in Nat /\ slot[g].pos \in Nat
    BY <1>4 DEF SlotType
  <2>2. Need(g) \in Nat
    BY <2>1 DEF Need, Least, StepRows
  <2>3. GrowCells \in Nat
    BY <1>2, LoadType DEF TypeInv
  <2>4. want \in Nat
    BY <2>1, <2>2, <2>3 DEF Least
  <2>5. QED
    BY <2>2, <2>4
<1> HIDE DEF g, grant
<1>6. /\ slot' \in [Slots -> SlotType] /\ \A s \in Slots : slot'[s].row = slot[s].row
      /\ reserved' = Cells(slot', Active)
  <2>1. Active \in SUBSET Slots /\ SlotsTyped(slot) /\ reserved = Cells(slot, Active)
    BY <1>2, PlacesLive DEF IInv, Reserved, SlotsTyped, TypeInv
  <2>2. CASE Short(g)
    <3>1. /\ reserved' = reserved + grant - slot[g].cells
          /\ slot' = [slot EXCEPT ![g].cells = grant] /\ g \in Active
      BY <1>1, <2>2 DEF Short
    <3>2. [slot[g] EXCEPT !.cells = grant] \in SlotType
      BY <1>4, <1>5 DEF SlotType
    <3>3. /\ slot'[g].cells = grant /\ slot'[g].row = slot[g].row
          /\ \A s \in Slots \ {g} : slot'[s] = slot[s]
          /\ slot' \in [Slots -> SlotType]
      BY <1>3, <1>4, <3>1, <3>2 DEF SlotType
    <3>4. SlotsTyped(slot')
      BY <3>3 DEF SlotsTyped
    <3>5. /\ Cells(slot, Active) = Cells(slot, Active \ {g}) + slot[g].cells
          /\ Cells(slot', Active) = Cells(slot', Active \ {g}) + slot'[g].cells
      BY <2>1, <3>1, <3>4, CellsBut
    <3>6. Active \ {g} \in SUBSET Slots /\ \A s \in Active \ {g} : slot[s].cells = slot'[s].cells
      BY <2>1, <3>3
    <3>7. Cells(slot, Active \ {g}) = Cells(slot', Active \ {g})
      BY <2>1, <3>4, <3>6, CellsSame
    <3>8. Cells(slot, Active \ {g}) \in Nat /\ slot[g].cells \in Nat
      BY <1>4, <2>1, <3>6, CellsAre DEF SlotType
    <3>9. QED
      BY <1>3, <1>5, <2>1, <3>1, <3>3, <3>5, <3>7, <3>8
  <2>3. CASE ~Short(g)
    BY <1>1, <1>4, <2>1, <2>3
  <2>4. QED
    BY <2>2, <2>3
<1>7. Accounts'
  BY <1>1, <1>2, <1>6, SlotStep
<1>8. TypeInv'
  BY <1>1, <1>2, <1>3, <1>6 DEF TypeInv, source, rowVars, queues, pend, ends, MaxTickets
<1>9. Phases'
  BY <1>1 DEF IInv, Phases, queues, ends
<1>10. QED
  BY <1>7, <1>8, <1>9 DEF IInv, Accounts

LEMMA KeepsDropPromptCache == IInv /\ DropPromptCache => IInv'
<1> SUFFICES ASSUME IInv, DropPromptCache PROVE IInv'
  OBVIOUS
<1>1. /\ pc = "grow" /\ cached' = 0
      /\ slot' = [s \in Slots |-> [slot[s] EXCEPT !.shares = FALSE]]
      /\ UNCHANGED <<pc, load, source, rowVars, queues, order, kept, reencode, reencoding,
                     resuming, reserved, growing, fallbackReady, preemptedReady, pend, ends>>
  BY DEF DropPromptCache
<1>2. Busy /\ TypeInv
  BY <1>1 DEF Busy, IInv
<1>3. \A s \in Slots : slot[s] \in SlotType
  BY <1>2 DEF TypeInv
<1>4. /\ slot' \in [Slots -> SlotType]
      /\ \A s \in Slots : slot'[s].row = slot[s].row /\ slot'[s].cells = slot[s].cells
  BY <1>1, <1>3 DEF SlotType
<1>5. reserved' = Cells(slot', Active)
  BY <1>1, <1>2, <1>4, CellsKept
<1>6. Accounts'
  BY <1>1, <1>2, <1>4, <1>5, SlotStep
<1>7. TypeInv'
  BY <1>1, <1>2, <1>4 DEF TypeInv, source, rowVars, queues, pend, ends, MaxTickets
<1>8. Phases'
  BY <1>1 DEF IInv, Phases, queues, ends
<1>9. QED
  BY <1>6, <1>7, <1>8 DEF IInv, Accounts

LEMMA KeepsDeliver == IInv /\ Deliver => IInv'
<1> SUFFICES ASSUME IInv, Deliver PROVE IInv'
  OBVIOUS
<1> DEFINE r == Head(finished).row
<1>1. /\ pc \in FlushPhases /\ finished # <<>> /\ finished' = Tail(finished)
      /\ row' = [row EXCEPT ![r].live = FALSE] /\ freeRows' = Append(freeRows, r)
      /\ UNCHANGED <<pc, load, source, queues, kv, growth, pend, tsReady, aligning>>
  BY DEF Deliver
<1>2. Busy /\ TypeInv
  BY <1>1 DEF Busy, IInv, FlushPhases
<1>3. finished \in Seq(ResultType) /\ row \in Seq(RowType)
  BY <1>2 DEF TypeInv
<1>4. r \in EndedRows /\ Listed(RowsOf(finished'))
      /\ ToSet(RowsOf(finished')) = EndedRows \ {r} /\ finished' \in Seq(ResultType)
  <2> DEFINE q == RowsOf(finished)
  <2>1. Lists(q, EndedRows)
    BY <1>2, PlacesLive DEF Accounts, Accounted, Apart, Listed, EndedRows
  <2>2. Entries(finished) /\ 1 \in 0 .. Len(finished) /\ Len(finished) \in Nat
        /\ Tail(finished) = SubSeq(finished, 2, Len(finished))
    BY <1>1, <1>3 DEF Entries
  <2>3. Len(q) = Len(finished) /\ q[1] = r
    BY <1>1, <1>3 DEF RowsOf
  <2>4. RowsOf(SubSeq(finished, 1 + 1, Len(finished))) = SubSeq(q, 1 + 1, Len(q))
    BY <2>2, RowsOfPart
  <2>5. q \in Seq(EndedRows) /\ q # <<>> /\ Tail(q) = SubSeq(q, 2, Len(q)) /\ Head(q) = q[1]
    BY <2>1, <2>2, <2>3, <1>1 DEF Lists
  <2> HIDE DEF q
  <2>6. Head(q) \in EndedRows /\ Lists(Tail(q), EndedRows \ {Head(q)})
    BY <2>1, <2>5, ListsTail
  <2>9. 1 + 1 = 2
    OBVIOUS
  <2>7. RowsOf(finished') = Tail(q)
    <3>1. RowsOf(SubSeq(finished, 2, Len(finished))) = SubSeq(q, 2, Len(q))
      BY <2>4, <2>9
    <3>2. finished' = SubSeq(finished, 2, Len(finished)) /\ Tail(q) = SubSeq(q, 2, Len(q))
      BY <1>1, <2>2, <2>5
    <3>3. QED
      BY <3>1, <3>2
  <2>8. QED
    BY <1>1, <1>3, <2>3, <2>5, <2>6, <2>7, ListedIs, HeadTail
<1> HIDE DEF r
<1>5. /\ Accounts /\ EndedRows \subseteq Live /\ Live \subseteq DOMAIN row /\ DOMAIN row \subseteq Nat
  BY <1>2, PlacesLive
<1>6. r \in Live /\ r \in DOMAIN row /\ r \in Nat
  BY <1>4, <1>5
<1>7. /\ row' \in Seq(RowType) /\ DOMAIN row' = DOMAIN row /\ Len(row') = Len(row)
      /\ \A q \in DOMAIN row : q # r => row'[q] = row[q]
      /\ row'[r].ticket = row[r].ticket /\ ~row'[r].live
  <2>1. row[r] \in RowType
    BY <1>3, <1>6
  <2>2. [row[r] EXCEPT !.live = FALSE] \in RowType
    BY <2>1 DEF RowType
  <2>3. row' \in Seq(RowType) /\ DOMAIN row' = DOMAIN row /\ Len(row') = Len(row)
    BY <1>1, <1>3, <1>6, <2>2
  <2>4. \A q \in DOMAIN row : row'[q] = IF q = r THEN [row[r] EXCEPT !.live = FALSE] ELSE row[q]
    BY <1>1, <1>3
  <2>5. QED
    BY <1>6, <2>1, <2>3, <2>4 DEF RowType
<1>8. Live' = Live \ {r} /\ MaxTickets' = MaxTickets
  <2>1. UNCHANGED load
    BY <1>1
  <2>2. Live' = Live \ {r}
    BY <1>7 DEF Live
  <2>3. QED
    BY <2>1, <2>2 DEF MaxTickets
<1>9. Numbered'
  <2>1. /\ Len(row) <= next /\ next <= MaxTickets /\ Lists(freeRows, DOMAIN row \ Live)
        /\ \A q \in Live : row[q].ticket < next
        /\ \A p, q \in Live : row[p].ticket = row[q].ticket => p = q
    BY <1>5 DEF Accounts, Numbered
  <2>2. Lists(freeRows', (DOMAIN row \ Live) \cup {r})
    BY <1>1, <1>6, <2>1, ListsAppend
  <2>3. (DOMAIN row \ Live) \cup {r} = DOMAIN row' \ Live'
    BY <1>6, <1>7, <1>8
  <2>4. next' = next
    BY <1>1 DEF source
  <2>5. Live' \subseteq Live /\ \A q \in Live' : row'[q].ticket = row[q].ticket
    BY <1>5, <1>7, <1>8
  <2>6. /\ \A q \in Live' : row'[q].ticket < next'
        /\ \A p, q \in Live' : row'[p].ticket = row'[q].ticket => p = q
    BY <2>1, <2>4, <2>5
  <2>7. Len(row') <= next' /\ next' <= MaxTickets' /\ Lists(freeRows', DOMAIN row' \ Live')
    BY <1>7, <1>8, <2>1, <2>2, <2>3, <2>4
  <2>8. QED
    BY <2>6, <2>7 DEF Numbered
<1>10. /\ UNCHANGED <<waiting, jobs, reencode, ready, taken, fallbackReady, preemptedReady, slot, order,
                     tsReady, aligning, kept, reencoding, resuming, reserved>>
       /\ Active' = Active /\ EndedRows' = EndedRows \ {r}
  BY <1>1, <1>4 DEF queues, kv, growth, Active, EndedRows
<1>11. Accounted'
  <2>1. Apart'
    BY <1>4, <1>5, <1>10 DEF Accounts, Accounted, Apart, RowsOf
  <2>2. ASSUME NEW q \in Nat PROVE Placed(q)' = In(q, Live')
    <3>1. Placed(q) = In(q, Live)
      BY <1>5 DEF Accounts, Accounted
    <3>2. ReadyRows' = ReadyRows /\ TakenRows' = TakenRows
      BY <1>10 DEF ReadyRows, TakenRows, RowsOf
    <3>3. QED
      BY <1>4, <1>6, <1>8, <1>10, <3>1, <3>2 DEF Placed, In
  <2>3. QED
    BY <2>1, <2>2 DEF Accounted, In
<1>12. KeptInv'
  <2>1. KeptInv /\ Placed(r) = In(r, Live)
    BY <1>5, <1>6 DEF Accounts, Accounted
  <2>2. UNCHANGED <<ReadyRows, TakenRows, JobRows(jobs), ToSet(reencode), ToSet(preemptedReady),
                    InEncoder, Back, Held>>
    BY <1>8, <1>10 DEF ReadyRows, TakenRows, RowsOf, InEncoder, Back, Held
  <2>3. r \notin InEncoder \cup ReadyRows \cup TakenRows \cup ToSet(preemptedReady)
    BY <1>4, <1>6, <2>1 DEF Placed, In, InEncoder
  <2>4. r \notin Back
    BY <2>1, <2>3 DEF KeptInv
  <2>5. Shares(Held)' = Shares(Held)
    BY <1>10, <2>2 DEF Shares
  <2>6. QED
    BY <1>8, <1>10, <2>1, <2>2, <2>4, <2>5 DEF KeptInv
<1>13. Reserved'
  BY <1>5, <1>10 DEF Accounts, Reserved
<1>14. TypeInv'
  BY <1>1, <1>2, <1>4, <1>7, <1>10 DEF TypeInv, source, queues, kv, growth, pend, MaxTickets
<1>15. Phases'
  BY <1>1, <1>10 DEF IInv, Phases, FlushPhases
<1>16. QED
  BY <1>9, <1>11, <1>12, <1>13, <1>14, <1>15 DEF IInv, Accounts

-----------------------------------------------------------------------------
(* Alignment, and what is sent to the encoder.                               *)

LEMMA KeptSame ==
  ASSUME KeptInv, UNCHANGED <<load, kept, reencoding, resuming, InEncoder>>,
         ReadyRows \cup TakenRows \cup ToSet(preemptedReady)
           \subseteq ReadyRows' \cup TakenRows' \cup ToSet(preemptedReady)',
         Live \subseteq Live', ToSet(reencode)' \subseteq ToSet(reencode)
  PROVE  KeptInv'
<1>1. MaxTickets' = MaxTickets
  BY DEF MaxTickets
<1>2. Back' = Back
  BY <1>1 DEF Back
<1>3. Held' = Held
  BY <1>2 DEF Held
<1>4. Shares(Held)' = Shares(Held)
  BY <1>3 DEF Shares
<1>5. QED
  BY <1>1, <1>2, <1>3, <1>4 DEF KeptInv

(* Results for the rows of a list.                                           *)
LEMMA EndsMore ==
  ASSUME IInv, Busy, NEW es \in Seq(ResultType), NEW B, Lists(RowsOf(es), B), B \cap EndedRows = {}
  PROVE  /\ finished \o es \in Seq(ResultType) /\ Listed(RowsOf(finished \o es))
         /\ ToSet(RowsOf(finished \o es)) = EndedRows \cup B
<1>1. finished \in Seq(ResultType) /\ Lists(RowsOf(finished), EndedRows)
  BY PlacesLive DEF IInv, TypeInv, Accounts, Accounted, Apart, Listed, EndedRows
<1>2. finished \o es \in Seq(ResultType) /\ Lists(RowsOf(finished \o es), EndedRows \cup B)
  BY <1>1, EntriesMore
<1>3. QED
  BY <1>2, ListedIs

LEMMA KeepsHarvestTimestamps == IInv /\ HarvestTimestamps => IInv'
<1> SUFFICES ASSUME IInv, HarvestTimestamps PROVE IInv'
  OBVIOUS
<1> DEFINE rows == IF aligning.done THEN aligning.rows ELSE <<>>
<1>1. /\ (pc = "top" /\ pc' = "flush") \/ (pc = "drain" /\ pc' = "drain")
      /\ finished' = finished \o Endings(rows)
      /\ IF aligning.done \/ aligning = NoJob
         THEN aligning' = [rows |-> tsReady, done |-> FALSE] /\ tsReady' = <<>>
         ELSE UNCHANGED <<aligning, tsReady>>
      /\ UNCHANGED <<load, source, rowVars, queues, kv, growth, pend>>
  BY DEF HarvestTimestamps
<1>2. Busy /\ Busy' /\ TypeInv /\ pc' \in PCs
  BY <1>1 DEF Busy, IInv, PCs
<1>3. /\ aligning \in JobType /\ aligning.rows \in Seq(Nat) /\ aligning.done \in BOOLEAN
      /\ tsReady \in Seq(Nat)
  BY <1>2 DEF TypeInv, JobType
<1>4. /\ Accounts /\ Listed(aligning.rows) /\ Listed(tsReady)
      /\ \A q \in Nat : Placed(q) = In(q, Live)
  BY <1>2, PlacesLive DEF Accounts, Accounted, Apart
<1>5. ToSet(<<>>) = {} /\ Listed(<<>>)
  BY ListsEmpty, ListedIs
<1>6. rows \in Seq(Nat) /\ Listed(rows)
  BY <1>3, <1>4, <1>5
<1> HIDE DEF rows
<1>7. ToSet(rows) \subseteq Nat
  BY <1>6, RangeIn
<1>8. ToSet(rows) \subseteq ToSet(aligning.rows)
  BY <1>5 DEF rows
<1>9. ToSet(rows) \cap EndedRows = {}
  BY <1>4, <1>7, <1>8 DEF Placed, In
<1>10. Endings(rows) \in Seq(ResultType) /\ Lists(RowsOf(Endings(rows)), ToSet(rows))
  BY <1>6, EndingsAre DEF Listed
<1>11. /\ finished' \in Seq(ResultType) /\ Listed(RowsOf(finished'))
       /\ EndedRows' = EndedRows \cup ToSet(rows)
  BY <1>1, <1>2, <1>9, <1>10, EndsMore DEF EndedRows
<1>12. /\ aligning' \in JobType /\ tsReady' \in Seq(Nat) /\ Listed(aligning'.rows) /\ Listed(tsReady')
       /\ \A q \in Nat : In(q, ToSet(aligning'.rows)) + In(q, ToSet(tsReady')) + In(q, ToSet(rows))
                         = In(q, ToSet(aligning.rows)) + In(q, ToSet(tsReady))
  <2>1. CASE aligning.done \/ aligning = NoJob
    <3>1. aligning'.rows = tsReady /\ tsReady' = <<>> /\ aligning' = [rows |-> tsReady, done |-> FALSE]
      BY <1>1, <2>1
    <3>2. rows = aligning.rows
      BY <2>1 DEF rows, NoJob
    <3>3. aligning' \in JobType
      BY <1>3, <3>1 DEF JobType
    <3>4. QED
      BY <1>4, <1>5, <3>1, <3>2, <3>3 DEF In
  <2>2. CASE ~(aligning.done \/ aligning = NoJob)
    <3>1. aligning' = aligning /\ tsReady' = tsReady /\ rows = <<>>
      BY <1>1, <2>2 DEF rows
    <3>2. QED
      BY <1>3, <1>4, <1>5, <3>1 DEF In
  <2>3. QED
    BY <2>1, <2>2
<1>13. /\ UNCHANGED <<waiting, jobs, reencode, ready, taken, fallbackReady, preemptedReady, slot, order,
                      row, freeRows, load, next, kept, reencoding, resuming, reserved>>
       /\ UNCHANGED <<Active, Live, ReadyRows, TakenRows, InEncoder>>
  BY <1>1 DEF source, rowVars, queues, kv, growth, Active, Live, ReadyRows, TakenRows, RowsOf, InEncoder
<1>14. Accounted'
  <2>1. Apart'
    BY <1>4, <1>11, <1>12, <1>13 DEF Accounts, Accounted, Apart, RowsOf
  <2>2. ASSUME NEW q \in Nat PROVE Placed(q)' = In(q, Live')
    <3>1. In(q, EndedRows') = In(q, EndedRows) + In(q, ToSet(rows))
      BY <1>9, <1>11 DEF In
    <3>2. QED
      BY <1>4, <1>12, <1>13, <3>1 DEF Placed, In
  <2>3. QED
    BY <2>1, <2>2, <1>13 DEF Accounted, In
<1>15. KeptInv'
  BY <1>4, <1>13, KeptSame DEF Accounts
<1>16. Numbered' /\ Reserved'
  BY <1>4, <1>13 DEF Accounts, Numbered, Reserved, MaxTickets
<1>17. TypeInv'
  BY <1>1, <1>2, <1>11, <1>12 DEF TypeInv, source, rowVars, queues, kv, growth, pend, MaxTickets
<1>18. Phases'
  BY <1>1, <1>13 DEF IInv, Phases
<1>19. QED
  BY <1>14, <1>15, <1>16, <1>17, <1>18 DEF IInv, Accounts

(* Rows that wait, or are encoded again, become a job.                       *)
LEMMA JobStep ==
  ASSUME IInv, Busy, Busy', NEW q \in Seq(Nat), Listed(q), ToSet(q) \subseteq ToSet(waiting) \cup ToSet(reencode),
         ToSet(waiting) \cap ToSet(reencode) = {},
         jobs' = Append(jobs, [rows |-> q, done |-> FALSE]),
         waiting' \in Seq(Nat), Listed(waiting'), ToSet(waiting') = ToSet(waiting) \ ToSet(q),
         reencode' \in Seq(Nat), Listed(reencode'), ToSet(reencode') = ToSet(reencode) \ ToSet(q),
         ToSet(q) \cap Back \subseteq ToSet(reencode), pc' \in PCs, Phases',
         UNCHANGED <<load, source, rowVars, ready, taken, slot, order, kept, reencoding, resuming,
                     reserved, cached, growth, pend, ends>>
  PROVE  IInv'
<1>1. /\ TypeInv /\ Accounts /\ JobsApart(jobs) /\ \A r \in Nat : Placed(r) = In(r, Live)
      /\ jobs \in Seq(JobType) /\ ToSet(q) \subseteq Nat
  BY PlacesLive, RangeIn DEF IInv, Accounts, Accounted, Apart, TypeInv
<1> DEFINE job == [rows |-> q, done |-> FALSE]
<1>2. job \in JobType /\ Lists(job.rows, ToSet(q)) /\ job.rows = q
  BY DEF JobType, Listed
<1>3. ToSet(q) \cap JobRows(jobs) = {}
  <2>1. ASSUME NEW r \in ToSet(q), r \in JobRows(jobs) PROVE FALSE
    <3>1. Placed(r) = In(r, Live) /\ r \in ToSet(waiting) \cup ToSet(reencode)
      BY <1>1
    <3>2. QED
      BY <2>1, <3>1 DEF Placed, In
  <2>2. QED
    BY <2>1
<1> HIDE DEF job
<1>4. /\ Append(jobs, job) \in Seq(JobType)
      /\ JobsApart(Append(jobs, job)) /\ JobRows(Append(jobs, job)) = JobRows(jobs) \cup ToSet(q)
  BY <1>1, <1>2, <1>3, JobsAppend
<1>5. jobs' = Append(jobs, job)
  BY DEF job
<1>6. /\ UNCHANGED <<Active, Live, ReadyRows, TakenRows, EndedRows, MaxTickets, Back>>
      /\ UNCHANGED <<ready, taken, finished, fallbackReady, preemptedReady, tsReady, aligning, slot, order, reserved>>
  BY DEF rowVars, growth, ends, Active, Live, ReadyRows, TakenRows, EndedRows, RowsOf, MaxTickets, Back
<1>7. Accounted'
  <2>1. Apart'
    BY <1>1, <1>4, <1>5, <1>6 DEF Accounts, Accounted, Apart, RowsOf
  <2>2. ASSUME NEW r \in Nat PROVE Placed(r)' = In(r, Live')
    <3>1. Placed(r) = In(r, Live)
      BY <1>1
    <3>2. JobRows(jobs') = JobRows(jobs) \cup ToSet(q)
      BY <1>4, <1>5
    <3>3. In(r, JobRows(jobs')) = In(r, JobRows(jobs)) + In(r, ToSet(q))
      <4>1. Splits(JobRows(jobs'), JobRows(jobs), ToSet(q))
        BY <1>3, <3>2 DEF Splits
      <4>2. QED
        BY <4>1, InSplit
    <3>4. In(r, ToSet(waiting')) + In(r, ToSet(reencode')) + In(r, ToSet(q))
            = In(r, ToSet(waiting)) + In(r, ToSet(reencode))
      BY DEF In
    <3>5. QED
      BY <1>6, <3>1, <3>3, <3>4 DEF Placed, In
  <2>3. QED
    BY <2>1, <2>2 DEF Accounted, In
<1>8. KeptInv'
  <2>1. KeptInv
    BY <1>1 DEF Accounts
  <2>2. JobRows(jobs)' = JobRows(jobs) \cup ToSet(q)
    BY <1>4, <1>5
  <2>3. Held' = Held
    BY <1>6, <2>1, <2>2 DEF Held, InEncoder, KeptInv
  <2>4. Shares(Held)' = Shares(Held)
    BY <2>3 DEF Shares
  <2>5. InEncoder \cup ReadyRows \cup TakenRows \cup ToSet(preemptedReady)
          \subseteq (InEncoder \cup ReadyRows \cup TakenRows \cup ToSet(preemptedReady))' \cup ToSet(waiting)
    BY <1>6, <2>2 DEF InEncoder
  <2>6. ASSUME NEW r \in Back
        PROVE  r \in (InEncoder \cup ReadyRows \cup TakenRows \cup ToSet(preemptedReady))'
    <3>1. r \in InEncoder \cup ReadyRows \cup TakenRows \cup ToSet(preemptedReady)
      BY <2>1 DEF KeptInv
    <3>2. QED
      BY <1>6, <2>2, <3>1 DEF InEncoder
  <2>7. QED
    BY <1>6, <2>1, <2>3, <2>4, <2>6 DEF KeptInv
<1>9. Numbered' /\ Reserved'
  BY <1>1, <1>6 DEF Accounts, Numbered, Reserved, rowVars, source
<1>10. TypeInv'
  BY <1>1, <1>4, <1>5, <1>6 DEF TypeInv, source, rowVars, growth, pend, ends
<1>11. QED
  BY <1>7, <1>8, <1>9, <1>10 DEF IInv, Accounts

LEMMA KeepsLaunchResumed == IInv /\ LaunchResumed => IInv'
<1> SUFFICES ASSUME IInv, LaunchResumed PROVE IInv'
  OBVIOUS
<1>1. /\ pc = "launch" /\ jobs' = Append(jobs, [rows |-> reencode, done |-> FALSE])
      /\ reencode' = <<>>
      /\ UNCHANGED <<pc, load, source, rowVars, waiting, ready, taken, slot, order, kept,
                     reencoding, resuming, reserved, cached, growth, pend, ends>>
  BY DEF LaunchResumed
<1>2. Busy /\ Busy' /\ pc' \in PCs /\ TypeInv
  BY <1>1 DEF Busy, PCs, IInv
<1>3. /\ Accounts /\ reencode \in Seq(Nat) /\ waiting \in Seq(Nat) /\ Listed(reencode) /\ Listed(waiting)
      /\ ToSet(waiting) \subseteq Nat
  BY <1>2, PlacesLive, RangeIn DEF TypeInv, Accounts, Accounted, Apart
<1>4. ToSet(waiting) \cap ToSet(reencode) = {}
  <2>1. ASSUME NEW r \in ToSet(waiting), r \in ToSet(reencode) PROVE FALSE
    <3>1. Placed(r) = In(r, Live)
      BY <1>3 DEF Accounts, Accounted
    <3>2. QED
      BY <2>1, <3>1 DEF Placed, In
  <2>2. QED
    BY <2>1
<1>5. ToSet(<<>>) = {} /\ Listed(<<>>)
  BY ListsEmpty, ListedIs
<1>6. Phases'
  BY <1>1 DEF IInv, Phases, growth, ends
<1>7. /\ waiting' = waiting /\ reencode' \in Seq(Nat) /\ Listed(reencode')
      /\ ToSet(reencode') = ToSet(reencode) \ ToSet(reencode) /\ ToSet(waiting) = ToSet(waiting) \ ToSet(reencode)
  BY <1>1, <1>4, <1>5
<1>8. QED
  BY <1>1, <1>2, <1>3, <1>4, <1>6, <1>7, JobStep

LEMMA KeepsSubmit == IInv /\ Submit => IInv'
<1> SUFFICES ASSUME IInv, Submit PROVE IInv'
  OBVIOUS
<1> DEFINE count == Least(Wanted, Len(waiting))
<1>1. /\ pc = "submit"
      /\ UNCHANGED <<load, source, rowVars, ready, taken, kv, growth, pend, ends>>
      /\ IF count = 0
         THEN pc' = Launched /\ UNCHANGED <<jobs, waiting>>
         ELSE /\ pc' = "launch"
              /\ jobs' = Append(jobs, [rows |-> SubSeq(waiting, 1, count), done |-> FALSE])
              /\ waiting' = SubSeq(waiting, count + 1, Len(waiting))
  BY DEF Submit
<1>2. Busy /\ TypeInv
  BY <1>1 DEF Busy, IInv
<1>3. CASE count = 0
  <2>1. UNCHANGED Rest /\ pc' = Launched
    BY <1>1, <1>3 DEF Rest, queues
  <2>2. Phases'
    <3>1. pc' # "cancel" /\ pc # "grow" /\ (taken # <<>> => pc' \in {"launch", "submit", "place"})
      BY <1>1, <2>1 DEF Launched
    <3>2. QED
      BY <2>1, <3>1, PhaseStep DEF IInv, Rest, queues, kv, growth, ends
  <2>3. pc' \in PCs
    BY <2>1 DEF Launched, PCs
  <2>4. QED
    BY <1>2, <2>1, <2>2, <2>3, PcStep
<1>4. CASE count # 0
  <2> DEFINE q == SubSeq(waiting, 1, count)
  <2>1. /\ waiting \in Seq(Nat) /\ Listed(waiting) /\ ToSet(waiting) \subseteq Nat
        /\ reencode \in Seq(Nat) /\ Listed(reencode) /\ Accounts /\ Len(waiting) \in Nat
    BY <1>2, PlacesLive, RangeIn DEF TypeInv, Accounts, Accounted, Apart
  <2>2. count \in 0 .. Len(waiting)
    <3>1. Wanted \in Int /\ Wanted >= 1
      <4> DEFINE more == IF Cold THEN NumSlots ELSE Group
      <4>1. EncoderAhead \in Int /\ EncoderAhead >= 1 /\ more \in Int /\ more >= 1
        BY EngineAssumption
      <4> HIDE DEF more
      <4>2. \E m \in {EncoderAhead, more} : \A n \in {EncoderAhead, more} : m >= n
        BY <4>1
      <4>3. Max({EncoderAhead, more}) \in {EncoderAhead, more}
        BY <4>2 DEF Max
      <4>4. Wanted = Max({EncoderAhead, more})
        BY DEF Wanted, more
      <4>5. QED
        BY <4>1, <4>3, <4>4
    <3>2. QED
      BY <2>1, <3>1 DEF Least
  <2> HIDE DEF count
  <2>3. /\ Lists(q, ToSet(q)) /\ Lists(SubSeq(waiting, count + 1, Len(waiting)), ToSet(waiting) \ ToSet(q))
        /\ ToSet(q) \subseteq ToSet(waiting)
    BY <2>1, <2>2, ListsPart DEF Listed
  <2>4. q \in Seq(Nat) /\ SubSeq(waiting, count + 1, Len(waiting)) \in Seq(Nat)
    BY <2>1, <2>2
  <2> HIDE DEF q
  <2>5. ToSet(waiting) \cap ToSet(reencode) = {}
    <3>1. ASSUME NEW r \in ToSet(waiting), r \in ToSet(reencode) PROVE FALSE
      <4>1. Placed(r) = In(r, Live)
        BY <2>1 DEF Accounts, Accounted
      <4>2. QED
        BY <3>1, <4>1 DEF Placed, In
    <3>2. QED
      BY <3>1
  <2>6. /\ waiting' \in Seq(Nat) /\ Listed(waiting') /\ ToSet(waiting') = ToSet(waiting) \ ToSet(q)
        /\ reencode' = reencode /\ ToSet(reencode') = ToSet(reencode) \ ToSet(q)
        /\ jobs' = Append(jobs, [rows |-> q, done |-> FALSE]) /\ Listed(q)
    BY <1>1, <1>4, <2>3, <2>4, <2>5, ListedIs DEF q, kv
  <2>7. ToSet(q) \cap Back = {}
    <3>1. \A r \in ToSet(q) : r \in ToSet(waiting) /\ r \in Nat
      BY <2>1, <2>3
    <3>2. ASSUME NEW r \in ToSet(q)
          PROVE  r \notin InEncoder \cup ReadyRows \cup TakenRows \cup ToSet(preemptedReady)
      <4>1. Placed(r) = In(r, Live) /\ r \in ToSet(waiting)
        BY <2>1, <3>1 DEF Accounts, Accounted
      <4>2. QED
        BY <4>1 DEF Placed, In, InEncoder
    <3>3. QED
      BY <2>1, <3>2 DEF Accounts, KeptInv
  <2>8. pc' = "launch" /\ Busy' /\ pc' \in PCs
    BY <1>1, <1>4 DEF Busy, PCs
  <2>9. Phases'
    BY <1>1, <2>8 DEF IInv, Phases, kv, growth, ends
  <2>10. UNCHANGED <<load, source, rowVars, ready, taken, slot, order, kept, reencoding, resuming,
                     reserved, cached, growth, pend, ends>>
    BY <1>1 DEF kv
  <2>11. QED
    BY <1>2, <2>1, <2>3, <2>4, <2>5, <2>6, <2>7, <2>8, <2>9, <2>10, JobStep
<1>5. QED
  BY <1>3, <1>4

-----------------------------------------------------------------------------
(* Requests are pulled.                                                      *)

NewRows(new, n, k) ==
  /\ n \in Nat /\ k = Least(n, Len(freeRows))
  /\ new = [i \in 1 .. n |-> RowFor(i)]

LEMMA RowsNew ==
  ASSUME IInv, Busy, NEW new, NEW n, NEW k, NewRows(new, n, k)
  PROVE  /\ new \in Seq(Nat) /\ Once(new) /\ Len(new) = n /\ DOMAIN new = 1 .. n
         /\ ToSet(new) \cap Live = {}
         /\ ToSet(new) \subseteq 1 .. Len(row) + n - k
         /\ (1 .. Len(row) + n - k) \ ToSet(new) \subseteq 1 .. Len(row)
         /\ Lists(SubSeq(freeRows, 1, Len(freeRows) - k), (1 .. Len(row)) \ (Live \cup ToSet(new)))
         /\ n - k \in Nat
<1> DEFINE f == Len(freeRows)
           m == Len(row)
           F == DOMAIN row \ Live
<1>1. /\ Lists(freeRows, F) /\ row \in Seq(RowType)
  BY PlacesLive DEF IInv, TypeInv, Accounts, Numbered
<1>2. /\ f \in Nat /\ m \in Nat /\ DOMAIN row = 1 .. m /\ DOMAIN freeRows = 1 .. f
      /\ \A i \in 1 .. f : freeRows[i] \in F
      /\ \A i, j \in 1 .. f : freeRows[i] = freeRows[j] => i = j
      /\ \A a \in F : \E i \in 1 .. f : freeRows[i] = a
  BY <1>1 DEF Lists, Once
<1>3. /\ n \in Nat /\ k \in Nat /\ k <= n /\ k <= f /\ (k = n \/ k = f)
      /\ new = [i \in 1 .. n |-> RowFor(i)]
  <2>1. n \in Nat /\ k = Least(n, f) /\ new = [i \in 1 .. n |-> RowFor(i)]
    BY DEF NewRows
  <2>2. k \in Nat /\ k <= n /\ k <= f /\ (k = n \/ k = f)
    <3> HIDE DEF f
    <3>1. QED
      BY <1>2, <2>1 DEF Least
  <2>3. QED
    BY <2>1, <2>2
<1>18. f = Len(freeRows) /\ m = Len(row)
  OBVIOUS
<1>4. \A i \in 1 .. n : new[i] = IF i <= f THEN freeRows[f - i + 1] ELSE m + i - f
  BY <1>3 DEF RowFor
<1>5. F \subseteq 1 .. m /\ F \cap Live = {} /\ Live \subseteq 1 .. m
  BY <1>2 DEF Live
<1> HIDE DEF f, m, F
<1>6. \A i \in 1 .. n : i <= f => f - i + 1 \in 1 .. f /\ new[i] = freeRows[f - i + 1] /\ new[i] \in F
  BY <1>2, <1>3, <1>4
<1>7. \A i \in 1 .. n : i > f => new[i] = m + i - f /\ new[i] > m /\ new[i] <= m + n - k
  BY <1>2, <1>3, <1>4
<1>8. \A i \in 1 .. n : new[i] \in Nat /\ new[i] \notin Live /\ new[i] \in 1 .. m + n - k
  <2>1. ASSUME NEW i \in 1 .. n PROVE new[i] \in Nat /\ new[i] \notin Live /\ new[i] \in 1 .. m + n - k
    <3>1. CASE i <= f
      <4>1. new[i] \in F /\ new[i] \in 1 .. m
        BY <1>5, <1>6, <3>1
      <4>2. QED
        BY <1>2, <1>3, <1>5, <4>1
    <3>2. CASE i > f
      BY <1>2, <1>3, <1>5, <1>7, <3>2
    <3>3. QED
      BY <1>2, <3>1, <3>2
  <2>2. QED
    BY <2>1
<1>9. new \in Seq(Nat) /\ Len(new) = n /\ DOMAIN new = 1 .. n
  BY <1>3, <1>8
<1>10. Once(new)
  <2>1. ASSUME NEW i \in 1 .. n, NEW j \in 1 .. n, new[i] = new[j] PROVE i = j
    <3>1. CASE i <= f /\ j <= f
      <4>1. f - i + 1 = f - j + 1
        BY <1>2, <1>6, <2>1, <3>1
      <4>2. QED
        BY <1>2, <4>1
    <3>2. CASE i > f /\ j > f
      BY <1>2, <1>7, <2>1, <3>2
    <3>3. CASE (i <= f /\ j > f) \/ (i > f /\ j <= f)
      BY <1>2, <1>5, <1>6, <1>7, <2>1, <3>3
    <3>4. QED
      BY <1>2, <3>1, <3>2, <3>3
  <2>2. QED
    BY <1>9, <2>1 DEF Once
<1>11. ToSet(new) = {new[i] : i \in 1 .. n}
  BY <1>9 DEF ToSet
<1>12. (1 .. m + n - k) \ ToSet(new) \subseteq 1 .. m
  <2>1. ASSUME NEW r \in 1 .. m + n - k, r > m PROVE r \in ToSet(new)
    <3>1. r - m + f \in 1 .. n /\ r - m + f > f /\ m + (r - m + f) - f = r
      BY <1>2, <1>3, <2>1
    <3>2. QED
      BY <1>7, <1>11, <3>1
  <2>2. QED
    BY <1>2, <1>3, <2>1
<1> DEFINE first == SubSeq(freeRows, 1, f - k)
<1>13. Lists(first, ToSet(first)) /\ ToSet(first) = {freeRows[i] : i \in 1 .. f - k}
  <2>3. f - k \in 0 .. f
    BY <1>2, <1>3
  <2>1. f - k \in 0 .. Len(freeRows)
    BY <1>18, <2>3
  <2>2. QED
    BY <1>1, <2>1, ListsPart
<1> HIDE DEF first
<1>14. ToSet(first) = (1 .. m) \ (Live \cup ToSet(new))
  <2>1. ASSUME NEW i \in 1 .. f - k PROVE freeRows[i] \in F /\ freeRows[i] \notin ToSet(new)
    <3>1. i \in 1 .. f
      BY <1>2, <1>3
    <3>2. ASSUME NEW j \in 1 .. n, new[j] = freeRows[i] PROVE FALSE
      <4>1. j <= f
        BY <1>2, <1>5, <1>7, <3>1, <3>2
      <4>2. f - j + 1 = i
        BY <1>2, <1>6, <3>1, <3>2, <4>1
      <4>3. QED
        BY <1>2, <1>3, <4>1, <4>2
    <3>3. QED
      BY <1>2, <1>11, <3>1, <3>2
  <2>2. ASSUME NEW a \in (1 .. m) \ (Live \cup ToSet(new)) PROVE a \in ToSet(first)
    <3>1. a \in F
      BY <1>2 DEF F
    <3>2. PICK i \in 1 .. f : freeRows[i] = a
      BY <1>2, <3>1
    <3>3. ASSUME i > f - k PROVE FALSE
      <4>1. f - i + 1 \in 1 .. n /\ f - i + 1 <= f /\ f - (f - i + 1) + 1 = i
        BY <1>2, <1>3, <3>3
      <4>2. new[f - i + 1] = a
        BY <1>6, <3>2, <4>1
      <4>3. QED
        BY <1>11, <2>2, <4>1, <4>2
    <3>4. i \in 1 .. f - k
      BY <1>2, <1>3, <3>3
    <3>5. QED
      BY <1>13, <3>2, <3>4
  <2>3. QED
    BY <1>5, <1>13, <2>1, <2>2
<1>15. n - k \in Nat
  BY <1>3
<1>19. first = SubSeq(freeRows, 1, Len(freeRows) - k)
  BY <1>18 DEF first
<1>20. ToSet(new) \cap Live = {} /\ ToSet(new) \subseteq 1 .. m + n - k
  BY <1>8, <1>11
<1>16. QED
  BY <1>9, <1>10, <1>12, <1>13, <1>14, <1>15, <1>18, <1>19, <1>20

LEMMA TakeStep ==
  ASSUME IInv, Busy, Busy', NEW n \in Nat, Take(n), pc' \in PCs, Phases',
         UNCHANGED <<load, jobs, ready, taken, kv, growth, pend, tsReady, aligning>>
  PROVE  IInv'
<1> DEFINE new == [i \in 1 .. n |-> RowFor(i)]
           k == Least(n, Len(freeRows))
           bad == {new[i] : i \in {j \in 1 .. n : load.kinds[next + j] = "invalid"}}
           size == Len(row) + n - k
           N == ToSet(new)
<1>1. /\ next + n <= MaxTickets /\ next' = next + n /\ open' \in BOOLEAN
      /\ row' = [r \in 1 .. size |->
             IF r \in N
             THEN [ticket |-> next + (CHOOSE i \in 1 .. n : new[i] = r) - 1,
                   live |-> TRUE, cancel |-> FALSE, second |-> FALSE]
             ELSE row[r]]
      /\ freeRows' = SubSeq(freeRows, 1, Len(freeRows) - k)
      /\ waiting' = waiting \o Without(new, bad)
      /\ finished' = finished \o Results(Only(new, bad), "error")
  BY DEF Take
<1>2. NewRows(new, n, k)
  BY DEF NewRows
<1>3. /\ new \in Seq(Nat) /\ Once(new) /\ DOMAIN new = 1 .. n
      /\ N \cap Live = {} /\ N \subseteq 1 .. size
      /\ (1 .. size) \ N \subseteq 1 .. Len(row)
      /\ Lists(freeRows', (1 .. Len(row)) \ (Live \cup N)) /\ n - k \in Nat
  BY <1>1, <1>2, RowsNew
<1> HIDE DEF new, bad, k
<1>4. /\ TypeInv /\ Accounts /\ Live \subseteq DOMAIN row /\ row \in Seq(RowType)
      /\ MaxTickets \in Nat /\ next \in Nat /\ \A r \in Nat : Placed(r) = In(r, Live)
      /\ Len(row) <= next
  BY PlacesLive DEF IInv, TypeInv, Accounts, Accounted, Numbered
<1>5. size \in Nat /\ Len(row) <= size /\ Len(row) \in Nat /\ DOMAIN row = 1 .. Len(row)
      /\ size = Len(row) + (n - k) /\ N = {new[i] : i \in 1 .. n}
  BY <1>3, <1>4 DEF ToSet
<1> DEFINE at(r) == CHOOSE i \in 1 .. n : new[i] = r
<1>6. ASSUME NEW r \in N PROVE at(r) \in 1 .. n /\ new[at(r)] = r
  BY <1>5
<1> HIDE DEF size, N, at
<1>7. /\ DOMAIN row' = 1 .. size
      /\ \A r \in N : r \in 1 .. size /\ row'[r] = [ticket |-> next + at(r) - 1, live |-> TRUE,
                                                   cancel |-> FALSE, second |-> FALSE]
      /\ \A r \in (1 .. size) \ N : row'[r] = row[r] /\ r \in DOMAIN row
  BY <1>1, <1>3, <1>5 DEF at
<1>8. row' \in Seq(RowType) /\ Len(row') = size
  <2>1. \A r \in N : next + at(r) - 1 \in Nat
    BY <1>4, <1>6
  <2>2. ASSUME NEW r \in N PROVE row'[r] \in RowType
    <3>1. row'[r] = [ticket |-> next + at(r) - 1, live |-> TRUE, cancel |-> FALSE, second |-> FALSE]
      BY <1>7
    <3>2. next + at(r) - 1 \in Nat
      BY <2>1
    <3>3. QED
      BY <3>1, <3>2 DEF RowType
  <2>3. \A r \in DOMAIN row : row[r] \in RowType
    BY <1>4
  <2>4. \A r \in 1 .. size : row'[r] \in RowType
    BY <1>7, <2>2, <2>3
  <2>5. row' \in [1 .. size -> RowType]
    BY <1>1, <2>4
  <2>6. QED
    BY <1>5, <2>5, SeqDef
<1>9. Live' = Live \cup N
  <2>1. ASSUME NEW r \in Live PROVE r \in Live'
    <3>1. r \in (1 .. size) \ N
      BY <1>3, <1>4, <1>5
    <3>2. QED
      BY <1>7, <3>1 DEF Live
  <2>2. ASSUME NEW r \in N PROVE r \in Live'
    <3>1. row'[r] = [ticket |-> next + at(r) - 1, live |-> TRUE, cancel |-> FALSE, second |-> FALSE]
      BY <1>7
    <3>2. row'[r].live /\ r \in DOMAIN row'
      BY <1>7, <3>1
    <3>3. QED
      BY <3>2 DEF Live
  <2>3. ASSUME NEW r \in Live', r \notin N PROVE r \in Live
    BY <1>7, <2>3 DEF Live
  <2>4. QED
    BY <2>1, <2>2, <2>3
<1>10. Numbered'
  <2>1. /\ Lists(freeRows, DOMAIN row \ Live)
        /\ \A r \in Live : row[r].ticket < next
        /\ \A r, q \in Live : row[r].ticket = row[q].ticket => r = q
    BY <1>4 DEF Accounts, Numbered
  <2>2. (1 .. Len(row)) \ (Live \cup N) = DOMAIN row' \ Live'
    BY <1>3, <1>5, <1>7, <1>9
  <2>3. \A r \in Live : row'[r] = row[r] /\ row'[r].ticket < next
    BY <1>3, <1>4, <1>5, <1>7, <2>1
  <2>4. ASSUME NEW r \in Live PROVE row[r].ticket \in Nat
    <3>1. row[r] \in RowType
      BY <1>4
    <3>2. QED
      BY <3>1 DEF RowType
  <2>5. ASSUME NEW r \in N
        PROVE  /\ row'[r].ticket = next + at(r) - 1 /\ row'[r].ticket >= next
               /\ row'[r].ticket < next + n /\ row'[r].ticket \in Nat
    <3>1. row'[r].ticket = next + at(r) - 1
      <4>1. row'[r] = [ticket |-> next + at(r) - 1, live |-> TRUE, cancel |-> FALSE, second |-> FALSE]
        BY <1>7
      <4>2. QED
        BY <4>1
    <3>2. at(r) \in 1 .. n
      BY <1>6
    <3>3. QED
      BY <1>4, <3>1, <3>2
  <2>6. \A r, q \in N : row'[r].ticket = row'[q].ticket => r = q
    BY <1>4, <1>6, <2>5
  <2>7. ASSUME NEW r \in Live' PROVE row'[r].ticket < next'
    <3>1. CASE r \in N
      BY <1>1, <2>5, <3>1
    <3>2. CASE r \in Live
      <4>1. row'[r].ticket < next /\ row'[r].ticket \in Nat
        <5>1. row'[r] = row[r] /\ row'[r].ticket < next
          BY <2>3, <3>2
        <5>2. row[r].ticket \in Nat
          BY <2>4, <3>2
        <5>3. QED
          BY <5>1, <5>2
      <4>2. next' = next + n /\ next \in Nat
        BY <1>1, <1>4
      <4>3. QED
        BY <4>1, <4>2
    <3>3. QED
      BY <1>9, <3>1, <3>2
  <2>8. ASSUME NEW r \in Live', NEW q \in Live', row'[r].ticket = row'[q].ticket PROVE r = q
    <3>1. CASE r \in N /\ q \in N
      BY <2>6, <2>8, <3>1
    <3>2. CASE r \in Live /\ q \in Live
      BY <2>1, <2>3, <2>8, <3>2
    <3>3. CASE (r \in Live /\ q \in N) \/ (r \in N /\ q \in Live)
      BY <1>4, <2>3, <2>4, <2>5, <2>8, <3>3
    <3>4. QED
      BY <1>9, <3>1, <3>2, <3>3
  <2>9. Len(row') <= next' /\ next' <= MaxTickets'
    <3>1. k \in Nat /\ MaxTickets' = MaxTickets
      BY <1>5 DEF MaxTickets, k, Least
    <3>2. QED
      BY <1>1, <1>4, <1>5, <1>8, <3>1
  <2>10. QED
    BY <1>3, <2>2, <2>7, <2>8, <2>9 DEF Numbered
<1>11. /\ waiting' \in Seq(Nat) /\ Listed(waiting') /\ ToSet(waiting') = ToSet(waiting) \cup (N \ bad)
       /\ finished' \in Seq(ResultType) /\ Listed(RowsOf(finished'))
       /\ EndedRows' = EndedRows \cup (N \cap bad)
       /\ (N \ bad) \cap ToSet(waiting) = {} /\ (N \cap bad) \cap EndedRows = {}
  <2>1. Lists(new, N)
    BY <1>3, OnceLists DEF N
  <2>2. Lists(Without(new, bad), N \ bad) /\ Lists(Only(new, bad), N \cap bad)
    BY <2>1, ListsOnly
  <2>3. Without(new, bad) \in Seq(Nat) /\ Only(new, bad) \in Seq(Nat)
    BY <1>3, OnlyPicks DEF Without
  <2>4. ToSet(waiting) \subseteq Live /\ EndedRows \subseteq Live
    BY PlacesLive
  <2>5. Lists(waiting, ToSet(waiting)) /\ waiting \in Seq(Nat)
    BY <1>4 DEF Accounts, Accounted, Apart, Listed, TypeInv
  <2>6. (N \ bad) \cap ToSet(waiting) = {} /\ (N \cap bad) \cap EndedRows = {}
        /\ ToSet(waiting) \cap (N \ bad) = {}
    BY <1>3, <2>4
  <2>7. Lists(waiting \o Without(new, bad), ToSet(waiting) \cup (N \ bad))
    BY <2>2, <2>5, <2>6, ListsConcat
  <2>8. waiting \o Without(new, bad) \in Seq(Nat)
    BY <2>3, <2>5
  <2> DEFINE es == Results(Only(new, bad), "error")
  <2>9. es \in Seq(ResultType) /\ RowsOf(es) = Only(new, bad)
    BY <2>3, ResultsAre
  <2> HIDE DEF es
  <2>10. /\ finished \o es \in Seq(ResultType) /\ Listed(RowsOf(finished \o es))
         /\ ToSet(RowsOf(finished \o es)) = EndedRows \cup (N \cap bad)
    BY <2>2, <2>6, <2>9, EndsMore
  <2>11. finished' = finished \o es
    BY <1>1 DEF es
  <2>12. QED
    BY <1>1, <2>6, <2>7, <2>8, <2>10, <2>11, ListedIs DEF EndedRows
<1>12. /\ UNCHANGED <<Active, ReadyRows, TakenRows, InEncoder>>
       /\ UNCHANGED <<jobs, reencode, ready, taken, fallbackReady, preemptedReady, slot, order,
                      tsReady, aligning, kept, reencoding, resuming, reserved>>
  BY DEF kv, growth, Active, ReadyRows, TakenRows, RowsOf, InEncoder
<1>13. Accounted'
  <2>1. Apart'
    BY <1>4, <1>11, <1>12 DEF Accounts, Accounted, Apart, RowsOf
  <2>2. ASSUME NEW r \in Nat PROVE Placed(r)' = In(r, Live')
    <3>1. In(r, ToSet(waiting')) = In(r, ToSet(waiting)) + In(r, N \ bad)
      <4>1. Splits(ToSet(waiting'), ToSet(waiting), N \ bad)
        BY <1>11 DEF Splits
      <4>2. QED
        BY <4>1, InSplit
    <3>2. In(r, EndedRows') = In(r, EndedRows) + In(r, N \cap bad)
      <4>1. Splits(EndedRows', EndedRows, N \cap bad)
        BY <1>11 DEF Splits
      <4>2. QED
        BY <4>1, InSplit
    <3>3. In(r, Live') = In(r, Live) + In(r, N) /\ In(r, N) = In(r, N \ bad) + In(r, N \cap bad)
      BY <1>3, <1>9 DEF In
    <3>4. Placed(r) = In(r, Live)
      BY <1>4
    <3>5. QED
      BY <1>12, <3>1, <3>2, <3>3, <3>4 DEF Placed, In
  <2>3. QED
    BY <2>1, <2>2 DEF Accounted, In
<1>14. KeptInv'
  BY <1>4, <1>9, <1>12, KeptSame DEF Accounts
<1>15. Reserved'
  BY <1>4, <1>12 DEF Accounts, Reserved
<1>16. TypeInv'
  <2>1. next' \in Nat /\ MaxTickets' = MaxTickets
    BY <1>1, <1>4 DEF MaxTickets
  <2>2. QED
    BY <1>1, <1>4, <1>8, <1>11, <2>1 DEF TypeInv, kv, growth, pend
<1>17. QED
  BY <1>10, <1>13, <1>14, <1>15, <1>16 DEF IInv, Accounts

LEMMA KeepsLaunchTake == IInv /\ LaunchTake => IInv'
<1> SUFFICES ASSUME IInv, LaunchTake PROVE IInv'
  OBVIOUS
<1>1. /\ pc = "launch"
      /\ UNCHANGED <<load, jobs, ready, taken, kv, growth, pend, tsReady, aligning>>
      /\ \/ /\ pc' = "submit"
            /\ \/ \E n \in 0 .. Wanted - Len(waiting) : Take(n)
               \/ UNCHANGED <<source, rowVars, waiting, finished>>
         \/ /\ pc' = Launched
            /\ UNCHANGED <<source, rowVars, waiting, finished>>
  BY DEF LaunchTake
<1>2. Busy /\ pc' \in {"submit", "idle", "place"} /\ (taken # <<>> => pc' # "idle")
  BY <1>1 DEF Busy, Launched
<1>3. Busy' /\ pc' \in PCs
  BY <1>2 DEF Busy, PCs
<1>4. Phases'
  <2>1. UNCHANGED <<taken, order, fallbackReady, preemptedReady>>
    BY <1>1 DEF kv, growth
  <2>2. QED
    BY <1>1, <1>2, <2>1 DEF IInv, Phases
<1>5. CASE pc' = "submit" /\ \E n \in 0 .. Wanted - Len(waiting) : Take(n)
  <2>1. PICK n \in 0 .. Wanted - Len(waiting) : Take(n)
    BY <1>5
  <2>2. n \in Nat
    OBVIOUS
  <2>3. QED
    BY <1>1, <1>2, <1>3, <1>4, <2>1, <2>2, TakeStep
<1>6. CASE UNCHANGED <<source, rowVars, waiting, finished>>
  <2>1. UNCHANGED Rest
    BY <1>1, <1>6 DEF Rest, queues, ends
  <2>2. QED
    BY <1>2, <1>3, <1>4, <2>1, PcStep
<1>7. QED
  BY <1>1, <1>5, <1>6

LEMMA KeepsPoll == IInv /\ Poll => IInv'
<1> SUFFICES ASSUME IInv, Poll PROVE IInv'
  OBVIOUS
<1>1. /\ pc = "idle" /\ pc' = "top" /\ \E n \in 0 .. NumSlots : Take(n)
      /\ UNCHANGED <<load, jobs, ready, taken, kv, growth, pend, tsReady, aligning>>
  BY DEF Poll
<1>2. PICK n \in 0 .. NumSlots : Take(n)
  BY <1>1
<1>3. Busy /\ Busy' /\ pc' \in PCs /\ n \in Nat
  BY <1>1 DEF Busy, PCs
<1>4. Phases'
  BY <1>1 DEF IInv, Phases, kv, growth
<1>5. QED
  BY <1>1, <1>2, <1>3, <1>4, TakeStep

LEMMA KeepsAwaitWork == IInv /\ AwaitWork => IInv'
<1> SUFFICES ASSUME IInv, AwaitWork PROVE IInv'
  OBVIOUS
<1>1. /\ pc = "idletake" /\ pc' = "top" /\ \E n \in 0 .. NumSlots : Take(n)
      /\ UNCHANGED <<load, jobs, ready, taken, kv, growth, pend, tsReady, aligning>>
  BY DEF AwaitWork
<1>2. PICK n \in 0 .. NumSlots : Take(n)
  BY <1>1
<1>3. Busy /\ Busy' /\ pc' \in PCs /\ n \in Nat
  BY <1>1 DEF Busy, PCs
<1>4. Phases'
  BY <1>1 DEF IInv, Phases, kv, growth
<1>5. QED
  BY <1>1, <1>2, <1>3, <1>4, TakeStep

-----------------------------------------------------------------------------
(* Rows that leave their slots, or the encoder.                              *)

LEMMA ListsByTicket ==
  ASSUME NEW S, IsFiniteSet(S), \A r \in S : row[r].ticket \in Nat,
         \A r, q \in S : row[r].ticket = row[q].ticket => r = q
  PROVE  Lists(ByTicket(S), S)
<1> DEFINE key == [x \in S |-> row[x].ticket]
           q == ByTicket(S)
<1>1. q = [k \in 1 .. Cardinality(S) |->
             CHOOSE x \in S : Cardinality({y \in S : row[y].ticket < row[x].ticket}) = k - 1]
  BY DEF ByTicket, Sorted
<1>2. \A x \in S : Below(key, S, x) = {y \in S : row[y].ticket < row[x].ticket}
  BY DEF Below
<1>3. \A k \in 1 .. Cardinality(S) : q[k] = CHOOSE x \in S : Cardinality(Below(key, S, x)) = k - 1
  BY <1>1, <1>2
<1>4. key \in [S -> Nat] /\ \A x, y \in S : key[x] = key[y] => x = y
  OBVIOUS
<1>5. q = [k \in 1 .. Cardinality(S) |-> q[k]]
  BY <1>1
<1> HIDE DEF key, q
<1>6. Ranks(q, S, key)
  BY <1>3, <1>4, <1>5 DEF Ranks
<1>7. Lists(q, S)
  BY <1>6, Ranked
<1>8. QED
  BY <1>7 DEF q

LEMMA LiveByTicket ==
  ASSUME IInv, Busy, NEW S \in SUBSET Live
  PROVE  /\ Lists(ByTicket(S), S) /\ ByTicket(S) \in Seq(Nat) /\ IsFiniteSet(S)
<1>1. /\ Accounts /\ Live \subseteq DOMAIN row /\ DOMAIN row \subseteq 1 .. MaxTickets /\ MaxTickets \in Nat
      /\ row \in Seq(RowType)
  BY PlacesLive DEF IInv, TypeInv
<1>2. IsFiniteSet(S)
  <2>1. 1 \in Int /\ MaxTickets \in Int /\ S \in SUBSET (1 .. MaxTickets)
    BY <1>1
  <2>2. IsFiniteSet(1 .. MaxTickets)
    BY <2>1, FS_Interval
  <2>3. QED
    BY <2>1, <2>2, FS_Subset
<1>3. ASSUME NEW r \in S PROVE row[r].ticket \in Nat
  <2>1. row[r] \in RowType
    BY <1>1
  <2>2. QED
    BY <2>1 DEF RowType
<1>4. \A r, q \in S : row[r].ticket = row[q].ticket => r = q
  BY <1>1 DEF Accounts, Numbered
<1>5. Lists(ByTicket(S), S)
  BY <1>2, <1>3, <1>4, ListsByTicket
<1>6. ByTicket(S) \in Seq(S) /\ S \subseteq Nat
  BY <1>1, <1>5 DEF Lists
<1>7. ByTicket(S) \in Seq(Nat)
  BY <1>6, SeqMore
<1>8. QED
  BY <1>2, <1>5, <1>7

SlotsLeft(sl, to, A, S) ==
  /\ SlotsTyped(sl) /\ SlotsTyped(to) /\ A \in SUBSET Slots /\ S \in SUBSET A
  /\ \A s \in A \ S : to[s].row = sl[s].row /\ to[s].cells = sl[s].cells

LEMMA SlotsGone ==
  ASSUME NEW sl, NEW to, NEW A, NEW S, SlotsLeft(sl, to, A, S)
  PROVE  Cells(to, A \ S) = Cells(sl, A) - Cells(sl, S)
<1>1. /\ SlotsTyped(sl) /\ SlotsTyped(to) /\ A \in SUBSET Slots /\ S \in SUBSET Slots /\ S \in SUBSET A
      /\ A \ S \in SUBSET Slots /\ (A \ S) \cap S = {} /\ (A \ S) \cup S = A
      /\ \A s \in A \ S : sl[s].cells = to[s].cells
  BY DEF SlotsLeft
<1>2. Cells(sl, (A \ S) \cup S) = Cells(sl, A \ S) + Cells(sl, S)
  BY <1>1, CellsSplit
<1>3. Cells(sl, A \ S) = Cells(to, A \ S)
  BY <1>1, CellsSame
<1>4. Cells(sl, A \ S) \in Nat /\ Cells(sl, S) \in Nat
  BY <1>1, CellsAre
<1>5. Cells(sl, A) = Cells(sl, A \ S) + Cells(sl, S)
  BY <1>1, <1>2
<1>6. QED
  BY <1>3, <1>4, <1>5

LEMMA SlotsStay ==
  ASSUME NEW sl, NEW to, NEW A, NEW S, SlotsLeft(sl, to, A, S), SlotsApart(sl, A)
  PROVE  SlotsApart(to, A \ S)
BY DEF SlotsLeft, SlotsApart

LEMMA SlotsKeep ==
  ASSUME NEW sl, NEW to, NEW A, NEW S, SlotsLeft(sl, to, A, S), SlotsApart(sl, A)
  PROVE  SlotRows(to, A \ S) = SlotRows(sl, A) \ SlotRows(sl, S)
<1>1. /\ S \in SUBSET A /\ \A s \in A \ S : to[s].row = sl[s].row
  BY DEF SlotsLeft
<1>2. ASSUME NEW r \in SlotRows(to, A \ S) PROVE r \in SlotRows(sl, A) \ SlotRows(sl, S)
  <2>1. PICK s \in A \ S : r = to[s].row
    BY DEF SlotRows
  <2>2. r = sl[s].row /\ s \in A /\ s \notin S
    BY <1>1, <2>1
  <2>3. ASSUME NEW t \in S, r = sl[t].row PROVE FALSE
    BY <1>1, <2>2, <2>3 DEF SlotsApart
  <2>4. QED
    BY <2>2, <2>3 DEF SlotRows
<1>3. ASSUME NEW r \in SlotRows(sl, A) \ SlotRows(sl, S) PROVE r \in SlotRows(to, A \ S)
  <2>1. PICK s \in A : r = sl[s].row
    BY DEF SlotRows
  <2>2. s \notin S
    BY <2>1 DEF SlotRows
  <2>3. s \in A \ S /\ to[s].row = r
    BY <1>1, <2>1, <2>2
  <2>4. QED
    BY <2>3 DEF SlotRows
<1>4. QED
  BY <1>2, <1>3

HeldLess(k, l, m, H, A, Z) ==
  /\ KeptTyped(k, m) /\ KeptTyped(l, m) /\ H \in SUBSET (1 .. m) /\ A \in SUBSET H
  /\ Z \in SUBSET (1 .. m) /\ Z \cap A = {} /\ \A r \in Z : k[r].share = 0
  /\ \A r \in H \ A : l[r].share = k[r].share

LEMMA LessHeld ==
  ASSUME NEW k, NEW l, NEW m, NEW H, NEW A, NEW Z, HeldLess(k, l, m, H, A, Z)
  PROVE  /\ Cardinality(H \ A) = Cardinality(H) - Cardinality(A)
         /\ SharesOf(l, H \ A) = SharesOf(k, H) - SharesOf(k, A \cup Z)
<1>1. /\ KeptTyped(k, m) /\ KeptTyped(l, m) /\ H \in SUBSET (1 .. m) /\ A \in SUBSET H
      /\ A \in SUBSET (1 .. m) /\ Z \in SUBSET (1 .. m) /\ A \cap Z = {} /\ \A r \in Z : k[r].share = 0
      /\ H \ A \in SUBSET (1 .. m) /\ (H \ A) \cap A = {} /\ (H \ A) \cup A = H
      /\ \A r \in H \ A : k[r].share = l[r].share
  BY DEF HeldLess
<1>2. IsFiniteSet(H) /\ IsFiniteSet(A) /\ IsFiniteSet(H \ A)
  BY <1>1, SharesAre
<1>3. SharesOf(k, (H \ A) \cup A) = SharesOf(k, H \ A) + SharesOf(k, A)
  BY <1>1, SharesSplit
<1>4. SharesOf(k, A \cup Z) = SharesOf(k, A) + SharesOf(k, Z)
  BY <1>1, SharesSplit
<1>5. SharesOf(k, Z) = 0
  BY <1>1, SharesZero
<1>6. SharesOf(k, H \ A) = SharesOf(l, H \ A)
  BY <1>1, SharesSame
<1>7. SharesOf(k, H \ A) \in Nat /\ SharesOf(k, A) \in Nat
  BY <1>1, SharesAre
<1>8. Cardinality(H \ A) = Cardinality(H) - Cardinality(A)
  <2>1. H \cap A = A
    BY <1>1
  <2>2. Cardinality(H \ A) = Cardinality(H) - Cardinality(H \cap A)
    BY <1>2, FS_Difference
  <2>3. QED
    BY <2>1, <2>2
<1>9. SharesOf(k, H) = SharesOf(k, H \ A) + SharesOf(k, A)
  BY <1>1, <1>3
<1>10. QED
  BY <1>4, <1>5, <1>6, <1>7, <1>8, <1>9

LEMMA QueuedAre ==
  ASSUME NEW q \in Seq(Nat), NEW fails \in [DOMAIN q -> BOOLEAN], NEW es,
         es = [i \in DOMAIN q |-> [row |-> q[i], error |-> fails[i]]]
  PROVE  es \in Seq(ReadyType) /\ RowsOf(es) = q
<1>1. /\ DOMAIN q = 1 .. Len(q) /\ Len(q) \in Nat /\ DOMAIN es = DOMAIN q
      /\ \A i \in DOMAIN q : q[i] \in Nat /\ fails[i] \in BOOLEAN
                             /\ es[i] = [row |-> q[i], error |-> fails[i]]
      /\ Entries(q)
  BY DEF Entries
<1>2. \A i \in DOMAIN q : es[i] \in ReadyType /\ es[i].row = q[i]
  BY <1>1 DEF ReadyType
<1>3. es \in [1 .. Len(q) -> ReadyType]
  BY <1>1, <1>2
<1>4. es \in Seq(ReadyType)
  BY <1>1, <1>3, SeqDef
<1>5. DOMAIN es = DOMAIN q /\ \A i \in DOMAIN q : es[i].row = q[i]
  BY <1>1, <1>2
<1>6. RowsOf(es) = q
  BY <1>1, <1>5, RowsOfNew
<1>7. QED
  BY <1>4, <1>6

-----------------------------------------------------------------------------
(* Cancellations.                                                            *)

LEMMA KeptIs ==
  ASSUME IInv, Busy
  PROVE  /\ KeptTyped(kept, MaxTickets) /\ Back \subseteq Live /\ Held \subseteq Back
         /\ ToSet(reencode) \subseteq Back /\ Live \subseteq 1 .. MaxTickets
         /\ Held \in SUBSET (1 .. MaxTickets) /\ IsFiniteSet(Held)
         /\ \A r \in 1 .. MaxTickets : r \notin Held => kept[r].share = 0
         /\ reencoding = Cardinality(Held) /\ resuming = SharesOf(kept, Held)
<1>1. /\ KeptInv /\ TypeInv /\ MaxTickets \in Nat /\ Live \subseteq 1 .. MaxTickets
  BY PlacesLive DEF IInv
<1>2. KeptTyped(kept, MaxTickets)
  BY <1>1 DEF KeptTyped, TypeInv
<1>3. Held \subseteq Back /\ Back \subseteq 1 .. MaxTickets
  BY DEF Held, Back
<1>4. IsFiniteSet(Held)
  BY <1>2, <1>3, SharesAre
<1>5. QED
  BY <1>1, <1>2, <1>3, <1>4 DEF KeptInv, Shares, SharesOf

LEMMA KeepsProcessCancels == IInv /\ ProcessCancels => IInv'
<1> SUFFICES ASSUME IInv, ProcessCancels PROVE IInv'
  OBVIOUS
<1> DEFINE hit == {r \in DOMAIN row : row[r].live /\ row[r].ticket \in posted /\ ~row[r].cancel}
           again == Recoding(hit)
           encoded == {r \in hit : \E i \in DOMAIN ready : ready[i].row = r}
           queued == again \cup encoded \cup (hit \cap (ToSet(waiting) \cup ToSet(tsReady)))
           stop == {s \in Active : slot[s].row \in hit}
           bad == {e \in ToSet(ready) : e.row \in hit}
           gone == {slot[s].row : s \in stop}
<1>1. /\ pc = "cancel" /\ pc' = "cancelled"
      /\ row' = [r \in DOMAIN row |-> [row[r] EXCEPT !.cancel = @ \/ r \in hit]]
      /\ waiting' = Without(waiting, hit) /\ reencode' = Without(reencode, hit)
      /\ reencoding' = reencoding - Cardinality(again)
      /\ ready' = Without(ready, bad) /\ tsReady' = Without(tsReady, hit)
      /\ resuming' = resuming - Shares(queued)
      /\ kept' = [r \in DOMAIN kept |-> IF r \in queued THEN NotKept ELSE kept[r]]
      /\ reserved' = reserved - Cells(slot, stop)
      /\ slot' = [s \in Slots |-> IF s \in stop THEN Idle ELSE slot[s]]
      /\ order' = Without(order, stop)
      /\ finished' = Results(ByTicket(queued \cup gone), "cancelled")
      /\ UNCHANGED <<load, source, freeRows, jobs, taken, cached, growth, pend, aligning>>
  BY Zenon DEF ProcessCancels
<1>2. hit \subseteq Live /\ bad = {e \in ToSet(ready) : e.row \in hit}
  BY DEF Live
<1>3. again = hit \cap ToSet(reencode) /\ encoded = hit \cap ReadyRows /\ queued \subseteq hit
  <2>1. again = hit \cap ToSet(reencode)
    BY DEF Recoding
  <2>2. ReadyRows = {ready[i].row : i \in DOMAIN ready}
    BY DEF ReadyRows, ToSet, RowsOf
  <2>3. encoded = hit \cap ReadyRows
    BY <2>2
  <2>4. QED
    BY <2>1, <2>3
<1>4. /\ stop \subseteq Active /\ gone = SlotRows(slot, stop) /\ gone = hit \cap SlotRows(slot, Active)
  BY DEF SlotRows
<1>5. /\ queued = hit \cap (ToSet(reencode) \cup ReadyRows \cup ToSet(waiting) \cup ToSet(tsReady))
  BY <1>3
<1> HIDE DEF hit, again, encoded, queued, stop, gone, bad
<1>6. Busy /\ TypeInv /\ Phases /\ pc' \in PCs
  BY <1>1 DEF Busy, IInv, PCs
<1>7. /\ Accounts /\ Live \subseteq DOMAIN row /\ Active \subseteq Slots /\ Live \subseteq 1 .. MaxTickets
      /\ \A r \in Nat : Placed(r) = In(r, Live)
      /\ finished = <<>> /\ EndedRows = {} /\ MaxTickets \in Nat
  <2>1. finished = <<>>
    BY <1>1, <1>6 DEF Phases
  <2>2. EndedRows = {}
    BY <2>1 DEF EndedRows, RowsOf, ToSet
  <2>3. QED
    BY <1>6, <2>1, <2>2, PlacesLive DEF Accounts, Accounted
<1>8. /\ row' \in Seq(RowType) /\ DOMAIN row' = DOMAIN row /\ Len(row') = Len(row)
      /\ \A r \in DOMAIN row : row'[r].ticket = row[r].ticket /\ row'[r].live = row[r].live
  <2>1. row \in Seq(RowType) /\ DOMAIN row = 1 .. Len(row) /\ Len(row) \in Nat
    BY <1>6 DEF TypeInv
  <2>2. ASSUME NEW r \in DOMAIN row
        PROVE  row'[r] \in RowType /\ row'[r].ticket = row[r].ticket /\ row'[r].live = row[r].live
    <3>1. row[r] \in RowType
      BY <2>1
    <3>2. row'[r] = [row[r] EXCEPT !.cancel = row[r].cancel \/ r \in hit]
      BY <1>1
    <3>3. (row[r].cancel \/ r \in hit) \in BOOLEAN
      OBVIOUS
    <3>4. QED
      BY <3>1, <3>2, <3>3 DEF RowType
  <2>3. row' \in [1 .. Len(row) -> RowType]
    BY <1>1, <2>1, <2>2
  <2>4. row' \in Seq(RowType)
    BY <2>1, <2>3, SeqDef
  <2>5. QED
    BY <1>1, <2>1, <2>2, <2>3, <2>4
<1>9. Live' = Live /\ MaxTickets' = MaxTickets
  BY <1>1, <1>8 DEF Live, MaxTickets
<1>10. Numbered'
  <2>1. /\ Len(row) <= next /\ next <= MaxTickets /\ Lists(freeRows, DOMAIN row \ Live)
        /\ \A r \in Live : row[r].ticket < next
        /\ \A r, q \in Live : row[r].ticket = row[q].ticket => r = q
    BY <1>7 DEF Accounts, Numbered
  <2>2. \A r \in Live : row'[r].ticket = row[r].ticket
    BY <1>7, <1>8
  <2>3. next' = next /\ freeRows' = freeRows
    BY <1>1 DEF source
  <2>4. QED
    BY <1>8, <1>9, <2>1, <2>2, <2>3 DEF Numbered
<1>11. /\ waiting' \in Seq(Nat) /\ Listed(waiting') /\ ToSet(waiting') = ToSet(waiting) \ hit
       /\ reencode' \in Seq(Nat) /\ Listed(reencode') /\ ToSet(reencode') = ToSet(reencode) \ hit
       /\ tsReady' \in Seq(Nat) /\ Listed(tsReady') /\ ToSet(tsReady') = ToSet(tsReady) \ hit
       /\ order' \in Seq(Slots) /\ Listed(order') /\ Active' = Active \ stop
       /\ ready' \in Seq(ReadyType) /\ Listed(RowsOf(ready')) /\ ReadyRows' = ReadyRows \ hit
  <2>1. /\ waiting \in Seq(Nat) /\ reencode \in Seq(Nat) /\ tsReady \in Seq(Nat) /\ order \in Seq(Slots)
        /\ ready \in Seq(ReadyType)
    BY <1>6 DEF TypeInv
  <2>2. /\ Lists(waiting, ToSet(waiting)) /\ Lists(reencode, ToSet(reencode)) /\ Lists(tsReady, ToSet(tsReady))
        /\ Lists(order, Active) /\ Lists(RowsOf(ready), ReadyRows)
    BY <1>7 DEF Accounts, Accounted, Apart, Listed, Active, ReadyRows
  <2>3. /\ Lists(waiting', ToSet(waiting) \ hit) /\ Lists(reencode', ToSet(reencode) \ hit)
        /\ Lists(tsReady', ToSet(tsReady) \ hit) /\ Lists(order', Active \ stop)
    BY <1>1, <2>2, ListsOnly
  <2>4. waiting' \in Seq(Nat) /\ reencode' \in Seq(Nat) /\ tsReady' \in Seq(Nat) /\ order' \in Seq(Slots)
    BY <1>1, <2>1, OnlyPicks DEF Without
  <2>5. ready' \in Seq(ReadyType) /\ Lists(RowsOf(ready'), ReadyRows \ hit)
    BY <1>1, <1>2, <2>1, <2>2, RowsOfWithout
  <2>6. QED
    BY <2>3, <2>4, <2>5, ListedIs DEF Active, ReadyRows
<1>12. /\ slot' \in [Slots -> SlotType] /\ Reserved'
       /\ SlotsApart(slot', Active') /\ SlotRows(slot', Active') = SlotRows(slot, Active) \ gone
  <2>1. slot \in [Slots -> SlotType] /\ SlotsApart(slot, Active) /\ reserved = Cells(slot, Active)
    BY <1>6, <1>7 DEF TypeInv, Accounts, Accounted, Apart, Reserved
  <2>2. Idle \in SlotType
    BY DEF Idle, SlotType
  <2>3. slot' \in [Slots -> SlotType] /\ \A s \in Slots \ stop : slot'[s] = slot[s]
    BY <1>1, <2>1, <2>2
  <2>4. SlotsLeft(slot, slot', Active, stop)
    BY <1>4, <1>7, <2>1, <2>3 DEF SlotsLeft, SlotsTyped
  <2>5. /\ Cells(slot', Active \ stop) = Cells(slot, Active) - Cells(slot, stop)
        /\ SlotsApart(slot', Active \ stop)
        /\ SlotRows(slot', Active \ stop) = SlotRows(slot, Active) \ SlotRows(slot, stop)
    <3>1. Cells(slot', Active \ stop) = Cells(slot, Active) - Cells(slot, stop)
      BY <2>4, SlotsGone
    <3>2. /\ SlotsApart(slot', Active \ stop)
          /\ SlotRows(slot', Active \ stop) = SlotRows(slot, Active) \ SlotRows(slot, stop)
      BY <2>1, <2>4, SlotsStay, SlotsKeep
    <3>3. QED
      BY <3>1, <3>2
  <2>6. QED
    BY <1>1, <1>4, <1>11, <2>1, <2>3, <2>5 DEF Reserved
<1>13. /\ finished' \in Seq(ResultType) /\ Listed(RowsOf(finished')) /\ EndedRows' = queued \cup gone
  <2> DEFINE S == queued \cup gone
             q == ByTicket(S)
  <2>1. S \in SUBSET Live
    BY <1>2, <1>3, <1>4, <1>5
  <2> HIDE DEF S
  <2>2. Lists(q, S) /\ q \in Seq(Nat)
    BY <1>6, <2>1, LiveByTicket
  <2> HIDE DEF q
  <2>3. Results(q, "cancelled") \in Seq(ResultType) /\ RowsOf(Results(q, "cancelled")) = q
    BY <2>2, ResultsAre
  <2>4. finished' = Results(q, "cancelled")
    BY <1>1 DEF q, S
  <2>5. finished' \in Seq(ResultType) /\ RowsOf(finished') = q
    BY <2>3, <2>4
  <2>6. Listed(q) /\ ToSet(q) = S
    BY <2>2, ListedIs
  <2>7. QED
    BY <2>5, <2>6 DEF EndedRows, S
<1>14. UNCHANGED <<jobs, taken, fallbackReady, preemptedReady, aligning, TakenRows>>
  BY <1>1 DEF growth, TakenRows, RowsOf
<1>15. Accounted'
  <2>1. Apart'
    BY <1>7, <1>11, <1>12, <1>13, <1>14 DEF Accounts, Accounted, Apart, RowsOf
  <2>2. ASSUME NEW r \in Nat PROVE Placed(r)' = In(r, Live')
    <3>1. Placed(r) = In(r, Live)
      BY <1>7
    <3>2. /\ In(r, ToSet(waiting)') = IF r \in hit THEN 0 ELSE In(r, ToSet(waiting))
          /\ In(r, ToSet(reencode)') = IF r \in hit THEN 0 ELSE In(r, ToSet(reencode))
          /\ In(r, ToSet(tsReady)') = IF r \in hit THEN 0 ELSE In(r, ToSet(tsReady))
          /\ In(r, ReadyRows') = IF r \in hit THEN 0 ELSE In(r, ReadyRows)
          /\ In(r, SlotRows(slot, Active)') = IF r \in hit THEN 0 ELSE In(r, SlotRows(slot, Active))
      BY <1>4, <1>11, <1>12 DEF In
    <3>3. CASE r \notin hit
      <4>1. In(r, EndedRows') = 0 /\ In(r, EndedRows) = 0
        BY <1>4, <1>5, <1>7, <1>13, <3>3 DEF In
      <4>2. QED
        BY <1>9, <1>14, <3>1, <3>2, <3>3, <4>1 DEF Placed
    <3>4. CASE r \in hit
      <4>1. r \in EndedRows' <=> \/ r \in ToSet(reencode) \/ r \in ReadyRows \/ r \in ToSet(waiting)
                                 \/ r \in ToSet(tsReady) \/ r \in SlotRows(slot, Active)
        BY <1>4, <1>5, <1>13, <3>4
      <4>2. In(r, Live) = 1 /\ In(r, EndedRows) = 0
        BY <1>2, <1>7, <3>4 DEF In
      <4>3. In(r, EndedRows') = In(r, ToSet(reencode)) + In(r, ReadyRows) + In(r, ToSet(waiting))
                                + In(r, ToSet(tsReady)) + In(r, SlotRows(slot, Active))
        BY <3>1, <4>1, <4>2 DEF Placed, In
      <4>4. QED
        BY <1>9, <1>14, <3>1, <3>2, <3>4, <4>2, <4>3 DEF Placed, In
    <3>5. QED
      BY <3>3, <3>4
  <2>3. QED
    BY <2>1, <2>2 DEF Accounted, In
<1>16. /\ KeptTyped(kept, MaxTickets) /\ Back \subseteq Live /\ Held \subseteq Back
       /\ ToSet(reencode) \subseteq Back /\ Held \in SUBSET (1 .. MaxTickets)
       /\ \A r \in 1 .. MaxTickets : r \notin Held => kept[r].share = 0
       /\ reencoding = Cardinality(Held) /\ resuming = SharesOf(kept, Held)
  BY <1>6, KeptIs
<1>17. /\ KeptTyped(kept', MaxTickets) /\ kept' \in [1 .. MaxTickets -> KeptType]
       /\ \A r \in 1 .. MaxTickets : kept'[r] = IF r \in queued THEN NotKept ELSE kept[r]
       /\ Back' = Back \ queued
  <2>1. NotKept \in KeptType /\ ~NotKept.on
    BY DEF NotKept, KeptType
  <2>2. kept \in [1 .. MaxTickets -> KeptType]
    BY <1>16 DEF KeptTyped
  <2>3. /\ kept' \in [1 .. MaxTickets -> KeptType]
        /\ \A r \in 1 .. MaxTickets : kept'[r] = IF r \in queued THEN NotKept ELSE kept[r]
    BY <1>1, <2>1, <2>2
  <2>4. Back' = Back \ queued
    BY <1>9, <2>1, <2>3 DEF Back
  <2>5. QED
    BY <1>7, <2>3, <2>4 DEF KeptTyped
<1>18. \A r \in queued : r \notin JobRows(jobs)
  <2>1. ASSUME NEW r \in queued, r \in JobRows(jobs) PROVE FALSE
    <3>1. r \in Live /\ r \in Nat
      BY <1>2, <1>3, <1>7
    <3>2. Placed(r) = In(r, Live)
      BY <1>7, <3>1
    <3>3. QED
      BY <1>5, <2>1, <3>1, <3>2 DEF Placed, In
  <2>2. QED
    BY <2>1
<1>19. Held' = Held \ again /\ again \subseteq Held /\ again \subseteq queued
       /\ (queued \ again) \cap Held = {} /\ InEncoder' = JobRows(jobs) \cup (ToSet(reencode) \ hit)
  <2>1. InEncoder' = JobRows(jobs) \cup (ToSet(reencode) \ hit)
    BY <1>11, <1>14 DEF InEncoder
  <2>2. again \subseteq queued /\ again \subseteq Held
    BY <1>3, <1>5, <1>16 DEF Held, InEncoder
  <2>3. \A r \in Held : r \in queued => r \in again
    BY <1>3, <1>5, <1>18 DEF Held, InEncoder
  <2>4. Held' = (Back \ queued) \cap (JobRows(jobs) \cup (ToSet(reencode) \ hit))
    BY <1>17, <2>1 DEF Held
  <2>5. \A r \in Held : r \notin again => r \in JobRows(jobs) \cup (ToSet(reencode) \ hit)
    BY <1>3 DEF Held, InEncoder
  <2>6. Held' = Held \ again
    BY <2>2, <2>3, <2>4, <2>5 DEF Held, InEncoder
  <2>7. QED
    BY <2>1, <2>2, <2>3, <2>6
<1>20. Cardinality(Held') = reencoding' /\ SharesOf(kept', Held') = resuming'
  <2>1. queued \ again \in SUBSET (1 .. MaxTickets) /\ again \cup (queued \ again) = queued
    BY <1>2, <1>3, <1>7, <1>19
  <2>2. \A r \in Held \ again : kept'[r].share = kept[r].share
    BY <1>16, <1>17, <1>19
  <2>3. HeldLess(kept, kept', MaxTickets, Held, again, queued \ again)
    BY <1>16, <1>17, <1>19, <2>1, <2>2 DEF HeldLess
  <2>4. /\ Cardinality(Held \ again) = Cardinality(Held) - Cardinality(again)
        /\ SharesOf(kept', Held \ again) = SharesOf(kept, Held) - SharesOf(kept, again \cup (queued \ again))
    BY <2>3, LessHeld
  <2>5. Shares(queued) = SharesOf(kept, again \cup (queued \ again))
    BY <2>1 DEF Shares, SharesOf
  <2>6. QED
    BY <1>1, <1>16, <1>19, <2>4, <2>5
<1>21. KeptInv'
  <2>1. KeptInv
    BY <1>7 DEF Accounts
  <2>2. ASSUME NEW r \in Back'
        PROVE  r \in (InEncoder \cup ReadyRows \cup TakenRows \cup ToSet(preemptedReady))'
    <3>1. r \in Back /\ r \notin queued
      BY <1>17
    <3>2. r \in InEncoder \cup ReadyRows \cup TakenRows \cup ToSet(preemptedReady)
      BY <2>1, <3>1 DEF KeptInv
    <3>3. r \in ToSet(reencode) \cup ReadyRows => r \notin hit
      BY <1>5, <3>1
    <3>4. QED
      BY <1>11, <1>14, <1>19, <3>2, <3>3 DEF InEncoder
  <2>3. Back' \subseteq Live' /\ ToSet(reencode)' \subseteq Back'
    BY <1>3, <1>9, <1>11, <1>16, <1>17
  <2>4. ASSUME NEW r \in 1 .. MaxTickets, r \notin Held' PROVE kept'[r].share = 0
    BY <1>16, <1>17, <1>19, <2>4 DEF NotKept
  <2>5. Shares(Held)' = SharesOf(kept', Held')
    BY DEF Shares, SharesOf
  <2>6. QED
    BY <1>9, <1>20, <2>2, <2>3, <2>4, <2>5 DEF KeptInv
<1>22. TypeInv'
  BY <1>1, <1>6, <1>8, <1>9, <1>11, <1>12, <1>13, <1>17 DEF TypeInv, source, growth, pend
<1>23. Phases'
  <2>1. taken = <<>> /\ fallbackReady = <<>> /\ preemptedReady = <<>>
    BY <1>1, <1>6 DEF Phases
  <2>2. QED
    BY <1>1, <1>14, <2>1 DEF Phases
<1>24. QED
  BY <1>10, <1>12, <1>15, <1>21, <1>22, <1>23 DEF IInv, Accounts

-----------------------------------------------------------------------------
(* A job of the encoder is done.                                             *)

LEMMA KeepsHarvestJob == IInv /\ HarvestJob => IInv'
<1> SUFFICES ASSUME IInv, HarvestJob PROVE IInv'
  OBVIOUS
<1> DEFINE rows == jobs[1].rows
           R == ToSet(rows)
           again == {r \in R : kept[r].on}
           over == {r \in R : \/ row[r].cancel
                              \/ Kind(r) = "diarization"
                              \/ Kind(r) = "voiceless" /\ r \notin again}
           mute == {r \in R \ (over \cup again) : Kind(r) = "mute"}
           fails(r) == Kind(r) = "unencodable" \/ (Kind(r) = "flaky" /\ r \in again)
           queue(q) == [i \in DOMAIN q |-> [row |-> q[i], error |-> fails(q[i])]]
           fresh == R \ (again \cup over \cup mute)
           first == ByTicket(again \ over)
           last == Without(rows, again \cup over \cup mute)
<1>1. /\ pc \in {"harvest", "reap"} /\ pc' = "reap" /\ jobs # <<>> /\ jobs' = Tail(jobs)
      /\ reencoding' = reencoding - Cardinality(again)
      /\ resuming' = resuming - Shares(again)
      /\ kept' = [r \in DOMAIN kept |->
             IF r \in over THEN NotKept
             ELSE IF r \in again THEN [kept[r] EXCEPT !.share = 0] ELSE kept[r]]
      /\ finished' = finished \o Endings(Only(rows, over))
      /\ tsReady' = tsReady \o Only(rows, mute)
      /\ ready' = queue(first) \o ready \o queue(last)
      /\ UNCHANGED <<load, source, rowVars, waiting, taken, slot, order, reencode, reserved,
                     cached, growth, pend, aligning>>
  BY Zenon DEF HarvestJob
<1>2. /\ again \subseteq R /\ over \subseteq R /\ mute \subseteq R /\ mute \cap (over \cup again) = {}
      /\ \A r \in R : r \in again <=> kept[r].on
  OBVIOUS
<1>3. ASSUME NEW q \in Seq(Nat) PROVE queue(q) \in Seq(ReadyType) /\ RowsOf(queue(q)) = q
  <2> DEFINE f == [i \in DOMAIN q |-> fails(q[i])]
  <2>1. f \in [DOMAIN q -> BOOLEAN]
    OBVIOUS
  <2>2. queue(q) = [i \in DOMAIN q |-> [row |-> q[i], error |-> f[i]]]
    OBVIOUS
  <2> HIDE DEF f, queue
  <2>3. QED
    BY <2>1, <2>2, QueuedAre
<1> HIDE DEF over, mute, queue, again, fails
<1>4. Busy /\ Busy' /\ TypeInv /\ Phases /\ pc' \in PCs
  BY <1>1 DEF Busy, IInv, PCs
<1>5. /\ Accounts /\ Live \subseteq 1 .. MaxTickets /\ JobRows(jobs) \subseteq Live
      /\ \A r \in Nat : Placed(r) = In(r, Live) /\ MaxTickets \in Nat
  BY <1>4, PlacesLive DEF Accounts, Accounted
<1>6. /\ Tail(jobs) \in Seq(JobType) /\ rows \in Seq(Nat) /\ JobsApart(Tail(jobs))
      /\ JobRows(Tail(jobs)) = JobRows(jobs) \ R /\ Lists(rows, R) /\ R \subseteq JobRows(jobs)
  <2>1. jobs \in Seq(JobType) /\ JobsApart(jobs)
    BY <1>4, <1>5 DEF TypeInv, Accounts, Accounted, Apart
  <2>2. /\ Tail(jobs) \in Seq(JobType) /\ jobs[1] \in JobType
        /\ JobsApart(Tail(jobs)) /\ JobRows(Tail(jobs)) = JobRows(jobs) \ ToSet(jobs[1].rows)
        /\ Lists(jobs[1].rows, ToSet(jobs[1].rows)) /\ ToSet(jobs[1].rows) \subseteq JobRows(jobs)
    BY <1>1, <2>1, JobsTail
  <2>3. QED
    BY <2>2 DEF JobType
<1> HIDE DEF rows, R
<1>7. R \subseteq Live /\ R \subseteq 1 .. MaxTickets /\ R \subseteq Nat
  <2>1. R \subseteq Live /\ R \subseteq 1 .. MaxTickets
    BY <1>5, <1>6
  <2>2. 1 .. MaxTickets \subseteq Nat
    BY <1>5
  <2>3. QED
    BY <2>1, <2>2
<1>8. ASSUME NEW r \in R
      PROVE  /\ r \notin ToSet(waiting) /\ r \notin ToSet(reencode) /\ r \notin ReadyRows
             /\ r \notin TakenRows /\ r \notin ToSet(fallbackReady) /\ r \notin ToSet(preemptedReady)
             /\ r \notin SlotRows(slot, Active) /\ r \notin ToSet(tsReady)
             /\ r \notin ToSet(aligning.rows) /\ r \notin EndedRows /\ r \in Live
             /\ Placed(r) = 1 /\ r \in JobRows(jobs)
  <2>1. Placed(r) = In(r, Live) /\ r \in Live /\ r \in JobRows(jobs)
    BY <1>5, <1>6, <1>7
  <2>2. QED
    BY <2>1 DEF Placed, In
<1>9. /\ finished' \in Seq(ResultType) /\ Listed(RowsOf(finished')) /\ EndedRows' = EndedRows \cup over
  <2> DEFINE q == Only(rows, over)
  <2>1. Lists(q, R \cap over) /\ q \in Seq(Nat)
    BY <1>6, ListsOnly, OnlyPicks
  <2>2. R \cap over = over /\ over \cap EndedRows = {}
    BY <1>2, <1>8
  <2> HIDE DEF q
  <2>3. Endings(q) \in Seq(ResultType) /\ RowsOf(Endings(q)) = q
    BY <2>1, EndingsAre
  <2> DEFINE es == Endings(q)
  <2>4. es \in Seq(ResultType) /\ Lists(RowsOf(es), over) /\ finished' = finished \o es
    BY <1>1, <2>1, <2>2, <2>3 DEF q
  <2> HIDE DEF es
  <2>5. QED
    BY <1>4, <2>2, <2>4, EndsMore DEF EndedRows
<1>10. /\ tsReady' \in Seq(Nat) /\ Listed(tsReady') /\ ToSet(tsReady') = ToSet(tsReady) \cup mute
  <2> DEFINE q == Only(rows, mute)
  <2>1. Lists(q, R \cap mute) /\ q \in Seq(Nat)
    BY <1>6, ListsOnly, OnlyPicks
  <2>2. R \cap mute = mute /\ ToSet(tsReady) \cap mute = {}
    BY <1>2, <1>8
  <2>3. tsReady \in Seq(Nat) /\ Lists(tsReady, ToSet(tsReady))
    BY <1>4, <1>5 DEF TypeInv, Accounts, Accounted, Apart, Listed
  <2>4. tsReady' = tsReady \o q
    BY <1>1
  <2> HIDE DEF q
  <2>5. Lists(tsReady \o q, ToSet(tsReady) \cup mute)
    BY <2>1, <2>2, <2>3, ListsConcat
  <2>6. tsReady \o q \in Seq(Nat)
    BY <2>1, <2>3
  <2>7. QED
    BY <2>4, <2>5, <2>6, ListedIs
<1>11. /\ ready' \in Seq(ReadyType) /\ Listed(RowsOf(ready'))
       /\ ReadyRows' = ReadyRows \cup (again \ over) \cup fresh
  <2>1. Lists(first, again \ over) /\ first \in Seq(Nat)
    <3>1. again \ over \in SUBSET Live
      BY <1>2, <1>7
    <3>2. QED
      BY <1>4, <3>1, LiveByTicket
  <2>2. Lists(last, fresh) /\ last \in Seq(Nat)
    BY <1>6, ListsOnly, OnlyPicks DEF Without
  <2> HIDE DEF first, last, fresh
  <2>3. /\ queue(first) \in Seq(ReadyType) /\ Lists(RowsOf(queue(first)), again \ over)
        /\ queue(last) \in Seq(ReadyType) /\ Lists(RowsOf(queue(last)), fresh)
    BY <1>3, <2>1, <2>2
  <2>4. ready \in Seq(ReadyType) /\ Lists(RowsOf(ready), ReadyRows)
    BY <1>4, <1>5 DEF TypeInv, Accounts, Accounted, Apart, Listed, ReadyRows
  <2>5. (again \ over) \cap ReadyRows = {} /\ ((again \ over) \cup ReadyRows) \cap fresh = {}
    BY <1>2, <1>8 DEF fresh
  <2> DEFINE a == queue(first)
             b == queue(last)
  <2>6. /\ a \in Seq(ReadyType) /\ Lists(RowsOf(a), again \ over)
        /\ b \in Seq(ReadyType) /\ Lists(RowsOf(b), fresh) /\ ready' = (a \o ready) \o b
    BY <1>1, <2>3
  <2> HIDE DEF a, b
  <2>7. a \o ready \in Seq(ReadyType) /\ Lists(RowsOf(a \o ready), (again \ over) \cup ReadyRows)
    BY <2>4, <2>5, <2>6, EntriesMore
  <2>8. /\ (a \o ready) \o b \in Seq(ReadyType)
        /\ Lists(RowsOf((a \o ready) \o b), ((again \ over) \cup ReadyRows) \cup fresh)
    BY <2>5, <2>6, <2>7, EntriesMore
  <2>9. Listed(RowsOf(ready')) /\ ToSet(RowsOf(ready')) = ((again \ over) \cup ReadyRows) \cup fresh
    BY <2>6, <2>8, ListedIs
  <2>10. QED
    BY <2>6, <2>8, <2>9 DEF ReadyRows
<1>12. /\ UNCHANGED <<waiting, taken, slot, order, reencode, reserved, fallbackReady, preemptedReady,
                      aligning, row, freeRows, load, next>>
       /\ UNCHANGED <<Active, TakenRows, Live, MaxTickets>>
  BY <1>1 DEF growth, rowVars, source, Active, TakenRows, RowsOf, Live, MaxTickets
<1>13. Accounted'
  <2>1. Apart'
    BY <1>1, <1>5, <1>6, <1>9, <1>10, <1>11, <1>12 DEF Accounts, Accounted, Apart, RowsOf
  <2>2. ASSUME NEW r \in Nat PROVE Placed(r)' = In(r, Live')
    <3>1. Placed(r) = In(r, Live)
      BY <1>5
    <3>2. JobRows(jobs)' = JobRows(jobs) \ R
      BY <1>1, <1>6
    <3>3. CASE r \notin R
      <4>1. r \notin again /\ r \notin over /\ r \notin mute /\ r \notin fresh
        BY <1>2, <3>3
      <4>2. /\ In(r, EndedRows') = In(r, EndedRows) /\ In(r, ToSet(tsReady)') = In(r, ToSet(tsReady))
            /\ In(r, ReadyRows') = In(r, ReadyRows) /\ In(r, JobRows(jobs)') = In(r, JobRows(jobs))
        BY <1>9, <1>10, <1>11, <3>2, <3>3, <4>1 DEF In
      <4>3. QED
        BY <1>12, <3>1, <4>2 DEF Placed
    <3>4. CASE r \in R
      <4>1. /\ r \in EndedRows' <=> r \in over
            /\ r \in ToSet(tsReady)' <=> r \in mute
            /\ r \in ReadyRows' <=> r \notin over /\ r \notin mute
            /\ r \notin JobRows(jobs)'
        BY <1>2, <1>8, <1>9, <1>10, <1>11, <3>2, <3>4
      <4>2. ~(r \in over /\ r \in mute)
        BY <1>2
      <4>3. /\ r \notin ToSet(waiting)' /\ r \notin ToSet(reencode)'
            /\ r \notin TakenRows' /\ r \notin ToSet(fallbackReady)' /\ r \notin ToSet(preemptedReady)'
            /\ r \notin SlotRows(slot, Active)' /\ r \notin ToSet(aligning.rows)' /\ r \in Live'
        BY <1>8, <1>12, <3>4
      <4>4. QED
        BY <4>1, <4>2, <4>3 DEF Placed, In
    <3>5. QED
      BY <3>3, <3>4
  <2>3. QED
    BY <2>1, <2>2 DEF Accounted, In
<1>14. /\ KeptTyped(kept, MaxTickets) /\ Back \subseteq Live /\ Held \subseteq Back
       /\ ToSet(reencode) \subseteq Back /\ Held \in SUBSET (1 .. MaxTickets)
       /\ \A r \in 1 .. MaxTickets : r \notin Held => kept[r].share = 0
       /\ reencoding = Cardinality(Held) /\ resuming = SharesOf(kept, Held)
  BY <1>4, KeptIs
<1>15. /\ kept' \in [1 .. MaxTickets -> KeptType] /\ KeptTyped(kept', MaxTickets)
       /\ \A r \in 1 .. MaxTickets : r \in over => ~kept'[r].on /\ kept'[r].share = 0
       /\ \A r \in 1 .. MaxTickets : r \in again /\ r \notin over => kept'[r].on = kept[r].on /\ kept'[r].share = 0
       /\ \A r \in 1 .. MaxTickets : r \notin again /\ r \notin over => kept'[r] = kept[r]
       /\ Back' = Back \ over
  <2>1. NotKept \in KeptType /\ ~NotKept.on /\ NotKept.share = 0
    BY DEF NotKept, KeptType
  <2>2. kept \in [1 .. MaxTickets -> KeptType]
    BY <1>14 DEF KeptTyped
  <2>3. ASSUME NEW r \in 1 .. MaxTickets
        PROVE  LET k == [kept[r] EXCEPT !.share = 0] IN
               k \in KeptType /\ k.on = kept[r].on /\ k.share = 0
    <3>1. kept[r] \in KeptType
      BY <2>2
    <3>2. QED
      BY <3>1 DEF KeptType
  <2>4. \A r \in 1 .. MaxTickets : kept'[r] = IF r \in over THEN NotKept
             ELSE IF r \in again THEN [kept[r] EXCEPT !.share = 0] ELSE kept[r]
    BY <1>1, <2>2
  <2>5. \A r \in 1 .. MaxTickets : kept'[r] \in KeptType
    BY <2>1, <2>2, <2>3, <2>4
  <2>6. kept' \in [1 .. MaxTickets -> KeptType]
    BY <1>1, <2>2, <2>5
  <2>7. /\ \A r \in 1 .. MaxTickets : r \in over => ~kept'[r].on /\ kept'[r].share = 0
        /\ \A r \in 1 .. MaxTickets : r \in again /\ r \notin over => kept'[r].on = kept[r].on /\ kept'[r].share = 0
        /\ \A r \in 1 .. MaxTickets : r \notin again /\ r \notin over => kept'[r] = kept[r]
    BY <2>1, <2>3, <2>4
  <2>8. Back' = Back \ over
    <3>1. \A r \in 1 .. MaxTickets : kept'[r].on <=> kept[r].on /\ r \notin over
      BY <2>7
    <3>2. QED
      BY <1>12, <3>1 DEF Back
  <2>9. QED
    BY <1>5, <2>6, <2>7, <2>8 DEF KeptTyped
<1>16. /\ InEncoder' = (JobRows(jobs) \ R) \cup ToSet(reencode)
       /\ again = R \cap Back /\ again \subseteq Held /\ Held' = Held \ again
  <2>1. InEncoder' = (JobRows(jobs) \ R) \cup ToSet(reencode)
    BY <1>1, <1>6, <1>12 DEF InEncoder
  <2>2. again = R \cap Back
    BY <1>2, <1>7 DEF Back
  <2>3. again \subseteq Held
    BY <1>6, <2>2 DEF Held, InEncoder
  <2>4. ASSUME NEW r \in Held, r \notin again PROVE r \in Held'
    <3>1. r \in Back /\ r \notin R /\ r \in JobRows(jobs) \cup ToSet(reencode)
      BY <2>2, <2>4 DEF Held, InEncoder
    <3>2. r \in Back' /\ r \in InEncoder'
      BY <1>2, <1>15, <2>1, <3>1
    <3>3. QED
      BY <3>2 DEF Held
  <2>5. ASSUME NEW r \in Held' PROVE r \in Held \ again
    <3>1. r \in Back /\ r \notin over /\ r \in (JobRows(jobs) \ R) \cup ToSet(reencode)
      BY <1>15, <2>1 DEF Held
    <3>2. r \notin R
      BY <1>8, <3>1
    <3>3. QED
      BY <1>2, <3>1, <3>2 DEF Held, InEncoder
  <2>6. QED
    BY <2>1, <2>2, <2>3, <2>4, <2>5
<1>17. Cardinality(Held') = reencoding' /\ SharesOf(kept', Held') = resuming'
  <2>1. \A r \in Held \ again : kept'[r].share = kept[r].share
    <3>1. \A r \in Held \ again : r \notin over /\ r \in 1 .. MaxTickets
      BY <1>2, <1>14, <1>16
    <3>2. QED
      BY <1>15, <3>1
  <2>2. HeldLess(kept, kept', MaxTickets, Held, again, {})
    BY <1>14, <1>15, <1>16, <2>1 DEF HeldLess
  <2>3. /\ Cardinality(Held \ again) = Cardinality(Held) - Cardinality(again)
        /\ SharesOf(kept', Held \ again) = SharesOf(kept, Held) - SharesOf(kept, again \cup {})
    BY <2>2, LessHeld
  <2>4. Shares(again) = SharesOf(kept, again \cup {})
    <3>1. again \cup {} = again
      OBVIOUS
    <3>2. QED
      BY <3>1 DEF Shares, SharesOf
  <2>5. QED
    BY <1>1, <1>14, <1>16, <2>3, <2>4
<1>18. KeptInv'
  <2>1. KeptInv
    BY <1>5 DEF Accounts
  <2>2. ASSUME NEW r \in Back'
        PROVE  r \in (InEncoder \cup ReadyRows \cup TakenRows \cup ToSet(preemptedReady))'
    <3>1. r \in Back /\ r \notin over
      BY <1>15
    <3>2. r \in InEncoder \cup ReadyRows \cup TakenRows \cup ToSet(preemptedReady)
      BY <2>1, <3>1 DEF KeptInv
    <3>3. r \in R => r \in again \ over
      BY <1>16, <3>1
    <3>4. QED
      BY <1>11, <1>12, <1>16, <3>2, <3>3 DEF InEncoder
  <2>3. Back' \subseteq Live' /\ ToSet(reencode)' \subseteq Back'
    <3>1. \A r \in ToSet(reencode) : r \notin over
      BY <1>2, <1>8
    <3>2. QED
      BY <1>12, <1>14, <1>15, <3>1
  <2>4. ASSUME NEW r \in 1 .. MaxTickets, r \notin Held' PROVE kept'[r].share = 0
    <3>1. CASE r \in over \/ r \in again
      BY <1>15, <3>1
    <3>2. CASE r \notin over /\ r \notin again
      BY <1>14, <1>15, <1>16, <2>4, <3>2
    <3>3. QED
      BY <3>1, <3>2
  <2>5. Shares(Held)' = SharesOf(kept', Held')
    BY DEF Shares, SharesOf
  <2>6. QED
    BY <1>12, <1>17, <2>2, <2>3, <2>4, <2>5 DEF KeptInv
<1>19. Numbered' /\ Reserved'
  BY <1>5, <1>12 DEF Accounts, Numbered, Reserved
<1>20. TypeInv'
  BY <1>1, <1>4, <1>6, <1>9, <1>10, <1>11, <1>12, <1>15 DEF TypeInv, source, growth, pend
<1>21. Phases'
  <2>1. taken = <<>> /\ fallbackReady = <<>> /\ preemptedReady = <<>>
    BY <1>1, <1>4 DEF Phases
  <2>2. QED
    BY <1>1, <1>12, <2>1 DEF Phases
<1>22. QED
  BY <1>13, <1>18, <1>19, <1>20, <1>21 DEF IInv, Accounts

-----------------------------------------------------------------------------
(* The admission round.                                                      *)

RoundBase == [taken |-> <<>>, stop |-> FALSE, round |-> 0, spare |-> Spare,
              cached |-> cached, free |-> NumSlots - Len(order)]

Runs(f, n) == f[0] = RoundBase /\ \A i \in 1 .. n : f[i] = Weigh(f[i - 1], ready[i])

LEMMA RoundRuns ==
  ASSUME NEW n \in Nat, n = Len(ready)
  PROVE  \E f : Runs(f, n) /\ Round = f[n]
<1> DEFINE Is(f) == f = [i \in 0 .. n |-> IF i = 0 THEN RoundBase ELSE Weigh(f[i - 1], ready[i])]
           it == CHOOSE f : Is(f)
           Upto(f, m) == /\ f = [j \in 0 .. n |-> f[j]] /\ f[0] = RoundBase
                         /\ \A i \in 1 .. m : f[i] = Weigh(f[i - 1], ready[i])
           P == {m \in 0 .. n : \E f : Upto(f, m)}
<1>1. 0 \in P
  <2> DEFINE f == [j \in 0 .. n |-> RoundBase]
  <2>1. Upto(f, 0)
    OBVIOUS
  <2> HIDE DEF f, Upto
  <2>2. QED
    BY <2>1
<1>2. ASSUME NEW m \in 1 .. n, m - 1 \in P PROVE m \in P
  <2>1. PICK f : Upto(f, m - 1)
    BY <1>2
  <2> DEFINE h == [j \in 0 .. n |-> IF j = m THEN Weigh(f[m - 1], ready[m]) ELSE f[j]]
  <2>2. h = [j \in 0 .. n |-> h[j]] /\ h[0] = RoundBase
    BY <2>1
  <2>3. ASSUME NEW i \in 1 .. m PROVE h[i] = Weigh(h[i - 1], ready[i])
    <3>1. i \in 0 .. n /\ i - 1 \in 0 .. n /\ i - 1 # m /\ h[i - 1] = f[i - 1]
      OBVIOUS
    <3>2. CASE i = m
      BY <3>1, <3>2
    <3>3. CASE i # m
      <4>1. i \in 1 .. m - 1 /\ h[i] = f[i]
        BY <3>1, <3>3
      <4>2. f[i] = Weigh(f[i - 1], ready[i])
        BY <2>1, <4>1
      <4>3. QED
        BY <3>1, <4>1, <4>2
    <3>4. QED
      BY <3>2, <3>3
  <2>4. Upto(h, m)
    BY <2>2, <2>3
  <2> HIDE DEF h, Upto
  <2>5. QED
    BY <2>4
<1>3. n \in P
  <2>1. P \in SUBSET (0 .. n) /\ n \in 0 .. n
    OBVIOUS
  <2> HIDE DEF P
  <2>2. P = 0 .. n
    BY <1>1, <1>2, <2>1, Upward
  <2>3. QED
    BY <2>1, <2>2
<1>4. PICK f : Upto(f, n)
  BY <1>3
<1>5. Is(f)
  <2> DEFINE g == [i \in 0 .. n |-> IF i = 0 THEN RoundBase ELSE Weigh(f[i - 1], ready[i])]
  <2>1. f = [j \in 0 .. n |-> f[j]]
    BY <1>4
  <2>2. ASSUME NEW i \in 0 .. n PROVE f[i] = g[i]
    <3>1. CASE i = 0
      BY <1>4, <3>1
    <3>2. CASE i # 0
      <4>1. i \in 1 .. n
        BY <3>2
      <4>2. QED
        BY <1>4, <3>2, <4>1
    <3>3. QED
      BY <3>1, <3>2
  <2>3. f = g
    BY <2>1, <2>2
  <2>4. QED
    BY <2>3
<1>6. Is(it) /\ Round = it[n]
  BY <1>5 DEF Round, RoundBase
<1> HIDE DEF it
<1>7. Runs(it, n)
  <2>1. \A i \in 0 .. n : it[i] = IF i = 0 THEN RoundBase ELSE Weigh(it[i - 1], ready[i])
    BY <1>6
  <2>2. 0 \in 0 .. n /\ \A i \in 1 .. n : i \in 0 .. n /\ i # 0
    OBVIOUS
  <2>3. QED
    BY <2>1, <2>2 DEF Runs
<1>8. QED
  BY <1>6, <1>7

RoundFields == {"taken", "stop", "round", "spare", "cached", "free"}
Taken(r, error, need, full) == [row |-> r, error |-> error, need |-> need, full |-> full]

(* What becomes of the round with one more row: it stops, the row ends, or   *)
(* it fits.                                                                  *)
Weighs(a, e, w, full, need) ==
  /\ DOMAIN a = RoundFields /\ a.free \in Nat /\ a.stop \in BOOLEAN /\ e.error \in BOOLEAN
  /\ w = Weigh(a, e) /\ full = Full(e.row) /\ need = FirstShare(full, kept[e.row].gen)

WeighsTo(a, e, w, full, need) ==
  /\ DOMAIN w = RoundFields /\ w.cached \in {a.cached, 0}
  /\ \/ /\ w.stop = TRUE /\ w.taken = a.taken /\ w.free = a.free
        /\ w.round = a.round /\ w.spare = a.spare
     \/ /\ a.stop = FALSE /\ w.stop = FALSE /\ w.free = a.free
        /\ w.taken = Append(a.taken, Taken(e.row, TRUE, 0, 0))
        /\ w.round = a.round /\ w.spare = a.spare
     \/ /\ a.stop = FALSE /\ w.stop = FALSE /\ a.free > 0 /\ w.free = a.free - 1
        /\ w.taken = Append(a.taken, Taken(e.row, FALSE, need, full))
        /\ w.round = a.round + need /\ w.spare = a.spare + Least(GrowCells, full - need)
        /\ ~(w.cached + full > Pool)
        /\ ~(w.cached + reserved + resuming + a.round + need + a.spare > Pool)

LEMMA Weighed ==
  ASSUME NEW a, NEW e, NEW w, NEW full, NEW need, Weighs(a, e, w, full, need)
  PROVE  WeighsTo(a, e, w, full, need)
<1> DEFINE alone == Alone(a)
           held == IF ~e.error /\ a.cached + full > Pool /\ alone THEN 0 ELSE a.cached
           entry(err) == [row |-> e.row, error |-> err, need |-> IF err THEN 0 ELSE need,
                          full |-> IF err THEN 0 ELSE full]
           tooLong == held + full > Pool
           short == held + reserved + resuming + a.round + need + a.spare > Pool
           g1 == a.stop \/ a.free = 0
           g2 == ~a.stop /\ a.free > 0 /\ e.error
           g3 == ~a.stop /\ a.free > 0 /\ ~e.error /\ tooLong /\ alone
           g4 == ~a.stop /\ a.free > 0 /\ ~e.error /\ ((tooLong /\ ~alone) \/ (~tooLong /\ short))
           w1 == [a EXCEPT !.stop = TRUE]
           w2 == [a EXCEPT !.taken = Append(@, entry(TRUE))]
           w3 == [a EXCEPT !.taken = Append(@, entry(TRUE)), !.cached = held]
           w4 == [a EXCEPT !.stop = TRUE, !.cached = held]
           w5 == [a EXCEPT !.taken = Append(@, entry(FALSE)), !.cached = held, !.free = @ - 1,
                           !.round = @ + need, !.spare = @ + Least(GrowCells, full - need)]
<1>0. /\ DOMAIN a = RoundFields /\ a.free \in Nat /\ a.stop \in BOOLEAN /\ e.error \in BOOLEAN
      /\ w = Weigh(a, e) /\ full = Full(e.row) /\ need = FirstShare(full, kept[e.row].gen)
  BY DEF Weighs
<1>1. w = CASE g1 -> w1 [] g2 -> w2 [] g3 -> w3 [] g4 -> w4 [] OTHER -> w5
  BY <1>0 DEF Weigh
<1>2. held \in {a.cached, 0}
  OBVIOUS
<1>3. entry(TRUE) = Taken(e.row, TRUE, 0, 0) /\ entry(FALSE) = Taken(e.row, FALSE, need, full)
  BY DEF Taken
<1> HIDE DEF alone, held, entry, tooLong, short
<1>4. CASE g1
  <2>1. w = w1
    BY <1>0, <1>1, <1>4
  <2>2. QED
    BY <1>0, <2>1 DEF RoundFields, WeighsTo
<1>5. CASE g2
  <2>1. w = w2 /\ a.stop = FALSE
    BY <1>0, <1>1, <1>5
  <2>2. QED
    BY <1>0, <1>3, <2>1 DEF RoundFields, WeighsTo
<1>6. CASE g3
  <2>1. w = w3 /\ a.stop = FALSE
    BY <1>0, <1>1, <1>6
  <2>2. QED
    BY <1>0, <1>2, <1>3, <2>1 DEF RoundFields, WeighsTo
<1>7. CASE g4
  <2>1. w = w4
    BY <1>0, <1>1, <1>7
  <2>2. QED
    BY <1>0, <1>2, <2>1 DEF RoundFields, WeighsTo
<1>8. CASE ~g1 /\ ~g2 /\ ~g3 /\ ~g4
  <2>1. w = w5 /\ a.stop = FALSE /\ a.free > 0
    BY <1>0, <1>1, <1>8
  <2>2. ~tooLong /\ ~short
    BY <1>0, <1>8, <2>1
  <2>3. /\ ~(held + full > Pool)
        /\ ~(held + reserved + resuming + a.round + need + a.spare > Pool)
    BY <2>2 DEF tooLong, short
  <2> DEFINE taken5 == Append(a.taken, entry(FALSE))
             round5 == a.round + need
             spare5 == a.spare + Least(GrowCells, full - need)
             free5 == a.free - 1
  <2>4. w = [a EXCEPT !.taken = taken5, !.cached = held, !.free = free5, !.round = round5, !.spare = spare5]
    BY <2>1
  <2> HIDE DEF taken5, round5, spare5, free5
  <2>5. /\ DOMAIN w = RoundFields /\ w.taken = taken5 /\ w.cached = held /\ w.free = free5
        /\ w.round = round5 /\ w.spare = spare5 /\ w.stop = a.stop
    BY <1>0, <2>4 DEF RoundFields
  <2>6. QED
    BY <1>0, <1>2, <1>3, <2>1, <2>3, <2>5 DEF taken5, round5, spare5, free5, WeighsTo
<1>9. QED
  BY <1>0, <1>4, <1>5, <1>6, <1>7, <1>8

Goods(t) == {k \in DOMAIN t : ~t[k].error}

LEMMA SlotCount == Cardinality(Slots) = NumSlots /\ NumSlots \in Nat
<1>1. NumSlots \in Nat /\ NumSlots # 0 /\ 1 \in Int /\ NumSlots \in Int
  BY EngineAssumption
<1>2. Cardinality(1 .. NumSlots) = IF 1 > NumSlots THEN 0 ELSE NumSlots - 1 + 1
  BY <1>1, FS_Interval
<1>3. QED
  BY <1>1, <1>2 DEF Slots

(* A row the round looks at.                                                 *)
LEMMA ReadyRow ==
  ASSUME IInv, Busy, NEW i \in 1 .. Len(ready)
  PROVE  ready[i] \in ReadyType /\ ready[i].row \in Nat /\ ready[i].error \in BOOLEAN
         /\ kept[ready[i].row].gen \in Nat
<1>1. ready \in Seq(ReadyType) /\ kept \in [1 .. MaxTickets -> KeptType]
  BY DEF IInv, TypeInv
<1>2. ready[i] \in ReadyType
  BY <1>1
<1>3. ready[i].row \in ReadyRows
  BY <1>1 DEF ReadyRows, RowsOf, ToSet
<1>4. ready[i].row \in 1 .. MaxTickets
  BY <1>3, PlacesLive
<1>5. kept[ready[i].row] \in KeptType
  BY <1>1, <1>4
<1>6. QED
  BY <1>2, <1>5 DEF ReadyType, KeptType

(* The round takes a part of `ready` from its front, as many as have slots.  *)
LEMMA RoundTakes ==
  ASSUME IInv, Busy
  PROVE  /\ Round.taken \in Seq(TakenType) /\ Len(Round.taken) \in 0 .. Len(ready) /\ Round.cached \in Nat
         /\ \A k \in DOMAIN Round.taken : Round.taken[k].row = ready[k].row
         /\ Cardinality(Goods(Round.taken)) + Len(order) <= NumSlots
<1> DEFINE n == Len(ready)
<1>1. /\ ready \in Seq(ReadyType) /\ n \in Nat /\ cached \in Nat /\ order \in Seq(Slots)
      /\ load \in Loads /\ DOMAIN ready = 1 .. n
  BY DEF IInv, TypeInv
<1>2. PICK f : Runs(f, n) /\ Round = f[n]
  BY <1>1, RoundRuns, Zenon
<1> HIDE DEF n
<1>3. /\ f[0] = RoundBase /\ \A i \in 1 .. n : f[i] = Weigh(f[i - 1], ready[i])
  BY <1>2 DEF Runs
<1>4. NumSlots - Len(order) \in Nat
  <2>1. Lists(order, Active) /\ Active \subseteq Slots /\ NumSlots \in Nat
    BY PlacesLive, EngineAssumption DEF Accounts, Accounted, Apart, Listed, Active
  <2>2. Cardinality(Active) = Len(order)
    BY <2>1, ListsFinite
  <2>3. Cardinality(Active) <= Cardinality(Slots)
    BY <2>1, SlotsFinite, FS_Subset
  <2>4. Cardinality(Slots) = NumSlots
    BY SlotCount
  <2>5. Len(order) \in Nat
    BY <1>1
  <2>6. QED
    BY <2>1, <2>2, <2>3, <2>4, <2>5
<1> DEFINE room == NumSlots - Len(order)
           Good(a, i) == /\ DOMAIN a = RoundFields /\ a.stop \in BOOLEAN /\ a.free \in Nat /\ a.cached \in Nat
                         /\ a.taken \in Seq(TakenType) /\ Len(a.taken) <= i /\ (a.stop = FALSE => Len(a.taken) = i)
                         /\ \A k \in DOMAIN a.taken : a.taken[k].row = ready[k].row
                         /\ IsFiniteSet(Goods(a.taken)) /\ Cardinality(Goods(a.taken)) + a.free = room
           P == {i \in 0 .. n : Good(f[i], i)}
<1>5. 0 \in P
  <2>1. /\ f[0].taken = <<>> /\ f[0].stop = FALSE /\ f[0].free = room /\ f[0].cached = cached
        /\ DOMAIN f[0] = RoundFields
    BY <1>3 DEF RoundBase, RoundFields
  <2>2. Goods(<<>>) = {}
    BY DEF Goods
  <2>3. IsFiniteSet({}) /\ Cardinality({}) = 0
    BY FS_EmptySet
  <2> HIDE DEF room
  <2>4. room \in Nat
    BY <1>4 DEF room
  <2>5. Good(f[0], 0)
    <3>1. /\ DOMAIN f[0].taken = {} /\ Len(f[0].taken) = 0 /\ f[0].taken \in Seq(TakenType)
      BY <2>1
    <3>2. IsFiniteSet(Goods(f[0].taken)) /\ Cardinality(Goods(f[0].taken)) = 0
      BY <2>1, <2>2, <2>3
    <3>3. 0 + room = room /\ 0 <= 0
      BY <2>4
    <3>4. Cardinality(Goods(f[0].taken)) + f[0].free = room
      BY <2>1, <3>2, <3>3
    <3>5. f[0].free \in Nat /\ f[0].cached \in Nat
      BY <1>1, <2>1, <2>4
    <3>6. QED
      BY <2>1, <3>1, <3>2, <3>3, <3>4, <3>5
  <2>6. QED
    BY <1>1, <2>5
<1> HIDE DEF room
<1>6. ASSUME NEW i \in 1 .. n, i - 1 \in P PROVE i \in P
  <2> DEFINE a == f[i - 1]
             w == f[i]
             e == ready[i]
             full == Full(e.row)
             need == FirstShare(full, kept[e.row].gen)
  <2>1. Good(a, i - 1) /\ w = Weigh(a, e)
    BY <1>3, <1>6
  <2>2. e \in ReadyType /\ e.row \in Nat /\ e.error \in BOOLEAN /\ kept[e.row].gen \in Nat
    BY ReadyRow DEF n
  <2>3. full \in Nat /\ need \in Nat
    <3>1. Prompt \in Nat /\ Budget \in Nat /\ Pool \in Nat /\ GrowCells \in Nat
      BY <1>1, LoadType
    <3>2. full \in Nat
      BY <3>1 DEF Full
    <3> HIDE DEF full
    <3>3. need \in Nat
      BY <2>2, <3>1, <3>2 DEF FirstShare, Least, StepRows
    <3>4. QED
      BY <3>2, <3>3
  <2>4. WeighsTo(a, e, w, full, need)
    <3> HIDE DEF a, w, e, full, need
    <3>1. full = Full(e.row) /\ need = FirstShare(full, kept[e.row].gen)
      BY DEF full, need
    <3>2. DOMAIN a = RoundFields /\ a.free \in Nat /\ a.stop \in BOOLEAN /\ w = Weigh(a, e)
      BY <2>1
    <3> HIDE DEF Good
    <3>3. Weighs(a, e, w, full, need)
      BY <2>2, <3>1, <3>2 DEF Weighs
    <3>4. QED
      BY <3>3, Weighed
  <2> HIDE DEF a, w, full, need
  <2>5. DOMAIN w = RoundFields /\ w.cached \in Nat
    BY <2>1, <2>4 DEF WeighsTo
  <2>6. CASE w.stop = TRUE /\ w.taken = a.taken /\ w.free = a.free
    <3>1. /\ a.free \in Nat /\ a.taken \in Seq(TakenType) /\ Len(a.taken) <= i - 1
          /\ \A k \in DOMAIN a.taken : a.taken[k].row = ready[k].row
          /\ IsFiniteSet(Goods(a.taken)) /\ Cardinality(Goods(a.taken)) + a.free = room
      BY <2>1
    <3>2. Len(a.taken) <= i
      <4>1. Len(a.taken) \in Nat /\ i \in Int
        BY <3>1
      <4>2. QED
        BY <3>1, <4>1
    <3>3. DOMAIN w = RoundFields /\ w.stop = TRUE /\ w.taken = a.taken /\ w.free = a.free
      BY <2>5, <2>6
    <3>4. Good(w, i)
      BY <2>5, <3>1, <3>2, <3>3
    <3>5. QED
      BY <3>4 DEF w
  <2>7. ASSUME NEW t \in TakenType, t.row = e.row, a.stop = FALSE, w.stop = FALSE,
               w.taken = Append(a.taken, t), w.free \in Nat,
               w.free = a.free - (IF t.error THEN 0 ELSE 1)
        PROVE  Good(w, i)
    <3> DEFINE m == Len(a.taken)
    <3>1. /\ m = i - 1 /\ m \in Nat /\ a.taken \in Seq(TakenType) /\ DOMAIN a.taken = 1 .. m
      BY <2>1, <2>7
    <3>2. /\ w.taken \in Seq(TakenType) /\ Len(w.taken) = i /\ DOMAIN w.taken = 1 .. m + 1
          /\ w.taken[m + 1] = t /\ \A k \in 1 .. m : w.taken[k] = a.taken[k]
      BY <2>7, <3>1
    <3>3. \A k \in DOMAIN w.taken : w.taken[k].row = ready[k].row
      <4>1. \A k \in 1 .. m : a.taken[k].row = ready[k].row
        BY <2>1, <3>1
      <4>2. m + 1 = i /\ \A k \in 1 .. m + 1 : k \in 1 .. m \/ k = m + 1
        BY <3>1
      <4>3. QED
        BY <2>7, <3>2, <4>1, <4>2
    <3>4. IsFiniteSet(Goods(a.taken)) /\ Cardinality(Goods(a.taken)) + a.free = room
      BY <2>1
    <3>5. m + 1 \notin Goods(a.taken)
      BY <3>1 DEF Goods
    <3> HIDE DEF m
    <3>6. IsFiniteSet(Goods(w.taken)) /\ Cardinality(Goods(w.taken)) + w.free = room
      <4>1. Cardinality(Goods(a.taken)) \in Nat
        BY <3>4, FS_CardinalityType
      <4>2. CASE t.error
        <5>1. Goods(w.taken) = Goods(a.taken)
          BY <3>1, <3>2, <4>2 DEF Goods
        <5>2. QED
          BY <2>1, <2>7, <3>4, <4>2, <5>1
      <4>3. CASE ~t.error
        <5>1. Goods(w.taken) = Goods(a.taken) \cup {m + 1}
          BY <3>1, <3>2, <4>3 DEF Goods
        <5>2. IsFiniteSet(Goods(w.taken)) /\ Cardinality(Goods(w.taken)) = Cardinality(Goods(a.taken)) + 1
          BY <3>4, <3>5, <5>1, FS_AddElement
        <5>3. w.free = a.free - 1 /\ a.free \in Nat
          BY <2>1, <2>7, <4>3
        <5>4. QED
          BY <3>4, <4>1, <5>2, <5>3
      <4>4. QED
        BY <4>2, <4>3
    <3>7. DOMAIN w = RoundFields /\ Len(w.taken) <= i
      <4>1. i \in Int
        OBVIOUS
      <4>2. QED
        BY <2>5, <3>2, <4>1
    <3>8. /\ w.stop \in BOOLEAN /\ w.free \in Nat /\ w.cached \in Nat /\ w.taken \in Seq(TakenType)
          /\ (w.stop = FALSE => Len(w.taken) = i)
      BY <2>5, <2>7, <3>2
    <3>9. QED
      BY <3>3, <3>6, <3>7, <3>8
  <2>8. ASSUME NEW err \in BOOLEAN, NEW c \in Nat, NEW l \in Nat
        PROVE  LET t == Taken(e.row, err, c, l) IN t \in TakenType /\ t.row = e.row /\ t.error = err
    BY <2>2 DEF Taken, TakenType
  <2>9. CASE /\ a.stop = FALSE /\ w.stop = FALSE /\ w.free = a.free
             /\ w.taken = Append(a.taken, Taken(e.row, TRUE, 0, 0))
    <3> DEFINE t == Taken(e.row, TRUE, 0, 0)
    <3>1. t \in TakenType /\ t.row = e.row /\ t.error = TRUE
      BY <2>8
    <3>2. a.free \in Nat
      BY <2>1
    <3> HIDE DEF t, Good
    <3>3. w.taken = Append(a.taken, t)
      BY <2>9 DEF t
    <3>6. w.free \in Nat /\ w.free = a.free - (IF t.error THEN 0 ELSE 1) /\ a.stop = FALSE /\ w.stop = FALSE
      BY <2>9, <3>1, <3>2
    <3>4. Good(w, i)
      BY <2>7, <3>1, <3>3, <3>6
    <3>5. QED
      BY <3>4 DEF w
  <2>10. CASE /\ a.stop = FALSE /\ w.stop = FALSE /\ a.free > 0 /\ w.free = a.free - 1
              /\ w.taken = Append(a.taken, Taken(e.row, FALSE, need, full))
    <3> DEFINE t == Taken(e.row, FALSE, need, full)
    <3>1. t \in TakenType /\ t.row = e.row /\ t.error = FALSE
      BY <2>3, <2>8
    <3>2. a.free \in Nat
      BY <2>1
    <3> HIDE DEF t, Good
    <3>3. w.taken = Append(a.taken, t)
      BY <2>10 DEF t
    <3>6. w.free \in Nat /\ w.free = a.free - (IF t.error THEN 0 ELSE 1) /\ a.stop = FALSE /\ w.stop = FALSE
      BY <2>10, <3>1, <3>2
    <3>4. Good(w, i)
      BY <2>7, <3>1, <3>3, <3>6
    <3>5. QED
      BY <3>4 DEF w
  <2>11. QED
    BY <2>4, <2>6, <2>9, <2>10 DEF WeighsTo
<1>7. n \in P
  <2>1. P \in SUBSET (0 .. n) /\ n \in 0 .. n
    BY <1>1
  <2> HIDE DEF P
  <2>2. P = 0 .. n
    BY <1>1, <1>5, <1>6, <2>1, Upward
  <2>3. QED
    BY <2>1, <2>2
<1>8. Good(Round, n)
  BY <1>2, <1>7
<1>9. Cardinality(Goods(Round.taken)) + Len(order) <= NumSlots
  <2>1. Cardinality(Goods(Round.taken)) \in Nat
    BY <1>8, FS_CardinalityType
  <2>2. Cardinality(Goods(Round.taken)) + Round.free = NumSlots - Len(order) /\ Round.free \in Nat
    BY <1>8 DEF room
  <2>3. NumSlots \in Nat /\ Len(order) \in Nat
    BY <1>1, EngineAssumption
  <2>4. QED
    BY <1>4, <2>1, <2>2, <2>3
<1>10. Len(Round.taken) \in 0 .. Len(ready)
  BY <1>1, <1>8 DEF n
<1>11. QED
  BY <1>8, <1>9, <1>10

LEMMA KeepsAdmit == IInv /\ Admit => IInv'
<1> SUFFICES ASSUME IInv, Admit PROVE IInv'
  OBVIOUS
<1> DEFINE free == NumSlots - Len(order)
           now == ~pendReady /\ ready # <<>> /\ free > 0 /\ (order = <<>> \/ free >= Group)
           onward == IF order = <<>> /\ ~pendReady THEN "top" ELSE "step"
<1>1. /\ pc = "admit"
      /\ IF now
         THEN /\ taken' = Round.taken
              /\ ready' = SubSeq(ready, Len(taken') + 1, Len(ready))
              /\ cached' = Round.cached
              /\ pc' = IF taken' = <<>> THEN onward ELSE "launch"
         ELSE pc' = onward /\ UNCHANGED <<taken, ready, cached>>
      /\ UNCHANGED <<load, source, rowVars, waiting, jobs, slot, order, kept, reencode,
                     reencoding, resuming, reserved, growth, pend, ends>>
  BY DEF Admit
<1>2. onward \in {"top", "step"}
  OBVIOUS
<1> HIDE DEF now, onward
<1>3. Busy /\ TypeInv /\ Phases /\ taken = <<>> /\ fallbackReady = <<>> /\ preemptedReady = <<>>
  BY <1>1 DEF Busy, IInv, Phases
<1>4. CASE ~now
  <2>1. UNCHANGED Rest /\ pc' = onward
    BY <1>1, <1>4 DEF Rest, queues, kv
  <2>2. pc' \in PCs
    BY <1>2, <2>1 DEF PCs
  <2>3. Phases'
    BY <1>2, <1>3, <2>1 DEF Phases, Rest, queues, kv, growth, ends
  <2>4. QED
    BY <1>3, <2>1, <2>2, <2>3, PcStep
<1>5. CASE now
  <2> DEFINE m == Len(taken')
  <2>1. /\ taken' \in Seq(TakenType) /\ m \in 0 .. Len(ready) /\ cached' \in Nat
        /\ \A k \in DOMAIN taken' : taken'[k].row = ready[k].row
        /\ Cardinality(Goods(taken')) + Len(order) <= NumSlots
    BY <1>1, <1>3, <1>5, RoundTakes
  <2>2. ready' = SubSeq(ready, m + 1, Len(ready)) /\ pc' \in {"top", "step", "launch"}
        /\ (taken' # <<>> => pc' = "launch")
    BY <1>1, <1>2, <1>5
  <2>3. ready \in Seq(ReadyType) /\ Accounts /\ Lists(RowsOf(ready), ReadyRows)
        /\ Len(ready) \in Nat /\ Entries(ready) /\ Len(RowsOf(ready)) = Len(ready)
        /\ \A r \in Nat : Placed(r) = In(r, Live)
    BY <1>3, PlacesLive DEF TypeInv, Accounts, Accounted, Apart, Listed, ReadyRows, Entries, RowsOf
  <2> HIDE DEF m
  <2> DEFINE q == RowsOf(ready)
             first == SubSeq(q, 1, m)
  <2>4. /\ Lists(first, ToSet(first)) /\ Lists(SubSeq(q, m + 1, Len(q)), ReadyRows \ ToSet(first))
        /\ ToSet(first) \subseteq ReadyRows
    BY <2>1, <2>3, ListsPart
  <2>5. RowsOf(ready') = SubSeq(q, m + 1, Len(q)) /\ ready' \in Seq(ReadyType)
    <3>1. m \in 0 .. Len(ready) /\ Len(q) = Len(ready) /\ Entries(ready)
      BY <2>1, <2>3
    <3>2. RowsOf(SubSeq(ready, m + 1, Len(ready))) = SubSeq(q, m + 1, Len(q))
      BY <3>1, RowsOfPart
    <3>3. m + 1 \in 1 .. Len(ready) + 1 /\ Len(ready) \in Nat
      BY <2>1, <2>3
    <3>4. SubSeq(ready, m + 1, Len(ready)) \in Seq(ReadyType)
      <4>1. \A i \in m + 1 .. Len(ready) : ready[i] \in ReadyType
        BY <2>3, <3>3
      <4>2. m + 1 \in Int /\ Len(ready) \in Int
        BY <3>3
      <4>3. QED
        BY <2>3, <4>1, <4>2, SubSeqProperties
    <3>5. QED
      BY <2>2, <3>2, <3>4
  <2>6. RowsOf(taken') = first
    <3>1. /\ q \in Seq(ReadyRows) /\ m \in Nat /\ m <= Len(q)
      BY <2>1, <2>3 DEF Lists
    <3>2. \A i \in 1 .. m : q[i] = ready[i].row
      BY <2>1, <2>3 DEF RowsOf
    <3> HIDE DEF q
    <3>3. first \in Seq(ReadyRows) /\ Len(first) = m /\ \A i \in 1 .. m : first[i] = q[i]
      BY <3>1
    <3>4. first = [i \in 1 .. m |-> q[i]]
      BY <3>3
    <3>5. DOMAIN taken' = 1 .. m
      BY <2>1 DEF m
    <3>6. RowsOf(taken') = [i \in 1 .. m |-> q[i]]
      BY <2>1, <3>2, <3>5 DEF RowsOf
    <3>7. QED
      BY <3>4, <3>6
  <2> HIDE DEF q, first
  <2>7. /\ Listed(RowsOf(taken')) /\ TakenRows' = ToSet(first) /\ Listed(RowsOf(ready'))
        /\ ReadyRows' = ReadyRows \ ToSet(first) /\ TakenRows = {}
    <3>1. TakenRows = {}
      BY <1>3 DEF TakenRows, RowsOf, ToSet
    <3>2. QED
      BY <2>4, <2>5, <2>6, <3>1, ListedIs DEF TakenRows, ReadyRows
  <2>8. /\ UNCHANGED <<waiting, jobs, reencode, fallbackReady, preemptedReady, slot, order, tsReady,
                      aligning, finished, row, freeRows, load, next, kept, reencoding, resuming, reserved>>
        /\ UNCHANGED <<Active, Live, InEncoder, EndedRows, MaxTickets>>
    BY <1>1 DEF growth, ends, rowVars, source, Active, Live, InEncoder, EndedRows, RowsOf, MaxTickets
  <2>9. Accounted'
    <3>1. Apart'
      BY <2>3, <2>7, <2>8 DEF Accounts, Accounted, Apart
    <3>2. ASSUME NEW r \in Nat PROVE Placed(r)' = In(r, Live')
      <4>1. In(r, ReadyRows') + In(r, TakenRows') = In(r, ReadyRows) + In(r, TakenRows)
        BY <2>4, <2>7 DEF In
      <4>2. Placed(r) = In(r, Live)
        BY <2>3
      <4>3. QED
        BY <2>8, <4>1, <4>2 DEF Placed, In
    <3>3. QED
      BY <3>1, <3>2 DEF Accounted, In
  <2>10. KeptInv'
    <3>1. ReadyRows \cup TakenRows \cup ToSet(preemptedReady)
            \subseteq ReadyRows' \cup TakenRows' \cup ToSet(preemptedReady)'
      BY <2>4, <2>7, <2>8
    <3>2. QED
      BY <2>3, <2>8, <3>1, KeptSame DEF Accounts
  <2>11. Numbered' /\ Reserved'
    BY <2>3, <2>8 DEF Accounts, Numbered, Reserved
  <2>12. TypeInv'
    <3>1. pc' \in PCs
      BY <2>2 DEF PCs
    <3>2. QED
      BY <1>1, <1>3, <2>1, <2>5, <2>8, <3>1 DEF TypeInv, source, growth, pend
  <2>13. Phases'
    <3>1. Goods(taken') = {i \in DOMAIN taken' : ~taken'[i].error}
      BY DEF Goods
    <3>2. QED
      BY <1>3, <2>1, <2>2, <2>8, <3>1 DEF Phases
  <2>14. QED
    BY <2>9, <2>10, <2>11, <2>12, <2>13 DEF IInv, Accounts
<1>6. QED
  BY <1>4, <1>5

-----------------------------------------------------------------------------
(* The tokens of a step.                                                     *)

LEMMA InOrderRows ==
  ASSUME NEW sl, SlotsTyped(sl), NEW S \in SUBSET Slots, SlotsApart(sl, S)
  PROVE  Lists([i \in 1 .. Cardinality(S) |-> sl[InOrder(S)[i]].row], SlotRows(sl, S))
<1> DEFINE q == InOrder(S)
           f == [s \in Slots |-> sl[s].row]
<1>1. S \in SUBSET Nat /\ IsFiniteSet(S)
  BY SlotsFinite, EngineAssumption DEF Slots
<1>2. Lists(q, S)
  BY <1>1, ListsInOrder
<1> HIDE DEF q
<1>3. Cardinality(S) = Len(q) /\ DOMAIN q = 1 .. Len(q) /\ \A i \in DOMAIN q : q[i] \in S
  <2>1. Cardinality(S) = Len(q)
    BY <1>2, ListsFinite
  <2>2. QED
    BY <1>2, <2>1 DEF Lists
<1>4. \A a, b \in S : f[a] = f[b] => a = b
  BY DEF SlotsApart
<1> HIDE DEF f
<1>5. Lists([i \in DOMAIN q |-> f[q[i]]], {f[a] : a \in S})
  BY <1>2, <1>4, ListsImage
<1>6. {f[a] : a \in S} = SlotRows(sl, S)
  BY DEF f, SlotRows
<1>7. [i \in DOMAIN q |-> f[q[i]]] = [i \in 1 .. Cardinality(S) |-> sl[q[i]].row]
  BY <1>3 DEF f
<1>8. QED
  BY <1>5, <1>6, <1>7 DEF q

Sampling(sl, ord, res, sampled, token, c) ==
  /\ SlotsTyped(sl) /\ ord \in Seq(Slots) /\ Listed(ord) /\ SlotsApart(sl, ToSet(ord))
  /\ res = Cells(sl, ToSet(ord)) /\ sampled \in SUBSET ToSet(ord)
  /\ c = Commit(sl, ord, res, sampled, token)

Answers(c) == ToSet(c.again) \cup ToSet(c.align) \cup ToSet(c.done)

(* A finished sequence gives back its slot and its cells, and its row goes   *)
(* to one of three places.                                                   *)
LEMMA Commits ==
  ASSUME NEW sl, NEW ord, NEW res, NEW sampled, NEW token, NEW c, Sampling(sl, ord, res, sampled, token, c)
  PROVE  /\ SlotsTyped(c.slot) /\ c.order \in Seq(Slots) /\ Listed(c.order)
         /\ SlotsApart(c.slot, ToSet(c.order)) /\ c.reserved = Cells(c.slot, ToSet(c.order))
         /\ c.again \in Seq(Nat) /\ c.align \in Seq(Nat) /\ c.done \in Seq(Nat)
         /\ Listed(c.again) /\ Listed(c.align) /\ Listed(c.done)
         /\ ToSet(c.again) \cap ToSet(c.align) = {} /\ ToSet(c.again) \cap ToSet(c.done) = {}
         /\ ToSet(c.align) \cap ToSet(c.done) = {}
         /\ SlotRows(c.slot, ToSet(c.order)) = SlotRows(sl, ToSet(ord)) \ Answers(c)
         /\ Answers(c) \subseteq SlotRows(sl, ToSet(ord))
<1> DEFINE over == {s \in sampled : Over(sl[s], token[s])}
           again == {s \in over : Armed(sl[s], token[s])}
           align == {s \in over \ again : Kind(sl[s].row) = "timestamps"}
           done == over \ (again \cup align)
           to == [s \in Slots |->
                    IF s \in over THEN Idle
                    ELSE IF s \in sampled THEN [sl[s] EXCEPT !.gen = @ + 1, !.armed = Armed(sl[s], token[s])]
                    ELSE sl[s]]
           A == ToSet(ord)
<1>1. /\ sl \in [Slots -> SlotType] /\ SlotsTyped(sl) /\ ord \in Seq(Slots) /\ Lists(ord, A)
      /\ SlotsApart(sl, A) /\ res = Cells(sl, A) /\ sampled \in SUBSET A /\ A \in SUBSET Slots
  BY RangeIn DEF Sampling, SlotsTyped, Listed
<1>2. /\ over \in SUBSET A /\ again \in SUBSET over /\ align \in SUBSET over /\ done \in SUBSET over
      /\ over = again \cup align \cup done /\ again \cap align = {} /\ again \cap done = {} /\ align \cap done = {}
  BY <1>1
<1> DEFINE rows(S) == [i \in 1 .. Cardinality(S) |-> sl[InOrder(S)[i]].row]
<1>3. /\ c.slot = to /\ c.order = Without(ord, over) /\ c.reserved = res - Cells(sl, over)
      /\ c.again = rows(again) /\ c.align = rows(align) /\ c.done = rows(done)
  BY Zenon DEF Sampling, Commit
<1>4. to \in [Slots -> SlotType]
  <2>1. ASSUME NEW s \in Slots PROVE to[s] \in SlotType
    <3>1. sl[s] \in SlotType /\ Idle \in SlotType /\ Armed(sl[s], token[s]) \in BOOLEAN
      BY <1>1 DEF Idle, SlotType, Armed
    <3> DEFINE armed == Armed(sl[s], token[s])
    <3> HIDE DEF armed
    <3>2. armed \in BOOLEAN
      BY <3>1 DEF armed
    <3> DEFINE gen == sl[s].gen + 1
               rec == sl[s]
    <3>5. gen \in Nat /\ rec \in SlotType
      BY <3>1 DEF SlotType
    <3> HIDE DEF gen, rec
    <3>6. [rec EXCEPT !.gen = gen, !.armed = armed] \in SlotType
      BY <3>2, <3>5 DEF SlotType
    <3>3. [sl[s] EXCEPT !.gen = sl[s].gen + 1, !.armed = armed] \in SlotType
      BY <3>6 DEF gen, rec
    <3>4. QED
      BY <3>1, <3>3 DEF armed
  <2>2. QED
    BY <2>1
<1>5. SlotsLeft(sl, to, A, over)
  <2>1. ASSUME NEW s \in A \ over PROVE to[s].row = sl[s].row /\ to[s].cells = sl[s].cells
    <3>1. s \in Slots /\ sl[s] \in SlotType
      BY <1>1
    <3>2. to[s] = IF s \in sampled THEN [sl[s] EXCEPT !.gen = @ + 1, !.armed = Armed(sl[s], token[s])] ELSE sl[s]
      BY <2>1, <3>1
    <3>3. QED
      BY <3>1, <3>2 DEF SlotType
  <2> HIDE DEF to, over, A
  <2>2. QED
    BY <1>1, <1>2, <1>4, <2>1 DEF SlotsLeft, SlotsTyped
<1> HIDE DEF to, over, again, align, done, A, rows
<1>6. Cells(to, A \ over) = Cells(sl, A) - Cells(sl, over)
  BY <1>5, SlotsGone
<1>7. SlotsApart(to, A \ over) /\ SlotRows(to, A \ over) = SlotRows(sl, A) \ SlotRows(sl, over)
  <2>1. SlotsApart(sl, A)
    BY <1>1
  <2>2. SlotsApart(to, A \ over)
    BY <1>5, <2>1, SlotsStay
  <2>3. SlotRows(to, A \ over) = SlotRows(sl, A) \ SlotRows(sl, over)
    BY <1>5, <2>1, SlotsKeep
  <2>4. QED
    BY <2>2, <2>3
<1>8. Without(ord, over) \in Seq(Slots) /\ Listed(Without(ord, over)) /\ ToSet(Without(ord, over)) = A \ over
  <2>1. Lists(Without(ord, over), A \ over)
    BY <1>1, ListsOnly
  <2>2. Without(ord, over) \in Seq(Slots)
    BY <1>1, OnlyPicks DEF Without
  <2>3. QED
    BY <2>1, <2>2, ListedIs
<1>9. ASSUME NEW S \in SUBSET over
      PROVE  rows(S) \in Seq(Nat) /\ Listed(rows(S)) /\ ToSet(rows(S)) = SlotRows(sl, S)
  <2> DEFINE q == rows(S)
  <2>1. S \in SUBSET Slots /\ SlotsApart(sl, S)
    BY <1>1, <1>2 DEF SlotsApart
  <2>2. Lists(q, SlotRows(sl, S))
    BY <1>1, <2>1, InOrderRows DEF rows
  <2> HIDE DEF q
  <2>3. SlotRows(sl, S) \subseteq Nat
    BY <1>1, <2>1 DEF SlotRows, SlotType
  <2>4. q \in Seq(SlotRows(sl, S))
    BY <2>2 DEF Lists
  <2>5. q \in Seq(Nat)
    BY <2>3, <2>4, SeqMore
  <2>6. Listed(q) /\ ToSet(q) = SlotRows(sl, S)
    BY <2>2, ListedIs
  <2>7. QED
    BY <2>5, <2>6 DEF q
<1>10. /\ c.again \in Seq(Nat) /\ Listed(c.again) /\ ToSet(c.again) = SlotRows(sl, again)
       /\ c.align \in Seq(Nat) /\ Listed(c.align) /\ ToSet(c.align) = SlotRows(sl, align)
       /\ c.done \in Seq(Nat) /\ Listed(c.done) /\ ToSet(c.done) = SlotRows(sl, done)
  BY <1>2, <1>3, <1>9
<1>11. /\ SlotRows(sl, over) = SlotRows(sl, again) \cup SlotRows(sl, align) \cup SlotRows(sl, done)
       /\ SlotRows(sl, over) \subseteq SlotRows(sl, A)
  BY <1>2 DEF SlotRows
<1>12. ASSUME NEW S \in SUBSET over, NEW T \in SUBSET over, S \cap T = {}
       PROVE  SlotRows(sl, S) \cap SlotRows(sl, T) = {}
  BY <1>1, <1>2, <1>12 DEF SlotRows, SlotsApart
<1>13. /\ ToSet(c.again) \cap ToSet(c.align) = {} /\ ToSet(c.again) \cap ToSet(c.done) = {}
       /\ ToSet(c.align) \cap ToSet(c.done) = {}
  BY <1>2, <1>10, <1>12
<1>14. Answers(c) = SlotRows(sl, over)
  BY <1>10, <1>11 DEF Answers
<1>15. SlotsTyped(c.slot) /\ ToSet(c.order) = A \ over /\ c.reserved = Cells(c.slot, ToSet(c.order))
  BY <1>1, <1>3, <1>4, <1>6, <1>8 DEF SlotsTyped
<1>16. SlotRows(c.slot, ToSet(c.order)) = SlotRows(sl, A) \ Answers(c) /\ SlotsApart(c.slot, ToSet(c.order))
  BY <1>3, <1>7, <1>14, <1>15
<1>17. QED
  BY <1>3, <1>8, <1>10, <1>11, <1>13, <1>14, <1>15, <1>16 DEF A

(* Rows that are decoded again stay what they are.                           *)
LEMMA SecondRows ==
  ASSUME IInv, Busy, NEW q, row' = Seconded(q), UNCHANGED <<load, source, freeRows>>
  PROVE  /\ row' \in Seq(RowType) /\ DOMAIN row' = DOMAIN row /\ Live' = Live /\ MaxTickets' = MaxTickets
         /\ Numbered'
<1>1. /\ row \in Seq(RowType) /\ DOMAIN row = 1 .. Len(row) /\ Len(row) \in Nat /\ Live \subseteq DOMAIN row
  BY PlacesLive DEF IInv, TypeInv
<1>2. ASSUME NEW r \in DOMAIN row
      PROVE  row'[r] \in RowType /\ row'[r].ticket = row[r].ticket /\ row'[r].live = row[r].live
  <2>1. row[r] \in RowType
    BY <1>1
  <2>2. row'[r] = [row[r] EXCEPT !.second = row[r].second \/ r \in ToSet(q)]
    BY DEF Seconded
  <2>3. (row[r].second \/ r \in ToSet(q)) \in BOOLEAN
    OBVIOUS
  <2>4. QED
    BY <2>1, <2>2, <2>3 DEF RowType
<1>3. row' \in [1 .. Len(row) -> RowType]
  BY <1>1, <1>2 DEF Seconded
<1>4. row' \in Seq(RowType) /\ DOMAIN row' = DOMAIN row /\ Len(row') = Len(row)
  BY <1>1, <1>3, SeqDef
<1>5. Live' = Live /\ MaxTickets' = MaxTickets
  BY <1>2, <1>4 DEF Live, MaxTickets
<1>6. Numbered'
  <2>1. /\ Len(row) <= next /\ next <= MaxTickets /\ Lists(freeRows, DOMAIN row \ Live)
        /\ \A r \in Live : row[r].ticket < next
        /\ \A r, p \in Live : row[r].ticket = row[p].ticket => r = p
    BY DEF IInv, Numbered
  <2>2. \A r \in Live : row'[r].ticket = row[r].ticket
    BY <1>1, <1>2
  <2>3. next' = next /\ freeRows' = freeRows
    BY DEF source
  <2>4. QED
    BY <1>4, <1>5, <2>1, <2>2, <2>3 DEF Numbered
<1>7. QED
  BY <1>4, <1>5, <1>6

LEMMA KeepsCommitStep == IInv /\ CommitStep => IInv'
<1> SUFFICES ASSUME IInv, CommitStep PROVE IInv'
  OBVIOUS
<1>1. pc = "commit" /\ pc' = "grow" /\ UNCHANGED <<load, source, freeRows, queues, kept, reencode, reencoding,
        resuming, cached, preemptedReady, pend, aligning>>
  BY DEF CommitStep
<1>2. PICK token :
        LET c == Commit(slot, order, reserved, Active, token)
        IN /\ slot' = c.slot /\ order' = c.order /\ growing' = c.order
           /\ reserved' = c.reserved
           /\ fallbackReady' = c.again
           /\ row' = Seconded(c.again)
           /\ tsReady' = tsReady \o c.align
           /\ finished' = finished \o Results(c.done, "value")
  BY DEF CommitStep
<1> DEFINE c == Commit(slot, order, reserved, Active, token)
<1>3. /\ slot' = c.slot /\ order' = c.order /\ growing' = c.order /\ reserved' = c.reserved
      /\ fallbackReady' = c.again /\ row' = Seconded(c.again) /\ tsReady' = tsReady \o c.align
      /\ finished' = finished \o Results(c.done, "value")
  BY <1>2
<1>4. Busy /\ TypeInv /\ Phases /\ Accounts /\ fallbackReady = <<>> /\ taken = <<>> /\ Active \subseteq Slots
      /\ \A r \in Nat : Placed(r) = In(r, Live)
  <2>1. Busy /\ TypeInv /\ Phases
    BY <1>1 DEF Busy, IInv
  <2>2. QED
    BY <1>1, <2>1, PlacesLive DEF Phases, Accounts, Accounted
<1>5. Sampling(slot, order, reserved, Active, token, c)
  BY <1>4 DEF Sampling, TypeInv, SlotsTyped, Accounts, Accounted, Apart, Reserved, Active
<1> HIDE DEF c
<1>17. /\ SlotsTyped(c.slot) /\ c.order \in Seq(Slots) /\ Listed(c.order)
       /\ SlotsApart(c.slot, ToSet(c.order)) /\ c.reserved = Cells(c.slot, ToSet(c.order))
       /\ c.again \in Seq(Nat) /\ c.align \in Seq(Nat) /\ c.done \in Seq(Nat)
       /\ Listed(c.again) /\ Listed(c.align) /\ Listed(c.done)
       /\ ToSet(c.again) \cap ToSet(c.align) = {} /\ ToSet(c.again) \cap ToSet(c.done) = {}
       /\ ToSet(c.align) \cap ToSet(c.done) = {}
       /\ SlotRows(c.slot, ToSet(c.order)) = SlotRows(slot, ToSet(order)) \ Answers(c)
       /\ Answers(c) \subseteq SlotRows(slot, ToSet(order))
  BY <1>5, Commits
<1>6. /\ SlotsTyped(slot') /\ order' \in Seq(Slots) /\ Listed(order')
      /\ SlotsApart(slot', Active') /\ reserved' = Cells(slot', Active')
      /\ c.again \in Seq(Nat) /\ c.align \in Seq(Nat) /\ c.done \in Seq(Nat)
      /\ Listed(c.again) /\ Listed(c.align) /\ Listed(c.done)
      /\ ToSet(c.again) \cap ToSet(c.align) = {} /\ ToSet(c.again) \cap ToSet(c.done) = {}
      /\ ToSet(c.align) \cap ToSet(c.done) = {}
      /\ SlotRows(slot', Active') = SlotRows(slot, Active) \ Answers(c)
      /\ Answers(c) \subseteq SlotRows(slot, Active)
  BY <1>3, <1>17 DEF Active
<1>7. ASSUME NEW r \in Answers(c)
      PROVE  r \notin ToSet(tsReady) /\ r \notin EndedRows /\ r \in Nat
  <2>1. r \in Nat /\ r \in SlotRows(slot, Active) /\ r \in Live
    BY <1>4, <1>6, PlacesLive
  <2>2. Placed(r) = In(r, Live)
    BY <1>4, <2>1
  <2>3. QED
    BY <2>1, <2>2 DEF Placed, In
<1>8. tsReady' \in Seq(Nat) /\ Listed(tsReady') /\ ToSet(tsReady') = ToSet(tsReady) \cup ToSet(c.align)
  <2>1. tsReady \in Seq(Nat) /\ Lists(tsReady, ToSet(tsReady)) /\ Lists(c.align, ToSet(c.align))
    BY <1>4, <1>6 DEF TypeInv, Accounts, Accounted, Apart, Listed
  <2>2. ToSet(tsReady) \cap ToSet(c.align) = {}
    BY <1>7 DEF Answers
  <2>3. Lists(tsReady \o c.align, ToSet(tsReady) \cup ToSet(c.align))
    BY <2>1, <2>2, ListsConcat
  <2>4. tsReady \o c.align \in Seq(Nat)
    BY <1>6, <2>1
  <2>5. QED
    BY <1>3, <2>3, <2>4, ListedIs
<1>9. finished' \in Seq(ResultType) /\ Listed(RowsOf(finished')) /\ EndedRows' = EndedRows \cup ToSet(c.done)
  <2> DEFINE es == Results(c.done, "value")
  <2>1. es \in Seq(ResultType) /\ RowsOf(es) = c.done
    BY <1>6, ResultsAre
  <2> HIDE DEF es
  <2>2. Lists(RowsOf(es), ToSet(c.done)) /\ ToSet(c.done) \cap EndedRows = {}
    BY <1>6, <1>7, <2>1 DEF Listed, Answers
  <2>3. /\ finished \o es \in Seq(ResultType) /\ Listed(RowsOf(finished \o es))
        /\ ToSet(RowsOf(finished \o es)) = EndedRows \cup ToSet(c.done)
    BY <1>4, <2>1, <2>2, EndsMore
  <2>4. finished' = finished \o es
    BY <1>3 DEF es
  <2>5. QED
    BY <2>3, <2>4 DEF EndedRows
<1>10. row' \in Seq(RowType) /\ DOMAIN row' = DOMAIN row /\ Live' = Live /\ MaxTickets' = MaxTickets /\ Numbered'
  BY <1>1, <1>3, <1>4, SecondRows
<1>11. UNCHANGED <<waiting, jobs, reencode, ready, taken, preemptedReady, aligning, kept, reencoding, resuming,
                   ReadyRows, TakenRows, InEncoder>>
  BY <1>1 DEF queues, ReadyRows, TakenRows, RowsOf, InEncoder
<1>12. Accounted'
  <2>1. Apart'
    BY <1>3, <1>4, <1>6, <1>8, <1>9, <1>11 DEF Accounts, Accounted, Apart, RowsOf
  <2>2. ASSUME NEW r \in Nat PROVE Placed(r)' = In(r, Live')
    <3>1. Placed(r) = In(r, Live)
      BY <1>4
    <3>2. ToSet(fallbackReady) = {}
      BY <1>4 DEF ToSet
    <3>3. In(r, ToSet(fallbackReady)) = 0
      BY <3>2 DEF In
    <3>4. In(r, ToSet(fallbackReady)') = In(r, ToSet(c.again))
      BY <1>3
    <3>5. In(r, ToSet(tsReady)') = In(r, ToSet(tsReady)) + In(r, ToSet(c.align))
      BY <1>7, <1>8 DEF In, Answers
    <3>6. In(r, EndedRows') = In(r, EndedRows) + In(r, ToSet(c.done))
      BY <1>7, <1>9 DEF In, Answers
    <3>7. In(r, SlotRows(slot, Active)) = In(r, SlotRows(slot, Active)') + In(r, ToSet(c.again))
                                          + In(r, ToSet(c.align)) + In(r, ToSet(c.done))
      BY <1>6 DEF In, Answers
    <3>8. /\ In(r, ToSet(c.again)) \in Int /\ In(r, ToSet(c.align)) \in Int /\ In(r, ToSet(c.done)) \in Int
          /\ In(r, SlotRows(slot, Active)') \in Int /\ In(r, EndedRows) \in Int /\ In(r, ToSet(tsReady)) \in Int
          /\ In(r, ToSet(waiting)) \in Int /\ In(r, JobRows(jobs)) \in Int /\ In(r, ToSet(reencode)) \in Int
          /\ In(r, ReadyRows) \in Int /\ In(r, TakenRows) \in Int /\ In(r, ToSet(preemptedReady)) \in Int
          /\ In(r, ToSet(aligning.rows)) \in Int /\ In(r, Live) \in Int
      BY DEF In
    <3>9. /\ In(r, ToSet(waiting))' = In(r, ToSet(waiting)) /\ In(r, JobRows(jobs))' = In(r, JobRows(jobs))
          /\ In(r, ToSet(reencode))' = In(r, ToSet(reencode)) /\ In(r, ReadyRows)' = In(r, ReadyRows)
          /\ In(r, TakenRows)' = In(r, TakenRows) /\ In(r, Live)' = In(r, Live)
          /\ In(r, ToSet(preemptedReady))' = In(r, ToSet(preemptedReady))
          /\ In(r, ToSet(aligning.rows))' = In(r, ToSet(aligning.rows))
      BY <1>10, <1>11
    <3>10. QED
      BY <3>1, <3>3, <3>4, <3>5, <3>6, <3>7, <3>8, <3>9 DEF Placed
  <2>3. QED
    BY <2>1, <2>2 DEF Accounted, In
<1>13. KeptInv'
  BY <1>1, <1>4, <1>10, <1>11, KeptSame DEF Accounts
<1>14. TypeInv'
  <2>1. growing' \in Seq(Slots) /\ fallbackReady' \in Seq(Nat) /\ slot' \in [Slots -> SlotType] /\ pc' \in PCs
    BY <1>1, <1>3, <1>6 DEF SlotsTyped, PCs
  <2>2. QED
    BY <1>1, <1>4, <1>6, <1>8, <1>9, <1>10, <2>1 DEF TypeInv, source, queues, pend
<1>15. Phases'
  BY <1>1, <1>4, <1>11 DEF Phases
<1>16. QED
  BY <1>6, <1>10, <1>12, <1>13, <1>14, <1>15 DEF IInv, Reserved

-----------------------------------------------------------------------------
(* Preemption.                                                               *)

HeldMore(k, l, m, H, a) ==
  /\ KeptTyped(k, m) /\ KeptTyped(l, m) /\ H \in SUBSET (1 .. m) /\ a \in 1 .. m /\ a \notin H
  /\ \A r \in H : l[r].share = k[r].share

LEMMA MoreHeld ==
  ASSUME NEW k, NEW l, NEW m, NEW H, NEW a, HeldMore(k, l, m, H, a)
  PROVE  /\ Cardinality(H \cup {a}) = Cardinality(H) + 1
         /\ SharesOf(l, H \cup {a}) = SharesOf(k, H) + l[a].share
<1>1. /\ KeptTyped(k, m) /\ KeptTyped(l, m) /\ H \in SUBSET (1 .. m) /\ {a} \in SUBSET (1 .. m)
      /\ a \in 1 .. m /\ a \notin H /\ H \cap {a} = {} /\ \A r \in H : k[r].share = l[r].share
  BY DEF HeldMore
<1>2. IsFiniteSet(H)
  BY <1>1, SharesAre
<1>3. Cardinality(H \cup {a}) = Cardinality(H) + 1
  BY <1>1, <1>2, FS_AddElement
<1>4. SharesOf(l, H \cup {a}) = SharesOf(l, H) + SharesOf(l, {a})
  BY <1>1, SharesSplit
<1>5. SharesOf(k, H) = SharesOf(l, H)
  BY <1>1, SharesSame
<1>6. SharesOf(l, {a}) = l[a].share
  BY <1>1, SharesOne
<1>7. QED
  BY <1>3, <1>4, <1>5, <1>6

LEMMA KeepsPreempt == IInv /\ Preempt => IInv'
<1> SUFFICES ASSUME IInv, Preempt PROVE IInv'
  OBVIOUS
<1> DEFINE s == Last(order)
           rec == slot[s]
           r == rec.row
           share == IF rec.armed THEN 0 ELSE FirstShare(rec.full, rec.gen)
           new == [on |-> TRUE, gen |-> rec.gen, share |-> share, armed |-> rec.armed]
<1>1. /\ pc = "grow" /\ Len(order) > 1
      /\ kept' = [kept EXCEPT ![r] = new]
      /\ IF rec.armed
         THEN /\ preemptedReady' = Append(preemptedReady, r)
              /\ UNCHANGED <<reencode, reencoding>>
         ELSE /\ reencode' = Append(reencode, r) /\ reencoding' = reencoding + 1
              /\ UNCHANGED preemptedReady
      /\ resuming' = resuming + share
      /\ reserved' = reserved - rec.cells
      /\ slot' = [slot EXCEPT ![s] = Idle]
      /\ order' = Front(order)
      /\ UNCHANGED <<pc, load, source, rowVars, queues, cached, growing, fallbackReady, pend, ends>>
  BY DEF Preempt
<1>2. /\ Busy /\ TypeInv /\ Phases /\ Accounts /\ taken = <<>>
      /\ \A q \in Nat : Placed(q) = In(q, Live)
      /\ Active \subseteq Slots /\ Live \subseteq 1 .. MaxTickets /\ MaxTickets \in Nat
      /\ SlotRows(slot, Active) \subseteq Live
  <2>1. Busy /\ TypeInv /\ Phases
    BY <1>1 DEF Busy, IInv
  <2>2. QED
    BY <1>1, <2>1, PlacesLive DEF Phases, Accounts, Accounted
<1>3. s \in Active /\ Lists(order', Active \ {s}) /\ order' \in Seq(Slots)
  <2>1. Lists(order, Active) /\ order # <<>> /\ order \in Seq(Slots)
    BY <1>1, <1>2 DEF Accounts, Accounted, Apart, Listed, Active, TypeInv
  <2>2. s \in Active /\ Lists(order', Active \ {s})
    BY <1>1, <2>1, ListsFront
  <2>3. order' \in Seq(Active \ {s}) /\ Active \ {s} \subseteq Slots
    BY <1>2, <2>2 DEF Lists
  <2>4. QED
    BY <2>2, <2>3, SeqMore
<1>4. /\ s \in Slots /\ rec \in SlotType /\ r \in Live /\ r \in Nat /\ r \in 1 .. MaxTickets
      /\ r \in SlotRows(slot, Active)
  <2>1. s \in Slots /\ slot \in [Slots -> SlotType]
    BY <1>2, <1>3 DEF TypeInv
  <2>2. rec \in SlotType /\ r \in SlotRows(slot, Active)
    BY <1>3, <2>1 DEF SlotRows
  <2>3. QED
    BY <1>2, <2>1, <2>2 DEF SlotType
<1> HIDE DEF s, new
<1>5. share \in Nat /\ new \in KeptType /\ new.on = TRUE /\ new.share = share
  <2>1. rec.full \in Nat /\ rec.gen \in Nat /\ rec.armed \in BOOLEAN
    BY <1>4 DEF SlotType
  <2>2. Prompt \in Nat /\ GrowCells \in Nat
    BY <1>2, LoadType DEF TypeInv
  <2>3. FirstShare(rec.full, rec.gen) \in Nat
    BY <2>1, <2>2 DEF FirstShare, Least, StepRows
  <2>4. share \in Nat
    BY <2>3
  <2> HIDE DEF share, rec
  <2>5. QED
    BY <2>1, <2>4 DEF new, KeptType
<1> HIDE DEF rec, r, share
<1>6. Active' = Active \ {s} /\ Listed(order')
  BY <1>3, ListedIs DEF Active
<1>7. /\ slot' \in [Slots -> SlotType] /\ SlotsApart(slot', Active') /\ reserved' = Cells(slot', Active')
      /\ SlotRows(slot', Active') = SlotRows(slot, Active) \ {r}
  <2>1. slot \in [Slots -> SlotType] /\ SlotsTyped(slot) /\ SlotsApart(slot, Active) /\ reserved = Cells(slot, Active)
    BY <1>2 DEF TypeInv, SlotsTyped, Accounts, Accounted, Apart, Reserved
  <2>2. Idle \in SlotType
    BY DEF Idle, SlotType
  <2>3. slot' \in [Slots -> SlotType] /\ \A t \in Slots : t # s => slot'[t] = slot[t]
    BY <1>1, <1>4, <2>1, <2>2
  <2>4. SlotsLeft(slot, slot', Active, {s})
    BY <1>2, <1>3, <2>1, <2>3 DEF SlotsLeft, SlotsTyped
  <2>5. Cells(slot', Active \ {s}) = Cells(slot, Active) - Cells(slot, {s})
    BY <2>4, SlotsGone
  <2>6. Cells(slot, {s}) = rec.cells
    BY <1>4, <2>1, CellsOne DEF rec
  <2>7. SlotsApart(slot', Active \ {s})
    BY <2>1, <2>4, SlotsStay
  <2>8. SlotRows(slot', Active \ {s}) = SlotRows(slot, Active) \ SlotRows(slot, {s})
    BY <2>1, <2>4, SlotsKeep
  <2>9. SlotRows(slot, {s}) = {r}
    BY DEF SlotRows, r, rec
  <2>10. QED
    BY <1>1, <1>6, <2>1, <2>3, <2>5, <2>6, <2>7, <2>8, <2>9
<1>8. /\ KeptTyped(kept, MaxTickets) /\ Back \subseteq Live /\ Held \subseteq Back
      /\ ToSet(reencode) \subseteq Back /\ Held \in SUBSET (1 .. MaxTickets)
      /\ \A q \in 1 .. MaxTickets : q \notin Held => kept[q].share = 0
      /\ reencoding = Cardinality(Held) /\ resuming = SharesOf(kept, Held)
  BY <1>2, KeptIs
<1>9. /\ MaxTickets' = MaxTickets /\ Live' = Live
      /\ kept' \in [1 .. MaxTickets -> KeptType] /\ KeptTyped(kept', MaxTickets) /\ kept'[r] = new
      /\ \A q \in 1 .. MaxTickets : q # r => kept'[q] = kept[q]
      /\ Back' = Back \cup {r}
  <2>1. MaxTickets' = MaxTickets /\ Live' = Live
    BY <1>1 DEF MaxTickets, Live, rowVars
  <2>2. kept \in [1 .. MaxTickets -> KeptType]
    BY <1>8 DEF KeptTyped
  <2>3. /\ kept' \in [1 .. MaxTickets -> KeptType] /\ kept'[r] = new
        /\ \A q \in 1 .. MaxTickets : q # r => kept'[q] = kept[q]
    BY <1>1, <1>4, <1>5, <2>2
  <2>4. Back' = Back \cup {r}
    BY <1>4, <1>5, <2>1, <2>3 DEF Back
  <2>5. QED
    BY <1>2, <2>1, <2>3, <2>4 DEF KeptTyped
<1>10. /\ r \notin InEncoder /\ r \notin ToSet(preemptedReady) /\ r \notin ToSet(reencode)
       /\ r \notin Held
  <2>1. Placed(r) = In(r, Live)
    BY <1>2, <1>4
  <2>2. QED
    BY <1>4, <2>1 DEF Placed, In, InEncoder, Held
<1>11. /\ UNCHANGED <<waiting, jobs, ready, taken, fallbackReady, tsReady, aligning, finished, row, freeRows,
                      load, next, TakenRows, ReadyRows, EndedRows>>
       /\ Numbered'
  <2>1. UNCHANGED <<waiting, jobs, ready, taken, fallbackReady, tsReady, aligning, finished, row, freeRows,
                    load, next>>
    BY <1>1 DEF source, rowVars, queues, ends
  <2>2. QED
    BY <1>2, <1>9, <2>1 DEF TakenRows, ReadyRows, EndedRows, RowsOf, Accounts, Numbered
<1>12. /\ TypeInv /\ Lists(reencode, ToSet(reencode)) /\ Lists(preemptedReady, ToSet(preemptedReady))
       /\ reencode \in Seq(Nat) /\ preemptedReady \in Seq(Nat)
  BY <1>2 DEF TypeInv, Accounts, Accounted, Apart, Listed
<1>13. CASE rec.armed
  <2>1. UNCHANGED <<reencode, reencoding>> /\ share = 0 /\ resuming' = resuming
    <3>1. resuming \in Nat
      <4>1. SharesOf(kept, Held) \in Nat
        BY <1>8, SharesAre
      <4>2. QED
        BY <1>8, <4>1
    <3>2. share = 0
      BY <1>13 DEF share
    <3>3. QED
      BY <1>1, <1>13, <3>1, <3>2
  <2>2. /\ preemptedReady' \in Seq(Nat) /\ Listed(preemptedReady')
        /\ ToSet(preemptedReady)' = ToSet(preemptedReady) \cup {r}
    <3>1. preemptedReady' = Append(preemptedReady, r)
      BY <1>1, <1>13
    <3>2. Lists(preemptedReady', ToSet(preemptedReady) \cup {r})
      BY <1>10, <1>12, <3>1, ListsAppend
    <3>3. preemptedReady' \in Seq(Nat)
      BY <1>4, <1>12, <3>1
    <3>4. QED
      BY <3>2, <3>3, ListedIs
  <2>3. InEncoder' = InEncoder /\ Held' = Held
    <3>1. InEncoder' = InEncoder
      BY <1>11, <2>1 DEF InEncoder
    <3>2. QED
      BY <1>9, <1>10, <3>1 DEF Held
  <2>4. Accounted'
    <3>1. Apart'
      BY <1>2, <1>6, <1>7, <1>11, <2>1, <2>2 DEF Accounts, Accounted, Apart, RowsOf
    <3>2. ASSUME NEW q \in Nat PROVE Placed(q)' = In(q, Live')
      <4>1. In(q, SlotRows(slot, Active)') + In(q, ToSet(preemptedReady)')
              = In(q, SlotRows(slot, Active)) + In(q, ToSet(preemptedReady))
        BY <1>4, <1>7, <1>10, <2>2 DEF In
      <4>2. Placed(q) = In(q, Live)
        BY <1>2
      <4>3. QED
        BY <1>9, <1>11, <2>1, <4>1, <4>2 DEF Placed, In
    <3>3. QED
      BY <3>1, <3>2 DEF Accounted, In
  <2>5. KeptInv'
    <3>1. Back' \subseteq (InEncoder \cup ReadyRows \cup TakenRows \cup ToSet(preemptedReady))'
      BY <1>2, <1>9, <1>11, <2>2, <2>3 DEF Accounts, KeptInv
    <3>2. Back' \subseteq Live' /\ ToSet(reencode)' \subseteq Back'
      BY <1>4, <1>8, <1>9, <2>1
    <3>3. ASSUME NEW q \in 1 .. MaxTickets, q \notin Held' PROVE kept'[q].share = 0
      BY <1>5, <1>8, <1>9, <2>1, <2>3, <3>3
    <3>4. SharesOf(kept', Held) = SharesOf(kept, Held)
      <4>1. \A q \in Held : kept'[q].share = kept[q].share
        BY <1>8, <1>9, <1>10
      <4>2. KeptTyped(kept, MaxTickets) /\ KeptTyped(kept', MaxTickets) /\ Held \in SUBSET (1 .. MaxTickets)
        BY <1>8, <1>9
      <4>3. QED
        BY <4>1, <4>2, SharesSame
    <3>5. Shares(Held)' = SharesOf(kept', Held')
      BY DEF Shares, SharesOf
    <3>6. QED
      BY <1>8, <1>9, <2>1, <2>3, <3>1, <3>2, <3>3, <3>4, <3>5 DEF KeptInv
  <2>6. TypeInv'
    BY <1>1, <1>3, <1>7, <1>9, <1>12, <2>1, <2>2 DEF TypeInv, source, rowVars, queues, pend, ends
  <2>7. Phases'
    BY <1>1, <1>2, <1>11 DEF Phases
  <2>8. QED
    BY <1>7, <1>11, <2>4, <2>5, <2>6, <2>7 DEF IInv, Reserved
<1>14. CASE ~rec.armed
  <2>1. UNCHANGED preemptedReady /\ reencoding' = reencoding + 1
    BY <1>1, <1>14
  <2>2. /\ reencode' \in Seq(Nat) /\ Listed(reencode') /\ ToSet(reencode)' = ToSet(reencode) \cup {r}
    <3>1. reencode' = Append(reencode, r)
      BY <1>1, <1>14
    <3>2. Lists(reencode', ToSet(reencode) \cup {r})
      BY <1>10, <1>12, <3>1, ListsAppend
    <3>3. reencode' \in Seq(Nat)
      BY <1>4, <1>12, <3>1
    <3>4. QED
      BY <3>2, <3>3, ListedIs
  <2>3. InEncoder' = InEncoder \cup {r} /\ Held' = Held \cup {r}
    <3>1. InEncoder' = InEncoder \cup {r}
      BY <1>11, <2>2 DEF InEncoder
    <3>2. QED
      BY <1>9, <1>10, <3>1 DEF Held
  <2>4. Accounted'
    <3>1. Apart'
      BY <1>2, <1>6, <1>7, <1>11, <2>1, <2>2 DEF Accounts, Accounted, Apart, RowsOf
    <3>2. ASSUME NEW q \in Nat PROVE Placed(q)' = In(q, Live')
      <4>1. In(q, SlotRows(slot, Active)') + In(q, ToSet(reencode)')
              = In(q, SlotRows(slot, Active)) + In(q, ToSet(reencode))
        BY <1>4, <1>7, <1>10, <2>2 DEF In
      <4>2. Placed(q) = In(q, Live)
        BY <1>2
      <4>3. QED
        BY <1>9, <1>11, <2>1, <4>1, <4>2 DEF Placed, In
    <3>3. QED
      BY <3>1, <3>2 DEF Accounted, In
  <2>5. KeptInv'
    <3>1. Back' \subseteq (InEncoder \cup ReadyRows \cup TakenRows \cup ToSet(preemptedReady))'
      BY <1>2, <1>9, <1>11, <2>1, <2>3 DEF Accounts, KeptInv
    <3>2. Back' \subseteq Live' /\ ToSet(reencode)' \subseteq Back'
      BY <1>4, <1>8, <1>9, <2>2
    <3>3. ASSUME NEW q \in 1 .. MaxTickets, q \notin Held' PROVE kept'[q].share = 0
      BY <1>8, <1>9, <2>3, <3>3
    <3>4. HeldMore(kept, kept', MaxTickets, Held, r)
      BY <1>4, <1>8, <1>9, <1>10 DEF HeldMore
    <3>5. /\ Cardinality(Held \cup {r}) = Cardinality(Held) + 1
          /\ SharesOf(kept', Held \cup {r}) = SharesOf(kept, Held) + kept'[r].share
      BY <3>4, MoreHeld
    <3>6. Shares(Held)' = SharesOf(kept', Held')
      BY DEF Shares, SharesOf
    <3>7. resuming' = SharesOf(kept', Held') /\ reencoding' = Cardinality(Held')
      BY <1>1, <1>5, <1>8, <1>9, <2>1, <2>3, <3>5
    <3>8. QED
      BY <1>9, <3>1, <3>2, <3>3, <3>6, <3>7 DEF KeptInv
  <2>6. TypeInv'
    BY <1>1, <1>3, <1>7, <1>9, <1>12, <2>1, <2>2 DEF TypeInv, source, rowVars, queues, pend, ends
  <2>7. Phases'
    BY <1>1, <1>2, <1>11, <2>1 DEF Phases
  <2>8. QED
    BY <1>7, <1>11, <2>4, <2>5, <2>6, <2>7 DEF IInv, Reserved
<1>15. QED
  BY <1>13, <1>14

LEMMA KeepsRequeue == IInv /\ Requeue => IInv'
<1> SUFFICES ASSUME IInv, Requeue PROVE IInv'
  OBVIOUS
<1>1. /\ pc = "grow" /\ pc' = "top" /\ fallbackReady' = <<>> /\ preemptedReady' = <<>>
      /\ ready' = Encoded(fallbackReady) \o Encoded(ByTicket(ToSet(preemptedReady))) \o ready
      /\ UNCHANGED <<load, source, rowVars, waiting, jobs, taken, slot, order, kept, reencode,
                     reencoding, resuming, reserved, cached, growing, pend, ends>>
  BY DEF Requeue
<1>2. /\ Busy /\ TypeInv /\ Phases /\ Accounts /\ taken = <<>>
      /\ \A q \in Nat : Placed(q) = In(q, Live)
      /\ ToSet(fallbackReady) \subseteq Live /\ ToSet(preemptedReady) \in SUBSET Live /\ Live \subseteq Nat
  <2>1. Busy /\ TypeInv /\ Phases
    BY <1>1 DEF Busy, IInv
  <2>2. QED
    BY <1>1, <2>1, PlacesLive DEF Phases, Accounts, Accounted
<1> DEFINE F == ToSet(fallbackReady)
           P == ToSet(preemptedReady)
           p == ByTicket(P)
<1>3. F \cap P = {} /\ F \cap ReadyRows = {} /\ P \cap ReadyRows = {}
  <2>1. ASSUME NEW q \in Live PROVE In(q, F) + In(q, P) + In(q, ReadyRows) <= 1
    <3>1. q \in Nat /\ Placed(q) = In(q, Live)
      BY <1>2
    <3>2. QED
      BY <3>1 DEF Placed, In
  <2> HIDE DEF F, P
  <2>2. F \subseteq Live /\ P \subseteq Live
    BY <1>2 DEF F, P
  <2>3. QED
    BY <2>1, <2>2 DEF In
<1>4. /\ Lists(fallbackReady, F) /\ fallbackReady \in Seq(Nat) /\ Lists(p, P) /\ p \in Seq(Nat)
      /\ Lists(RowsOf(ready), ReadyRows) /\ ready \in Seq(ReadyType)
  BY <1>2, LiveByTicket DEF TypeInv, Accounts, Accounted, Apart, Listed, ReadyRows
<1> HIDE DEF F, P, p
<1>5. /\ Encoded(fallbackReady) \in Seq(ReadyType) /\ RowsOf(Encoded(fallbackReady)) = fallbackReady
      /\ Encoded(p) \in Seq(ReadyType) /\ RowsOf(Encoded(p)) = p
  BY <1>4, EncodedAre
<1> DEFINE es == Encoded(fallbackReady) \o Encoded(p)
<1>6. es \in Seq(ReadyType) /\ Lists(RowsOf(es), F \cup P)
  BY <1>3, <1>4, <1>5, EntriesMore
<1>7. ready' = es \o ready
  BY <1>1 DEF p, P
<1> HIDE DEF es
<1>8. ready' \in Seq(ReadyType) /\ Lists(RowsOf(ready'), (F \cup P) \cup ReadyRows)
  <2>1. (F \cup P) \cap ReadyRows = {}
    BY <1>3
  <2>2. es \o ready \in Seq(ReadyType) /\ Lists(RowsOf(es \o ready), (F \cup P) \cup ReadyRows)
    BY <1>4, <1>6, <2>1, EntriesMore
  <2>3. QED
    BY <1>7, <2>2
<1>9. Listed(RowsOf(ready')) /\ ReadyRows' = F \cup P \cup ReadyRows
  BY <1>8, ListedIs DEF ReadyRows
<1>10. /\ UNCHANGED <<waiting, jobs, reencode, taken, slot, order, tsReady, aligning, finished, row, freeRows,
                      load, next, kept, reencoding, resuming, reserved>>
       /\ UNCHANGED <<Active, Live, InEncoder, EndedRows, TakenRows, MaxTickets>>
       /\ ToSet(fallbackReady)' = {} /\ ToSet(preemptedReady)' = {}
  BY <1>1 DEF ends, rowVars, source, Active, Live, InEncoder, EndedRows, TakenRows, RowsOf, MaxTickets, ToSet
<1>11. Accounted'
  <2>1. Listed(<<>>)
    BY ListsEmpty, ListedIs
  <2>2. Apart'
    BY <1>1, <1>2, <1>9, <1>10, <2>1 DEF Accounts, Accounted, Apart, RowsOf
  <2>3. ASSUME NEW r \in Nat PROVE Placed(r)' = In(r, Live')
    <3>1. In(r, ReadyRows') = In(r, F) + In(r, P) + In(r, ReadyRows)
      BY <1>3, <1>9 DEF In
    <3>2. Placed(r) = In(r, Live)
      BY <1>2
    <3>3. In(r, ToSet(fallbackReady)') = 0 /\ In(r, ToSet(preemptedReady)') = 0
      BY <1>10 DEF In
    <3>4. In(r, F) = In(r, ToSet(fallbackReady)) /\ In(r, P) = In(r, ToSet(preemptedReady))
      BY DEF F, P
    <3>5. QED
      BY <1>10, <3>1, <3>2, <3>3, <3>4 DEF Placed, In
  <2>4. QED
    BY <2>2, <2>3 DEF Accounted, In
<1>12. KeptInv'
  <2>1. ReadyRows \cup TakenRows \cup ToSet(preemptedReady)
          \subseteq ReadyRows' \cup TakenRows' \cup ToSet(preemptedReady)'
    BY <1>9, <1>10 DEF P
  <2>2. QED
    BY <1>2, <1>10, <2>1, KeptSame DEF Accounts
<1>13. Numbered' /\ Reserved'
  BY <1>2, <1>10 DEF Accounts, Numbered, Reserved
<1>14. TypeInv'
  <2>1. pc' \in PCs /\ fallbackReady' \in Seq(Nat) /\ preemptedReady' \in Seq(Nat)
    BY <1>1 DEF PCs
  <2>2. QED
    BY <1>1, <1>2, <1>8, <1>10, <2>1 DEF TypeInv, source, rowVars, pend, ends
<1>15. Phases'
  BY <1>1, <1>2, <1>10 DEF Phases
<1>16. QED
  BY <1>11, <1>12, <1>13, <1>14, <1>15 DEF IInv

-----------------------------------------------------------------------------
(* The admission round gets its slots.                                       *)

(* The entries of a list that are in S: their rows, and how many they are.   *)
Selected(X, es, A, S, q) ==
  /\ q \in Seq(X) /\ ToSet(q) = ToSet(es) \cap S
  /\ Lists(RowsOf(q), ToSet(RowsOf(q))) /\ ToSet(RowsOf(q)) \subseteq A
  /\ Cardinality({i \in DOMAIN es : es[i] \in S}) = Len(q)

LEMMA SomeEntries ==
  ASSUME NEW X, NEW es \in Seq(X), NEW A, Lists(RowsOf(es), A), NEW S, NEW q, q = Only(es, S)
  PROVE  Selected(X, es, A, S, q)
<1>1. q \in Seq(X) /\ \E h : Picks(q, h, es, S)
  BY OnlyPicks
<1>2. PICK g : Picks(q, g, es, S)
  BY <1>1
<1> DEFINE h == [k \in DOMAIN q |-> g[k]]
           I == {i \in DOMAIN es : es[i] \in S}
           p == RowsOf(q)
<1>3. /\ \A k \in DOMAIN q : h[k] \in DOMAIN es /\ es[h[k]] \in S /\ q[k] = es[h[k]]
      /\ \A k, l \in DOMAIN q : h[k] = h[l] => k = l
      /\ \A i \in DOMAIN es : es[i] \in S => \E k \in DOMAIN q : h[k] = i
  BY <1>2 DEF Picks
<1>4. DOMAIN q = 1 .. Len(q) /\ Len(q) \in Nat /\ DOMAIN p = DOMAIN q /\ \A k \in DOMAIN q : p[k] = q[k].row
  BY <1>1 DEF RowsOf
<1>5. p = [k \in 1 .. Len(q) |-> p[k]] /\ h = [k \in 1 .. Len(q) |-> h[k]]
  BY <1>4 DEF RowsOf
<1> HIDE DEF h
<1>6. Lists(h, I)
  <2>1. \A k \in 1 .. Len(q) : h[k] \in I
    BY <1>3, <1>4
  <2> HIDE DEF I
  <2>2. h \in Seq(I) /\ DOMAIN h = DOMAIN q
    BY <1>4, <1>5, <2>1
  <2>3. Once(h)
    BY <1>3, <2>2 DEF Once
  <2>4. \A i \in I : \E k \in DOMAIN h : h[k] = i
    BY <1>3, <2>2 DEF I
  <2>5. QED
    BY <2>2, <2>3, <2>4 DEF Lists
<1>7. Cardinality(I) = Len(q)
  <2> HIDE DEF I
  <2>1. Cardinality(I) = Len(h)
    BY <1>6, ListsFinite
  <2>2. Len(h) = Len(q)
    BY <1>4, <1>5
  <2>3. QED
    BY <2>1, <2>2
<1>8. ToSet(q) = ToSet(es) \cap S
  BY <1>3, <1>4 DEF ToSet
<1> HIDE DEF p
<1>9. \A i, j \in DOMAIN es : es[i].row = es[j].row => i = j
  BY DEF Lists, Once, RowsOf
<1>10. \A i \in DOMAIN es : es[i].row \in A
  <2>1. RowsOf(es) \in Seq(A) /\ DOMAIN RowsOf(es) = DOMAIN es /\ \A i \in DOMAIN es : RowsOf(es)[i] = es[i].row
    BY DEF Lists, RowsOf
  <2>2. \A i \in DOMAIN RowsOf(es) : RowsOf(es)[i] \in A
    BY <2>1
  <2>3. QED
    BY <2>1, <2>2
<1>11. p \in Seq(A)
  <2>1. \A k \in 1 .. Len(q) : p[k] \in A
    BY <1>3, <1>4, <1>10
  <2>2. QED
    BY <1>4, <1>5, <2>1
<1>12. Once(p)
  BY <1>3, <1>4, <1>9 DEF Once
<1>13. Lists(p, ToSet(p)) /\ ToSet(p) \subseteq A
  BY <1>11, <1>12, OnceLists, RangeIn
<1>14. QED
  BY <1>1, <1>7, <1>8, <1>13 DEF p, Selected

(* The slots A are taken, those in `free` are not; the entries of `good` get *)
(* the first of them.                                                        *)
Seating(sl, to, A, free, good, new) ==
  /\ SlotsTyped(sl) /\ SlotsTyped(to) /\ A \in SUBSET Slots /\ SlotsApart(sl, A)
  /\ Lists(free, Slots \ A) /\ good \in Seq(TakenType) /\ Listed(RowsOf(good)) /\ Len(good) <= Len(free)
  /\ ToSet(RowsOf(good)) \cap SlotRows(sl, A) = {}
  /\ new = {free[i] : i \in DOMAIN good}
  /\ \A s \in Slots \ new : to[s] = sl[s]
  /\ \A i \in DOMAIN good : to[free[i]].row = good[i].row

Seated(sl, to, A, free, good, new) ==
  /\ new \in SUBSET (Slots \ A)
  /\ SlotsApart(to, A \cup new)
  /\ SlotRows(to, A \cup new) = SlotRows(sl, A) \cup ToSet(RowsOf(good))
  /\ Cells(to, A \cup new) = Cells(sl, A) + Cells(to, new)
  /\ Lists(SubSeq(free, 1, Len(good)), new)

LEMMA Seats ==
  ASSUME NEW sl, NEW to, NEW A, NEW free, NEW good, NEW new, Seating(sl, to, A, free, good, new)
  PROVE  Seated(sl, to, A, free, good, new)
<1>1. /\ SlotsTyped(sl) /\ SlotsTyped(to) /\ A \in SUBSET Slots /\ SlotsApart(sl, A)
      /\ Lists(free, Slots \ A) /\ good \in Seq(TakenType) /\ Len(good) <= Len(free)
      /\ ToSet(RowsOf(good)) \cap SlotRows(sl, A) = {}
      /\ new = {free[i] : i \in DOMAIN good}
      /\ \A s \in Slots \ new : to[s] = sl[s]
      /\ \A i \in DOMAIN good : to[free[i]].row = good[i].row
  BY DEF Seating
<1>2. /\ DOMAIN good = 1 .. Len(good) /\ Len(good) \in Nat /\ Len(free) \in Nat /\ DOMAIN free = 1 .. Len(free)
      /\ \A i \in DOMAIN free : free[i] \in Slots \ A
  BY <1>1 DEF Lists
<1>3. new \in SUBSET (Slots \ A)
  BY <1>1, <1>2
<1>4. Lists(SubSeq(free, 1, Len(good)), new)
  <2>1. Len(good) \in 0 .. Len(free)
    BY <1>1, <1>2
  <2>2. /\ Lists(SubSeq(free, 1, Len(good)), ToSet(SubSeq(free, 1, Len(good))))
        /\ ToSet(SubSeq(free, 1, Len(good))) = {free[i] : i \in 1 .. Len(good)}
    BY <1>1, <2>1, ListsPart
  <2>3. QED
    BY <1>1, <1>2, <2>2
<1>5. ToSet(RowsOf(good)) = {good[i].row : i \in DOMAIN good}
  BY DEF ToSet, RowsOf
<1>6. SlotRows(to, new) = ToSet(RowsOf(good))
  <2>1. ASSUME NEW r \in SlotRows(to, new) PROVE r \in ToSet(RowsOf(good))
    <3>1. PICK s \in new : r = to[s].row
      BY DEF SlotRows
    <3>2. PICK i \in DOMAIN good : s = free[i]
      BY <1>1, <3>1
    <3>3. QED
      BY <1>1, <1>5, <3>1, <3>2
  <2>2. ASSUME NEW r \in ToSet(RowsOf(good)) PROVE r \in SlotRows(to, new)
    <3>1. PICK i \in DOMAIN good : r = good[i].row
      BY <1>5
    <3>2. free[i] \in new /\ r = to[free[i]].row
      BY <1>1, <3>1
    <3>3. QED
      BY <3>2 DEF SlotRows
  <2>3. QED
    BY <2>1, <2>2
<1>7. \A s \in A : to[s] = sl[s]
  BY <1>1, <1>3
<1>8. SlotRows(to, A) = SlotRows(sl, A)
  BY <1>7 DEF SlotRows
<1>9. SlotRows(to, A \cup new) = SlotRows(sl, A) \cup ToSet(RowsOf(good))
  <2>1. SlotRows(to, A \cup new) = SlotRows(to, A) \cup SlotRows(to, new)
    BY DEF SlotRows
  <2>2. QED
    BY <1>6, <1>8, <2>1
<1>10. SlotsApart(to, A \cup new)
  <2>1. ASSUME NEW s \in new, NEW t \in new, to[s].row = to[t].row PROVE s = t
    <3>1. PICK i \in DOMAIN good : s = free[i]
      BY <1>1
    <3>2. PICK j \in DOMAIN good : t = free[j]
      BY <1>1
    <3>3. good[i].row = good[j].row
      BY <1>1, <2>1, <3>1, <3>2
    <3>4. Once(RowsOf(good))
      BY DEF Seating, Listed, Lists
    <3>5. i = j
      BY <3>3, <3>4 DEF Once, RowsOf
    <3>6. QED
      BY <3>1, <3>2, <3>5
  <2>2. ASSUME NEW s \in A, NEW t \in new, to[s].row = to[t].row PROVE FALSE
    <3>1. to[s].row \in SlotRows(sl, A)
      BY <1>7 DEF SlotRows
    <3>2. to[t].row \in SlotRows(to, new)
      BY DEF SlotRows
    <3>3. QED
      BY <1>1, <1>6, <2>2, <3>1, <3>2
  <2>3. ASSUME NEW s \in A, NEW t \in A, to[s].row = to[t].row PROVE s = t
    BY <1>1, <1>7, <2>3 DEF SlotsApart
  <2>4. QED
    BY <2>1, <2>2, <2>3 DEF SlotsApart
<1>11. Cells(to, A \cup new) = Cells(sl, A) + Cells(to, new)
  <2>1. A \in SUBSET Slots /\ new \in SUBSET Slots /\ A \cap new = {} /\ \A s \in A : to[s].cells = sl[s].cells
    BY <1>1, <1>3, <1>7
  <2>2. Cells(to, A \cup new) = Cells(to, A) + Cells(to, new)
    BY <1>1, <2>1, CellsSplit
  <2>3. Cells(to, A) = Cells(sl, A)
    BY <1>1, <2>1, CellsSame
  <2>4. QED
    BY <2>2, <2>3
<1>12. QED
  BY <1>3, <1>4, <1>9, <1>10, <1>11 DEF Seated

-----------------------------------------------------------------------------
(* The new slots and their first tokens.                                     *)

EndOf(e) == [row |-> e.row, kind |-> IF row[e.row].second THEN "value" ELSE "error"]
SeatOf(e, rec) == /\ rec.row = e.row /\ rec.gen = kept[e.row].gen /\ rec.pos = Prompt + kept[e.row].gen
                  /\ rec.cells = e.need /\ rec.full = e.full /\ rec.shares = TRUE

(* What the round comes to: the entries that failed end, the good ones sit   *)
(* down in free slots, and commit() takes the first token of each.           *)
Placement(failed, good, free, new, placed, seats, lost, token, c) ==
  /\ failed \in Seq(TakenType) /\ ToSet(failed) = {e \in ToSet(taken) : e.error}
  /\ good \in Seq(TakenType) /\ ToSet(good) = {e \in ToSet(taken) : ~e.error}
  /\ Lists(RowsOf(failed), ToSet(RowsOf(failed))) /\ Lists(RowsOf(good), ToSet(RowsOf(good)))
  /\ TakenRows = ToSet(RowsOf(failed)) \cup ToSet(RowsOf(good))
  /\ ToSet(RowsOf(failed)) \cap ToSet(RowsOf(good)) = {}
  /\ Lists(free, Slots \ Active) /\ Len(good) <= Len(free) /\ new = {free[i] : i \in DOMAIN good}
  /\ SlotsTyped(placed) /\ \A s \in Slots \ new : placed[s] = slot[s]
  /\ \A i \in DOMAIN good : SeatOf(good[i], placed[free[i]])
  /\ new \in SUBSET (Slots \ Active) /\ ToSet(seats) = Active \cup new
  /\ SlotRows(placed, Active \cup new) = SlotRows(slot, Active) \cup ToSet(RowsOf(good))
  /\ Cells(placed, Active \cup new) = Cells(slot, Active) + Cells(placed, new)
  /\ lost = [i \in DOMAIN failed |-> EndOf(failed[i])]
  /\ Sampling(placed, seats, reserved + Cells(placed, new), new, token, c)
  /\ cached' = IF good = <<>> THEN cached ELSE Prefix
  /\ slot' = c.slot /\ order' = c.order /\ reserved' = c.reserved
  /\ ready' = Encoded(c.again) \o ready /\ row' = Seconded(c.again) /\ tsReady' = tsReady \o c.align
  /\ finished' = finished \o lost \o Results(c.done, "value")

LEMMA Placements ==
  ASSUME IInv, Place
  PROVE  \E failed, good, free, new, placed, seats, lost, token, c :
           Placement(failed, good, free, new, placed, seats, lost, token, c)
<1> DEFINE failed == Only(taken, {e \in ToSet(taken) : e.error})
           good == Without(taken, ToSet(failed))
           free == InOrder(Slots \ Active)
           at(s) == CHOOSE i \in DOMAIN good : free[i] = s
           new == {free[i] : i \in DOMAIN good}
           rec(e) == [row |-> e.row, gen |-> kept[e.row].gen, pos |-> Prompt + kept[e.row].gen,
                      cells |-> e.need, full |-> e.full, shares |-> TRUE,
                      armed |-> /\ Kind(e.row) = "fallback" /\ ~row[e.row].second
                                /\ kept[e.row].on => kept[e.row].armed]
           placed == [s \in Slots |-> IF s \in new THEN rec(good[at(s)]) ELSE slot[s]]
           lost == [i \in DOMAIN failed |-> EndOf(failed[i])]
           seats == order \o SubSeq(free, 1, Len(good))
<1>1. pc = "place" /\ cached' = IF good = <<>> THEN cached ELSE Prefix
  BY ZenonT(40) DEF Place
<1>2. PICK token :
           LET c == Commit(placed, seats, reserved + Cells(placed, new), new, token)
           IN /\ slot' = c.slot /\ order' = c.order /\ reserved' = c.reserved
              /\ ready' = Encoded(c.again) \o ready
              /\ row' = Seconded(c.again)
              /\ tsReady' = tsReady \o c.align
              /\ finished' = finished \o lost \o Results(c.done, "value")
  BY ZenonT(40) DEF Place, EndOf
<1> DEFINE c == Commit(placed, seats, reserved + Cells(placed, new), new, token)
<1>3. /\ slot' = c.slot /\ order' = c.order /\ reserved' = c.reserved
      /\ ready' = Encoded(c.again) \o ready /\ row' = Seconded(c.again) /\ tsReady' = tsReady \o c.align
      /\ finished' = finished \o lost \o Results(c.done, "value")
  BY <1>2, Zenon
<1>4. /\ Busy /\ TypeInv /\ Phases /\ Accounts /\ fallbackReady = <<>> /\ preemptedReady = <<>>
      /\ Active \subseteq Slots /\ Live \subseteq 1 .. MaxTickets /\ Live \subseteq Nat /\ MaxTickets \in Nat
      /\ TakenRows \subseteq Live /\ ReadyRows \subseteq Live /\ Live \subseteq DOMAIN row
      /\ SlotRows(slot, Active) \subseteq Live
      /\ \A r \in Nat : Placed(r) = In(r, Live)
  <2>1. Busy /\ TypeInv /\ Phases
    BY <1>1 DEF Busy, IInv
  <2>2. QED
    BY <1>1, <2>1, PlacesLive DEF Phases, Accounts, Accounted
<1> DEFINE F == {e \in ToSet(taken) : e.error}
           G == ToSet(taken) \ F
           bad == ToSet(RowsOf(failed))
           fine == ToSet(RowsOf(good))
<1>5. taken \in Seq(TakenType) /\ Lists(RowsOf(taken), TakenRows)
  BY <1>4 DEF TypeInv, Accounts, Accounted, Apart, Listed, TakenRows
<1>6. /\ failed \in Seq(TakenType) /\ ToSet(failed) = F /\ Lists(RowsOf(failed), bad) /\ bad \subseteq TakenRows
  <2>1. failed = Only(taken, F) /\ ToSet(taken) \cap F = F
    OBVIOUS
  <2> HIDE DEF F, failed
  <2>2. Selected(TakenType, taken, TakenRows, F, failed)
    BY <1>5, <2>1, SomeEntries
  <2>3. QED
    BY <2>1, <2>2 DEF Selected
<1>7. good = Only(taken, G)
  BY <1>6 DEF Without
<1>8. /\ good \in Seq(TakenType) /\ ToSet(good) = G /\ Lists(RowsOf(good), fine) /\ fine \subseteq TakenRows
      /\ Cardinality({i \in DOMAIN taken : taken[i] \in G}) = Len(good)
  <2>1. ToSet(taken) \cap G = G
    OBVIOUS
  <2> HIDE DEF G, good
  <2>2. Selected(TakenType, taken, TakenRows, G, good)
    BY <1>5, <1>7, SomeEntries
  <2>3. QED
    BY <2>1, <2>2 DEF Selected
<1>9. TakenRows = bad \cup fine /\ bad \cap fine = {}
  <2>1. /\ TakenRows = {e.row : e \in ToSet(taken)} /\ bad = {e.row : e \in F} /\ fine = {e.row : e \in G}
    <3>1. ASSUME NEW q PROVE ToSet(RowsOf(q)) = {e.row : e \in ToSet(q)}
      BY DEF ToSet, RowsOf
    <3> HIDE DEF F, G, failed, good
    <3>2. QED
      BY <1>6, <1>8, <3>1 DEF TakenRows
  <2>2. ToSet(taken) = F \cup G /\ F \cap G = {}
    OBVIOUS
  <2>3. \A d, e \in ToSet(taken) : d.row = e.row => d = e
    BY <1>5 DEF Lists, Once, RowsOf, ToSet
  <2> HIDE DEF F, G, bad, fine
  <2>4. QED
    BY <2>1, <2>2, <2>3
<1>10. Len(good) + Len(order) <= NumSlots
  <2>1. {i \in DOMAIN taken : ~taken[i].error} = {i \in DOMAIN taken : taken[i] \in G}
    BY DEF ToSet
  <2>2. Cardinality({i \in DOMAIN taken : ~taken[i].error}) = Len(good)
    BY <1>8, <2>1
  <2>3. CASE taken # <<>>
    BY <1>4, <2>2, <2>3 DEF Phases
  <2>4. CASE taken = <<>>
    <3>1. G = {}
      BY <2>4 DEF ToSet
    <3>2. Len(good) = 0
      <4>1. Cardinality({}) = 0
        BY FS_EmptySet
      <4>2. {i \in DOMAIN taken : taken[i] \in G} = {}
        BY <3>1
      <4>3. QED
        BY <1>8, <4>1, <4>2
    <3>3. Lists(order, Active) /\ Len(order) \in Nat
      BY <1>4 DEF Accounts, Accounted, Apart, Listed, Active, TypeInv
    <3>4. Cardinality(Active) = Len(order)
      BY <3>3, ListsFinite
    <3>5. Cardinality(Active) <= Cardinality(Slots)
      BY <1>4, SlotsFinite, FS_Subset
    <3>6. Cardinality(Slots) = NumSlots /\ NumSlots \in Nat
      BY SlotCount
    <3>7. QED
      BY <3>2, <3>3, <3>4, <3>5, <3>6
  <2>5. QED
    BY <2>3, <2>4
<1>11. Lists(free, Slots \ Active) /\ Len(good) <= Len(free)
  <2>1. Lists(order, Active) /\ Len(order) \in Nat /\ Len(good) \in Nat
    BY <1>4, <1>8 DEF Accounts, Accounted, Apart, Listed, Active, TypeInv
  <2>2. Cardinality(Active) = Len(order)
    BY <2>1, ListsFinite
  <2>3. Cardinality(Slots) = NumSlots /\ NumSlots \in Nat /\ IsFiniteSet(Slots)
    BY SlotCount, SlotsFinite
  <2>4. Slots \cap Active = Active
    BY <1>4
  <2>5. Cardinality(Slots \ Active) = Cardinality(Slots) - Cardinality(Slots \cap Active)
    BY <2>3, FS_Difference
  <2> DEFINE S == Slots \ Active
  <2>6. S \in SUBSET Nat /\ IsFiniteSet(S)
    <3>1. S \in SUBSET Slots /\ S \in SUBSET Nat
      BY EngineAssumption DEF Slots
    <3>2. QED
      BY <3>1, SlotsFinite
  <2>7. Lists(InOrder(S), S)
    <3> HIDE DEF S
    <3>1. QED
      BY <2>6, ListsInOrder
  <2> HIDE DEF good, free
  <2>8. Lists(free, Slots \ Active)
    BY <2>7 DEF free
  <2>9. Cardinality(Slots \ Active) = Len(free)
    BY <2>8, ListsFinite
  <2>10. Len(free) = NumSlots - Len(order)
    BY <2>2, <2>3, <2>4, <2>5, <2>9
  <2>11. QED
    BY <1>10, <2>1, <2>3, <2>8, <2>10
<1>12. kept \in [1 .. MaxTickets -> KeptType] /\ slot \in [Slots -> SlotType] /\ Prompt \in Nat /\ load \in Loads
  <2>1. load \in Loads /\ kept \in [1 .. MaxTickets -> KeptType] /\ slot \in [Slots -> SlotType]
    BY <1>4 DEF TypeInv
  <2>2. QED
    BY <2>1, LoadType
<1>13. ASSUME NEW i \in DOMAIN good PROVE rec(good[i]) \in SlotType /\ SeatOf(good[i], rec(good[i]))
  <2>1. good[i] \in TakenType
    BY <1>8
  <2>2. good[i].row \in 1 .. MaxTickets
    <3>1. good[i].row \in fine
      BY DEF ToSet, RowsOf
    <3>2. QED
      BY <1>4, <1>8, <3>1
  <2> DEFINE e == good[i]
  <2>3. /\ e.row \in Nat /\ e.need \in Nat /\ e.full \in Nat /\ kept[e.row] \in KeptType
    BY <1>12, <2>1, <2>2 DEF TakenType
  <2>4. kept[e.row].gen \in Nat
    BY <2>3 DEF KeptType
  <2> DEFINE armed == /\ Kind(e.row) = "fallback" /\ ~row[e.row].second
                      /\ kept[e.row].on => kept[e.row].armed
             gen == kept[e.row].gen
             pos == Prompt + gen
  <2>5. armed \in BOOLEAN
    OBVIOUS
  <2>6. gen \in Nat /\ pos \in Nat
    BY <1>12, <2>4
  <2>7. rec(e) = [row |-> e.row, gen |-> gen, pos |-> pos, cells |-> e.need, full |-> e.full,
                  shares |-> TRUE, armed |-> armed]
    OBVIOUS
  <2> HIDE DEF rec, armed, gen, pos, e
  <2>8. rec(e) \in SlotType
    BY <2>3, <2>5, <2>6, <2>7 DEF SlotType
  <2>9. /\ rec(e).row = e.row /\ rec(e).gen = gen /\ rec(e).pos = pos /\ rec(e).cells = e.need
        /\ rec(e).full = e.full /\ rec(e).shares = TRUE
    BY <2>7
  <2>10. QED
    BY <2>8, <2>9 DEF SeatOf, e, gen, pos
<1>14. \A s \in Slots \ new : placed[s] = slot[s]
  OBVIOUS
<1>15. ASSUME NEW i \in DOMAIN good PROVE placed[free[i]] = rec(good[i])
  <2>1. /\ DOMAIN good = 1 .. Len(good) /\ Len(good) \in Nat /\ Len(free) \in Nat /\ DOMAIN free = 1 .. Len(free)
        /\ \A j \in DOMAIN free : free[j] \in Slots
        /\ \A j, k \in DOMAIN free : free[j] = free[k] => j = k
    <3> HIDE DEF free, good
    <3>1. QED
      BY <1>8, <1>11 DEF Lists, Once
  <2> HIDE DEF rec, good, free
  <2>2. i \in DOMAIN free /\ free[i] \in new /\ free[i] \in Slots
    BY <1>11, <2>1
  <2>3. at(free[i]) \in DOMAIN good /\ free[at(free[i])] = free[i]
    OBVIOUS
  <2>4. at(free[i]) = i
    <3>1. at(free[i]) \in DOMAIN free
      BY <1>11, <2>1, <2>3
    <3>2. QED
      BY <2>1, <2>2, <2>3, <3>1
  <2>5. QED
    BY <2>2, <2>4
<1>16. placed \in [Slots -> SlotType]
  <2>1. ASSUME NEW s \in Slots PROVE placed[s] \in SlotType
    <3>1. CASE s \in new
      <4>1. PICK i \in DOMAIN good : s = free[i]
        BY <3>1
      <4> HIDE DEF placed, rec, good, free
      <4>2. QED
        BY <1>13, <1>15, <4>1
    <3>2. CASE s \notin new
      BY <1>12, <3>2
    <3>3. QED
      BY <3>1, <3>2, Zenon
  <2>2. QED
    BY <2>1, ZenonT(40)
<1> HIDE DEF placed, rec, at
<1>17. Seating(slot, placed, Active, free, good, new)
  <2>1. \A i \in DOMAIN good : placed[free[i]].row = good[i].row
    <3> HIDE DEF free, good
    <3>1. QED
      BY <1>13, <1>15 DEF SeatOf
  <2>2. fine \cap SlotRows(slot, Active) = {}
    <3>1. ASSUME NEW r \in fine, r \in SlotRows(slot, Active) PROVE FALSE
      <4>1. r \in Live /\ r \in Nat /\ r \in TakenRows
        BY <1>4, <1>8
      <4>2. Placed(r) = In(r, Live)
        BY <1>4, <4>1
      <4> HIDE DEF fine
      <4>3. QED
        BY <3>1, <4>1, <4>2 DEF Placed, In
    <3>2. QED
      BY <3>1
  <2>3. Listed(RowsOf(good))
    BY <1>8 DEF Listed
  <2> HIDE DEF free, good, fine, new
  <2>4. SlotsTyped(slot) /\ SlotsTyped(placed) /\ Active \in SUBSET Slots /\ SlotsApart(slot, Active)
    BY <1>4, <1>12, <1>16 DEF SlotsTyped, Accounts, Accounted, Apart
  <2>5. new = {free[i] : i \in DOMAIN good} /\ ToSet(RowsOf(good)) = fine
    BY DEF new, fine
  <2>6. QED
    BY <1>8, <1>11, <1>14, <2>1, <2>2, <2>3, <2>4, <2>5 DEF Seating
<1> HIDE DEF free, good, failed, lost, new, seats, F, G, bad, fine
<1>18. /\ new \in SUBSET (Slots \ Active)
       /\ SlotsApart(placed, Active \cup new)
       /\ SlotRows(placed, Active \cup new) = SlotRows(slot, Active) \cup fine
       /\ Cells(placed, Active \cup new) = Cells(slot, Active) + Cells(placed, new)
       /\ Lists(SubSeq(free, 1, Len(good)), new)
  <2>1. ToSet(RowsOf(good)) = fine
    BY DEF fine
  <2>2. Seated(slot, placed, Active, free, good, new)
    BY <1>17, Seats
  <2>3. QED
    BY <2>1, <2>2 DEF Seated
<1>19. seats \in Seq(Slots) /\ Listed(seats) /\ ToSet(seats) = Active \cup new
  <2>1. Lists(order, Active) /\ Active \cap new = {} /\ Active \cup new \subseteq Slots
    BY <1>4, <1>18 DEF Accounts, Accounted, Apart, Listed, Active
  <2>2. Lists(seats, Active \cup new)
    BY <1>18, <2>1, ListsConcat DEF seats
  <2>3. seats \in Seq(Active \cup new)
    BY <2>2 DEF Lists
  <2>4. seats \in Seq(Slots)
    BY <2>1, <2>3, SeqMore
  <2>5. QED
    BY <2>2, <2>4, ListedIs
<1> DEFINE res == reserved + Cells(placed, new)
<1>20. Sampling(placed, seats, res, new, token, c)
  <2>1. reserved = Cells(slot, Active)
    BY <1>4 DEF Accounts, Reserved
  <2>2. c = Commit(placed, seats, res, new, token)
    OBVIOUS
  <2>3. res = Cells(placed, ToSet(seats))
    BY <1>18, <1>19, <2>1
  <2>4. SlotsTyped(placed) /\ SlotsApart(placed, ToSet(seats)) /\ new \in SUBSET ToSet(seats)
    BY <1>16, <1>18, <1>19 DEF SlotsTyped
  <2> HIDE DEF c, res
  <2>5. QED
    BY <1>19, <2>2, <2>3, <2>4 DEF Sampling
<1> HIDE DEF c, res
<1>21. \A i \in DOMAIN good : SeatOf(good[i], placed[free[i]])
  BY <1>13, <1>15
<1>22. new = {free[i] : i \in DOMAIN good}
  BY DEF new
<1>23. lost = [i \in DOMAIN failed |-> EndOf(failed[i])]
  BY DEF lost
<1>24. bad = ToSet(RowsOf(failed)) /\ fine = ToSet(RowsOf(good))
  BY DEF bad, fine
<1>25. F = {e \in ToSet(taken) : e.error} /\ G = {e \in ToSet(taken) : ~e.error}
  BY DEF F, G
<1>26. SlotsTyped(placed)
  BY <1>16 DEF SlotsTyped
<1>27. Placement(failed, good, free, new, placed, seats, lost, token, c)
  BY <1>1, <1>3, <1>6, <1>8, <1>9, <1>11, <1>14, <1>18, <1>19, <1>20, <1>21, <1>22, <1>23, <1>24, <1>25, <1>26
  DEF Placement, res
<1>28. QED
  BY <1>27

LEMMA KeepsPlace == IInv /\ Place => IInv'
<1> SUFFICES ASSUME IInv, Place PROVE IInv'
  OBVIOUS
<1>1. /\ pc = "place" /\ taken' = <<>> /\ pc' = "top"
      /\ kept' = [r \in DOMAIN kept |->
              IF \E i \in DOMAIN taken : taken[i].row = r THEN NotKept ELSE kept[r]]
      /\ UNCHANGED <<load, source, freeRows, waiting, jobs, reencode, reencoding, resuming,
                     growth, pend, aligning>>
  BY Zenon DEF Place
<1>2. PICK failed, good, free, new, placed, seats, lost, token, c :
        Placement(failed, good, free, new, placed, seats, lost, token, c)
  BY Placements
<1>3. /\ slot' = c.slot /\ order' = c.order /\ reserved' = c.reserved
      /\ ready' = Encoded(c.again) \o ready /\ row' = Seconded(c.again) /\ tsReady' = tsReady \o c.align
      /\ finished' = finished \o lost \o Results(c.done, "value")
      /\ cached' = IF good = <<>> THEN cached ELSE Prefix
  BY <1>2 DEF Placement
<1>4. /\ Busy /\ TypeInv /\ Phases /\ Accounts /\ fallbackReady = <<>> /\ preemptedReady = <<>>
      /\ Active \subseteq Slots /\ Live \subseteq 1 .. MaxTickets /\ Live \subseteq Nat /\ MaxTickets \in Nat
      /\ TakenRows \subseteq Live /\ ReadyRows \subseteq Live /\ Live \subseteq DOMAIN row
      /\ SlotRows(slot, Active) \subseteq Live
      /\ \A r \in Nat : Placed(r) = In(r, Live)
  <2>1. Busy /\ TypeInv /\ Phases
    BY <1>1 DEF Busy, IInv
  <2>2. QED
    BY <1>1, <2>1, PlacesLive DEF Phases, Accounts, Accounted
<1> DEFINE bad == ToSet(RowsOf(failed))
           fine == ToSet(RowsOf(good))
<1>9. TakenRows = bad \cup fine /\ bad \cap fine = {}
  BY <1>2 DEF Placement
<1>6. failed \in Seq(TakenType) /\ Lists(RowsOf(failed), bad) /\ bad \subseteq TakenRows
  BY <1>2, <1>9 DEF Placement
<1>8. fine \subseteq TakenRows
  BY <1>9
<1>12. kept \in [1 .. MaxTickets -> KeptType] /\ load \in Loads
  BY <1>4 DEF TypeInv
<1>18. SlotRows(placed, Active \cup new) = SlotRows(slot, Active) \cup fine /\ ToSet(seats) = Active \cup new
  BY <1>2 DEF Placement
<1>20. Sampling(placed, seats, reserved + Cells(placed, new), new, token, c)
  BY <1>2 DEF Placement
<1>0. lost = [i \in DOMAIN failed |-> EndOf(failed[i])]
  BY <1>2 DEF Placement
<1> HIDE DEF bad, fine
<1>21. /\ SlotsTyped(c.slot) /\ c.order \in Seq(Slots) /\ Listed(c.order)
       /\ SlotsApart(c.slot, ToSet(c.order)) /\ c.reserved = Cells(c.slot, ToSet(c.order))
       /\ c.again \in Seq(Nat) /\ c.align \in Seq(Nat) /\ c.done \in Seq(Nat)
       /\ Listed(c.again) /\ Listed(c.align) /\ Listed(c.done)
       /\ ToSet(c.again) \cap ToSet(c.align) = {} /\ ToSet(c.again) \cap ToSet(c.done) = {}
       /\ ToSet(c.align) \cap ToSet(c.done) = {}
       /\ SlotRows(c.slot, ToSet(c.order)) = SlotRows(placed, ToSet(seats)) \ Answers(c)
       /\ Answers(c) \subseteq SlotRows(placed, ToSet(seats))
  BY <1>20, Commits
<1>22. /\ SlotsTyped(slot') /\ order' \in Seq(Slots) /\ Listed(order')
       /\ SlotsApart(slot', Active') /\ reserved' = Cells(slot', Active')
       /\ SlotRows(slot', Active') = (SlotRows(slot, Active) \cup fine) \ Answers(c)
       /\ Answers(c) \subseteq SlotRows(slot, Active) \cup fine
  BY <1>3, <1>18, <1>21 DEF Active
<1>23. ASSUME NEW r \in SlotRows(slot, Active) \cup fine \cup bad
       PROVE  r \notin ToSet(tsReady) /\ r \notin EndedRows /\ r \notin ReadyRows /\ r \in Nat
              /\ r \notin InEncoder
  <2>1. r \in Nat /\ r \in SlotRows(slot, Active) \cup TakenRows /\ r \in Live
    BY <1>4, <1>9
  <2>2. Placed(r) = In(r, Live)
    BY <1>4, <2>1
  <2>3. QED
    BY <2>1, <2>2 DEF Placed, In, InEncoder
<1>24. tsReady' \in Seq(Nat) /\ Listed(tsReady') /\ ToSet(tsReady') = ToSet(tsReady) \cup ToSet(c.align)
  <2>1. tsReady \in Seq(Nat) /\ Lists(tsReady, ToSet(tsReady)) /\ Lists(c.align, ToSet(c.align))
    BY <1>4, <1>21 DEF TypeInv, Accounts, Accounted, Apart, Listed
  <2>2. ToSet(tsReady) \cap ToSet(c.align) = {}
    BY <1>22, <1>23 DEF Answers
  <2>3. Lists(tsReady \o c.align, ToSet(tsReady) \cup ToSet(c.align))
    BY <2>1, <2>2, ListsConcat
  <2>4. tsReady \o c.align \in Seq(Nat)
    BY <1>21, <2>1
  <2>5. QED
    BY <1>3, <2>3, <2>4, ListedIs
<1>25. ready' \in Seq(ReadyType) /\ Listed(RowsOf(ready')) /\ ReadyRows' = ToSet(c.again) \cup ReadyRows
  <2> DEFINE es == Encoded(c.again)
  <2>1. es \in Seq(ReadyType) /\ RowsOf(es) = c.again
    BY <1>21, EncodedAre
  <2> HIDE DEF es
  <2>2. ready \in Seq(ReadyType) /\ Lists(RowsOf(ready), ReadyRows)
    BY <1>4 DEF TypeInv, Accounts, Accounted, Apart, Listed, ReadyRows
  <2>3. Lists(RowsOf(es), ToSet(c.again)) /\ ToSet(c.again) \cap ReadyRows = {}
    BY <1>21, <1>22, <1>23, <2>1 DEF Listed, Answers
  <2>4. es \o ready \in Seq(ReadyType) /\ Lists(RowsOf(es \o ready), ToSet(c.again) \cup ReadyRows)
    BY <2>1, <2>2, <2>3, EntriesMore
  <2>5. ready' = es \o ready
    BY <1>3 DEF es
  <2>6. QED
    BY <2>4, <2>5, ListedIs DEF ReadyRows
<1>26. lost \in Seq(ResultType) /\ RowsOf(lost) = RowsOf(failed)
  <2>1. /\ DOMAIN failed = 1 .. Len(failed) /\ Len(failed) \in Nat /\ DOMAIN lost = DOMAIN failed
        /\ \A i \in DOMAIN failed : lost[i] = EndOf(failed[i])
    BY <1>0, <1>6
  <2>2. ASSUME NEW i \in DOMAIN failed PROVE lost[i] \in ResultType /\ lost[i].row = failed[i].row
    <3>1. failed[i] \in TakenType
      BY <1>6
    <3>2. failed[i].row \in Nat
      BY <3>1 DEF TakenType
    <3>3. QED
      BY <2>1, <3>2 DEF ResultType, EndOf
  <2>3. lost \in [1 .. Len(failed) -> ResultType]
    BY <1>0, <2>1, <2>2
  <2>4. lost \in Seq(ResultType)
    BY <2>1, <2>3, SeqDef
  <2>5. RowsOf(lost) = RowsOf(failed)
    BY <2>1, <2>2 DEF RowsOf
  <2>6. QED
    BY <2>4, <2>5
<1>27. /\ finished' \in Seq(ResultType) /\ Listed(RowsOf(finished'))
       /\ EndedRows' = EndedRows \cup bad \cup ToSet(c.done)
  <2> DEFINE es == Results(c.done, "value")
             fs == finished \o lost
  <2>1. es \in Seq(ResultType) /\ RowsOf(es) = c.done
    BY <1>21, ResultsAre
  <2> HIDE DEF es
  <2>2. Lists(RowsOf(lost), bad) /\ bad \cap EndedRows = {}
    BY <1>6, <1>23, <1>26
  <2>3. finished \in Seq(ResultType) /\ Lists(RowsOf(finished), EndedRows)
    BY <1>4 DEF TypeInv, Accounts, Accounted, Apart, Listed, EndedRows
  <2>4. fs \in Seq(ResultType) /\ Lists(RowsOf(fs), EndedRows \cup bad)
    BY <1>26, <2>2, <2>3, EntriesMore
  <2> HIDE DEF fs
  <2>5. bad \cap SlotRows(slot, Active) = {}
    <3>1. ASSUME NEW r \in bad, r \in SlotRows(slot, Active) PROVE FALSE
      <4>1. r \in Live /\ r \in Nat /\ r \in TakenRows
        BY <1>4, <1>6
      <4>2. Placed(r) = In(r, Live)
        BY <1>4, <4>1
      <4>3. QED
        BY <3>1, <4>1, <4>2 DEF Placed, In
    <3>2. QED
      BY <3>1
  <2>6. Lists(RowsOf(es), ToSet(c.done)) /\ (EndedRows \cup bad) \cap ToSet(c.done) = {}
    <3>1. ToSet(c.done) \subseteq SlotRows(slot, Active) \cup fine
      BY <1>22 DEF Answers
    <3>2. EndedRows \cap ToSet(c.done) = {} /\ bad \cap ToSet(c.done) = {}
      BY <1>9, <1>23, <2>5, <3>1
    <3>3. QED
      BY <1>21, <2>1, <3>2 DEF Listed
  <2>7. fs \o es \in Seq(ResultType) /\ Lists(RowsOf(fs \o es), (EndedRows \cup bad) \cup ToSet(c.done))
    BY <2>1, <2>4, <2>6, EntriesMore
  <2>8. finished' = fs \o es
    BY <1>3 DEF es, fs
  <2>9. QED
    BY <2>7, <2>8, ListedIs DEF EndedRows
<1>28. row' \in Seq(RowType) /\ DOMAIN row' = DOMAIN row /\ Live' = Live /\ MaxTickets' = MaxTickets /\ Numbered'
  BY <1>1, <1>3, <1>4, SecondRows
<1>29. UNCHANGED <<waiting, jobs, reencode, fallbackReady, preemptedReady, aligning, reencoding, resuming, InEncoder>>
       /\ TakenRows' = {} /\ RowsOf(taken') = <<>>
  BY <1>1 DEF growth, TakenRows, RowsOf, InEncoder, ToSet
<1>30. Accounted'
  <2>1. Listed(<<>>)
    BY ListsEmpty, ListedIs
  <2>2. Apart'
    BY <1>4, <1>22, <1>24, <1>25, <1>27, <1>29, <2>1 DEF Accounts, Accounted, Apart, RowsOf
  <2>3. ASSUME NEW r \in Nat PROVE Placed(r)' = In(r, Live')
    <3>1. Placed(r) = In(r, Live)
      BY <1>4
    <3>2. In(r, TakenRows') = 0 /\ In(r, TakenRows) = In(r, bad) + In(r, fine)
      BY <1>9, <1>29 DEF In
    <3>3. In(r, ReadyRows') = In(r, ToSet(c.again)) + In(r, ReadyRows)
      BY <1>22, <1>23, <1>25 DEF In, Answers
    <3>4. In(r, ToSet(tsReady)') = In(r, ToSet(tsReady)) + In(r, ToSet(c.align))
      BY <1>22, <1>23, <1>24 DEF In, Answers
    <3>5. In(r, SlotRows(slot, Active) \cup fine) = In(r, SlotRows(slot, Active)) + In(r, fine)
      <4>1. CASE r \in fine /\ r \in SlotRows(slot, Active)
        <5>1. r \in TakenRows
          BY <1>8, <4>1
        <5>2. QED
          BY <3>1, <4>1, <5>1 DEF Placed, In
      <4>2. CASE ~(r \in fine /\ r \in SlotRows(slot, Active))
        BY <4>2 DEF In
      <4>3. QED
        BY <4>1, <4>2
    <3>6. In(r, SlotRows(slot, Active) \cup fine)
            = In(r, SlotRows(slot, Active)') + In(r, ToSet(c.again)) + In(r, ToSet(c.align)) + In(r, ToSet(c.done))
      BY <1>21, <1>22 DEF In, Answers
    <3>7. In(r, EndedRows') = In(r, EndedRows) + In(r, bad) + In(r, ToSet(c.done))
      <4>1. ~(r \in bad /\ r \in ToSet(c.done))
        <5>1. ASSUME r \in bad, r \in ToSet(c.done) PROVE FALSE
          <6>1. r \in SlotRows(slot, Active) /\ r \in TakenRows
            BY <1>6, <1>9, <1>22, <5>1 DEF Answers
          <6>2. QED
            BY <3>1, <6>1 DEF Placed, In
        <5>2. QED
          BY <5>1
      <4>2. (r \in bad => r \notin EndedRows) /\ (r \in ToSet(c.done) => r \notin EndedRows)
        BY <1>22, <1>23 DEF Answers
      <4>3. QED
        BY <1>27, <4>1, <4>2 DEF In
    <3>8. /\ In(r, ToSet(c.again)) \in Int /\ In(r, ToSet(c.align)) \in Int /\ In(r, ToSet(c.done)) \in Int
          /\ In(r, SlotRows(slot, Active)') \in Int /\ In(r, EndedRows) \in Int /\ In(r, ToSet(tsReady)) \in Int
          /\ In(r, SlotRows(slot, Active)) \in Int /\ In(r, bad) \in Int /\ In(r, fine) \in Int
          /\ In(r, ToSet(waiting)) \in Int /\ In(r, JobRows(jobs)) \in Int /\ In(r, ToSet(reencode)) \in Int
          /\ In(r, ReadyRows) \in Int /\ In(r, ToSet(preemptedReady)) \in Int
          /\ In(r, ToSet(fallbackReady)) \in Int
          /\ In(r, ToSet(aligning.rows)) \in Int /\ In(r, Live) \in Int
      BY DEF In
    <3>9. /\ In(r, ToSet(waiting))' = In(r, ToSet(waiting)) /\ In(r, JobRows(jobs))' = In(r, JobRows(jobs))
          /\ In(r, ToSet(reencode))' = In(r, ToSet(reencode)) /\ In(r, Live)' = In(r, Live)
          /\ In(r, ToSet(fallbackReady))' = In(r, ToSet(fallbackReady))
          /\ In(r, ToSet(preemptedReady))' = In(r, ToSet(preemptedReady))
          /\ In(r, ToSet(aligning.rows))' = In(r, ToSet(aligning.rows))
      BY <1>28, <1>29
    <3> DEFINE others == In(r, ToSet(waiting)) + In(r, JobRows(jobs)) + In(r, ToSet(reencode))
                       + In(r, ToSet(fallbackReady)) + In(r, ToSet(preemptedReady))
                       + In(r, ToSet(aligning.rows))
    <3>10. others' = others /\ others \in Int
      BY <3>8, <3>9
    <3>11. Placed(r) = others + In(r, ReadyRows) + In(r, TakenRows) + In(r, SlotRows(slot, Active))
                       + In(r, ToSet(tsReady)) + In(r, EndedRows)
      BY <3>2, <3>8 DEF Placed
    <3>12. Placed(r)' = others' + In(r, ReadyRows') + In(r, TakenRows') + In(r, SlotRows(slot, Active)')
                        + In(r, ToSet(tsReady)') + In(r, EndedRows')
      <4>1. /\ In(r, ReadyRows') \in Int /\ In(r, TakenRows') \in Int /\ In(r, ToSet(tsReady)') \in Int
            /\ In(r, EndedRows') \in Int
        BY <3>2, <3>3, <3>4, <3>7, <3>8
      <4>2. QED
        BY <3>8, <3>9, <4>1 DEF Placed
    <3> HIDE DEF others
    <3> DEFINE again == In(r, ToSet(c.again))
               align == In(r, ToSet(c.align))
               done == In(r, ToSet(c.done))
               ripe == In(r, ReadyRows)
               ripened == In(r, ReadyRows')
               stamps == In(r, ToSet(tsReady))
               stamped == In(r, ToSet(tsReady)')
               ended0 == In(r, EndedRows)
               ended1 == In(r, EndedRows')
               seated == In(r, SlotRows(slot, Active))
               left == In(r, SlotRows(slot, Active)')
               failing == In(r, bad)
               joining == In(r, fine)
    <3>13. /\ again \in Int /\ align \in Int /\ done \in Int /\ ripe \in Int /\ stamps \in Int
           /\ ended0 \in Int /\ seated \in Int /\ left \in Int /\ failing \in Int /\ joining \in Int
      BY <3>8
    <3>14. /\ ripened = again + ripe /\ stamped = stamps + align
           /\ ended1 = ended0 + failing + done
      BY <3>3, <3>4, <3>7
    <3>15. seated + joining = left + again + align + done
      BY <3>5, <3>6
    <3>16. Placed(r) = others + ripe + (failing + joining) + seated + stamps + ended0
      BY <3>2, <3>11
    <3>17. Placed(r)' = others + ripened + 0 + left + stamped + ended1
      BY <3>2, <3>10, <3>12
    <3> HIDE DEF again, align, done, ripe, ripened, stamps, stamped, ended0, ended1, seated, left,
                 failing, joining
    <3>18. others + ripened + 0 + left + stamped + ended1
             = others + ripe + (failing + joining) + seated + stamps + ended0
      BY <3>10, <3>13, <3>14, <3>15
    <3>19. QED
      BY <3>1, <3>9, <3>16, <3>17, <3>18
  <2>4. QED
    BY <2>2, <2>3 DEF Accounted, In
<1>31. /\ KeptTyped(kept, MaxTickets) /\ Back \subseteq Live /\ Held \subseteq Back
       /\ ToSet(reencode) \subseteq Back /\ Held \in SUBSET (1 .. MaxTickets)
       /\ \A q \in 1 .. MaxTickets : q \notin Held => kept[q].share = 0
       /\ reencoding = Cardinality(Held) /\ resuming = SharesOf(kept, Held)
  BY <1>4, KeptIs
<1>32. /\ kept' \in [1 .. MaxTickets -> KeptType] /\ KeptTyped(kept', MaxTickets)
       /\ \A r \in 1 .. MaxTickets : kept'[r] = IF r \in TakenRows THEN NotKept ELSE kept[r]
       /\ Back' = Back \ TakenRows
  <2>1. NotKept \in KeptType /\ ~NotKept.on
    BY DEF NotKept, KeptType
  <2>2. \A r : r \in TakenRows <=> \E i \in DOMAIN taken : taken[i].row = r
    BY DEF TakenRows, RowsOf, ToSet
  <2>3. /\ kept' \in [1 .. MaxTickets -> KeptType]
        /\ \A r \in 1 .. MaxTickets : kept'[r] = IF r \in TakenRows THEN NotKept ELSE kept[r]
    BY <1>1, <1>12, <2>1, <2>2
  <2>4. Back' = Back \ TakenRows
    BY <1>28, <2>1, <2>3 DEF Back
  <2>5. QED
    BY <1>4, <2>3, <2>4 DEF KeptTyped
<1>33. Held' = Held /\ TakenRows \cap InEncoder = {}
  <2>1. TakenRows \cap InEncoder = {}
    BY <1>9, <1>23
  <2>2. QED
    BY <1>29, <1>32, <2>1 DEF Held
<1>34. KeptInv'
  <2>1. Back' \subseteq (InEncoder \cup ReadyRows \cup TakenRows \cup ToSet(preemptedReady))'
    BY <1>4, <1>25, <1>29, <1>32 DEF Accounts, KeptInv
  <2>2. Back' \subseteq Live' /\ ToSet(reencode)' \subseteq Back'
    BY <1>28, <1>29, <1>31, <1>32, <1>33 DEF InEncoder
  <2>3. ASSUME NEW q \in 1 .. MaxTickets, q \notin Held' PROVE kept'[q].share = 0
    BY <1>31, <1>32, <1>33, <2>3 DEF NotKept
  <2>4. \A q \in Held : kept'[q].share = kept[q].share
    BY <1>31, <1>32, <1>33 DEF Held
  <2>5. SharesOf(kept', Held) = SharesOf(kept, Held)
    <3>1. KeptTyped(kept, MaxTickets) /\ KeptTyped(kept', MaxTickets) /\ Held \in SUBSET (1 .. MaxTickets)
      BY <1>31, <1>32
    <3>2. QED
      BY <2>4, <3>1, SharesSame
  <2>6. Shares(Held)' = SharesOf(kept', Held')
    BY DEF Shares, SharesOf
  <2>7. QED
    BY <1>28, <1>29, <1>31, <1>33, <2>1, <2>2, <2>3, <2>5, <2>6 DEF KeptInv
<1>35. TypeInv'
  <2>1. cached' \in Nat
    <3>1. Prefix \in Nat /\ cached \in Nat
      BY <1>4, <1>12, LoadType DEF TypeInv
    <3>2. QED
      BY <1>3, <3>1
  <2>2. taken' \in Seq(TakenType) /\ pc' \in PCs /\ slot' \in [Slots -> SlotType]
    BY <1>1, <1>22 DEF PCs, SlotsTyped
  <2>3. QED
    BY <1>1, <1>4, <1>22, <1>24, <1>25, <1>27, <1>28, <1>29, <1>32, <2>1, <2>2 DEF TypeInv, source, growth, pend
<1>36. Phases'
  BY <1>1, <1>4, <1>29 DEF Phases
<1>37. QED
  BY <1>22, <1>28, <1>30, <1>34, <1>35, <1>36 DEF IInv, Reserved

-----------------------------------------------------------------------------
(* The invariant, step by step.                                              *)

LEMMA KeepsStutter == IInv /\ UNCHANGED vars => IInv'
<1> SUFFICES ASSUME IInv, UNCHANGED vars PROVE IInv'
  OBVIOUS
<1>1. UNCHANGED <<pc, call, load, open, next, row, freeRows, waiting, jobs, ready, taken, slot, order, kept,
                  reencode, reencoding, resuming, reserved, cached, growing, fallbackReady, preemptedReady,
                  pendReady, pendLanes, pendCall, tsReady, aligning, finished, posted>>
  BY DEF vars, source, rowVars, queues, kv, growth, pend, ends
<1>2. TypeInv'
  <2>1. MaxTickets' = MaxTickets
    BY <1>1 DEF MaxTickets
  <2>2. QED
    BY <1>1, <2>1 DEF IInv, TypeInv
<1>3. Phases'
  BY <1>1 DEF IInv, Phases
<1>4. Busy => Accounts'
  BY <1>1, AccountsSame DEF IInv, Accounts
<1>5. QED
  BY <1>1, <1>2, <1>3, <1>4 DEF IInv, Busy, Accounts

(* The engine's accounts are kept by every step, of the serving thread, of   *)
(* the jobs beside it and of the callers that cancel.                        *)
THEOREM Invariance == Spec => []IInv
<1>1. Init => IInv
  BY KeepsInit
<1>2. IInv /\ [Next]_vars => IInv'
  <2> SUFFICES ASSUME IInv, [Next]_vars PROVE IInv'
    OBVIOUS
  <2>1. CASE Start BY <2>1, KeepsStart
  <2>2. CASE EngineStep
    <3>1. CASE HarvestTimestamps BY <3>1, KeepsHarvestTimestamps
    <3>2. CASE Deliver           BY <3>2, KeepsDeliver
    <3>3. CASE Flushed           BY <3>3, KeepsFlushed
    <3>4. CASE NothingPosted     BY <3>4, KeepsNothingPosted
    <3>5. CASE ProcessCancels    BY <3>5, KeepsProcessCancels
    <3>6. CASE HarvestJob        BY <3>6, KeepsHarvestJob
    <3>7. CASE Harvested         BY <3>7, KeepsHarvested
    <3>8. CASE LaunchResumed     BY <3>8, KeepsLaunchResumed
    <3>9. CASE LaunchTake        BY <3>9, KeepsLaunchTake
    <3>10. CASE Submit           BY <3>10, KeepsSubmit
    <3>11. CASE Idling           BY <3>11, KeepsIdling
    <3>12. CASE Poll             BY <3>12, KeepsPoll
    <3>13. CASE Admit            BY <3>13, KeepsAdmit
    <3>14. CASE Place            BY <3>14, KeepsPlace
    <3>15. CASE Step             BY <3>15, KeepsStep
    <3>16. CASE CommitStep       BY <3>16, KeepsCommitStep
    <3>17. CASE Grow             BY <3>17, KeepsGrow
    <3>18. CASE Preempt          BY <3>18, KeepsPreempt
    <3>19. CASE DropPromptCache  BY <3>19, KeepsDropPromptCache
    <3>20. CASE Requeue          BY <3>20, KeepsRequeue
    <3>21. CASE Drained          BY <3>21, KeepsDrained
    <3>22. CASE Return           BY <3>22, KeepsReturn
    <3>23. QED
      BY <2>2, <3>1, <3>2, <3>3, <3>4, <3>5, <3>6, <3>7, <3>8, <3>9, <3>10, <3>11, <3>12, <3>13, <3>14,
         <3>15, <3>16, <3>17, <3>18, <3>19, <3>20, <3>21, <3>22 DEF EngineStep
  <2>3. CASE AwaitWork     BY <2>3, KeepsAwaitWork
  <2>4. CASE Throw         BY <2>4, KeepsThrow
  <2>5. CASE EncoderDone   BY <2>5, KeepsEncoderDone
  <2>6. CASE AlignmentDone BY <2>6, KeepsAlignmentDone
  <2>7. CASE \E t \in load.cancels : Cancel(t)
    <3>1. PICK t \in load.cancels : Cancel(t)
      BY <2>7
    <3>2. QED
      BY <3>1, KeepsCancel
  <2>8. CASE UNCHANGED vars BY <2>8, KeepsStutter
  <2>9. QED
    BY <2>1, <2>2, <2>3, <2>4, <2>5, <2>6, <2>7, <2>8 DEF Next
<1>3. QED
  BY <1>1, <1>2, PTL DEF Spec
-----------------------------------------------------------------------------
(* From sets of rows to the counts of the property.                          *)

LEMMA CountIs ==
  ASSUME NEW q, Listed(q), NEW r
  PROVE  Count(r, q) = In(r, ToSet(q))
<1> DEFINE I == {i \in DOMAIN q : q[i] = r}
<1>1. CASE r \in ToSet(q)
  <2>1. PICK i \in DOMAIN q : q[i] = r
    BY <1>1 DEF ToSet
  <2>2. I = {i}
    BY <2>1 DEF Listed, Lists, Once
  <2>3. Cardinality({i}) = 1
    BY FS_Singleton
  <2>4. Count(r, q) = Cardinality(I)
    BY DEF Count
  <2> HIDE DEF I
  <2>5. QED
    BY <1>1, <2>2, <2>3, <2>4 DEF In
<1>2. CASE r \notin ToSet(q)
  <2>1. I = {}
    BY <1>2 DEF ToSet
  <2>2. Cardinality({}) = 0
    BY FS_EmptySet
  <2>3. Count(r, q) = Cardinality(I)
    BY DEF Count
  <2> HIDE DEF I
  <2>4. QED
    BY <1>2, <2>1, <2>2, <2>3 DEF In
<1>3. QED
  BY <1>1, <1>2

LEMMA CodingIs ==
  ASSUME jobs \in Seq(JobType), JobsApart(jobs), Listed(reencode), NEW r
  PROVE  Coding(r) = In(r, JobRows(jobs)) + In(r, ToSet(reencode))
<1> DEFINE D == DOMAIN jobs
           v == [i \in D |-> Count(r, jobs[i].rows)]
<1>1. IsFiniteSet(D)
  <2>1. D = 1 .. Len(jobs) /\ 1 \in Int /\ Len(jobs) \in Int
    OBVIOUS
  <2>2. QED
    BY <2>1, FS_Interval
<1>2. ASSUME NEW i \in D PROVE Count(r, jobs[i].rows) = In(r, ToSet(jobs[i].rows))
  <2>1. Listed(jobs[i].rows)
    BY DEF JobsApart, Listed
  <2>2. QED
    BY <2>1, CountIs
<1>3. v \in [D -> Nat] /\ \A i \in D : v[i] = In(r, ToSet(jobs[i].rows))
  BY <1>2 DEF In
<1> HIDE DEF v
<1>4. Total(v, D) = In(r, JobRows(jobs))
  <2>1. CASE r \in JobRows(jobs)
    <3>1. PICK i \in D : r \in ToSet(jobs[i].rows)
      BY <2>1 DEF JobRows
    <3>2. \A j \in D \ {i} : r \notin ToSet(jobs[j].rows)
      BY <3>1 DEF JobsApart
    <3>3. \A j \in D \ {i} : v[j] = 0
      BY <1>3, <3>2 DEF In
    <3>4. D \in SUBSET D /\ D \ {i} \in SUBSET D /\ IsFiniteSet(D \ {i})
      BY <1>1, FS_Subset
    <3> HIDE DEF D
    <3>5. Total(v, D \ {i}) = 0
      BY <1>3, <3>3, <3>4, TotalZero
    <3>6. Total(v, D) = v[i] + Total(v, D \ {i})
      BY <1>1, <1>3, <3>4, TotalRemove
    <3>7. v[i] = 1
      BY <1>3, <3>1 DEF In
    <3>8. QED
      BY <2>1, <3>5, <3>6, <3>7 DEF In
  <2>2. CASE r \notin JobRows(jobs)
    <3>1. \A j \in D : r \notin ToSet(jobs[j].rows)
      BY <2>2 DEF JobRows
    <3>2. (\A j \in D : v[j] = 0) /\ D \in SUBSET D
      BY <1>3, <3>1 DEF In
    <3> HIDE DEF D
    <3>3. Total(v, D) = 0
      BY <1>1, <1>3, <3>2, TotalZero
    <3>4. QED
      BY <2>2, <3>3 DEF In
  <2>3. QED
    BY <2>1, <2>2
<1>5. Coding(r) = Total(v, D) + Count(r, reencode)
  BY DEF Coding, v
<1>6. Count(r, reencode) = In(r, ToSet(reencode))
  BY CountIs
<1>7. QED
  BY <1>4, <1>5, <1>6

LEMMA DecodingIs ==
  ASSUME SlotsApart(slot, Active), NEW r
  PROVE  Decoding(r) = In(r, SlotRows(slot, Active))
<1> DEFINE S == {s \in Active : slot[s].row = r}
<1>1. Decoding(r) = Cardinality(S)
  BY DEF Decoding
<1>2. CASE r \in SlotRows(slot, Active)
  <2>1. PICK s \in Active : slot[s].row = r
    BY <1>2 DEF SlotRows
  <2>2. S = {s}
    BY <2>1 DEF SlotsApart
  <2>3. Cardinality({s}) = 1
    BY FS_Singleton
  <2> HIDE DEF S
  <2>4. QED
    BY <1>1, <1>2, <2>2, <2>3 DEF In
<1>3. CASE r \notin SlotRows(slot, Active)
  <2>1. S = {}
    BY <1>3 DEF SlotRows
  <2>2. Cardinality({}) = 0
    BY FS_EmptySet
  <2> HIDE DEF S
  <2>3. QED
    BY <1>1, <1>3, <2>1, <2>2 DEF In
<1>4. QED
  BY <1>2, <1>3

LEMMA PlacesAre ==
  ASSUME IInv, Busy, NEW r \in Nat
  PROVE  Places(r) = In(r, Live)
<1>1. Accounted /\ jobs \in Seq(JobType) /\ Apart /\ Placed(r) = In(r, Live)
  BY DEF IInv, Accounted, TypeInv
<1>2. Coding(r) = In(r, JobRows(jobs)) + In(r, ToSet(reencode))
  BY <1>1, CodingIs DEF Apart
<1>3. Decoding(r) = In(r, SlotRows(slot, Active))
  BY <1>1, DecodingIs DEF Apart
<1>4. Ended(r) = In(r, EndedRows)
  BY <1>1, CountIs DEF Apart, Ended, EndedRows
<1>5. Count(r, waiting) = In(r, ToSet(waiting))
  BY <1>1, CountIs DEF Apart
<1>6. Count(r, RowsOf(ready)) = In(r, ReadyRows)
  BY <1>1, CountIs DEF Apart, ReadyRows
<1>7. Count(r, RowsOf(taken)) = In(r, TakenRows)
  BY <1>1, CountIs DEF Apart, TakenRows
<1>8. Count(r, fallbackReady) = In(r, ToSet(fallbackReady))
  BY <1>1, CountIs DEF Apart
<1>9. Count(r, preemptedReady) = In(r, ToSet(preemptedReady))
  BY <1>1, CountIs DEF Apart
<1>10. Count(r, tsReady) = In(r, ToSet(tsReady))
  BY <1>1, CountIs DEF Apart
<1>11. Count(r, aligning.rows) = In(r, ToSet(aligning.rows))
  BY <1>1, CountIs DEF Apart
<1>12. QED
  BY <1>1, <1>2, <1>3, <1>4, <1>5, <1>6, <1>7, <1>8, <1>9, <1>10, <1>11 DEF Places, Placed, In

LEMMA AccountsAreRows == IInv => RowsAccounted
<1> SUFFICES ASSUME IInv, Busy
             PROVE  LET back == {r \in DOMAIN row : kept[r].on}
                        coding == {r \in back : Coding(r) > 0}
                    IN /\ \A r \in DOMAIN row :
                            /\ Places(r) = IF row[r].live THEN 1 ELSE 0
                            /\ row[r].live = (r \notin ToSet(freeRows))
                       /\ IsInjective(freeRows)
                       /\ reserved = Cells(slot, Active)
                       /\ reencoding = Cardinality(coding)
                       /\ resuming = Shares(coding)
                       /\ \A r \in DOMAIN kept \ coding : kept[r].share = 0
                       /\ \A r \in DOMAIN kept \ DOMAIN row : ~kept[r].on
                       /\ \A r \in back : row[r].live /\ Decoding(r) + Ended(r) = 0
  BY DEF RowsAccounted
<1> DEFINE back == {r \in DOMAIN row : kept[r].on}
           coding == {r \in back : Coding(r) > 0}
<1>1. /\ Accounts /\ Accounted /\ Apart /\ KeptInv /\ Numbered /\ Reserved /\ TypeInv
      /\ Live \subseteq DOMAIN row /\ DOMAIN row \subseteq 1 .. MaxTickets /\ DOMAIN row \subseteq Nat
      /\ jobs \in Seq(JobType) /\ row \in Seq(RowType)
  BY PlacesLive DEF IInv, Accounted, TypeInv
<1>2. DOMAIN kept = 1 .. MaxTickets /\ kept \in [1 .. MaxTickets -> KeptType]
  BY <1>1 DEF TypeInv
<1>3. back = Back /\ Back \subseteq Live
  BY <1>1 DEF Back, KeptInv
<1>4. coding = Held
  <2>1. ASSUME NEW r PROVE Coding(r) > 0 <=> r \in InEncoder
    <3>1. Coding(r) = In(r, JobRows(jobs)) + In(r, ToSet(reencode))
      BY <1>1, CodingIs DEF Apart
    <3>2. QED
      BY <3>1 DEF In, InEncoder
  <2>2. QED
    BY <1>3, <2>1 DEF Held
<1> HIDE DEF back, coding
<1>5. ASSUME NEW r \in DOMAIN row
      PROVE  /\ Places(r) = IF row[r].live THEN 1 ELSE 0
             /\ row[r].live = (r \notin ToSet(freeRows))
  <2>1. row[r].live \in BOOLEAN
    <3>1. row[r] \in RowType
      BY <1>1
    <3>2. QED
      BY <3>1 DEF RowType
  <2>2. Places(r) = In(r, Live)
    BY <1>1, PlacesAre
  <2>3. r \in Live <=> row[r].live
    BY DEF Live
  <2>4. ToSet(freeRows) = DOMAIN row \ Live
    BY <1>1, ListsRange DEF Numbered
  <2>5. Places(r) = IF row[r].live THEN 1 ELSE 0
    BY <2>2, <2>3 DEF In
  <2>6. row[r].live = (r \notin ToSet(freeRows))
    BY <2>1, <2>3, <2>4
  <2>7. QED
    BY <2>5, <2>6
<1>6. IsInjective(freeRows)
  BY <1>1 DEF Numbered, Lists, Once, IsInjective
<1>7. reserved = Cells(slot, Active)
  BY <1>1 DEF Reserved
<1>8. reencoding = Cardinality(coding) /\ resuming = Shares(coding)
  BY <1>1, <1>4 DEF KeptInv
<1>9. \A r \in DOMAIN kept \ coding : kept[r].share = 0
  BY <1>1, <1>2, <1>4 DEF KeptInv
<1>10. \A r \in DOMAIN kept \ DOMAIN row : ~kept[r].on
  BY <1>1, <1>2, <1>3 DEF Back
<1>11. ASSUME NEW r \in back PROVE row[r].live /\ Decoding(r) + Ended(r) = 0
  <2>1. r \in Live /\ r \in Nat /\ r \in Back
    BY <1>1, <1>3
  <2>2. r \in InEncoder \cup ReadyRows \cup TakenRows \cup ToSet(preemptedReady)
    BY <1>1, <2>1 DEF KeptInv
  <2>3. Placed(r) = In(r, Live)
    BY <1>1, <2>1 DEF Accounted
  <2>4. In(r, SlotRows(slot, Active)) = 0 /\ In(r, EndedRows) = 0
    BY <2>1, <2>2, <2>3 DEF Placed, In, InEncoder
  <2>5. Decoding(r) = In(r, SlotRows(slot, Active))
    BY <1>1, DecodingIs DEF Apart
  <2>6. Ended(r) = In(r, EndedRows)
    BY <1>1, CountIs DEF Apart, Ended, EndedRows
  <2>7. row[r].live
    BY <2>1 DEF Live
  <2>8. QED
    BY <2>4, <2>5, <2>6, <2>7
<1>12. QED
  BY <1>5, <1>6, <1>7, <1>8, <1>9, <1>10, <1>11 DEF back, coding

(* The locals of serve() and the members of the engine keep their types.     *)
THEOREM TypeCorrect == Spec => []TypeInv
<1>1. IInv => TypeInv
  BY DEF IInv
<1>2. QED
  BY <1>1, Invariance, PTL

(* RowsAccounted, for every load and size: serve() neither loses a request   *)
(* nor handles it twice, and the counters its admission relies on are exact. *)
THEOREM RowsAreAccounted == Spec => []RowsAccounted
<1>1. IInv => RowsAccounted
  BY AccountsAreRows
<1>2. Spec => []IInv
  BY Invariance
<1>3. QED
  BY <1>1, <1>2, PTL
-----------------------------------------------------------------------------
(* What is cancelled.                                                        *)

Marked == {r \in DOMAIN row : row[r].live /\ row[r].cancel}
Right(d) == d.kind = "cancelled" <=> row[d.row].cancel

(* process_cancels leaves no row that it could reach with its flag up, and a *)
(* result is that of a cancelled request exactly when the flag is.           *)
Cancellations ==
  /\ Marked \subseteq JobRows(jobs) \cup ToSet(aligning.rows) \cup EndedRows
  /\ \A d \in ToSet(finished) : Right(d)

(* serve() is on its way out with nothing left.                              *)
Settled ==
  /\ pc \in {"drain", "lastflush"} => Unoccupied
  /\ pc = "lastflush" => aligning.rows = <<>> /\ tsReady = <<>>

CancelInv == Busy => Cancellations /\ Settled

LEMMA CancelFrame ==
  ASSUME Cancellations, UNCHANGED <<row, finished>>,
         JobRows(jobs) \cup ToSet(aligning.rows) \subseteq JobRows(jobs') \cup ToSet(aligning'.rows)
  PROVE  Cancellations'
<1>1. Marked' = Marked /\ EndedRows' = EndedRows
  BY DEF Marked, EndedRows, RowsOf
<1>2. \A d : Right(d)' = Right(d)
  BY DEF Right
<1>3. QED
  BY <1>1, <1>2 DEF Cancellations

LEMMA SettledElsewhere == pc' \notin {"drain", "lastflush"} => Settled'
BY DEF Settled

LEMMA ConcatSet ==
  ASSUME NEW X, NEW s \in Seq(X), NEW t \in Seq(X)
  PROVE  ToSet(s \o t) = ToSet(s) \cup ToSet(t)
<1>1. /\ DOMAIN s = 1 .. Len(s) /\ DOMAIN t = 1 .. Len(t) /\ Len(s) \in Nat /\ Len(t) \in Nat
      /\ DOMAIN (s \o t) = 1 .. Len(s) + Len(t)
      /\ \A i \in 1 .. Len(s) + Len(t) : (s \o t)[i] = IF i <= Len(s) THEN s[i] ELSE t[i - Len(s)]
  OBVIOUS
<1> DEFINE u == s \o t
<1> HIDE DEF u
<1>2. ASSUME NEW x \in ToSet(u) PROVE x \in ToSet(s) \cup ToSet(t)
  <2>1. PICK i \in 1 .. Len(s) + Len(t) : x = u[i]
    BY <1>1 DEF u, ToSet
  <2>2. CASE i <= Len(s)
    BY <1>1, <2>1, <2>2 DEF ToSet, u
  <2>3. CASE i > Len(s)
    <3>1. i - Len(s) \in 1 .. Len(t) /\ x = t[i - Len(s)]
      BY <1>1, <2>1, <2>3 DEF u
    <3>2. QED
      BY <1>1, <3>1 DEF ToSet
  <2>4. QED
    BY <1>1, <2>2, <2>3
<1>3. ASSUME NEW x \in ToSet(s) PROVE x \in ToSet(u)
  <2>1. PICK i \in 1 .. Len(s) : x = s[i]
    BY <1>1 DEF ToSet
  <2>2. i \in DOMAIN u /\ u[i] = x
    BY <1>1, <2>1 DEF u
  <2>3. QED
    BY <2>2 DEF ToSet
<1>4. ASSUME NEW x \in ToSet(t) PROVE x \in ToSet(u)
  <2>1. PICK i \in 1 .. Len(t) : x = t[i]
    BY <1>1 DEF ToSet
  <2>2. i + Len(s) \in DOMAIN u /\ u[i + Len(s)] = x
    BY <1>1, <2>1 DEF u
  <2>3. QED
    BY <2>2 DEF ToSet
<1>5. QED
  BY <1>2, <1>3, <1>4 DEF u

LEMMA EndingsRight ==
  ASSUME NEW q, NEW d \in ToSet(Endings(q))
  PROVE  d.row \in ToSet(q) /\ Right(d)
<1>1. PICK i \in DOMAIN q : d = [row |-> q[i], kind |-> Outcome(q[i])]
  BY DEF Endings, ToSet
<1>2. d.row = q[i] /\ d.kind = Outcome(d.row)
  BY <1>1
<1>3. QED
  BY <1>2 DEF Outcome, Right, ToSet

LEMMA ResultsKind ==
  ASSUME NEW q, NEW kind, NEW d \in ToSet(Results(q, kind))
  PROVE  d.row \in ToSet(q) /\ d.kind = kind
BY DEF Results, ToSet

(* More results, none of them cancelled: as no row is in two places, theirs  *)
(* were not marked.                                                          *)
LEMMA MoreEnded ==
  ASSUME IInv, IInv', Busy, Busy', Cancellations,
         NEW X, NEW es \in Seq(X), finished' = finished \o es,
         \A d \in ToSet(es) : d.kind # "cancelled",
         UNCHANGED <<jobs, aligning, DOMAIN row>>, Live' = Live,
         \A r \in DOMAIN row : row'[r].cancel = row[r].cancel
  PROVE  Cancellations'
<1>1. finished \in Seq(ResultType) /\ Listed(RowsOf(finished'))
      /\ \A r \in Nat : Placed(r)' = In(r, Live')
  BY DEF IInv, TypeInv, Accounted, Apart
<1>2. ToSet(finished') = ToSet(finished) \cup ToSet(es)
  <2>1. finished \in Seq(ResultType \cup X) /\ es \in Seq(ResultType \cup X)
    BY <1>1, SeqMore
  <2>2. QED
    BY <2>1, ConcatSet
<1>3. ToSet(RowsOf(finished)) \cap ToSet(RowsOf(es)) = {} /\ EndedRows \subseteq EndedRows'
      /\ ToSet(RowsOf(es)) \subseteq EndedRows'
  <2>1. /\ DOMAIN finished = 1 .. Len(finished) /\ DOMAIN es = 1 .. Len(es)
        /\ Len(finished) \in Nat /\ Len(es) \in Nat
        /\ DOMAIN finished' = 1 .. Len(finished) + Len(es)
        /\ \A i \in 1 .. Len(finished) : finished'[i] = finished[i]
        /\ \A i \in 1 .. Len(es) : finished'[Len(finished) + i] = es[i]
    BY <1>1
  <2>2. \A i, j \in DOMAIN finished' : finished'[i].row = finished'[j].row => i = j
    BY <1>1 DEF Listed, Lists, Once, RowsOf
  <2>3. ASSUME NEW r \in ToSet(RowsOf(finished)), r \in ToSet(RowsOf(es)) PROVE FALSE
    <3>1. PICK i \in 1 .. Len(finished) : r = finished[i].row
      BY <2>1 DEF RowsOf, ToSet
    <3>2. PICK j \in 1 .. Len(es) : r = es[j].row
      BY <2>1, <2>3 DEF RowsOf, ToSet
    <3>3. i \in DOMAIN finished' /\ Len(finished) + j \in DOMAIN finished' /\ i # Len(finished) + j
      BY <2>1
    <3>4. finished'[i] = finished[i] /\ finished'[Len(finished) + j] = es[j]
      BY <2>1
    <3>5. finished'[i].row = finished'[Len(finished) + j].row
      BY <3>1, <3>2, <3>4
    <3>6. QED
      BY <2>2, <3>3, <3>5
  <2>4. /\ EndedRows' = {d.row : d \in ToSet(finished')} /\ EndedRows = {d.row : d \in ToSet(finished)}
        /\ ToSet(RowsOf(es)) = {d.row : d \in ToSet(es)}
    BY DEF EndedRows, RowsOf, ToSet
  <2>5. EndedRows \subseteq EndedRows' /\ ToSet(RowsOf(es)) \subseteq EndedRows'
    BY <1>2, <2>4
  <2>6. QED
    BY <2>3, <2>5
<1>4. Marked' = Marked
  BY DEF Marked, Live
<1>5. ASSUME NEW r \in ToSet(RowsOf(es)) PROVE r \in Live /\ r \notin Marked
  <2>1. r \in EndedRows' /\ r \notin EndedRows
    BY <1>3 DEF EndedRows
  <2>2. r \in Nat
    <3>1. finished' \in Seq(ResultType)
      BY DEF IInv, TypeInv
    <3>2. PICK i \in DOMAIN finished' : r = finished'[i].row
      BY <2>1 DEF EndedRows, RowsOf, ToSet
    <3>3. finished'[i] \in ResultType
      BY <3>1, <3>2
    <3>4. QED
      BY <3>2, <3>3 DEF ResultType
  <2>3. Placed(r)' = 1 /\ r \in Live
    <3>1. Placed(r)' = In(r, Live')
      BY <1>1, <2>2
    <3>2. QED
      BY <2>1, <3>1 DEF Placed, In
  <2>4. r \notin JobRows(jobs) /\ r \notin ToSet(aligning.rows)
    BY <2>1, <2>3 DEF Placed, In
  <2>5. QED
    BY <2>1, <2>3, <2>4 DEF Cancellations
<1>6. ASSUME NEW d \in ToSet(finished') PROVE Right(d)'
  <2>1. CASE d \in ToSet(finished)
    <3>1. d.row \in EndedRows /\ Right(d)
      BY <2>1 DEF Cancellations, EndedRows, RowsOf, ToSet
    <3>2. d.row \in DOMAIN row
      BY <3>1, PlacesLive
    <3>3. QED
      BY <3>1, <3>2 DEF Right
  <2>2. CASE d \in ToSet(es)
    <3>1. d.row \in ToSet(RowsOf(es))
      BY <2>2 DEF RowsOf, ToSet
    <3>2. d.row \in Live /\ d.row \notin Marked /\ d.kind # "cancelled"
      BY <1>5, <2>2, <3>1
    <3>3. ~row[d.row].cancel /\ d.row \in DOMAIN row
      BY <3>2 DEF Live, Marked
    <3>4. ~row'[d.row].cancel
      BY <3>3
    <3>5. row[d.row].cancel = FALSE /\ row'[d.row].cancel = FALSE
      <4>1. row \in Seq(RowType) /\ row' \in Seq(RowType) /\ d.row \in DOMAIN row'
        BY <3>3 DEF IInv, TypeInv
      <4>2. row[d.row] \in RowType /\ row'[d.row] \in RowType
        BY <3>3, <4>1
      <4>3. QED
        BY <3>3, <3>4, <4>2 DEF RowType
    <3>6. QED
      BY <3>2, <3>5 DEF Right
  <2>3. QED
    BY <1>2, <2>1, <2>2
<1>7. QED
  BY <1>3, <1>4, <1>6 DEF Cancellations

(* Steps that move no result and leave the jobs alone.                       *)
LEMMA CancelsSame ==
  ASSUME CancelInv, Busy, UNCHANGED <<row, jobs, aligning, finished>>
  PROVE  Cancellations'
<1>1. Cancellations
  BY DEF CancelInv
<1>2. QED
  BY <1>1, CancelFrame

LEMMA QuietSteps ==
  ASSUME IInv, CancelInv,
         \/ Flushed \/ NothingPosted \/ Harvested \/ Idling \/ Drained \/ Step
         \/ Grow \/ Preempt \/ DropPromptCache \/ Requeue \/ Admit
  PROVE  CancelInv'
<1>1. Busy
  BY DEF Busy, Flushed, NothingPosted, Harvested, Idling, Drained, Step, Grow, Preempt, DropPromptCache,
         Requeue, Admit, FlushPhases
<1>2. UNCHANGED <<row, jobs, aligning, finished>>
  BY DEF Flushed, NothingPosted, Harvested, Idling, Drained, Step, Grow, Preempt, DropPromptCache,
         Requeue, Admit, rowVars, queues, ends
<1>3. Cancellations'
  BY <1>1, <1>2, CancelsSame
<1>4. Settled'
  <2>1. CASE Idling
    <3>1. pc' # "lastflush" /\ (pc' = "drain" => Unoccupied)
      BY <2>1 DEF Idling
    <3>2. Unoccupied' = Unoccupied
      BY <2>1 DEF Idling, Unoccupied, queues, kv, pend
    <3>3. QED
      BY <3>1, <3>2 DEF Settled
  <2>2. CASE Drained
    <3>1. Unoccupied /\ aligning.rows = <<>> /\ tsReady = <<>>
      BY <1>1, <2>2 DEF Drained, CancelInv, Settled, NoJob
    <3>2. Unoccupied' = Unoccupied /\ UNCHANGED <<aligning, tsReady>>
      BY <2>2 DEF Drained, Unoccupied, queues, kv, pend, ends
    <3>3. QED
      BY <3>1, <3>2 DEF Settled
  <2>3. CASE Flushed
    <3>1. pc' \in {"cancel", "harvest", "idletake"}
      BY <2>3 DEF Flushed, FlushPhases
    <3>2. QED
      BY <3>1, SettledElsewhere
  <2>4. CASE \/ NothingPosted \/ Harvested \/ Step \/ Grow \/ Preempt \/ DropPromptCache \/ Requeue \/ Admit
    <3>1. pc' \in {"harvest", "launch", "commit", "grow", "top", "step"}
      BY <2>4, Zenon DEF NothingPosted, Harvested, Step, Grow, Preempt, DropPromptCache, Requeue, Admit
    <3>2. QED
      BY <3>1, SettledElsewhere
  <2>5. QED
    BY <2>1, <2>2, <2>3, <2>4
<1>5. QED
  BY <1>3, <1>4 DEF CancelInv

LEMMA CancelKeepsCancels == ASSUME CancelInv, NEW t, Cancel(t) PROVE CancelInv'
<1>1. UNCHANGED <<pc, row, jobs, aligning, finished, tsReady>> /\ Unoccupied' = Unoccupied /\ Busy' = Busy
  BY DEF Cancel, rowVars, queues, kv, pend, ends, Unoccupied, Busy
<1>2. ASSUME Busy PROVE Cancellations'
  BY <1>1, <1>2, CancelsSame
<1>3. ASSUME Busy PROVE Settled'
  BY <1>1, <1>3 DEF CancelInv, Settled
<1>4. QED
  BY <1>1, <1>2, <1>3 DEF CancelInv

(* Jobs end, or get more rows.                                               *)
LEMMA EncoderDoneKeepsCancels == IInv /\ CancelInv /\ EncoderDone => CancelInv'
<1> SUFFICES ASSUME IInv, CancelInv, EncoderDone, Busy PROVE CancelInv'
  BY DEF EncoderDone, CancelInv, Busy
<1>1. PICK i \in DOMAIN jobs : jobs' = [jobs EXCEPT ![i].done = TRUE]
  BY DEF EncoderDone
<1>2. UNCHANGED <<pc, row, aligning, finished>>
  BY DEF EncoderDone, rowVars, ends
<1>3. jobs \in Seq(JobType) /\ JobEnds(jobs, i, jobs') /\ Cancellations /\ Settled
  BY <1>1 DEF IInv, TypeInv, JobEnds, CancelInv
<1>4. JobRows(jobs') = JobRows(jobs)
  BY <1>3, JobsDone
<1>5. Cancellations'
  BY <1>2, <1>3, <1>4, CancelFrame
<1>6. jobs # <<>>
  BY <1>1
<1>7. Settled'
  BY <1>2, <1>3, <1>6 DEF Settled, Unoccupied
<1>8. QED
  BY <1>5, <1>7 DEF CancelInv

LEMMA AlignmentDoneKeepsCancels == IInv /\ CancelInv /\ AlignmentDone => CancelInv'
<1> SUFFICES ASSUME IInv, CancelInv, AlignmentDone, Busy PROVE CancelInv'
  BY DEF AlignmentDone, CancelInv, Busy
<1>1. /\ aligning' = [aligning EXCEPT !.done = TRUE] /\ aligning.rows # <<>>
      /\ UNCHANGED <<pc, row, jobs, finished>> /\ Unoccupied' = Unoccupied
  BY DEF AlignmentDone, rowVars, queues, kv, pend, Unoccupied
<1>2. aligning \in JobType /\ Cancellations /\ Settled
  BY DEF IInv, TypeInv, CancelInv
<1>3. aligning'.rows = aligning.rows
  BY <1>1, <1>2 DEF JobType
<1>4. Cancellations'
  BY <1>1, <1>2, <1>3, CancelFrame
<1>5. Settled'
  BY <1>1, <1>2 DEF Settled
<1>6. QED
  BY <1>4, <1>5 DEF CancelInv

LEMMA LaunchesKeepCancels ==
  ASSUME IInv, CancelInv, LaunchResumed \/ Submit
  PROVE  CancelInv'
<1>1. /\ Busy /\ pc' \notin {"drain", "lastflush"} /\ UNCHANGED <<row, aligning, finished>>
  BY DEF Busy, LaunchResumed, Submit, Launched, rowVars, ends
<1>2. JobRows(jobs) \subseteq JobRows(jobs')
  <2>1. jobs' = jobs \/ \E job : jobs' = Append(jobs, job)
    BY DEF LaunchResumed, Submit
  <2>2. ASSUME NEW job, jobs' = Append(jobs, job) PROVE JobRows(jobs) \subseteq JobRows(jobs')
    <3>1. jobs \in Seq(JobType)
      BY DEF IInv, TypeInv
    <3>2. \A i \in DOMAIN jobs : i \in DOMAIN jobs' /\ jobs'[i] = jobs[i]
      BY <2>2, <3>1
    <3>3. QED
      BY <3>2 DEF JobRows
  <2>3. QED
    BY <2>1, <2>2
<1>3. Cancellations
  BY <1>1 DEF CancelInv
<1>4. Cancellations'
  BY <1>1, <1>2, <1>3, CancelFrame
<1>5. QED
  BY <1>1, <1>4, SettledElsewhere DEF CancelInv
-----------------------------------------------------------------------------
(* Results that are given out, and those of tokens.                          *)

LEMMA DeliverKeepsCancels == IInv /\ IInv' /\ CancelInv /\ Deliver => CancelInv'
<1> SUFFICES ASSUME IInv, IInv', CancelInv, Deliver PROVE CancelInv'
  OBVIOUS
<1> DEFINE r == Head(finished).row
<1>1. /\ pc \in FlushPhases /\ finished # <<>> /\ finished' = Tail(finished)
      /\ row' = [row EXCEPT ![r].live = FALSE]
      /\ UNCHANGED <<pc, jobs, aligning, tsReady>> /\ Unoccupied' = Unoccupied
  BY DEF Deliver, Unoccupied, queues, kv, pend
<1>2. Busy /\ TypeInv /\ Cancellations /\ Settled
  BY <1>1 DEF Busy, IInv, FlushPhases, CancelInv
<1>3. finished \in Seq(ResultType) /\ row \in Seq(RowType) /\ Listed(RowsOf(finished))
  BY <1>2 DEF IInv, TypeInv, Accounted, Apart
<1>4. /\ ToSet(finished') \subseteq ToSet(finished)
      /\ \A d \in ToSet(finished) : d.row = r \/ d \in ToSet(finished')
      /\ \A d \in ToSet(finished') : d.row # r
  <2>1. /\ DOMAIN finished = 1 .. Len(finished) /\ Len(finished) \in Nat /\ r = finished[1].row
        /\ DOMAIN finished' = 1 .. Len(finished) - 1
        /\ \A i \in 1 .. Len(finished) - 1 : finished'[i] = finished[i + 1]
    BY <1>1, <1>3
  <2>2. \A i, j \in DOMAIN finished : finished[i].row = finished[j].row => i = j
    BY <1>3 DEF Listed, Lists, Once, RowsOf
  <2> HIDE DEF r
  <2>3. ASSUME NEW d \in ToSet(finished') PROVE d \in ToSet(finished) /\ d.row # r
    <3>1. PICK i \in 1 .. Len(finished) - 1 : d = finished[i + 1]
      BY <2>1, <2>3 DEF ToSet
    <3>2. i + 1 \in DOMAIN finished /\ 1 \in DOMAIN finished /\ i + 1 # 1
      BY <2>1
    <3>3. QED
      BY <2>1, <2>2, <3>1, <3>2 DEF ToSet
  <2>4. ASSUME NEW d \in ToSet(finished), d.row # r PROVE d \in ToSet(finished')
    <3>1. PICK i \in 1 .. Len(finished) : d = finished[i]
      BY <2>1 DEF ToSet
    <3>2. i # 1
      BY <2>1, <2>4, <3>1
    <3>3. i - 1 \in DOMAIN finished' /\ finished'[i - 1] = d
      BY <2>1, <3>1, <3>2
    <3>4. QED
      BY <3>3 DEF ToSet
  <2>5. QED
    BY <2>3, <2>4
<1>5. \A q \in DOMAIN row : q # r => row'[q] = row[q]
  BY <1>1
<1>6. DOMAIN row' = DOMAIN row /\ r \in DOMAIN row /\ ~row'[r].live
  <2>1. r \in EndedRows
    BY <1>1, <1>3 DEF EndedRows, RowsOf, ToSet
  <2>2. r \in DOMAIN row
    BY <1>2, <2>1, PlacesLive
  <2>3. row[r] \in RowType
    BY <1>3, <2>2
  <2>4. QED
    BY <1>1, <2>2, <2>3 DEF RowType
<1> HIDE DEF r
<1>7. Marked' = Marked \ {r}
  BY <1>5, <1>6 DEF Marked
<1>8. EndedRows' = EndedRows \ {r}
  <2>1. EndedRows = {d.row : d \in ToSet(finished)} /\ EndedRows' = {d.row : d \in ToSet(finished')}
    BY DEF EndedRows, RowsOf, ToSet
  <2>2. QED
    BY <1>4, <2>1
<1>9. ASSUME NEW d \in ToSet(finished') PROVE Right(d)'
  <2>1. d \in ToSet(finished) /\ d.row # r
    BY <1>4
  <2>2. d.row \in EndedRows
    BY <2>1 DEF EndedRows, RowsOf, ToSet
  <2>3. d.row \in DOMAIN row
    BY <1>2, <2>2, PlacesLive
  <2>4. QED
    BY <1>2, <1>5, <2>1, <2>3 DEF Right, Cancellations
<1>10. Cancellations'
  BY <1>1, <1>2, <1>7, <1>8, <1>9 DEF Cancellations
<1>11. Settled'
  BY <1>1, <1>2 DEF Settled
<1>12. QED
  BY <1>10, <1>11 DEF CancelInv

LEMMA HarvestTimestampsKeepsCancels == IInv /\ CancelInv /\ HarvestTimestamps => CancelInv'
<1> SUFFICES ASSUME IInv, CancelInv, HarvestTimestamps PROVE CancelInv'
  OBVIOUS
<1> DEFINE rows == IF aligning.done THEN aligning.rows ELSE <<>>
           es == Endings(rows)
<1>1. /\ (pc = "top" /\ pc' = "flush") \/ (pc = "drain" /\ pc' = "drain")
      /\ finished' = finished \o es
      /\ IF aligning.done \/ aligning = NoJob
         THEN aligning' = [rows |-> tsReady, done |-> FALSE] /\ tsReady' = <<>>
         ELSE UNCHANGED <<aligning, tsReady>>
      /\ UNCHANGED <<row, jobs>> /\ Unoccupied' = Unoccupied
  BY DEF HarvestTimestamps, rowVars, queues, kv, pend, Unoccupied
<1>2. Busy /\ TypeInv /\ Cancellations /\ Settled
  BY <1>1 DEF Busy, IInv, CancelInv
<1>3. rows \in Seq(Nat) /\ finished \in Seq(ResultType)
  BY <1>2 DEF TypeInv, JobType
<1>4. ToSet(aligning.rows) \subseteq ToSet(rows) \cup ToSet(aligning'.rows)
  <2>1. CASE aligning.done
    BY <2>1
  <2>2. CASE ~aligning.done /\ aligning = NoJob
    BY <2>2 DEF NoJob, ToSet
  <2>3. CASE ~aligning.done /\ aligning # NoJob
    BY <1>1, <2>3
  <2>4. QED
    BY <2>1, <2>2, <2>3
<1> HIDE DEF rows
<1>5. es \in Seq(ResultType) /\ RowsOf(es) = rows
  BY <1>3, EndingsAre
<1>6. ToSet(finished') = ToSet(finished) \cup ToSet(es)
  BY <1>1, <1>3, <1>5, ConcatSet
<1>7. \A d \in ToSet(es) : Right(d)
  BY EndingsRight
<1> HIDE DEF es
<1>8. EndedRows' = EndedRows \cup ToSet(rows)
  <2>1. /\ EndedRows = {d.row : d \in ToSet(finished)} /\ EndedRows' = {d.row : d \in ToSet(finished')}
        /\ ToSet(RowsOf(es)) = {d.row : d \in ToSet(es)}
    BY DEF EndedRows, RowsOf, ToSet
  <2>2. QED
    BY <1>5, <1>6, <2>1
<1>9. Marked' = Marked /\ \A d : Right(d)' = Right(d)
  BY <1>1 DEF Marked, Right
<1>10. Cancellations'
  BY <1>1, <1>2, <1>4, <1>6, <1>7, <1>8, <1>9 DEF Cancellations
<1>11. Settled'
  BY <1>1, <1>2 DEF Settled
<1>12. QED
  BY <1>10, <1>11 DEF CancelInv

LEMMA SecondedCancels ==
  ASSUME IInv, Busy, NEW q, row' = Seconded(q), UNCHANGED <<load, source, freeRows>>
  PROVE  /\ DOMAIN row' = DOMAIN row /\ Live' = Live
         /\ \A r \in DOMAIN row : /\ row'[r].cancel = row[r].cancel /\ row'[r].ticket = row[r].ticket
                                  /\ row'[r].live = row[r].live
<1>1. DOMAIN row' = DOMAIN row /\ Live' = Live
  BY SecondRows
<1>2. ASSUME NEW r \in DOMAIN row
      PROVE  /\ row'[r].cancel = row[r].cancel /\ row'[r].ticket = row[r].ticket
             /\ row'[r].live = row[r].live
  <2>1. row[r] \in RowType
    BY DEF IInv, TypeInv
  <2>2. row'[r] = [row[r] EXCEPT !.second = @ \/ r \in ToSet(q)]
    BY DEF Seconded
  <2>3. QED
    BY <2>1, <2>2 DEF RowType
<1>3. QED
  BY <1>1, <1>2

LEMMA CommitStepKeepsCancels == IInv /\ IInv' /\ CancelInv /\ CommitStep => CancelInv'
<1> SUFFICES ASSUME IInv, IInv', CancelInv, CommitStep PROVE CancelInv'
  OBVIOUS
<1>1. pc = "commit" /\ pc' = "grow" /\ UNCHANGED <<load, source, freeRows, queues, aligning>>
  BY DEF CommitStep
<1>2. PICK token :
        LET c == Commit(slot, order, reserved, Active, token)
        IN /\ row' = Seconded(c.again) /\ finished' = finished \o Results(c.done, "value")
  BY DEF CommitStep
<1> DEFINE c == Commit(slot, order, reserved, Active, token)
           es == Results(c.done, "value")
<1>3. row' = Seconded(c.again) /\ finished' = finished \o es
  BY <1>2
<1>4. Busy /\ Busy' /\ Cancellations
  BY <1>1 DEF Busy, CancelInv
<1>5. Sampling(slot, order, reserved, Active, token, c)
  BY <1>4, PlacesLive DEF IInv, Sampling, TypeInv, SlotsTyped, Accounts, Accounted, Apart, Reserved, Active
<1> HIDE DEF c
<1>6. c.done \in Seq(Nat)
  BY <1>5, Commits
<1>7. es \in Seq(ResultType) /\ \A d \in ToSet(es) : d.kind # "cancelled"
  BY <1>6, ResultsAre, ResultsKind
<1> HIDE DEF es
<1>8. DOMAIN row' = DOMAIN row /\ Live' = Live /\ \A r \in DOMAIN row : row'[r].cancel = row[r].cancel
  BY <1>1, <1>3, <1>4, SecondedCancels
<1>9. UNCHANGED <<jobs, aligning>>
  BY <1>1 DEF queues
<1>10. Cancellations'
  BY <1>3, <1>4, <1>7, <1>8, <1>9, MoreEnded
<1>11. QED
  BY <1>1, <1>10, SettledElsewhere DEF CancelInv

LEMMA FunctionSeq ==
  ASSUME NEW n \in Nat, NEW q, q = [i \in 1 .. n |-> q[i]]
  PROVE  q \in Seq(ToSet(q))
<1>1. q \in [1 .. n -> ToSet(q)]
  BY DEF ToSet
<1>2. QED
  BY <1>1, SeqDef

LEMMA PlaceKeepsCancels == IInv /\ IInv' /\ CancelInv /\ Place => CancelInv'
<1> SUFFICES ASSUME IInv, IInv', CancelInv, Place PROVE CancelInv'
  OBVIOUS
<1>1. pc = "place" /\ pc' = "top" /\ UNCHANGED <<load, source, freeRows, jobs, aligning>>
  BY ZenonT(40) DEF Place
<1>2. PICK failed, good, free, new, placed, seats, lost, token, c :
        Placement(failed, good, free, new, placed, seats, lost, token, c)
  BY Placements
<1>3. /\ row' = Seconded(c.again) /\ finished' = (finished \o lost) \o Results(c.done, "value")
      /\ failed \in Seq(TakenType) /\ lost = [i \in DOMAIN failed |-> EndOf(failed[i])]
      /\ Sampling(placed, seats, reserved + Cells(placed, new), new, token, c)
  BY <1>2 DEF Placement
<1>4. Busy /\ Busy' /\ Cancellations /\ finished \in Seq(ResultType)
  BY <1>1 DEF Busy, CancelInv, IInv, TypeInv
<1> DEFINE rs == Results(c.done, "value")
           es == lost \o rs
<1>5. rs \in Seq(ResultType) /\ \A d \in ToSet(rs) : d.kind # "cancelled"
  <2>1. c.done \in Seq(Nat)
    BY <1>3, Commits
  <2>2. QED
    BY <2>1, ResultsAre, ResultsKind
<1>6. lost \in Seq(ResultType) /\ \A d \in ToSet(lost) : d.kind # "cancelled"
  <2>1. \A e \in TakenType : EndOf(e) \in ResultType /\ EndOf(e).kind # "cancelled"
    BY DEF EndOf, TakenType, ResultType
  <2>2. DOMAIN failed = 1 .. Len(failed) /\ Len(failed) \in Nat /\ \A i \in DOMAIN failed : failed[i] \in TakenType
    BY <1>3
  <2>3. lost = [i \in 1 .. Len(failed) |-> EndOf(failed[i])]
    BY <1>3, <2>2
  <2>4. lost \in Seq(ResultType)
    BY <2>1, <2>2, <2>3
  <2>5. QED
    BY <2>1, <2>2, <2>3, <2>4 DEF ToSet
<1> HIDE DEF rs
<1>7. es \in Seq(ResultType) /\ ToSet(es) = ToSet(lost) \cup ToSet(rs) /\ finished' = finished \o es
  <2>1. finished \in Seq(ResultType) /\ lost \in Seq(ResultType) /\ rs \in Seq(ResultType)
    BY <1>4, <1>5, <1>6
  <2>2. lost \o rs \in Seq(ResultType) /\ (finished \o lost) \o rs = finished \o (lost \o rs)
    BY <2>1
  <2>3. finished' = (finished \o lost) \o rs
    BY <1>3 DEF rs
  <2>4. QED
    BY <2>1, <2>2, <2>3, ConcatSet
<1> HIDE DEF es
<1>8. DOMAIN row' = DOMAIN row /\ Live' = Live /\ \A r \in DOMAIN row : row'[r].cancel = row[r].cancel
  BY <1>1, <1>3, <1>4, SecondedCancels
<1>9. Cancellations'
  BY <1>1, <1>4, <1>5, <1>6, <1>7, <1>8, MoreEnded
<1>10. QED
  BY <1>1, <1>9, SettledElsewhere DEF CancelInv
-----------------------------------------------------------------------------
(* Requests that come, and the cancellation of those that are there.         *)

LEMMA Pulled ==
  ASSUME IInv, Busy, NEW n \in Nat, NEW new, NEW k, NewRows(new, n, k), Take(n)
  PROVE  /\ Live' = Live \cup ToSet(new) /\ Live \cap ToSet(new) = {}
         /\ Live \subseteq DOMAIN row /\ Live' \subseteq DOMAIN row'
         /\ \A r \in Live : row'[r] = row[r]
         /\ \A r \in ToSet(new) : row'[r].live /\ row'[r].cancel = FALSE
         /\ \E at \in [ToSet(new) -> 1 .. n] :
              /\ \A r \in ToSet(new) : new[at[r]] = r /\ row'[r].ticket = next + at[r] - 1
              /\ \A i \in 1 .. n : new[i] \in ToSet(new) /\ at[new[i]] = i
         /\ \E bad : finished' = finished \o Results(Only(new, bad), "error")
         /\ new \in Seq(Nat)
<1> DEFINE size == Len(row) + n - k
           N == ToSet(new)
           bad == {new[i] : i \in {j \in 1 .. n : load.kinds[next + j] = "invalid"}}
           at == [r \in N |-> CHOOSE i \in 1 .. n : new[i] = r]
<1>1. k = Least(n, Len(freeRows)) /\ new = [i \in 1 .. n |-> RowFor(i)]
  BY DEF NewRows
<1>2. /\ row' = [r \in 1 .. size |->
             IF r \in N
             THEN [ticket |-> next + (CHOOSE i \in 1 .. n : new[i] = r) - 1,
                   live |-> TRUE, cancel |-> FALSE, second |-> FALSE]
             ELSE row[r]]
      /\ finished' = finished \o Results(Only(new, bad), "error")
  BY <1>1 DEF Take
<1>3. /\ new \in Seq(Nat) /\ Once(new) /\ DOMAIN new = 1 .. n
      /\ N \cap Live = {} /\ N \subseteq 1 .. size
      /\ (1 .. size) \ N \subseteq 1 .. Len(row) /\ n - k \in Nat
  BY RowsNew
<1>4. row \in Seq(RowType) /\ Live \subseteq DOMAIN row
  BY PlacesLive DEF IInv, TypeInv
<1>5. DOMAIN row = 1 .. Len(row) /\ Len(row) \in Nat /\ 1 .. Len(row) \subseteq 1 .. size
  <2>1. Len(row) \in Nat /\ DOMAIN row = 1 .. Len(row)
    BY <1>4
  <2>2. size = Len(row) + (n - k) /\ n - k \in Nat
    <3>1. k \in Int
      <4>1. Len(freeRows) \in Nat
        BY PlacesLive DEF Accounts, Numbered, Lists
      <4>2. QED
        BY <1>1, <4>1 DEF Least
    <3>2. QED
      BY <1>3, <2>1, <3>1
  <2> HIDE DEF size
  <2>3. QED
    BY <2>1, <2>2
<1>6. \A r \in N : \E i \in 1 .. n : new[i] = r
  BY <1>3 DEF ToSet
<1>7. /\ at \in [N -> 1 .. n] /\ \A r \in N : new[at[r]] = r
      /\ \A i \in 1 .. n : new[i] \in N /\ at[new[i]] = i
  <2>1. ASSUME NEW r \in N PROVE at[r] \in 1 .. n /\ new[at[r]] = r
    <3>1. \E i \in 1 .. n : new[i] = r
      BY <1>6
    <3>2. at[r] = CHOOSE i \in 1 .. n : new[i] = r
      OBVIOUS
    <3>3. QED
      BY <3>1, <3>2
  <2>2. at \in [N -> 1 .. n]
    <3>1. at = [r \in N |-> at[r]]
      OBVIOUS
    <3> HIDE DEF at, N
    <3>2. QED
      BY <2>1, <3>1
  <2>3. ASSUME NEW i \in 1 .. n PROVE new[i] \in N /\ at[new[i]] = i
    <3>1. new[i] \in N
      BY <1>3 DEF ToSet
    <3> HIDE DEF at, N
    <3>2. at[new[i]] \in DOMAIN new /\ i \in DOMAIN new /\ new[at[new[i]]] = new[i]
      BY <1>3, <2>1, <3>1
    <3>3. QED
      BY <1>3, <3>1, <3>2 DEF Once
  <2>4. QED
    BY <2>1, <2>2, <2>3
<1>8. ASSUME NEW r \in N
      PROVE  row'[r].live /\ row'[r].cancel = FALSE /\ row'[r].ticket = next + at[r] - 1
  <2>1. r \in 1 .. size
    BY <1>3
  <2>2. row'[r] = [ticket |-> next + at[r] - 1, live |-> TRUE, cancel |-> FALSE, second |-> FALSE]
    BY <1>2, <2>1
  <2>3. QED
    BY <2>2
<1>9. DOMAIN row' = 1 .. size /\ \A r \in (1 .. size) \ N : row'[r] = row[r]
  BY <1>2
<1> HIDE DEF size, N, at, bad
<1>10. Live' = Live \cup N
  <2>1. Live' = {r \in 1 .. size : row'[r].live}
    BY <1>9 DEF Live
  <2>2. Live = {r \in 1 .. Len(row) : row[r].live}
    BY <1>5 DEF Live
  <2>3. QED
    BY <1>3, <1>5, <1>8, <1>9, <2>1, <2>2
<1>11. \A r \in Live : row'[r] = row[r]
  BY <1>3, <1>4, <1>5, <1>9
<1>12. Live' \subseteq DOMAIN row'
  BY DEF Live
<1>13. QED
  BY <1>2, <1>3, <1>4, <1>7, <1>8, <1>10, <1>11, <1>12 DEF N

LEMMA TakeKeepsCancels ==
  ASSUME IInv, CancelInv, Busy, NEW n \in Nat, Take(n), UNCHANGED <<jobs, aligning>>
  PROVE  Cancellations'
<1> DEFINE new == [i \in 1 .. n |-> RowFor(i)]
           k == Least(n, Len(freeRows))
<1>1. NewRows(new, n, k)
  BY DEF NewRows
<1> HIDE DEF new, k
<1>2. /\ Live' = Live \cup ToSet(new) /\ Live \cap ToSet(new) = {}
      /\ Live \subseteq DOMAIN row /\ Live' \subseteq DOMAIN row'
      /\ \A r \in Live : row'[r] = row[r]
      /\ \A r \in ToSet(new) : row'[r].live /\ row'[r].cancel = FALSE
      /\ \E at \in [ToSet(new) -> 1 .. n] :
           /\ \A r \in ToSet(new) : new[at[r]] = r /\ row'[r].ticket = next + at[r] - 1
           /\ \A i \in 1 .. n : new[i] \in ToSet(new) /\ at[new[i]] = i
      /\ \E bad : finished' = finished \o Results(Only(new, bad), "error")
      /\ new \in Seq(Nat)
  BY <1>1, Pulled
<1>3. PICK bad : finished' = finished \o Results(Only(new, bad), "error")
  BY <1>2
<1> DEFINE es == Results(Only(new, bad), "error")
<1>4. es \in Seq(ResultType) /\ \A d \in ToSet(es) : d.kind = "error" /\ d.row \in ToSet(new)
  <2>1. Only(new, bad) \in Seq(Nat) /\ ToSet(Only(new, bad)) \subseteq ToSet(new)
    <3>1. Only(new, bad) \in Seq(Nat)
      BY <1>2, OnlyPicks
    <3>2. new \in Seq(ToSet(new))
      <4>1. DOMAIN new = 1 .. Len(new) /\ Len(new) \in Nat /\ new = [i \in 1 .. Len(new) |-> new[i]]
        BY <1>2
      <4>2. QED
        BY <4>1, FunctionSeq
    <3>3. Only(new, bad) \in Seq(ToSet(new))
      BY <3>2, OnlyPicks
    <3>4. QED
      BY <3>1, <3>3, RangeIn
  <2> DEFINE q == Only(new, bad)
  <2> HIDE DEF q
  <2>2. q \in Seq(Nat) /\ ToSet(q) \subseteq ToSet(new) /\ es = Results(q, "error")
    BY <2>1 DEF q
  <2>3. QED
    BY <2>2, ResultsAre, ResultsKind
<1>5. finished \in Seq(ResultType) /\ Cancellations
  BY DEF IInv, TypeInv, CancelInv
<1> HIDE DEF es
<1>6. ToSet(finished') = ToSet(finished) \cup ToSet(es)
  BY <1>3, <1>4, <1>5, ConcatSet DEF es
<1>7. Marked' = Marked
  <2>1. Marked = {r \in Live : row[r].cancel} /\ Marked' = {r \in Live' : row'[r].cancel}
    BY DEF Marked, Live
  <2>2. QED
    BY <1>2, <2>1
<1>8. EndedRows \subseteq EndedRows'
  <2>1. EndedRows = {d.row : d \in ToSet(finished)} /\ EndedRows' = {d.row : d \in ToSet(finished')}
    BY DEF EndedRows, RowsOf, ToSet
  <2>2. QED
    BY <1>6, <2>1
<1>9. ASSUME NEW d \in ToSet(finished') PROVE Right(d)'
  <2>1. CASE d \in ToSet(finished)
    <3>1. d.row \in EndedRows /\ Right(d)
      BY <1>5, <2>1 DEF Cancellations, EndedRows, RowsOf, ToSet
    <3>2. d.row \in Live
      BY <3>1, PlacesLive
    <3>3. QED
      BY <1>2, <3>1, <3>2 DEF Right
  <2>2. CASE d \in ToSet(es)
    <3>1. d.kind = "error" /\ d.row \in ToSet(new)
      BY <1>4, <2>2
    <3>2. row'[d.row].cancel = FALSE
      BY <1>2, <3>1
    <3>3. QED
      BY <3>1, <3>2 DEF Right
  <2>3. QED
    BY <1>6, <2>1, <2>2
<1>10. QED
  BY <1>5, <1>7, <1>8, <1>9 DEF Cancellations

LEMMA TakesKeepCancels ==
  ASSUME IInv, CancelInv, LaunchTake \/ Poll \/ AwaitWork
  PROVE  CancelInv'
<1>1. Busy /\ pc' \notin {"drain", "lastflush"} /\ UNCHANGED <<jobs, aligning>>
  BY DEF Busy, LaunchTake, Poll, AwaitWork, Launched
<1>2. (\E n \in Nat : Take(n)) \/ UNCHANGED <<row, finished>>
  <2>1. CASE LaunchTake
    <3>1. (\E n \in 0 .. Wanted - Len(waiting) : Take(n)) \/ UNCHANGED <<rowVars, finished>>
      BY <2>1 DEF LaunchTake
    <3>2. CASE \E n \in 0 .. Wanted - Len(waiting) : Take(n)
      <4>1. PICK n \in 0 .. Wanted - Len(waiting) : Take(n)
        BY <3>2
      <4>2. n \in Nat
        OBVIOUS
      <4>3. QED
        BY <4>1, <4>2
    <3>3. CASE UNCHANGED <<rowVars, finished>>
      BY <3>3 DEF rowVars
    <3>4. QED
      BY <3>1, <3>2, <3>3
  <2>2. CASE Poll \/ AwaitWork
    <3>1. \E n \in 0 .. NumSlots : Take(n)
      BY <2>2 DEF Poll, AwaitWork
    <3>2. 0 .. NumSlots \subseteq Nat
      BY SlotCount
    <3>3. QED
      BY <3>1, <3>2
  <2>3. QED
    BY <2>1, <2>2
<1>3. Cancellations'
  BY <1>1, <1>2, TakeKeepsCancels, CancelsSame
<1>4. QED
  BY <1>1, <1>3, SettledElsewhere DEF CancelInv

(* A row cancelled inside a job ends with the job.                           *)
LEMMA HarvestJobKeepsCancels == IInv /\ CancelInv /\ HarvestJob => CancelInv'
<1> SUFFICES ASSUME IInv, CancelInv, HarvestJob PROVE CancelInv'
  OBVIOUS
<1> DEFINE rows == jobs[1].rows
           over == {r \in ToSet(rows) : \/ row[r].cancel
                                        \/ Kind(r) = "diarization"
                                        \/ Kind(r) = "voiceless" /\ r \notin {q \in ToSet(rows) : kept[q].on}}
           es == Endings(Only(rows, over))
<1>1. /\ pc \in {"harvest", "reap"} /\ pc' = "reap" /\ jobs # <<>> /\ jobs' = Tail(jobs)
      /\ finished' = finished \o es /\ UNCHANGED <<row, aligning>>
  BY Zenon DEF HarvestJob, rowVars
<1>2. \A r \in ToSet(rows) : row[r].cancel => r \in over
  OBVIOUS
<1> HIDE DEF over
<1>3. Busy /\ Cancellations /\ TypeInv
  BY <1>1 DEF Busy, CancelInv, IInv
<1>4. /\ rows \in Seq(Nat) /\ Lists(rows, ToSet(rows))
      /\ JobRows(jobs') = JobRows(jobs) \ ToSet(rows)
  <2>1. jobs \in Seq(JobType) /\ JobsApart(jobs)
    BY <1>3, PlacesLive DEF TypeInv, Accounts, Accounted, Apart
  <2>2. /\ jobs[1] \in JobType /\ JobRows(Tail(jobs)) = JobRows(jobs) \ ToSet(jobs[1].rows)
        /\ Lists(jobs[1].rows, ToSet(jobs[1].rows))
    BY <1>1, <2>1, JobsTail
  <2>3. QED
    BY <1>1, <2>2 DEF JobType
<1> HIDE DEF rows
<1>5. Only(rows, over) \in Seq(Nat) /\ ToSet(Only(rows, over)) = ToSet(rows) \cap over
  <2>1. Lists(Only(rows, over), ToSet(rows) \cap over)
    BY <1>4, ListsOnly
  <2>2. Only(rows, over) \in Seq(Nat)
    BY <1>4, OnlyPicks
  <2>3. QED
    BY <2>1, <2>2, ListsRange
<1> DEFINE q == Only(rows, over)
<1>6. q \in Seq(Nat) /\ ToSet(q) = ToSet(rows) \cap over /\ es = Endings(q)
  BY <1>5
<1> HIDE DEF q
<1>7. es \in Seq(ResultType) /\ RowsOf(es) = q /\ \A d \in ToSet(es) : Right(d)
  BY <1>6, EndingsAre, EndingsRight
<1> HIDE DEF es
<1>8. finished \in Seq(ResultType)
  BY <1>3 DEF TypeInv
<1>9. ToSet(finished') = ToSet(finished) \cup ToSet(es)
  BY <1>1, <1>7, <1>8, ConcatSet
<1>10. EndedRows' = EndedRows \cup (ToSet(rows) \cap over)
  <2>1. /\ EndedRows = {d.row : d \in ToSet(finished)} /\ EndedRows' = {d.row : d \in ToSet(finished')}
        /\ ToSet(RowsOf(es)) = {d.row : d \in ToSet(es)}
    BY DEF EndedRows, RowsOf, ToSet
  <2>2. QED
    BY <1>6, <1>7, <1>9, <2>1
<1>11. Marked' = Marked /\ (\A d : Right(d)' = Right(d)) /\ \A r \in Marked : row[r].cancel
  BY <1>1 DEF Marked, Right
<1>12. Cancellations'
  BY <1>1, <1>2, <1>3, <1>4, <1>7, <1>9, <1>10, <1>11 DEF Cancellations
<1>13. QED
  BY <1>1, <1>12, SettledElsewhere DEF CancelInv

(* What process_cancels can reach it ends, and it marks the rest.            *)
LEMMA Noticed ==
  ASSUME IInv, ProcessCancels
  PROVE  /\ DOMAIN row' = DOMAIN row
         /\ \A r \in DOMAIN row :
              /\ row'[r].ticket = row[r].ticket /\ row'[r].live = row[r].live
              /\ row'[r].cancel = (row[r].cancel \/ (row[r].live /\ row[r].ticket \in posted))
<1> DEFINE hit == {r \in DOMAIN row : row[r].live /\ row[r].ticket \in posted /\ ~row[r].cancel}
<1>1. row' = [r \in DOMAIN row |-> [row[r] EXCEPT !.cancel = @ \/ r \in hit]]
  BY Zenon DEF ProcessCancels
<1>2. ASSUME NEW r \in DOMAIN row
      PROVE  /\ row'[r].ticket = row[r].ticket /\ row'[r].live = row[r].live
             /\ row'[r].cancel = (row[r].cancel \/ (row[r].live /\ row[r].ticket \in posted))
  <2>1. row[r] \in RowType
    BY DEF IInv, TypeInv
  <2>2. row[r].cancel \in BOOLEAN /\ row[r].live \in BOOLEAN
    BY <2>1 DEF RowType
  <2>3. (r \in hit) = (row[r].live /\ row[r].ticket \in posted /\ ~row[r].cancel)
    BY <2>2
  <2>4. (row[r].cancel \/ r \in hit) = (row[r].cancel \/ (row[r].live /\ row[r].ticket \in posted))
    BY <2>2, <2>3
  <2> DEFINE up == row[r].cancel \/ r \in hit
  <2>5. row'[r] = [row[r] EXCEPT !.cancel = up]
    BY <1>1
  <2> HIDE DEF up
  <2>6. row'[r].ticket = row[r].ticket /\ row'[r].live = row[r].live /\ row'[r].cancel = up
    BY <2>1, <2>5 DEF RowType
  <2>7. QED
    BY <2>4, <2>6 DEF up
<1>3. DOMAIN row' = DOMAIN row
  BY <1>1
<1>4. QED
  BY <1>2, <1>3

LEMMA ProcessCancelsKeepsCancels == IInv /\ CancelInv /\ ProcessCancels => CancelInv'
<1> SUFFICES ASSUME IInv, CancelInv, ProcessCancels PROVE CancelInv'
  OBVIOUS
<1> DEFINE hit == {r \in DOMAIN row : row[r].live /\ row[r].ticket \in posted /\ ~row[r].cancel}
           again == Recoding(hit)
           encoded == {r \in hit : \E i \in DOMAIN ready : ready[i].row = r}
           queued == again \cup encoded \cup (hit \cap (ToSet(waiting) \cup ToSet(tsReady)))
           stop == {s \in Active : slot[s].row \in hit}
           gone == {slot[s].row : s \in stop}
           S == queued \cup gone
<1>1. /\ pc = "cancel" /\ pc' = "cancelled" /\ UNCHANGED <<jobs, aligning>>
      /\ finished' = Results(ByTicket(S), "cancelled")
  BY Zenon DEF ProcessCancels
<1>2. S = hit \cap (ToSet(reencode) \cup ReadyRows \cup ToSet(waiting) \cup ToSet(tsReady) \cup SlotRows(slot, Active))
  <2>1. again = hit \cap ToSet(reencode) /\ gone = hit \cap SlotRows(slot, Active)
    BY DEF Recoding, SlotRows
  <2>2. ReadyRows = {ready[i].row : i \in DOMAIN ready}
    BY DEF ReadyRows, ToSet, RowsOf
  <2>3. encoded = hit \cap ReadyRows
    BY <2>2
  <2>4. QED
    BY <2>1, <2>3
<1>3. hit \subseteq Live
  BY DEF Live
<1> HIDE DEF S
<1>4. Busy /\ Cancellations /\ finished = <<>> /\ EndedRows = {} /\ TakenRows = {}
      /\ fallbackReady = <<>> /\ preemptedReady = <<>>
  <2>1. Busy /\ Cancellations /\ Phases
    BY <1>1 DEF Busy, CancelInv, IInv
  <2>2. finished = <<>> /\ taken = <<>> /\ fallbackReady = <<>> /\ preemptedReady = <<>>
    BY <1>1, <2>1 DEF Phases
  <2>3. QED
    BY <2>1, <2>2 DEF EndedRows, TakenRows, RowsOf, ToSet
<1>5. Lists(ByTicket(S), S) /\ S \in SUBSET Live
  <2>1. S \in SUBSET Live
    BY <1>2, <1>3
  <2>2. QED
    BY <1>4, <2>1, LiveByTicket
<1>6. EndedRows' = S /\ \A d \in ToSet(finished') : d.kind = "cancelled" /\ d.row \in S
  <2> DEFINE q == ByTicket(S)
  <2>1. q \in Seq(Nat) /\ ToSet(q) = S /\ finished' = Results(q, "cancelled")
    BY <1>1, <1>4, <1>5, LiveByTicket, ListsRange
  <2> HIDE DEF q
  <2>2. RowsOf(finished') = q
    BY <2>1, ResultsAre
  <2>3. QED
    BY <2>1, <2>2, ResultsKind DEF EndedRows
<1>7. /\ DOMAIN row' = DOMAIN row
      /\ \A r \in DOMAIN row :
           /\ row'[r].live = row[r].live
           /\ row'[r].cancel = (row[r].cancel \/ (row[r].live /\ row[r].ticket \in posted))
  BY Noticed
<1>8. Marked' = Marked \cup hit
  BY <1>7 DEF Marked
<1>9. ASSUME NEW r \in hit PROVE r \in JobRows(jobs) \cup ToSet(aligning.rows) \cup S
  <2>1. r \in Live /\ r \in Nat
    BY <1>3, <1>4, PlacesLive
  <2>2. Placed(r) = 1
    BY <1>4, <2>1, PlacesLive DEF Accounts, Accounted, In
  <2>3. r \notin ToSet(fallbackReady) /\ r \notin ToSet(preemptedReady)
    BY <1>4 DEF ToSet
  <2> HIDE DEF hit
  <2>4. QED
    BY <1>2, <1>4, <2>2, <2>3 DEF Placed, In
<1>10. ASSUME NEW d \in ToSet(finished') PROVE Right(d)'
  <2>1. d.kind = "cancelled" /\ d.row \in hit
    BY <1>2, <1>6
  <2>2. d.row \in DOMAIN row /\ row[d.row].live /\ row[d.row].ticket \in posted
    BY <2>1
  <2>3. row'[d.row].cancel = TRUE
    BY <1>7, <2>2
  <2>4. QED
    BY <2>1, <2>3 DEF Right
<1> HIDE DEF hit
<1>11. Cancellations'
  BY <1>1, <1>4, <1>6, <1>8, <1>9, <1>10 DEF Cancellations
<1>12. QED
  BY <1>1, <1>11, SettledElsewhere DEF CancelInv
-----------------------------------------------------------------------------
(* The engine keeps its contract, step by step.                              *)

LEMMA StepKeepsCancels ==
  ASSUME IInv, IInv', CancelInv, [Next]_vars
  PROVE  CancelInv'
<1>1. CASE Start
  <2>1. row' = <<>> /\ finished' = <<>> /\ pc' = "top"
    BY <1>1 DEF Start, Fresh
  <2>2. Marked' = {} /\ ToSet(finished') = {}
    BY <2>1 DEF Marked, ToSet
  <2>3. QED
    BY <2>1, <2>2, SettledElsewhere DEF CancelInv, Cancellations
<1>2. CASE Throw \/ Return
  BY <1>2 DEF Throw, Return, CancelInv, Busy
<1>3. CASE EngineStep /\ ~Return
  <2>1. CASE HarvestTimestamps BY <2>1, HarvestTimestampsKeepsCancels
  <2>2. CASE Deliver           BY <2>2, DeliverKeepsCancels
  <2>3. CASE ProcessCancels    BY <2>3, ProcessCancelsKeepsCancels
  <2>4. CASE HarvestJob        BY <2>4, HarvestJobKeepsCancels
  <2>5. CASE LaunchResumed \/ Submit BY <2>5, LaunchesKeepCancels
  <2>6. CASE LaunchTake \/ Poll      BY <2>6, TakesKeepCancels
  <2>7. CASE Place             BY <2>7, PlaceKeepsCancels
  <2>8. CASE CommitStep        BY <2>8, CommitStepKeepsCancels
  <2>9. CASE \/ Flushed \/ NothingPosted \/ Harvested \/ Idling \/ Drained \/ Step
             \/ Grow \/ Preempt \/ DropPromptCache \/ Requeue \/ Admit
    BY <2>9, QuietSteps
  <2>10. QED
    BY <1>3, <2>1, <2>2, <2>3, <2>4, <2>5, <2>6, <2>7, <2>8, <2>9 DEF EngineStep
<1>4. CASE AwaitWork     BY <1>4, TakesKeepCancels
<1>5. CASE EncoderDone   BY <1>5, EncoderDoneKeepsCancels
<1>6. CASE AlignmentDone BY <1>6, AlignmentDoneKeepsCancels
<1>7. CASE \E t \in load.cancels : Cancel(t)
  BY <1>7, CancelKeepsCancels
<1>8. CASE UNCHANGED vars
  <2>1. /\ UNCHANGED <<pc, row, jobs, aligning, finished, tsReady>>
        /\ Unoccupied' = Unoccupied /\ Busy' = Busy
    BY <1>8 DEF vars, source, rowVars, queues, kv, growth, pend, ends, Unoccupied, Busy
  <2>2. ASSUME Busy PROVE Cancellations' /\ Settled'
    <3>1. Cancellations'
      BY <2>1, <2>2, CancelsSame
    <3>2. Settled'
      BY <2>1, <2>2 DEF CancelInv, Settled
    <3>3. QED
      BY <3>1, <3>2
  <2>3. QED
    BY <2>1, <2>2 DEF CancelInv
<1>9. QED
  BY <1>1, <1>2, <1>3, <1>4, <1>5, <1>6, <1>7, <1>8 DEF Next, EngineStep

Owed == TicketsOf(Live)
Noted == TicketsOf(Marked)

LEMMA ContractStays ==
  ASSUME UNCHANGED <<Busy, next, Owed, Noted, posted>>
  PROVE  UNCHANGED Contract!contract
BY DEF Contract!contract, Owed, Noted, Live, Marked

LEMMA NoRows ==
  ASSUME row' = <<>>
  PROVE  Owed' = {} /\ Noted' = {}
<1>1. Live' = {} /\ Marked' = {}
  BY DEF Live, Marked
<1>2. QED
  BY <1>1 DEF Owed, Noted, TicketsOf

LEMMA SameRows ==
  ASSUME UNCHANGED <<row, next, posted>>, Busy' = Busy
  PROVE  UNCHANGED Contract!contract
<1>1. Owed' = Owed /\ Noted' = Noted
  BY DEF Owed, Noted, TicketsOf, Live, Marked
<1>2. QED
  BY <1>1, ContractStays

LEMMA SecondedStays ==
  ASSUME IInv, Busy, Busy', NEW q, row' = Seconded(q), UNCHANGED <<load, source, freeRows, posted>>
  PROVE  UNCHANGED Contract!contract
<1>1. /\ DOMAIN row' = DOMAIN row /\ Live' = Live
      /\ \A r \in DOMAIN row : row'[r].cancel = row[r].cancel /\ row'[r].ticket = row[r].ticket
  BY SecondedCancels
<1>2. Marked = {r \in Live : row[r].cancel} /\ Marked' = {r \in Live' : row'[r].cancel}
      /\ Live \subseteq DOMAIN row
  BY DEF Marked, Live
<1>3. Marked' = Marked
  BY <1>1, <1>2
<1>4. Owed' = Owed
  BY <1>1, <1>2 DEF Owed, TicketsOf
<1>5. Noted' = Noted
  BY <1>1, <1>2, <1>3 DEF Noted, TicketsOf
<1>6. QED
  BY <1>4, <1>5, ContractStays DEF source, Busy

LEMMA TakeIsPull ==
  ASSUME IInv, Busy, Busy', NEW n \in Nat, Take(n), UNCHANGED posted
  PROVE  Contract!Next
<1> DEFINE new == [i \in 1 .. n |-> RowFor(i)]
           k == Least(n, Len(freeRows))
           N == ToSet(new)
<1>1. NewRows(new, n, k)
  BY DEF NewRows
<1> HIDE DEF new, k
<1>2. /\ Live' = Live \cup ToSet(new) /\ Live \cap ToSet(new) = {}
      /\ Live \subseteq DOMAIN row /\ Live' \subseteq DOMAIN row'
      /\ \A r \in Live : row'[r] = row[r]
      /\ \A r \in ToSet(new) : row'[r].live /\ row'[r].cancel = FALSE
      /\ \E at \in [ToSet(new) -> 1 .. n] :
           /\ \A r \in ToSet(new) : new[at[r]] = r /\ row'[r].ticket = next + at[r] - 1
           /\ \A i \in 1 .. n : new[i] \in ToSet(new) /\ at[new[i]] = i
      /\ \E bad : finished' = finished \o Results(Only(new, bad), "error")
      /\ new \in Seq(Nat)
  BY <1>1, Pulled
<1>3. PICK at \in [N -> 1 .. n] :
        /\ \A r \in N : row'[r].ticket = next + at[r] - 1
        /\ \A i \in 1 .. n : new[i] \in N /\ at[new[i]] = i
  BY <1>2
<1>4. next \in Nat /\ next' = next + n /\ next + n <= MaxTickets /\ load \in Loads /\ Len(load.kinds) \in Nat
  <2>1. next \in Nat /\ load \in Loads /\ MaxTickets \in Nat
    BY PlacesLive DEF IInv, TypeInv
  <2>2. QED
    BY <2>1 DEF Take, MaxTickets
<1>5. n \in UNION {0 .. Len(l.kinds) : l \in Loads}
  <2>1. n \in 0 .. Len(load.kinds)
    BY <1>4 DEF MaxTickets
  <2>2. QED
    BY <1>4, <2>1
<1> HIDE DEF N
<1>6. {row'[r].ticket : r \in N} = next .. next + n - 1
  <2>1. ASSUME NEW r \in N PROVE row'[r].ticket \in next .. next + n - 1
    <3>1. at[r] \in 1 .. n /\ row'[r].ticket = next + at[r] - 1
      BY <1>3
    <3>2. QED
      BY <1>4, <3>1
  <2>2. ASSUME NEW t \in next .. next + n - 1 PROVE t \in {row'[r].ticket : r \in N}
    <3>1. t - next + 1 \in 1 .. n /\ t \in Int
      BY <1>4
    <3> DEFINE r == new[t - next + 1]
    <3>2. r \in N /\ at[r] = t - next + 1
      BY <1>3, <3>1
    <3> HIDE DEF r
    <3>3. row'[r].ticket = next + at[r] - 1
      BY <1>3, <3>2
    <3>4. row'[r].ticket = t
      BY <1>4, <3>1, <3>2, <3>3
    <3>5. QED
      BY <3>2, <3>4
  <2>3. QED
    BY <2>1, <2>2
<1>7. Owed' = Owed \cup next .. next + n - 1
  <2>1. Owed' = {row'[r].ticket : r \in Live'} /\ Owed = {row[r].ticket : r \in Live}
    BY DEF Owed, TicketsOf
  <2>2. Owed' = {row'[r].ticket : r \in Live} \cup {row'[r].ticket : r \in N}
    BY <1>2, <2>1 DEF N
  <2>3. {row'[r].ticket : r \in Live} = {row[r].ticket : r \in Live}
    BY <1>2
  <2>4. QED
    BY <1>6, <2>1, <2>2, <2>3
<1>8. Noted' = Noted
  <2>1. Marked = {r \in Live : row[r].cancel} /\ Marked' = {r \in Live' : row'[r].cancel}
    BY DEF Marked, Live
  <2>2. Marked' = Marked /\ Marked \subseteq Live
    BY <1>2, <2>1
  <2>3. Noted = {row[r].ticket : r \in Marked} /\ Noted' = {row'[r].ticket : r \in Marked'}
    BY DEF Noted, TicketsOf
  <2>4. QED
    BY <1>2, <2>2, <2>3
<1>9. Contract!Pull(n)
  BY <1>4, <1>7, <1>8 DEF Contract!Pull, Owed, Noted, Live, Marked
<1>10. QED
  BY <1>5, <1>9 DEF Contract!Next

LEMMA TakesPull ==
  ASSUME IInv, LaunchTake \/ Poll \/ AwaitWork
  PROVE  Contract!Next \/ UNCHANGED Contract!contract
<1>1. Busy /\ Busy' /\ UNCHANGED posted
  BY DEF Busy, LaunchTake, Poll, AwaitWork, Launched
<1>2. (\E n \in Nat : Take(n)) \/ UNCHANGED <<row, next>>
  <2>1. CASE LaunchTake
    <3>1. (\E n \in 0 .. Wanted - Len(waiting) : Take(n)) \/ UNCHANGED <<source, rowVars>>
      BY <2>1 DEF LaunchTake
    <3>2. CASE \E n \in 0 .. Wanted - Len(waiting) : Take(n)
      <4>1. PICK n \in 0 .. Wanted - Len(waiting) : Take(n)
        BY <3>2
      <4>2. n \in Nat
        OBVIOUS
      <4>3. QED
        BY <4>1, <4>2
    <3>3. CASE UNCHANGED <<source, rowVars>>
      BY <3>3 DEF source, rowVars
    <3>4. QED
      BY <3>1, <3>2, <3>3
  <2>2. CASE Poll \/ AwaitWork
    <3>1. \E n \in 0 .. NumSlots : Take(n)
      BY <2>2 DEF Poll, AwaitWork
    <3>2. 0 .. NumSlots \subseteq Nat
      BY SlotCount
    <3>3. QED
      BY <3>1, <3>2
  <2>3. QED
    BY <2>1, <2>2
<1>3. CASE \E n \in Nat : Take(n)
  BY <1>1, <1>3, TakeIsPull
<1>4. CASE UNCHANGED <<row, next>>
  BY <1>1, <1>4, SameRows
<1>5. QED
  BY <1>2, <1>3, <1>4

LEMMA CancelIsCancel ==
  ASSUME IInv, NEW t \in load.cancels, Cancel(t)
  PROVE  Contract!Next
<1>1. load \in Loads
  BY DEF IInv, TypeInv
<1>2. load.cancels \subseteq 0 .. Len(load.kinds) - 1
  BY <1>1, EngineAssumption
<1>a. load.kinds \in Seq(Kinds)
  BY <1>1, EngineAssumption
<1>3. t \in 0 .. Len(load.kinds)
  BY <1>2, <1>a
<1>4. t \in UNION {0 .. Len(l.kinds) : l \in Loads}
  BY <1>1, <1>3
<1>5. UNCHANGED <<row, next>> /\ Busy' = Busy /\ posted' = posted \cup {t}
  BY DEF Cancel, source, rowVars, Busy
<1>6. Owed' = Owed /\ Noted' = Noted
  BY <1>5 DEF Owed, Noted, TicketsOf, Live, Marked
<1>7. Contract!Cancel(t)
  BY <1>5, <1>6 DEF Contract!Cancel, Owed, Noted, Live, Marked
<1>8. QED
  BY <1>4, <1>7 DEF Contract!Next

LEMMA ProcessIsNotice ==
  ASSUME IInv, ProcessCancels
  PROVE  Contract!Next
<1>1. Busy /\ Busy' /\ next' = next /\ posted' = {}
  BY Zenon DEF ProcessCancels, source, Busy
<1>2. /\ DOMAIN row' = DOMAIN row
      /\ \A r \in DOMAIN row :
           /\ row'[r].ticket = row[r].ticket /\ row'[r].live = row[r].live
           /\ row'[r].cancel = (row[r].cancel \/ (row[r].live /\ row[r].ticket \in posted))
  BY Noticed
<1>3. Live' = Live /\ Live \subseteq DOMAIN row
  BY <1>2 DEF Live
<1>4. Owed' = Owed
  BY <1>2, <1>3 DEF Owed, TicketsOf
<1>5. Marked' = Marked \cup {r \in Live : row[r].ticket \in posted} /\ Marked \subseteq Live
  BY <1>2 DEF Marked, Live
<1>6. Noted' = Noted \cup (posted \cap Owed)
  <2>1. Noted' = {row'[r].ticket : r \in Marked'} /\ Noted = {row[r].ticket : r \in Marked}
        /\ Owed = {row[r].ticket : r \in Live}
    BY DEF Noted, Owed, TicketsOf
  <2>2. Noted' = {row[r].ticket : r \in Marked'}
    BY <1>2, <1>3, <1>5, <2>1
  <2>3. QED
    BY <1>5, <2>1, <2>2
<1>7. Contract!Notice
  BY <1>1, <1>4, <1>6 DEF Contract!Notice, Owed, Noted, Live, Marked
<1>8. QED
  BY <1>7 DEF Contract!Next

LEMMA DeliverIsDeliver ==
  ASSUME IInv, CancelInv, Deliver
  PROVE  /\ Contract!Deliver(row[Head(finished).row].ticket, Head(finished).kind)
         /\ row[Head(finished).row].ticket \in Owed
         /\ Head(finished).kind \in {"value", "error", "cancelled"}
<1> DEFINE d == Head(finished)
           r == d.row
           t == row[r].ticket
<1>1. /\ pc \in FlushPhases /\ finished # <<>> /\ row' = [row EXCEPT ![r].live = FALSE]
      /\ UNCHANGED <<pc, next, posted>>
  BY DEF Deliver, source
<1>2. Busy /\ Busy' /\ TypeInv /\ Cancellations /\ Numbered
  BY <1>1 DEF Busy, IInv, FlushPhases, CancelInv
<1>3. d \in ToSet(finished) /\ d \in ResultType /\ r \in EndedRows
  <2>1. finished \in Seq(ResultType)
    BY <1>2 DEF TypeInv
  <2>2. 1 \in DOMAIN finished /\ d = finished[1] /\ finished[1] \in ResultType
    BY <1>1, <2>1
  <2>3. QED
    BY <2>2 DEF EndedRows, RowsOf, ToSet
<1>4. r \in Live /\ Live \subseteq DOMAIN row /\ Right(d)
  BY <1>2, <1>3, PlacesLive DEF Cancellations
<1>5. d.kind \in {"value", "error", "cancelled"}
  BY <1>3 DEF ResultType
<1> HIDE DEF d
<1>6. \A q \in Live : row[q].ticket = t => q = r
  BY <1>2, <1>4 DEF Numbered
<1>7. /\ DOMAIN row' = DOMAIN row /\ ~row'[r].live
      /\ \A q \in DOMAIN row \ {r} : row'[q] = row[q]
  <2>1. row \in Seq(RowType) /\ r \in DOMAIN row
    BY <1>2, <1>4 DEF TypeInv
  <2>2. row[r] \in RowType
    BY <2>1
  <2> HIDE DEF r
  <2>3. QED
    BY <1>1, <2>1, <2>2 DEF RowType
<1> HIDE DEF r, t
<1>8. Live' = Live \ {r} /\ Marked' = Marked \ {r} /\ Marked \subseteq Live
  BY <1>7 DEF Live, Marked
<1>9. t = row[r].ticket
  BY DEF t
<1>10. Owed' = Owed \ {t}
  <2>1. Owed' = {row'[q].ticket : q \in Live'} /\ Owed = {row[q].ticket : q \in Live}
    BY DEF Owed, TicketsOf
  <2>2. {row'[q].ticket : q \in Live'} = {row[q].ticket : q \in Live \ {r}}
    BY <1>4, <1>7, <1>8
  <2>3. QED
    BY <1>6, <1>9, <2>1, <2>2
<1>11. Noted' = Noted \ {t}
  <2>1. Noted' = {row'[q].ticket : q \in Marked'} /\ Noted = {row[q].ticket : q \in Marked}
    BY DEF Noted, TicketsOf
  <2>2. {row'[q].ticket : q \in Marked'} = {row[q].ticket : q \in Marked \ {r}}
    BY <1>4, <1>7, <1>8
  <2>3. QED
    BY <1>6, <1>8, <1>9, <2>1, <2>2
<1>12. (d.kind = "cancelled") = (t \in Noted)
  <2>1. d.kind = "cancelled" <=> row[r].cancel
    BY <1>4 DEF Right, r
  <2>2. row[r].cancel <=> r \in Marked
    BY <1>4 DEF Marked, Live
  <2>3. r \in Marked <=> t \in Noted
    <3>1. Noted = {row[q].ticket : q \in Marked}
      BY DEF Noted, TicketsOf
    <3>2. QED
      BY <1>6, <1>8, <1>9, <3>1
  <2>4. QED
    BY <2>1, <2>2, <2>3
<1>13. t \in Owed
  BY <1>4, <1>9 DEF Owed, TicketsOf
<1>14. Contract!Deliver(t, d.kind)
  BY <1>1, <1>2, <1>10, <1>11, <1>12, <1>13 DEF Contract!Deliver, Owed, Noted, Live, Marked
<1>15. QED
  BY <1>5, <1>13, <1>14 DEF t, r, d

(* Nothing is owed when serve() returns, as every place of the engine is     *)
(* empty then.                                                               *)
LEMMA ReturnIsReturn ==
  ASSUME IInv, CancelInv, Return
  PROVE  Contract!Next
<1>1. /\ pc = "lastflush" /\ finished = <<>> /\ pc' = "off" /\ next' = 0 /\ row' = <<>>
      /\ posted' = posted
  BY DEF Return
<1>2. Busy /\ ~Busy' /\ Settled /\ Phases
  BY <1>1 DEF Busy, CancelInv, IInv
<1>3. /\ order = <<>> /\ ready = <<>> /\ waiting = <<>> /\ jobs = <<>> /\ reencode = <<>>
      /\ aligning.rows = <<>> /\ tsReady = <<>>
  BY <1>1, <1>2 DEF Settled, Unoccupied
<1>4. taken = <<>> /\ fallbackReady = <<>> /\ preemptedReady = <<>>
  BY <1>1, <1>2 DEF Phases
<1>5. /\ ToSet(waiting) = {} /\ JobRows(jobs) = {} /\ ToSet(reencode) = {} /\ ReadyRows = {}
      /\ TakenRows = {} /\ ToSet(fallbackReady) = {} /\ ToSet(preemptedReady) = {}
      /\ SlotRows(slot, Active) = {} /\ ToSet(tsReady) = {} /\ ToSet(aligning.rows) = {}
      /\ EndedRows = {}
  BY <1>1, <1>3, <1>4 DEF ToSet, JobRows, ReadyRows, TakenRows, EndedRows, RowsOf, SlotRows, Active
<1>6. ASSUME NEW r \in Live PROVE FALSE
  <2>1. r \in Nat
    BY <1>2, PlacesLive
  <2>2. Placed(r) = 1
    BY <1>2, <2>1, PlacesLive DEF Accounts, Accounted, In
  <2>3. QED
    BY <1>5, <2>2 DEF Placed, In
<1>7. Live = {} /\ Marked = {}
  BY <1>6 DEF Live, Marked
<1>8. Owed = {} /\ Noted = {}
  BY <1>7 DEF Owed, Noted, TicketsOf
<1>9. Owed' = {} /\ Noted' = {}
  BY <1>1, NoRows
<1>10. Contract!Return
  BY <1>1, <1>2, <1>8, <1>9 DEF Contract!Return, Busy, Owed, Noted, Live, Marked
<1>11. QED
  BY <1>10 DEF Contract!Next

LEMMA EndsAndStarts ==
  ASSUME Start \/ Throw
  PROVE  Contract!Next
<1>1. CASE Start
  <2>1. ~Busy /\ Busy' /\ next' = 0 /\ row' = <<>> /\ posted' = {}
    BY <1>1 DEF Start, Fresh, Busy
  <2>2. Owed' = {} /\ Noted' = {}
    BY <2>1, NoRows
  <2>3. Contract!Start
    BY <2>1, <2>2 DEF Contract!Start, Owed, Noted, Live, Marked
  <2>4. QED
    BY <2>3 DEF Contract!Next
<1>2. CASE Throw
  <2>1. Busy /\ ~Busy' /\ next' = 0 /\ row' = <<>> /\ posted' = posted
    BY <1>2 DEF Throw, Fresh, Busy
  <2>2. Owed' = {} /\ Noted' = {}
    BY <2>1, NoRows
  <2>3. Contract!Fail
    BY <2>1, <2>2 DEF Contract!Fail, Owed, Noted, Live, Marked
  <2>4. QED
    BY <2>3 DEF Contract!Next
<1>3. QED
  BY <1>1, <1>2

LEMMA StepKeepsContract ==
  ASSUME IInv, CancelInv, [Next]_vars
  PROVE  [Contract!Next]_(Contract!contract)
<1>1. CASE Start \/ Throw BY <1>1, EndsAndStarts
<1>2. CASE Return         BY <1>2, ReturnIsReturn
<1>3. CASE Deliver
  <2>1. /\ Contract!Deliver(row[Head(finished).row].ticket, Head(finished).kind)
        /\ row[Head(finished).row].ticket \in Owed
        /\ Head(finished).kind \in {"value", "error", "cancelled"}
    BY <1>3, DeliverIsDeliver
  <2>2. QED
    BY <2>1 DEF Contract!Next, Owed, Live
<1>4. CASE ProcessCancels BY <1>4, ProcessIsNotice
<1>5. CASE LaunchTake \/ Poll \/ AwaitWork
  BY <1>5, TakesPull
<1>6. CASE \E t \in load.cancels : Cancel(t)
  BY <1>6, CancelIsCancel
<1>7. CASE Place \/ CommitStep
  <2>1. Busy /\ Busy' /\ (\E q : row' = Seconded(q)) /\ UNCHANGED <<load, source, freeRows, posted>>
    BY <1>7, ZenonT(40) DEF Place, CommitStep, Busy
  <2>2. QED
    BY <2>1, SecondedStays
<1>8. CASE \/ Flushed \/ NothingPosted \/ Harvested \/ Idling \/ Drained \/ Step
           \/ Grow \/ Preempt \/ DropPromptCache \/ Requeue \/ Admit
           \/ HarvestTimestamps \/ HarvestJob \/ LaunchResumed \/ Submit
  <2>1. UNCHANGED <<row, next, posted>>
    BY ZenonT(40), <1>8 DEF Flushed, NothingPosted, Harvested, Idling, Drained, Step, Grow, Preempt, DropPromptCache,
                Requeue, Admit, HarvestTimestamps, HarvestJob, LaunchResumed, Submit, source, rowVars
  <2>2. Busy' = Busy
    BY Zenon, <1>8 DEF Flushed, NothingPosted, Harvested, Idling, Drained, Step, Grow, Preempt, DropPromptCache,
                Requeue, Admit, HarvestTimestamps, HarvestJob, LaunchResumed, Submit, Launched, Busy, FlushPhases
  <2>3. QED
    BY <2>1, <2>2, SameRows
<1>9. CASE EncoderDone \/ AlignmentDone \/ UNCHANGED vars
  <2>1. UNCHANGED <<row, next, posted>> /\ Busy' = Busy
    BY <1>9 DEF EncoderDone, AlignmentDone, vars, source, rowVars, Busy
  <2>2. QED
    BY <2>1, SameRows
<1>10. QED
  BY <1>1, <1>2, <1>3, <1>4, <1>5, <1>6, <1>7, <1>8, <1>9 DEF Next, EngineStep

(* ImplementsContract, for every load and size: serve() owes a request from  *)
(* when it is pulled until it delivers its one result, returns owing none,   *)
(* and the result is "cancelled" exactly when a cancellation was noticed     *)
(* while it was owed.                                                        *)
THEOREM Implementation == Spec => ImplementsContract
<1>1. Init => CancelInv /\ Contract!Init
  <2> SUFFICES ASSUME Init PROVE CancelInv /\ Contract!Init
    OBVIOUS
  <2>1. ~Busy /\ next = 0 /\ posted = {} /\ row = <<>>
    BY DEF Init, Busy
  <2>2. Live = {} /\ Marked = {}
    BY <2>1 DEF Live, Marked
  <2>3. Owed = {} /\ Noted = {}
    BY <2>2 DEF Owed, Noted, TicketsOf
  <2>4. QED
    BY <2>1, <2>3 DEF CancelInv, Contract!Init, Owed, Noted, Live, Marked
<1>2. Spec => []IInv
  BY Invariance
<1>3. IInv /\ IInv' /\ CancelInv /\ [Next]_vars => CancelInv'
  BY StepKeepsCancels
<1>4. IInv /\ CancelInv /\ [Next]_vars => [Contract!Next]_(Contract!contract)
  BY StepKeepsContract
<1>5. IInv /\ CancelInv =>
        (Deliver => LET d == Head(finished) IN Contract!Deliver(row[d.row].ticket, d.kind))
  BY DeliverIsDeliver
<1>6. QED
  BY <1>1, <1>2, <1>3, <1>4, <1>5, PTL DEF Spec, ImplementsContract, Contract!Spec
-----------------------------------------------------------------------------
(* The pool.                                                                 *)

FullSize == Prompt + Budget + 1
Ahead == (IF pendReady THEN 1 ELSE 0) + (IF pc = "commit" THEN 1 ELSE 0)

(* A slot has written a cell per token but the last, and those of the step   *)
(* under way and of the one prepared; once it is grown it can take a step    *)
(* more and prepare another.                                                 *)
Grown(s) == \/ pc = "commit"
            \/ pc = "grow" /\ s \in ToSet(growing)
            \/ slot[s].pos + StepRows <= slot[s].cells
SlotFits(s) ==
  /\ slot[s].full = FullSize
  /\ slot[s].gen \in 1 .. Budget - 1
  /\ slot[s].pos = Prompt + slot[s].gen - 1 + Ahead
  /\ slot[s].pos <= slot[s].cells /\ slot[s].cells <= FullSize
  /\ Grown(s)
SlotsFit == \A s \in Active : SlotFits(s)

(* The reservations of the slots A and a prompt cache of c cells fit, but    *)
(* for the prefix, which a sequence that copied it from the prompt cache     *)
(* does not hold twice.                                                      *)
Fitting(sl, A, c) == Cells(sl, A) + c <= Pool + (IF \E s \in A : sl[s].shares THEN Prefix ELSE 0)
PoolFits == cached \in {0, Prefix} /\ Fitting(slot, Active, cached)

(* So do those of the round that is under way, with all of it counted twice. *)
Needs(q) == Total([i \in DOMAIN q |-> q[i].need], DOMAIN q)
GoodEntry(e) == e.full = FullSize /\ e.need = FirstShare(FullSize, kept[e.row].gen)
RoundFits ==
  /\ taken # <<>> => ~pendReady
  /\ \A e \in ToSet(taken) : ~e.error => GoodEntry(e)
  /\ (\E e \in ToSet(taken) : ~e.error) => Cells(slot, Active) + cached + Needs(taken) <= Pool

LanesRide == pendReady => Active \subseteq pendLanes
KeptShort == \A r \in DOMAIN kept : kept[r].gen < Budget

PoolInv == SlotsFit /\ PoolFits /\ RoundFits /\ LanesRide /\ KeptShort

LEMMA LoadFits ==
  ASSUME load \in Loads
  PROVE  /\ Prompt \in Nat /\ Prefix \in Nat /\ Prefix <= Prompt /\ Budget \in Nat /\ Budget >= 1
         /\ GrowCells \in Nat /\ Pool \in Nat /\ FullSize \in Nat /\ FullSize <= Pool
<1>1. /\ load \in [kinds : Seq(Kinds), cancels : {load.cancels}, prompt : Nat \ {0},
                   prefix : 1 .. load.prompt, budget : Nat \ {0}, grow : Nat, pool : Nat]
      /\ load.prompt + load.budget + 1 <= load.pool
  BY EngineAssumption
<1>2. QED
  BY <1>1 DEF Prompt, Prefix, Budget, GrowCells, Pool, FullSize

LEMMA NoRound == taken' = <<>> => RoundFits'
<1>1. taken' = <<>> => ToSet(taken') = {}
  BY DEF ToSet
<1>2. QED
  BY <1>1 DEF RoundFits

(* What neither decodes nor admits leaves the pool alone.                    *)
LEMMA SlotsStayFit ==
  ASSUME SlotsFit, PoolFits, LanesRide,
         UNCHANGED <<load, slot, order, cached, growing, pendReady, pendLanes>>,
         \/ pc' = pc
         \/ pc # "commit" /\ pc' # "commit" /\ (pc = "grow" => growing = <<>>)
  PROVE  SlotsFit' /\ PoolFits' /\ LanesRide'
<1>1. /\ Active' = Active /\ Prompt' = Prompt /\ Budget' = Budget /\ Prefix' = Prefix /\ Pool' = Pool
      /\ FullSize' = FullSize /\ Ahead' = Ahead
  BY DEF Active, Prompt, Budget, Prefix, Pool, FullSize, Ahead
<1>2. SlotsFit'
  <2>1. ASSUME NEW s, Grown(s) PROVE Grown(s)'
    <3>1. growing = <<>> => s \notin ToSet(growing)
      BY DEF ToSet
    <3>2. QED
      BY <2>1, <3>1 DEF Grown, StepRows
  <2>2. QED
    BY <1>1, <2>1 DEF SlotsFit, SlotFits
<1>3. PoolFits'
  BY <1>1 DEF PoolFits, Fitting
<1>4. LanesRide'
  BY <1>1 DEF LanesRide
<1>5. QED
  BY <1>2, <1>3, <1>4

LEMMA PoolStays ==
  ASSUME PoolInv, UNCHANGED <<load, slot, order, cached, kept, taken, growing, pendReady, pendLanes>>,
         \/ pc' = pc
         \/ pc # "commit" /\ pc' # "commit" /\ (pc = "grow" => growing = <<>>)
  PROVE  PoolInv'
<1>1. /\ Active' = Active /\ Prompt' = Prompt /\ Budget' = Budget /\ Pool' = Pool
      /\ FullSize' = FullSize /\ GrowCells' = GrowCells
  BY DEF Active, Prompt, Budget, Pool, FullSize, GrowCells
<1>2. SlotsFit' /\ PoolFits' /\ LanesRide'
  BY SlotsStayFit DEF PoolInv
<1>3. RoundFits'
  BY <1>1 DEF PoolInv, RoundFits, GoodEntry, FirstShare, StepRows
<1>4. KeptShort'
  BY <1>1 DEF PoolInv, KeptShort
<1>5. QED
  BY <1>2, <1>3, <1>4 DEF PoolInv

LEMMA QuietPool ==
  ASSUME IInv, PoolInv,
         \/ HarvestTimestamps \/ Deliver \/ Flushed \/ NothingPosted \/ Harvested
         \/ LaunchResumed \/ LaunchTake \/ Submit \/ Idling \/ Poll \/ Requeue
         \/ Drained \/ Return \/ AwaitWork \/ EncoderDone \/ AlignmentDone
         \/ \E t \in load.cancels : Cancel(t)
  PROVE  PoolInv'
<1> USE PoolStays DEF queues, kv, growth, pend, ends
<1>1. CASE HarvestTimestamps
  BY <1>1 DEF HarvestTimestamps
<1>2. CASE Deliver
  BY <1>2 DEF Deliver
<1>3. CASE Flushed
  BY <1>3 DEF Flushed, FlushPhases
<1>4. CASE NothingPosted
  BY <1>4 DEF NothingPosted
<1>5. CASE Harvested
  BY <1>5 DEF Harvested
<1>6. CASE LaunchResumed
  BY <1>6 DEF LaunchResumed
<1>7. CASE LaunchTake
  BY <1>7 DEF LaunchTake, Launched
<1>8. CASE Submit
  BY <1>8 DEF Submit, Launched
<1>9. CASE Idling
  BY <1>9 DEF Idling
<1>10. CASE Poll
  BY <1>10 DEF Poll
<1>11. CASE Requeue
  BY <1>11 DEF Requeue
<1>12. CASE Drained
  BY <1>12 DEF Drained
<1>13. CASE Return
  BY <1>13 DEF Return
<1>14. CASE AwaitWork
  BY <1>14 DEF AwaitWork
<1>15. CASE EncoderDone
  BY <1>15 DEF EncoderDone
<1>16. CASE AlignmentDone
  BY <1>16 DEF AlignmentDone
<1>17. CASE \E t \in load.cancels : Cancel(t)
  BY <1>17 DEF Cancel
<1>18. QED
  BY <1>1, <1>2, <1>3, <1>4, <1>5, <1>6, <1>7, <1>8, <1>9, <1>10, <1>11, <1>12, <1>13, <1>14, <1>15,
     <1>16, <1>17

(* A call begins with nothing, and so it ends when it throws.                *)
LEMMA PoolFresh ==
  ASSUME Fresh(TRUE) \/ Fresh(FALSE), load \in Loads, UNCHANGED load
  PROVE  PoolInv'
<1>1. order' = <<>> /\ cached' = 0 /\ taken' = <<>> /\ slot' = [s \in Slots |-> Idle]
      /\ kept' = [r \in 1 .. MaxTickets |-> NotKept]
  BY DEF Fresh
<1>2. Active' = {}
  BY <1>1 DEF Active, ToSet
<1>3. /\ Prompt' = Prompt /\ Budget' = Budget /\ Prefix' = Prefix /\ Pool' = Pool
      /\ Prefix \in Nat /\ Pool \in Nat /\ Budget \in Nat /\ Budget >= 1
  BY LoadFits DEF Prompt, Budget, Prefix, Pool
<1>4. SlotsFit' /\ LanesRide'
  BY <1>2 DEF SlotsFit, LanesRide
<1>5. PoolFits'
  <2>1. SlotsTyped(slot')
    BY <1>1 DEF SlotsTyped, SlotType, Idle
  <2>2. Cells(slot', {}) = 0
    BY <2>1, CellsNone
  <2>3. QED
    BY <1>1, <1>2, <1>3, <2>2 DEF PoolFits, Fitting
<1>6. RoundFits'
  BY <1>1, NoRound
<1>7. KeptShort'
  BY <1>1, <1>3 DEF KeptShort, NotKept
<1>8. QED
  BY <1>4, <1>5, <1>6, <1>7 DEF PoolInv

LEMMA PoolInit == Init => PoolInv
<1> SUFFICES ASSUME Init PROVE PoolInv
  OBVIOUS
<1>1. /\ order = <<>> /\ cached = 0 /\ taken = <<>> /\ slot = [s \in Slots |-> Idle]
      /\ kept = [r \in 1 .. MaxTickets |-> NotKept] /\ load \in Loads
  BY DEF Init
<1>2. Active = {} /\ ToSet(taken) = {}
  BY <1>1 DEF Active, ToSet
<1>3. Prefix \in Nat /\ Pool \in Nat /\ Budget \in Nat /\ Budget >= 1
  BY <1>1, LoadFits
<1>4. SlotsFit /\ LanesRide /\ RoundFits
  BY <1>1, <1>2 DEF SlotsFit, LanesRide, RoundFits
<1>5. PoolFits
  <2>1. SlotsTyped(slot)
    BY <1>1 DEF SlotsTyped, SlotType, Idle
  <2>2. Cells(slot, {}) = 0
    BY <2>1, CellsNone
  <2>3. QED
    BY <1>1, <1>2, <1>3, <2>2 DEF PoolFits, Fitting
<1>6. KeptShort
  BY <1>1, <1>3 DEF KeptShort, NotKept
<1>7. QED
  BY <1>4, <1>5, <1>6 DEF PoolInv

LEMMA PoolIsSuffices == IInv /\ PoolInv => PoolSuffices
<1> SUFFICES ASSUME IInv, PoolInv PROVE PoolSuffices
  OBVIOUS
<1>1. load \in Loads /\ SlotsTyped(slot) /\ Active \in SUBSET Slots /\ cached \in Nat
  BY RangeIn DEF IInv, TypeInv, SlotsTyped, Active
<1>2. Prefix \in Nat /\ Pool \in Nat /\ Cells(slot, Active) \in Nat
  BY <1>1, LoadFits, CellsAre
<1>3. Cells(slot, Active) + cached <= Pool + (IF \E s \in Active : slot[s].shares THEN Prefix ELSE 0)
  BY DEF PoolInv, PoolFits, Fitting
<1> DEFINE p == IF \E s \in Active : slot[s].shares THEN Prefix ELSE 0
<1>4. p \in Nat
  BY <1>2
<1> HIDE DEF p
<1>5. Cells(slot, Active) + cached - p <= Pool
  BY <1>1, <1>2, <1>3, <1>4 DEF p
<1>6. \A s \in Active : slot[s].pos <= slot[s].cells
  BY DEF PoolInv, SlotsFit, SlotFits
<1>7. QED
  BY <1>5, <1>6 DEF PoolSuffices, p

LEMMA LoadStays ==
  ASSUME UNCHANGED load
  PROVE  /\ Prompt' = Prompt /\ Budget' = Budget /\ Prefix' = Prefix /\ Pool' = Pool /\ FullSize' = FullSize
         /\ GrowCells' = GrowCells
BY DEF Prompt, Budget, Prefix, Pool, FullSize, GrowCells

(* What a slot that is taken holds.                                          *)
LEMMA SlotHolds ==
  ASSUME IInv, PoolInv, NEW s \in Active
  PROVE  /\ load \in Loads /\ SlotsTyped(slot) /\ Active \in SUBSET Slots /\ s \in Slots /\ slot[s] \in SlotType
         /\ slot[s].full = FullSize /\ slot[s].gen \in Nat /\ slot[s].gen >= 1 /\ slot[s].gen + 1 <= Budget
         /\ slot[s].pos \in Nat /\ slot[s].pos = Prompt + slot[s].gen - 1 + Ahead
         /\ slot[s].cells \in Nat /\ slot[s].pos <= slot[s].cells /\ slot[s].cells <= FullSize
         /\ Prefix <= slot[s].cells /\ Grown(s) /\ Ahead \in Nat
<1>1. load \in Loads /\ SlotsTyped(slot) /\ Active \in SUBSET Slots
  BY RangeIn DEF IInv, TypeInv, SlotsTyped, Active
<1>2. s \in Slots /\ slot[s] \in SlotType /\ SlotFits(s)
  BY <1>1 DEF SlotsTyped, PoolInv, SlotsFit
<1>3. /\ Prompt \in Nat /\ Prefix \in Nat /\ Prefix <= Prompt /\ Budget \in Nat /\ Ahead \in Nat
  BY <1>1, LoadFits DEF Ahead
<1>4. /\ slot[s].full = FullSize /\ slot[s].gen \in 1 .. Budget - 1 /\ slot[s].pos = Prompt + slot[s].gen - 1 + Ahead
      /\ slot[s].pos <= slot[s].cells /\ slot[s].cells <= FullSize /\ Grown(s)
  BY <1>2 DEF SlotFits
<1>5. slot[s].cells \in Nat /\ slot[s].pos \in Nat
  BY <1>2 DEF SlotType
<1>6. Prefix <= slot[s].cells
  BY <1>3, <1>4, <1>5
<1>7. slot[s].gen \in Nat /\ slot[s].gen >= 1 /\ slot[s].gen + 1 <= Budget
  BY <1>3, <1>4
<1>8. QED
  BY <1>1, <1>2, <1>3, <1>4, <1>5, <1>6, <1>7

(* The slots S give their cells back: those that shared the prefix had it.   *)
Shrinks(sl, to, A, S) ==
  /\ SlotsTyped(sl) /\ SlotsTyped(to) /\ A \in SUBSET Slots /\ S \in SUBSET A
  /\ \A s \in A \ S : to[s].cells = sl[s].cells /\ to[s].shares = sl[s].shares
  /\ \A s \in S : Prefix <= sl[s].cells

LEMMA FitsLess ==
  ASSUME load \in Loads, NEW sl, NEW to, NEW A, NEW S, Shrinks(sl, to, A, S), NEW c \in Nat, Fitting(sl, A, c)
  PROVE  Fitting(to, A \ S, c)
<1> DEFINE B == A \ S
<1>1. /\ SlotsTyped(sl) /\ SlotsTyped(to) /\ A \in SUBSET Slots /\ S \in SUBSET Slots /\ B \in SUBSET Slots
      /\ B \cap S = {} /\ B \cup S = A /\ S \in SUBSET A
      /\ \A s \in B : sl[s].cells = to[s].cells /\ to[s].shares = sl[s].shares
      /\ \A s \in S : Prefix <= sl[s].cells
  BY DEF Shrinks
<1> HIDE DEF B
<1>2. Cells(sl, A) = Cells(sl, B) + Cells(sl, S)
  <2>1. Cells(sl, B \cup S) = Cells(sl, B) + Cells(sl, S)
    BY <1>1, CellsSplit
  <2>2. QED
    BY <1>1, <2>1
<1>3. Cells(to, B) = Cells(sl, B)
  BY <1>1, CellsSame
<1>4. Cells(sl, B) \in Nat /\ Cells(sl, S) \in Nat /\ Prefix \in Nat /\ Pool \in Nat
  BY <1>1, CellsAre, LoadFits
<1>5. Cells(sl, A) + c <= Pool + (IF \E s \in A : sl[s].shares THEN Prefix ELSE 0)
  BY DEF Fitting
<1>6. CASE \E s \in B : to[s].shares
  <2>1. \E s \in A : sl[s].shares
    BY <1>1, <1>6
  <2>2. Cells(sl, A) + c <= Pool + Prefix
    BY <1>5, <2>1
  <2>3. Cells(to, B) + c <= Pool + Prefix
    BY <1>2, <1>3, <1>4, <2>2
  <2>4. QED
    BY <1>6, <2>3 DEF Fitting, B
<1>7. CASE ~(\E s \in B : to[s].shares) /\ \E s \in S : sl[s].shares
  <2>1. PICK s \in S : sl[s].shares
    BY <1>7
  <2>2. Cells(sl, A) + c <= Pool + Prefix
    BY <1>1, <1>5, <2>1
  <2>3. Prefix <= Cells(sl, S)
    <3>1. Cells(sl, S) = Cells(sl, S \ {s}) + sl[s].cells /\ S \ {s} \in SUBSET Slots
      BY <1>1, CellsBut
    <3>2. Cells(sl, S \ {s}) \in Nat /\ sl[s].cells \in Nat
      <4>1. sl[s] \in SlotType
        BY <1>1 DEF SlotsTyped
      <4>2. QED
        BY <1>1, <3>1, <4>1, CellsAre DEF SlotType
    <3>3. Prefix <= sl[s].cells
      BY <1>1
    <3>4. QED
      BY <1>4, <3>1, <3>2, <3>3
  <2>4. Cells(to, B) + c <= Pool
    BY <1>2, <1>3, <1>4, <2>2, <2>3
  <2>5. QED
    BY <1>4, <1>7, <2>4 DEF Fitting, B
<1>8. CASE ~(\E s \in B : to[s].shares) /\ ~(\E s \in S : sl[s].shares)
  <2>1. ~(\E s \in A : sl[s].shares)
    BY <1>1, <1>8
  <2>2. Cells(sl, A) + c <= Pool
    BY <1>4, <1>5, <2>1
  <2>3. Cells(to, B) + c <= Pool
    BY <1>2, <1>3, <1>4, <2>2
  <2>4. QED
    BY <1>4, <1>8, <2>3 DEF Fitting, B
<1>9. QED
  BY <1>6, <1>7, <1>8

LEMMA FitsNow ==
  ASSUME UNCHANGED load, NEW sl, NEW A, NEW c, sl = slot', A = Active', c = cached', Fitting(sl, A, c),
         c \in {0, Prefix}
  PROVE  PoolFits'
<1>1. Prefix' = Prefix /\ Pool' = Pool
  BY LoadStays
<1>2. Cells(slot', Active') + cached' <= Pool + (IF \E s \in Active' : slot'[s].shares THEN Prefix ELSE 0)
  BY DEF Fitting
<1>3. QED
  BY <1>1, <1>2 DEF PoolFits, Fitting

-----------------------------------------------------------------------------
(* Cancelling and harvesting.                                                *)

LEMMA ProcessCancelsKeepsPool == IInv /\ IInv' /\ PoolInv /\ ProcessCancels => PoolInv'
<1> SUFFICES ASSUME IInv, IInv', PoolInv, ProcessCancels PROVE PoolInv'
  OBVIOUS
<1>1. PICK stop, queued :
        /\ stop \in SUBSET Active /\ pc = "cancel" /\ pc' = "cancelled"
        /\ kept' = [r \in DOMAIN kept |-> IF r \in queued THEN NotKept ELSE kept[r]]
        /\ slot' = [s \in Slots |-> IF s \in stop THEN Idle ELSE slot[s]]
        /\ order' = Without(order, stop)
        /\ UNCHANGED <<load, taken, cached, growing, pendReady, pendLanes>>
  <2> DEFINE hit == {r \in DOMAIN row : row[r].live /\ row[r].ticket \in posted /\ ~row[r].cancel}
             again == Recoding(hit)
             encoded == {r \in hit : \E i \in DOMAIN ready : ready[i].row = r}
             queued == again \cup encoded \cup (hit \cap (ToSet(waiting) \cup ToSet(tsReady)))
             stop == {s \in Active : slot[s].row \in hit}
  <2>1. /\ pc = "cancel" /\ pc' = "cancelled"
        /\ kept' = [r \in DOMAIN kept |-> IF r \in queued THEN NotKept ELSE kept[r]]
        /\ slot' = [s \in Slots |-> IF s \in stop THEN Idle ELSE slot[s]]
        /\ order' = Without(order, stop)
        /\ UNCHANGED <<load, taken, cached, growing, pendReady, pendLanes>>
    BY Zenon DEF ProcessCancels, growth, pend
  <2>2. stop \in SUBSET Active
    OBVIOUS
  <2> HIDE DEF stop, queued
  <2>3. QED
    BY <2>1, <2>2
<1>2. /\ load \in Loads /\ SlotsTyped(slot) /\ Active \in SUBSET Slots /\ cached \in Nat /\ taken = <<>>
      /\ SlotsTyped(slot') /\ Lists(order, Active)
  <2>1. Busy
    BY <1>1 DEF Busy
  <2>2. QED
    BY <1>1, <2>1, RangeIn DEF IInv, TypeInv, SlotsTyped, Active, Phases, Accounted, Apart, Listed
<1>3. Active' = Active \ stop
  <2>1. Lists(order', Active \ stop)
    BY <1>1, <1>2, ListsOnly
  <2>2. QED
    BY <2>1, ListsRange DEF Active
<1>4. \A s \in Active \ stop : slot'[s] = slot[s]
  BY <1>1, <1>2
<1>5. /\ FullSize' = FullSize /\ Budget' = Budget /\ Prompt' = Prompt /\ Ahead' = Ahead /\ Budget \in Nat /\ Budget >= 1
  BY <1>1, <1>2, LoadStays, LoadFits DEF Ahead
<1>6. SlotsFit'
  BY <1>1, <1>3, <1>4, <1>5 DEF PoolInv, SlotsFit, SlotFits, Grown, StepRows
<1>7. PoolFits'
  <2>1. Shrinks(slot, slot', Active, stop)
    <3>1. \A s \in stop : Prefix <= slot[s].cells
      BY <1>1, SlotHolds
    <3>2. QED
      BY <1>1, <1>2, <1>4, <3>1 DEF Shrinks
  <2>2. Fitting(slot, Active, cached) /\ cached \in {0, Prefix}
    BY DEF PoolInv, PoolFits
  <2>3. Fitting(slot', Active \ stop, cached)
    BY <1>2, <2>1, <2>2, FitsLess
  <2>4. QED
    BY <1>1, <1>3, <2>2, <2>3, FitsNow
<1>8. RoundFits'
  BY <1>1, <1>2, NoRound
<1>9. LanesRide'
  BY <1>1, <1>3 DEF PoolInv, LanesRide
<1>10. KeptShort'
  BY <1>1, <1>5 DEF PoolInv, KeptShort, NotKept
<1>11. QED
  BY <1>6, <1>7, <1>8, <1>9, <1>10 DEF PoolInv

LEMMA HarvestJobKeepsPool == IInv /\ PoolInv /\ HarvestJob => PoolInv'
<1> SUFFICES ASSUME IInv, PoolInv, HarvestJob PROVE PoolInv'
  OBVIOUS
<1>1. PICK over, again :
        /\ pc \in {"harvest", "reap"} /\ pc' = "reap"
        /\ kept' = [r \in DOMAIN kept |->
               IF r \in over THEN NotKept
               ELSE IF r \in again THEN [kept[r] EXCEPT !.share = 0] ELSE kept[r]]
        /\ UNCHANGED <<load, taken, slot, order, cached, growing, pendReady, pendLanes>>
  <2> DEFINE rows == jobs[1].rows
             again == {r \in ToSet(rows) : kept[r].on}
             over == {r \in ToSet(rows) : \/ row[r].cancel
                                          \/ Kind(r) = "diarization"
                                          \/ Kind(r) = "voiceless" /\ r \notin again}
  <2>1. /\ pc \in {"harvest", "reap"} /\ pc' = "reap"
        /\ kept' = [r \in DOMAIN kept |->
               IF r \in over THEN NotKept
               ELSE IF r \in again THEN [kept[r] EXCEPT !.share = 0] ELSE kept[r]]
        /\ UNCHANGED <<load, taken, slot, order, cached, growing, pendReady, pendLanes>>
    BY Zenon DEF HarvestJob, growth, pend
  <2> HIDE DEF again, over
  <2>2. QED
    BY <2>1, Zenon
<1>2. load \in Loads /\ taken = <<>> /\ kept \in [1 .. MaxTickets -> KeptType]
  BY <1>1 DEF IInv, TypeInv, Phases
<1>3. KeptShort'
  <2>1. Budget' = Budget /\ Budget \in Nat /\ Budget >= 1
    BY <1>1, <1>2, LoadStays, LoadFits
  <2>2. ASSUME NEW r \in DOMAIN kept PROVE kept'[r].gen < Budget
    <3>1. kept[r] \in KeptType /\ kept[r].gen < Budget
      BY <1>2 DEF PoolInv, KeptShort
    <3>2. [kept[r] EXCEPT !.share = 0].gen = kept[r].gen /\ NotKept.gen = 0
      BY <3>1 DEF KeptType, NotKept
    <3>3. QED
      BY <1>1, <2>1, <3>1, <3>2
  <2>3. QED
    BY <1>1, <2>1, <2>2 DEF KeptShort
<1>4. RoundFits'
  BY <1>1, <1>2, NoRound
<1>5. SlotsFit' /\ PoolFits' /\ LanesRide'
  BY <1>1, SlotsStayFit DEF PoolInv
<1>6. QED
  BY <1>3, <1>4, <1>5 DEF PoolInv

-----------------------------------------------------------------------------
(* Decoding.                                                                 *)

LEMMA StepKeepsPool == IInv /\ PoolInv /\ Step => PoolInv'
<1> SUFFICES ASSUME IInv, PoolInv, Step PROVE PoolInv'
  OBVIOUS
<1> DEFINE lanes == IF pendReady THEN pendLanes ELSE Active
           live == lanes \cap Active
           forward(S, sl) == [s \in Slots |-> IF s \in S THEN [sl[s] EXCEPT !.pos = @ + 1] ELSE sl[s]]
           run == IF pendReady THEN slot ELSE forward(Active, slot)
<1>1. /\ pc = "step" /\ pc' = "commit"
      /\ UNCHANGED <<load, taken, order, kept, cached, growing>>
      /\ \/ slot' = forward(live, run) /\ pendReady' = TRUE /\ pendLanes' = live
         \/ slot' = run /\ pendReady' = FALSE /\ pendLanes' = {}
  BY DEF Step, queues, growth
<1>2. /\ load \in Loads /\ SlotsTyped(slot) /\ Active \in SUBSET Slots /\ taken = <<>> /\ pendReady \in BOOLEAN
  BY <1>1, RangeIn DEF IInv, TypeInv, SlotsTyped, Active, Phases
<1>0. pc = "step" /\ pc' = "commit"
  BY <1>1
<1>3. live = Active
  BY DEF PoolInv, LanesRide
<1>4. Active' = Active
  BY <1>1 DEF Active
<1> DEFINE Moved(n) ==
             /\ SlotsTyped(slot')
             /\ \A s \in Active : /\ slot'[s].pos = slot[s].pos + n
                                  /\ slot'[s].full = slot[s].full /\ slot'[s].gen = slot[s].gen
                                  /\ slot'[s].cells = slot[s].cells /\ slot'[s].shares = slot[s].shares
<1>6. \A s \in Active : slot[s].pos \in Nat /\ slot[s].pos + 0 = slot[s].pos
  BY SlotHolds
<1>5. ASSUME NEW n \in Nat, slot' = [s \in Slots |-> slot'[s]],
             \A s \in Slots \ Active : slot'[s] = slot[s],
             \A s \in Active : slot'[s] = [slot[s] EXCEPT !.pos = slot[s].pos + n]
      PROVE  Moved(n)
  <2>1. ASSUME NEW s \in Active
        PROVE  /\ slot'[s] \in SlotType /\ slot'[s].pos = slot[s].pos + n
               /\ slot'[s].full = slot[s].full /\ slot'[s].gen = slot[s].gen
               /\ slot'[s].cells = slot[s].cells /\ slot'[s].shares = slot[s].shares
    <3> DEFINE pos == slot[s].pos + n
    <3>1. slot[s] \in SlotType /\ pos \in Nat
      BY <1>2, <1>6 DEF SlotsTyped
    <3>2. slot'[s] = [slot[s] EXCEPT !.pos = pos]
      BY <1>5
    <3> HIDE DEF pos
    <3>3. QED
      BY <3>1, <3>2 DEF SlotType, pos
  <2>2. \A s \in Slots : slot'[s] \in SlotType
    BY <1>2, <1>5, <2>1 DEF SlotsTyped
  <2>3. SlotsTyped(slot')
    BY <1>5, <2>2 DEF SlotsTyped
  <2>4. QED
    BY <2>1, <2>3
<1>7. \E n \in 0 .. 2 : Moved(n) /\ Ahead' = Ahead + n /\ (pendReady => n <= 1)
  <2>1. CASE pendReady /\ pendReady'
    <3>1. slot' = [s \in Slots |-> IF s \in Active THEN [slot[s] EXCEPT !.pos = @ + 1] ELSE slot[s]]
      BY <1>1, <1>3, <2>1
    <3>2. Moved(1)
      <4>1. /\ slot' = [s \in Slots |-> slot'[s]] /\ \A s \in Slots \ Active : slot'[s] = slot[s]
            /\ \A s \in Active : slot'[s] = [slot[s] EXCEPT !.pos = slot[s].pos + 1]
        BY <1>2, <3>1
      <4> HIDE DEF Moved
      <4>2. QED
        BY <1>5, <4>1
    <3>3. Ahead' = Ahead + 1
      BY <1>0, <2>1 DEF Ahead
    <3> HIDE DEF Moved
    <3>4. QED
      BY <2>1, <3>2, <3>3
  <2>2. CASE pendReady /\ ~pendReady'
    <3>1. slot' = slot
      BY <1>1, <2>2
    <3>2. Moved(0)
      BY <1>2, <1>6, <3>1
    <3>3. Ahead' = Ahead + 0
      BY <1>0, <2>2 DEF Ahead
    <3> HIDE DEF Moved
    <3>4. QED
      BY <2>2, <3>2, <3>3
  <2>3. CASE ~pendReady /\ pendReady'
    <3>1. slot' = forward(Active, forward(Active, slot))
      BY <1>1, <1>3, <2>3
    <3>2. ASSUME NEW s \in Slots
          PROVE  slot'[s] = IF s \in Active THEN [[slot[s] EXCEPT !.pos = @ + 1] EXCEPT !.pos = @ + 1] ELSE slot[s]
      BY <3>1
    <3>3. slot' = [s \in Slots |-> slot'[s]]
      BY <3>1
    <3>4. Moved(2)
      <4>1. ASSUME NEW s \in Active PROVE slot'[s] = [slot[s] EXCEPT !.pos = slot[s].pos + 2]
        <5> DEFINE rec == slot[s]
                   mid == [rec EXCEPT !.pos = @ + 1]
        <5>1. rec \in SlotType /\ rec.pos \in Nat
          BY <1>2, <1>6 DEF SlotsTyped
        <5>2. slot'[s] = [mid EXCEPT !.pos = @ + 1]
          BY <1>2, <3>2
        <5> HIDE DEF rec
        <5>3. mid.pos = rec.pos + 1
          BY <5>1 DEF SlotType
        <5>4. mid.pos + 1 = rec.pos + 2
          BY <5>1, <5>3
        <5>5. [mid EXCEPT !.pos = rec.pos + 2] = [rec EXCEPT !.pos = rec.pos + 2]
          BY <5>1 DEF SlotType
        <5>6. QED
          BY <5>2, <5>4, <5>5 DEF rec
      <4>2. \A s \in Slots \ Active : slot'[s] = slot[s]
        BY <3>2
      <4> HIDE DEF Moved
      <4>3. QED
        BY <1>5, <3>3, <4>1, <4>2
    <3>5. Ahead' = Ahead + 2
      BY <1>0, <2>3 DEF Ahead
    <3> HIDE DEF Moved
    <3>6. QED
      BY <2>3, <3>4, <3>5
  <2>4. CASE ~pendReady /\ ~pendReady'
    <3>1. slot' = [s \in Slots |-> IF s \in Active THEN [slot[s] EXCEPT !.pos = @ + 1] ELSE slot[s]]
      BY <1>1, <1>3, <2>4
    <3>2. Moved(1)
      <4>1. /\ slot' = [s \in Slots |-> slot'[s]] /\ \A s \in Slots \ Active : slot'[s] = slot[s]
            /\ \A s \in Active : slot'[s] = [slot[s] EXCEPT !.pos = slot[s].pos + 1]
        BY <1>2, <3>1
      <4> HIDE DEF Moved
      <4>2. QED
        BY <1>5, <4>1
    <3>3. Ahead' = Ahead + 1
      BY <1>0, <2>4 DEF Ahead
    <3> HIDE DEF Moved
    <3>4. QED
      BY <2>4, <3>2, <3>3
  <2>5. QED
    BY <2>1, <2>2, <2>3, <2>4
<1>8. PICK n \in 0 .. 2 : Moved(n) /\ Ahead' = Ahead + n
  BY <1>7
<1>9. FullSize' = FullSize /\ Budget' = Budget /\ Prompt' = Prompt /\ Prompt \in Nat /\ Budget \in Nat /\ Ahead \in Nat
  BY <1>1, <1>2, LoadStays, LoadFits DEF Ahead
<1>10. SlotsFit'
  <2>1. ASSUME NEW s \in Active PROVE SlotFits(s)'
    <3>1. /\ slot[s].full = FullSize /\ slot[s].gen \in 1 .. Budget - 1 /\ slot[s].gen \in Nat
          /\ slot[s].pos \in Nat /\ slot[s].pos = Prompt + slot[s].gen - 1 + Ahead
          /\ slot[s].cells \in Nat /\ slot[s].cells <= FullSize /\ Grown(s)
      BY <1>9, SlotHolds
    <3>2. slot[s].pos + 2 <= slot[s].cells
      <4>1. slot[s].pos + StepRows <= slot[s].cells
        BY <1>1, <3>1 DEF Grown
      <4>2. QED
        BY <4>1 DEF StepRows
    <3>3. /\ slot'[s].pos = slot[s].pos + n /\ slot'[s].full = slot[s].full /\ slot'[s].gen = slot[s].gen
          /\ slot'[s].cells = slot[s].cells
      BY <1>8
    <3>4. slot[s].pos + n <= slot[s].cells
      BY <3>1, <3>2
    <3>5. slot'[s].pos = Prompt' + slot'[s].gen - 1 + Ahead'
      BY <1>8, <1>9, <3>1, <3>3
    <3>6. Grown(s)'
      BY <1>1 DEF Grown
    <3>7. QED
      BY <1>9, <3>1, <3>3, <3>4, <3>5, <3>6 DEF SlotFits
  <2>2. QED
    BY <1>4, <2>1 DEF SlotsFit
<1>11. PoolFits'
  <2>1. Cells(slot', Active) = Cells(slot, Active)
    BY <1>2, <1>8, CellsSame
  <2>2. (\E s \in Active : slot'[s].shares) <=> (\E s \in Active : slot[s].shares)
    BY <1>8
  <2>3. cached \in {0, Prefix} /\ Fitting(slot', Active, cached)
    BY <2>1, <2>2 DEF PoolInv, PoolFits, Fitting
  <2>4. QED
    BY <1>1, <1>4, <2>3, FitsNow
<1>12. RoundFits'
  BY <1>1, <1>2, NoRound
<1>13. LanesRide'
  BY <1>1, <1>3, <1>4 DEF LanesRide
<1>14. KeptShort'
  BY <1>1, <1>9 DEF PoolInv, KeptShort
<1>15. QED
  BY <1>10, <1>11, <1>12, <1>13, <1>14 DEF PoolInv

(* A finished sequence leaves, the others have one token more.               *)
LEMMA CommitLeaves ==
  ASSUME NEW sl, NEW ord, NEW res, NEW sampled, NEW token, NEW c, Sampling(sl, ord, res, sampled, token, c)
  PROVE  \E over \in SUBSET sampled :
           /\ ToSet(c.order) = ToSet(ord) \ over /\ SlotsTyped(c.slot) /\ sampled \in SUBSET Slots
           /\ \A s \in ToSet(ord) \ over :
                /\ c.slot[s].full = sl[s].full /\ c.slot[s].pos = sl[s].pos /\ c.slot[s].cells = sl[s].cells
                /\ c.slot[s].shares = sl[s].shares
                /\ s \notin sampled => c.slot[s].gen = sl[s].gen
                /\ s \in sampled => c.slot[s].gen = sl[s].gen + 1 /\ ~(sl[s].gen + 1 >= Budget)
<1> DEFINE over == {s \in sampled : Over(sl[s], token[s])}
           to == [s \in Slots |->
                    IF s \in over THEN Idle
                    ELSE IF s \in sampled THEN [sl[s] EXCEPT !.gen = @ + 1, !.armed = Armed(sl[s], token[s])]
                    ELSE sl[s]]
           A == ToSet(ord)
<1>1. /\ sl \in [Slots -> SlotType] /\ ord \in Seq(Slots) /\ Lists(ord, A)
      /\ sampled \in SUBSET A /\ A \in SUBSET Slots
  BY RangeIn DEF Sampling, SlotsTyped, Listed
<1>2. c.slot = to /\ c.order = Without(ord, over)
  BY Zenon DEF Sampling, Commit
<1>3. SlotsTyped(c.slot)
  BY Commits
<1>4. ASSUME NEW s \in A \ over
      PROVE  /\ to[s].full = sl[s].full /\ to[s].pos = sl[s].pos /\ to[s].cells = sl[s].cells
             /\ to[s].shares = sl[s].shares
             /\ s \notin sampled => to[s].gen = sl[s].gen
             /\ s \in sampled => to[s].gen = sl[s].gen + 1 /\ ~(sl[s].gen + 1 >= Budget)
  <2>1. s \in Slots /\ sl[s] \in SlotType
    BY <1>1
  <2>2. CASE s \notin sampled
    BY <1>4, <2>1, <2>2
  <2>3. CASE s \in sampled
    <3> DEFINE gen == sl[s].gen + 1
               armed == Armed(sl[s], token[s])
    <3>1. to[s] = [sl[s] EXCEPT !.gen = gen, !.armed = armed]
      BY <1>4, <2>1, <2>3
    <3>2. ~(gen >= Budget)
      BY <1>4, <2>3 DEF Over
    <3> HIDE DEF armed, gen
    <3>3. /\ to[s].full = sl[s].full /\ to[s].pos = sl[s].pos /\ to[s].cells = sl[s].cells
          /\ to[s].shares = sl[s].shares /\ to[s].gen = gen
      BY <2>1, <3>1 DEF SlotType
    <3>4. QED
      BY <2>3, <3>2, <3>3 DEF gen
  <2>4. QED
    BY <2>2, <2>3
<1> HIDE DEF over, to
<1>5. ToSet(c.order) = A \ over
  <2>1. Lists(Without(ord, over), A \ over)
    BY <1>1, ListsOnly
  <2>2. QED
    BY <1>2, <2>1, ListsRange
<1>6. over \in SUBSET sampled /\ sampled \in SUBSET Slots
  BY <1>1 DEF over
<1>7. QED
  BY <1>2, <1>3, <1>4, <1>5, <1>6

LEMMA CommitStepKeepsPool == IInv /\ IInv' /\ PoolInv /\ CommitStep => PoolInv'
<1> SUFFICES ASSUME IInv, IInv', PoolInv, CommitStep PROVE PoolInv'
  OBVIOUS
<1>1. pc = "commit" /\ pc' = "grow" /\ UNCHANGED <<load, taken, kept, cached, pendReady, pendLanes>>
  BY DEF CommitStep, queues, pend
<1>2. PICK token :
        LET c == Commit(slot, order, reserved, Active, token)
        IN slot' = c.slot /\ order' = c.order /\ growing' = c.order
  BY DEF CommitStep
<1> DEFINE c == Commit(slot, order, reserved, Active, token)
<1>3. slot' = c.slot /\ order' = c.order /\ growing' = c.order
  BY <1>2
<1>4. Busy /\ TypeInv /\ Phases /\ Accounts /\ taken = <<>> /\ Active \in SUBSET Slots /\ load \in Loads
      /\ SlotsTyped(slot) /\ pendReady \in BOOLEAN /\ cached \in Nat
  <2>1. Busy /\ TypeInv /\ Phases
    BY <1>1 DEF Busy, IInv
  <2>2. QED
    BY <1>1, <2>1, PlacesLive DEF Phases, Accounts, Accounted, TypeInv, SlotsTyped
<1>5. Sampling(slot, order, reserved, Active, token, c)
  BY <1>4 DEF Sampling, TypeInv, SlotsTyped, Accounts, Accounted, Apart, Reserved, Active
<1> HIDE DEF c
<1>6. PICK over \in SUBSET Active :
        /\ ToSet(c.order) = ToSet(order) \ over /\ SlotsTyped(c.slot)
        /\ \A s \in ToSet(order) \ over :
             /\ c.slot[s].full = slot[s].full /\ c.slot[s].pos = slot[s].pos /\ c.slot[s].cells = slot[s].cells
             /\ c.slot[s].shares = slot[s].shares
             /\ s \in Active => c.slot[s].gen = slot[s].gen + 1 /\ ~(slot[s].gen + 1 >= Budget)
  BY <1>5, CommitLeaves
<1>7. /\ Active' = Active \ over /\ SlotsTyped(slot')
      /\ \A s \in Active \ over :
           /\ slot'[s].full = slot[s].full /\ slot'[s].pos = slot[s].pos /\ slot'[s].cells = slot[s].cells
           /\ slot'[s].shares = slot[s].shares
           /\ slot'[s].gen = slot[s].gen + 1 /\ ~(slot[s].gen + 1 >= Budget)
  BY <1>3, <1>6 DEF Active
<1>8. /\ FullSize' = FullSize /\ Budget' = Budget /\ Prompt' = Prompt /\ Prompt \in Nat /\ Budget \in Nat
      /\ Ahead' + 1 = Ahead /\ Ahead' \in Nat
  BY <1>1, <1>4, LoadStays, LoadFits DEF Ahead
<1>9. SlotsFit'
  <2>1. ASSUME NEW s \in Active \ over PROVE SlotFits(s)'
    <3>1. /\ slot[s].full = FullSize /\ slot[s].gen \in Nat /\ slot[s].gen >= 1
          /\ slot[s].pos \in Nat /\ slot[s].pos = Prompt + slot[s].gen - 1 + Ahead
          /\ slot[s].cells \in Nat /\ slot[s].pos <= slot[s].cells /\ slot[s].cells <= FullSize
      BY SlotHolds
    <3>2. /\ slot'[s].full = slot[s].full /\ slot'[s].pos = slot[s].pos /\ slot'[s].cells = slot[s].cells
          /\ slot'[s].gen = slot[s].gen + 1 /\ ~(slot[s].gen + 1 >= Budget)
      BY <1>7
    <3>3. slot'[s].gen \in 1 .. Budget' - 1
      BY <1>8, <3>1, <3>2
    <3>4. slot'[s].pos = Prompt' + slot'[s].gen - 1 + Ahead'
      BY <1>8, <3>1, <3>2
    <3>5. Grown(s)'
      BY <1>1, <1>3, <1>7 DEF Grown, Active
    <3>6. QED
      BY <1>8, <3>1, <3>2, <3>3, <3>4, <3>5 DEF SlotFits
  <2>2. QED
    BY <1>7, <2>1 DEF SlotsFit
<1>10. PoolFits'
  <2>1. Shrinks(slot, slot', Active, over)
    <3>1. \A s \in over : Prefix <= slot[s].cells
      BY SlotHolds
    <3>2. QED
      BY <1>4, <1>7, <3>1 DEF Shrinks
  <2>2. Fitting(slot, Active, cached) /\ cached \in {0, Prefix}
    BY DEF PoolInv, PoolFits
  <2>3. Fitting(slot', Active \ over, cached)
    BY <1>4, <2>1, <2>2, FitsLess
  <2>4. QED
    BY <1>1, <1>7, <2>2, <2>3, FitsNow
<1>11. RoundFits'
  BY <1>1, <1>4, NoRound
<1>12. LanesRide'
  BY <1>1, <1>7 DEF PoolInv, LanesRide
<1>13. KeptShort'
  BY <1>1, <1>8 DEF PoolInv, KeptShort
<1>14. QED
  BY <1>9, <1>10, <1>11, <1>12, <1>13 DEF PoolInv

-----------------------------------------------------------------------------
(* Growing.                                                                  *)

LEMMA GrowKeepsPool == IInv /\ PoolInv /\ Grow => PoolInv'
<1> SUFFICES ASSUME IInv, PoolInv, Grow PROVE PoolInv'
  OBVIOUS
<1> DEFINE g == Growing
           want == Least(slot[g].full, Need(g) + GrowCells)
           grant == IF Fits(g, want) THEN want ELSE Need(g)
<1>1. /\ pc = "grow" /\ pc' = "grow" /\ growing # <<>> /\ growing' = Tail(growing)
      /\ UNCHANGED <<load, taken, order, kept, cached, pendReady, pendLanes>>
      /\ Short(g) => Fits(g, Need(g))
      /\ IF Short(g)
         THEN /\ reserved' = reserved + grant - slot[g].cells
              /\ slot' = [slot EXCEPT ![g].cells = grant]
         ELSE UNCHANGED <<reserved, slot>>
  BY DEF Grow, queues, pend
<1>2. /\ load \in Loads /\ SlotsTyped(slot) /\ Active \in SUBSET Slots /\ taken = <<>> /\ cached \in Nat
      /\ growing \in Seq(Slots) /\ reserved = Cells(slot, Active)
  <2>1. Busy
    BY <1>1 DEF Busy
  <2>2. QED
    BY <1>1, <2>1, RangeIn DEF IInv, TypeInv, SlotsTyped, Active, Phases, Reserved
<1>3. ToSet(growing) \subseteq ToSet(Tail(growing)) \cup {g}
  <2>1. DOMAIN growing = 1 .. Len(growing) /\ Len(growing) \in Nat
        /\ DOMAIN Tail(growing) = 1 .. Len(growing) - 1
        /\ \A i \in 1 .. Len(growing) - 1 : Tail(growing)[i] = growing[i + 1]
    BY <1>1, <1>2
  <2>2. ASSUME NEW i \in DOMAIN growing PROVE growing[i] \in ToSet(Tail(growing)) \cup {g}
    <3>1. CASE i = 1
      <4>1. g = growing[1]
        BY <1>1, <1>2 DEF Growing
      <4>2. QED
        BY <3>1, <4>1
    <3>2. CASE i # 1
      <4>1. i - 1 \in 1 .. Len(growing) - 1 /\ i - 1 + 1 = i
        BY <2>1, <3>2
      <4>2. Tail(growing)[i - 1] = growing[i] /\ i - 1 \in DOMAIN Tail(growing)
        BY <2>1, <4>1
      <4>3. QED
        BY <4>2 DEF ToSet
    <3>3. QED
      BY <3>1, <3>2
  <2>3. QED
    BY <2>2 DEF ToSet
<1>4. /\ Active' = Active /\ FullSize' = FullSize /\ Budget' = Budget /\ Prompt' = Prompt /\ Ahead' = Ahead
      /\ Prompt \in Nat /\ Budget \in Nat /\ GrowCells \in Nat /\ Pool \in Nat /\ Prefix \in Nat
      /\ FullSize \in Nat
  BY <1>1, <1>2, LoadStays, LoadFits DEF Active, Ahead
<1>5. Ahead \in {0, 1} /\ FullSize = Prompt + Budget + 1
  BY <1>1 DEF Ahead, FullSize
<1>6. ASSUME NEW s \in Active
      PROVE  slot[s].pos + 2 <= FullSize /\ Need(s) = slot[s].pos + 2 /\ slot[s].pos \in Nat
  <2>1. /\ slot[s].pos \in Nat /\ slot[s].pos = Prompt + slot[s].gen - 1 + Ahead
        /\ slot[s].gen \in Nat /\ slot[s].gen + 1 <= Budget /\ slot[s].full = FullSize
    BY SlotHolds
  <2>2. slot[s].pos + 2 <= FullSize
    BY <1>4, <1>5, <2>1
  <2>3. Need(s) = slot[s].pos + 2
    BY <1>4, <2>1, <2>2 DEF Need, Least, StepRows
  <2>4. QED
    BY <2>1, <2>2, <2>3
<1>7. ASSUME g \in Active
      PROVE  /\ grant \in Nat /\ slot[g].pos + 2 <= grant /\ grant <= FullSize
             /\ Short(g) => Fits(g, grant)
  <2>1. /\ slot[g].pos + 2 <= FullSize /\ Need(g) = slot[g].pos + 2 /\ slot[g].pos \in Nat
        /\ slot[g].full = FullSize
    BY <1>6, <1>7, SlotHolds
  <2>2. want \in Nat /\ slot[g].pos + 2 <= want /\ want <= FullSize
    BY <1>4, <2>1 DEF Least
  <2> HIDE DEF g, want
  <2>3. CASE Fits(g, want)
    BY <2>2, <2>3
  <2>4. CASE ~Fits(g, want)
    BY <1>1, <1>4, <2>1, <2>4
  <2>5. QED
    BY <2>3, <2>4
<1> HIDE DEF g, grant
<1>8. ASSUME Short(g) PROVE SlotsFit' /\ PoolFits'
  <2>1. g \in Active /\ slot[g].cells < Need(g) /\ slot' = [slot EXCEPT ![g].cells = grant]
    BY <1>1, <1>8 DEF Short
  <2>2. grant \in Nat /\ slot[g].pos + 2 <= grant /\ grant <= FullSize /\ Fits(g, grant)
    BY <1>7, <1>8, <2>1
  <2>3. /\ \A s \in Active \ {g} : slot'[s] = slot[s]
        /\ slot'[g].cells = grant /\ slot'[g].pos = slot[g].pos /\ slot'[g].full = slot[g].full
        /\ slot'[g].gen = slot[g].gen /\ slot'[g].shares = slot[g].shares
        /\ SlotsTyped(slot')
    <3>1. slot[g] \in SlotType /\ g \in Slots /\ slot \in [Slots -> SlotType]
      BY <1>2, <2>1 DEF SlotsTyped
    <3>2. slot'[g] = [slot[g] EXCEPT !.cells = grant] /\ \A s \in Slots \ {g} : slot'[s] = slot[s]
      BY <2>1, <3>1
    <3>3. [slot[g] EXCEPT !.cells = grant] \in SlotType
      BY <2>2, <3>1 DEF SlotType
    <3>4. SlotsTyped(slot')
      BY <2>1, <3>1, <3>3 DEF SlotsTyped
    <3>5. QED
      BY <1>2, <3>1, <3>2, <3>4 DEF SlotType
  <2>4. SlotsFit'
    <3>1. ASSUME NEW s \in Active PROVE SlotFits(s)'
      <4>1. CASE s = g
        <5>1. /\ slot[g].full = FullSize /\ slot[g].gen \in 1 .. Budget - 1 /\ slot[g].pos \in Nat
              /\ slot[g].pos = Prompt + slot[g].gen - 1 + Ahead
          BY <2>1, <3>1, SlotHolds DEF PoolInv, SlotsFit, SlotFits
        <5>2. Grown(s)'
          BY <2>2, <2>3, <4>1 DEF Grown, StepRows
        <5>3. slot[g].pos <= grant
          BY <2>2, <5>1
        <5>4. QED
          BY <1>4, <2>2, <2>3, <4>1, <5>1, <5>2, <5>3 DEF SlotFits
      <4>2. CASE s # g
        <5>1. SlotFits(s) /\ slot'[s] = slot[s]
          BY <2>3, <4>2 DEF PoolInv, SlotsFit
        <5>2. Grown(s)'
          <6>1. Grown(s)
            BY <5>1 DEF SlotFits
          <6>2. QED
            BY <1>1, <1>3, <4>2, <5>1, <6>1 DEF Grown, StepRows
        <5>3. QED
          BY <1>4, <5>1, <5>2 DEF SlotFits
      <4>3. QED
        BY <4>1, <4>2
    <3>2. QED
      BY <1>4, <3>1 DEF SlotsFit
  <2>5. PoolFits'
    <3>1. /\ Cells(slot, Active) = Cells(slot, Active \ {g}) + slot[g].cells
          /\ Cells(slot', Active) = Cells(slot', Active \ {g}) + slot'[g].cells
      BY <1>2, <2>1, <2>3, CellsBut
    <3>2. Active \ {g} \in SUBSET Slots /\ \A s \in Active \ {g} : slot[s].cells = slot'[s].cells
      BY <1>2, <2>3
    <3>3. Cells(slot, Active \ {g}) = Cells(slot', Active \ {g})
      BY <1>2, <2>3, <3>2, CellsSame
    <3>4. Cells(slot, Active \ {g}) \in Nat /\ slot[g].cells \in Nat
      BY <1>2, <2>1, <3>2, CellsAre, SlotHolds
    <3>5. cached + reserved + grant - slot[g].cells <= Pool
      BY <2>2 DEF Fits
    <3>6. Cells(slot', Active) + cached <= Pool
      BY <1>2, <1>4, <2>2, <2>3, <3>1, <3>3, <3>4, <3>5
    <3>7. Cells(slot', Active) \in Nat
      BY <1>2, <2>3, CellsAre
    <3>8. Fitting(slot', Active, cached)
      BY <1>2, <1>4, <3>6, <3>7 DEF Fitting
    <3>9. cached \in {0, Prefix}
      BY DEF PoolInv, PoolFits
    <3>10. UNCHANGED load /\ cached = cached' /\ Active = Active'
      BY <1>1, <1>4
    <3>11. QED
      BY <3>8, <3>9, <3>10, FitsNow
  <2>6. QED
    BY <2>4, <2>5
<1>9. ASSUME ~Short(g) PROVE SlotsFit' /\ PoolFits'
  <2>1. slot' = slot
    BY <1>1, <1>9
  <2>2. ASSUME NEW s \in Active PROVE Grown(s)'
    <3>1. CASE s = g
      <4>1. ~(slot[g].cells < slot[g].pos + 2) /\ slot[g].cells \in Nat /\ slot[g].pos \in Nat
        BY <1>6, <1>9, <3>1, SlotHolds DEF Short
      <4>2. slot[g].pos + StepRows <= slot[g].cells
        BY <4>1 DEF StepRows
      <4>3. QED
        BY <2>1, <3>1, <4>2 DEF Grown, StepRows
    <3>2. CASE s # g
      <4>1. Grown(s)
        BY DEF PoolInv, SlotsFit, SlotFits
      <4>2. QED
        BY <1>1, <1>3, <2>1, <3>2, <4>1 DEF Grown, StepRows
    <3>3. QED
      BY <3>1, <3>2
  <2>3. SlotsFit'
    BY <1>4, <2>1, <2>2 DEF PoolInv, SlotsFit, SlotFits
  <2>4. PoolFits'
    <3>1. Fitting(slot, Active, cached) /\ cached \in {0, Prefix}
      BY DEF PoolInv, PoolFits
    <3>2. UNCHANGED load /\ cached = cached' /\ Active = Active' /\ slot = slot'
      BY <1>1, <1>4, <2>1
    <3>3. QED
      BY <3>1, <3>2, FitsNow
  <2>5. QED
    BY <2>3, <2>4
<1>10. RoundFits'
  BY <1>1, <1>2, NoRound
<1>11. LanesRide' /\ KeptShort'
  BY <1>1, <1>4 DEF PoolInv, LanesRide, KeptShort
<1>12. QED
  BY <1>8, <1>9, <1>10, <1>11 DEF PoolInv

LEMMA PreemptKeepsPool == IInv /\ IInv' /\ PoolInv /\ Preempt => PoolInv'
<1> SUFFICES ASSUME IInv, IInv', PoolInv, Preempt PROVE PoolInv'
  OBVIOUS
<1>1. PICK s, r, share, armed :
      /\ s = Last(order) /\ Len(order) > 1 /\ pc = "grow" /\ pc' = "grow"
      /\ kept' = [kept EXCEPT ![r] = [on |-> TRUE, gen |-> slot[s].gen, share |-> share, armed |-> armed]]
      /\ slot' = [slot EXCEPT ![s] = Idle]
      /\ order' = Front(order)
      /\ UNCHANGED <<load, taken, cached, growing, pendReady, pendLanes>>
  BY DEF Preempt, queues, pend
<1>2. /\ load \in Loads /\ SlotsTyped(slot) /\ Active \in SUBSET Slots /\ cached \in Nat /\ taken = <<>>
      /\ SlotsTyped(slot') /\ Lists(order, Active) /\ kept \in [1 .. MaxTickets -> KeptType]
  <2>1. Busy
    BY <1>1 DEF Busy
  <2>2. QED
    BY <1>1, <2>1, RangeIn DEF IInv, TypeInv, SlotsTyped, Active, Phases, Accounted, Apart, Listed
<1>3. s \in Active /\ Active' = Active \ {s}
  <2>1. order # <<>>
    BY <1>1
  <2>2. s \in Active /\ Lists(order', Active \ {s})
    BY <1>1, <1>2, <2>1, ListsFront
  <2>3. QED
    BY <2>2, ListsRange DEF Active
<1>4. \A q \in Active \ {s} : slot'[q] = slot[q]
  BY <1>1, <1>2 DEF SlotsTyped
<1>5. /\ FullSize' = FullSize /\ Budget' = Budget /\ Prompt' = Prompt /\ Ahead' = Ahead
      /\ Budget \in Nat
  BY <1>1, <1>2, LoadStays, LoadFits DEF Ahead
<1>6. SlotsFit'
  BY <1>1, <1>3, <1>4, <1>5 DEF PoolInv, SlotsFit, SlotFits, Grown, StepRows
<1>7. PoolFits'
  <2>1. Shrinks(slot, slot', Active, {s})
    <3>1. Prefix <= slot[s].cells
      BY <1>3, SlotHolds
    <3>2. QED
      BY <1>2, <1>3, <1>4, <3>1 DEF Shrinks
  <2>2. Fitting(slot, Active, cached) /\ cached \in {0, Prefix}
    BY DEF PoolInv, PoolFits
  <2>3. Fitting(slot', Active \ {s}, cached)
    BY <1>2, <2>1, <2>2, FitsLess
  <2>4. QED
    BY <1>1, <1>3, <2>2, <2>3, FitsNow
<1>8. RoundFits'
  BY <1>1, <1>2, NoRound
<1>9. LanesRide'
  BY <1>1, <1>3 DEF PoolInv, LanesRide
<1>10. KeptShort'
  <2>1. slot[s].gen \in Nat /\ slot[s].gen < Budget
    BY <1>3, <1>5, SlotHolds
  <2>2. QED
    BY <1>1, <1>2, <1>5, <2>1 DEF PoolInv, KeptShort
<1>11. QED
  BY <1>6, <1>7, <1>8, <1>9, <1>10 DEF PoolInv

LEMMA DropPromptCacheKeepsPool == IInv /\ PoolInv /\ DropPromptCache => PoolInv'
<1> SUFFICES ASSUME IInv, PoolInv, DropPromptCache PROVE PoolInv'
  OBVIOUS
<1>1. /\ pc = "grow" /\ pc' = "grow" /\ Len(order) = 1 /\ cached' = 0 /\ Short(Growing)
      /\ slot' = [s \in Slots |-> [slot[s] EXCEPT !.shares = FALSE]]
      /\ UNCHANGED <<load, taken, order, kept, growing, pendReady, pendLanes>>
  BY DEF DropPromptCache, queues, pend
<1>2. /\ load \in Loads /\ SlotsTyped(slot) /\ Active \in SUBSET Slots /\ taken = <<>>
      /\ Lists(order, Active) /\ order \in Seq(Slots)
  <2>1. Busy
    BY <1>1 DEF Busy
  <2>2. QED
    BY <1>1, <2>1, RangeIn DEF IInv, TypeInv, SlotsTyped, Active, Phases, Accounted, Apart, Listed
<1>3. PICK s \in Active : Active = {s}
  <2>1. DOMAIN order = {1}
    BY <1>1, <1>2
  <2>2. Active = {order[1]}
    BY <2>1 DEF Active, ToSet
  <2>3. QED
    BY <2>2
<1>4. /\ SlotsTyped(slot')
      /\ \A q \in Slots : /\ slot'[q].full = slot[q].full /\ slot'[q].gen = slot[q].gen
                          /\ slot'[q].pos = slot[q].pos /\ slot'[q].cells = slot[q].cells
  <2>1. \A q \in Slots : slot[q] \in SlotType
    BY <1>2 DEF SlotsTyped
  <2>2. QED
    BY <1>1, <2>1 DEF SlotType, SlotsTyped
<1>5. /\ Active' = Active /\ FullSize' = FullSize /\ Budget' = Budget /\ Prompt' = Prompt /\ Ahead' = Ahead
      /\ Budget \in Nat /\ FullSize \in Nat /\ FullSize <= Pool /\ Pool \in Nat /\ Prefix \in Nat
  BY <1>1, <1>2, LoadStays, LoadFits DEF Active, Ahead
<1>6. SlotsFit'
  <2>1. ASSUME NEW q \in Active PROVE SlotFits(q)'
    <3>1. SlotFits(q) /\ q \in Slots
      BY <1>2 DEF PoolInv, SlotsFit
    <3>2. Grown(q)'
      BY <1>1, <1>4, <3>1 DEF SlotFits, Grown, StepRows
    <3>3. QED
      BY <1>4, <1>5, <3>1, <3>2 DEF SlotFits
  <2>2. QED
    BY <1>5, <2>1 DEF SlotsFit
<1>7. PoolFits'
  <2>1. Cells(slot', {s}) = slot'[s].cells /\ slot'[s].cells = slot[s].cells
    BY <1>2, <1>4, CellsOne
  <2>2. slot[s].cells \in Nat /\ slot[s].cells <= FullSize
    BY SlotHolds
  <2>3. Cells(slot', Active) + 0 <= Pool
    BY <1>3, <1>5, <2>1, <2>2
  <2>4. Fitting(slot', Active, 0)
    <3>1. Cells(slot', Active) \in Nat
      BY <1>3, <2>1, <2>2
    <3>2. QED
      BY <1>5, <2>3, <3>1 DEF Fitting
  <2>5. QED
    BY <1>1, <1>5, <2>4, FitsNow
<1>8. RoundFits'
  BY <1>1, <1>2, NoRound
<1>9. LanesRide' /\ KeptShort'
  BY <1>1, <1>5 DEF PoolInv, LanesRide, KeptShort
<1>10. QED
  BY <1>6, <1>7, <1>8, <1>9 DEF PoolInv

-----------------------------------------------------------------------------
(* Admission.                                                                *)

LEMMA NeedsNone == Needs(<<>>) = 0
<1> DEFINE v == [i \in DOMAIN <<>> |-> <<>>[i].need]
<1>1. v \in [{} -> Nat] /\ DOMAIN <<>> = {}
  OBVIOUS
<1> HIDE DEF v
<1>2. Total(v, {}) = 0
  BY <1>1, TotalEmpty
<1>3. QED
  BY <1>1, <1>2 DEF Needs, v

LEMMA NeedsMore ==
  ASSUME NEW q \in Seq(TakenType), NEW t \in TakenType
  PROVE  Needs(Append(q, t)) = Needs(q) + t.need /\ Needs(q) \in Nat
<1> DEFINE m == Len(q)
           p == Append(q, t)
           v == [i \in DOMAIN q |-> q[i].need]
           w == [i \in DOMAIN p |-> p[i].need]
<1>1. /\ m \in Nat /\ DOMAIN q = 1 .. m /\ DOMAIN p = 1 .. m + 1 /\ p[m + 1] = t
      /\ \A i \in 1 .. m : p[i] = q[i] /\ q[i] \in TakenType
  OBVIOUS
<1> HIDE DEF m, p
<1>2. v \in [1 .. m -> Nat]
  BY <1>1 DEF TakenType
<1>3. \A i \in 1 .. m + 1 : p[i] \in TakenType /\ p[i].need \in Nat
  <2>1. \A i \in 1 .. m + 1 : i \in 1 .. m \/ i = m + 1
    BY <1>1
  <2>2. \A i \in 1 .. m + 1 : p[i] \in TakenType
    BY <1>1, <2>1
  <2>3. QED
    BY <2>2 DEF TakenType
<1>4. w \in [1 .. m + 1 -> Nat] /\ w[m + 1] = t.need /\ \A i \in 1 .. m : v[i] = w[i]
  <2>1. m + 1 \in 1 .. m + 1 /\ 1 .. m \subseteq 1 .. m + 1
    BY <1>1
  <2>2. QED
    BY <1>1, <1>3, <2>1
<1>5. Needs(q) = Total(v, 1 .. m) /\ Needs(p) = Total(w, 1 .. m + 1)
  BY <1>1 DEF Needs
<1> HIDE DEF v, w
<1>6. IsFiniteSet(1 .. m) /\ IsFiniteSet(1 .. m + 1)
  BY <1>1, FS_Interval
<1>7. Total(v, 1 .. m) \in Nat /\ Total(v, 1 .. m) = Total(w, 1 .. m)
  <2> DEFINE I == 1 .. m
             J == 1 .. m + 1
  <2>0. I \subseteq J
    BY <1>1
  <2>1. IsFiniteSet(I) /\ v \in [I -> Nat] /\ w \in [J -> Nat] /\ \A x \in I : v[x] = w[x]
    BY <1>2, <1>4, <1>6
  <2> HIDE DEF I, J
  <2>2. Total(v, I) \in Nat /\ Total(v, I) = Total(w, I)
    <3>1. I \in SUBSET I
      OBVIOUS
    <3>2. QED
      BY <2>0, <2>1, <3>1, TotalSame
  <2>3. QED
    BY <2>2 DEF I
<1>8. Total(w, 1 .. m + 1) = w[m + 1] + Total(w, 1 .. m)
  <2>1. m + 1 \in 1 .. m + 1 /\ (1 .. m + 1) \ {m + 1} = 1 .. m
    BY <1>1
  <2>2. Total(w, 1 .. m + 1) = w[m + 1] + Total(w, (1 .. m + 1) \ {m + 1})
    <3> DEFINE J == 1 .. m + 1
               k == m + 1
    <3>1. w \in [J -> Nat] /\ IsFiniteSet(J) /\ k \in J
      BY <1>4, <1>6, <2>1
    <3> HIDE DEF J, k
    <3>2. J \in SUBSET J
      OBVIOUS
    <3>3. Total(w, J) = w[k] + Total(w, J \ {k})
      BY <3>1, <3>2, TotalRemove
    <3>4. QED
      BY <3>3 DEF J, k
  <2>3. QED
    BY <2>1, <2>2
<1>9. t.need \in Nat
  BY DEF TakenType
<1>10. QED
  BY <1>4, <1>5, <1>7, <1>8, <1>9 DEF p

LEMMA SpareNat == ASSUME IInv, PoolInv PROVE Spare \in Nat
<1> DEFINE v == [s \in Active |-> Least(GrowCells, slot[s].full - slot[s].cells)]
<1>1. Active \in SUBSET Slots /\ load \in Loads
  BY RangeIn DEF IInv, TypeInv, Active
<1>2. ASSUME NEW s \in Active PROVE Least(GrowCells, slot[s].full - slot[s].cells) \in Nat
  <2>1. slot[s].full = FullSize /\ FullSize \in Nat /\ slot[s].cells \in Nat /\ slot[s].cells <= FullSize
        /\ GrowCells \in Nat
    BY <1>1, SlotHolds, LoadFits
  <2>2. QED
    BY <2>1 DEF Least
<1>3. v \in [Active -> Nat] /\ IsFiniteSet(Active)
  BY <1>1, <1>2, SlotsFinite
<1> HIDE DEF v
<1>4. Total(v, Active) \in Nat
  BY <1>3, TotalSame
<1>5. QED
  BY <1>4 DEF Spare, v

(* What the round takes on fits the pool.                                    *)
Sound(a) ==
  /\ DOMAIN a = RoundFields /\ a.free \in Nat /\ a.stop \in BOOLEAN /\ a.cached \in {cached, 0}
  /\ a.round \in Nat /\ a.spare \in Nat
  /\ a.taken \in Seq(TakenType) /\ a.round = Needs(a.taken)
  /\ \A e \in ToSet(a.taken) : ~e.error => GoodEntry(e)
  /\ (\E e \in ToSet(a.taken) : ~e.error) => reserved + a.cached + a.round <= Pool

LEMMA AppendSet == ASSUME NEW X, NEW q \in Seq(X), NEW t PROVE ToSet(Append(q, t)) = ToSet(q) \cup {t}
<1>1. DOMAIN Append(q, t) = 1 .. Len(q) + 1 /\ DOMAIN q = 1 .. Len(q) /\ Len(q) \in Nat
      /\ Append(q, t)[Len(q) + 1] = t /\ \A i \in 1 .. Len(q) : Append(q, t)[i] = q[i]
  OBVIOUS
<1>2. \A i \in 1 .. Len(q) + 1 : i \in 1 .. Len(q) \/ i = Len(q) + 1
  BY <1>1
<1>3. Len(q) + 1 \in 1 .. Len(q) + 1 /\ 1 .. Len(q) \subseteq 1 .. Len(q) + 1
  BY <1>1
<1>4. QED
  BY <1>1, <1>2, <1>3 DEF ToSet

(* One more entry of the round.                                              *)
LEMMA RoundGrows ==
  ASSUME NEW a, Sound(a), NEW t \in TakenType, NEW q, q = Append(a.taken, t)
  PROVE  /\ q \in Seq(TakenType) /\ ToSet(q) = ToSet(a.taken) \cup {t}
         /\ Needs(q) = a.round + t.need
<1>1. a.taken \in Seq(TakenType) /\ a.round = Needs(a.taken)
  BY DEF Sound
<1>2. QED
  BY <1>1, AppendSet, NeedsMore

LEMMA SoundOn ==
  ASSUME NEW a, NEW e, NEW w, NEW full \in Nat, NEW need \in Nat, Sound(a), WeighsTo(a, e, w, full, need),
         e.row \in Nat, need <= full, load \in Loads, reserved \in Nat, resuming \in Nat, cached \in Nat,
         full = Pool + 1 \/ (full = FullSize /\ need = FirstShare(FullSize, kept[e.row].gen))
  PROVE  Sound(w)
<1>1. /\ DOMAIN a = RoundFields /\ a.free \in Nat /\ a.stop \in BOOLEAN /\ a.cached \in {cached, 0}
      /\ a.round \in Nat /\ a.spare \in Nat
      /\ a.taken \in Seq(TakenType) /\ a.round = Needs(a.taken)
      /\ \A d \in ToSet(a.taken) : ~d.error => GoodEntry(d)
      /\ (\E d \in ToSet(a.taken) : ~d.error) => reserved + a.cached + a.round <= Pool
  BY DEF Sound
<1>2. Pool \in Nat /\ GrowCells \in Nat /\ FullSize \in Nat
  BY LoadFits
<1>3. /\ DOMAIN w = RoundFields /\ w.cached \in {a.cached, 0} /\ w.cached \in {cached, 0}
      /\ a.cached \in Nat /\ w.cached \in Nat /\ w.cached <= a.cached
  BY <1>1 DEF WeighsTo
<1>4. CASE /\ w.stop = TRUE /\ w.taken = a.taken /\ w.free = a.free
           /\ w.round = a.round /\ w.spare = a.spare
  <2>1. (\E d \in ToSet(w.taken) : ~d.error) => reserved + w.cached + w.round <= Pool
    <3>1. reserved + a.cached + a.round <= Pool => reserved + w.cached + a.round <= Pool
      BY <1>1, <1>2, <1>3
    <3>2. QED
      BY <1>1, <1>4, <3>1
  <2>2. QED
    BY <1>1, <1>3, <1>4, <2>1 DEF Sound
<1>5. CASE /\ a.stop = FALSE /\ w.stop = FALSE /\ w.free = a.free
           /\ w.taken = Append(a.taken, Taken(e.row, TRUE, 0, 0))
           /\ w.round = a.round /\ w.spare = a.spare
  <2> DEFINE t == Taken(e.row, TRUE, 0, 0)
  <2>1. t \in TakenType /\ t.error = TRUE /\ t.need = 0
    BY DEF Taken, TakenType
  <2> HIDE DEF t
  <2>2. w.taken = Append(a.taken, t)
    BY <1>5 DEF t
  <2>3. /\ w.taken \in Seq(TakenType) /\ ToSet(w.taken) = ToSet(a.taken) \cup {t}
        /\ Needs(w.taken) = a.round + t.need
    BY <2>1, <2>2, RoundGrows
  <2>5. w.round = Needs(w.taken)
    <3>1. a.round \in Nat /\ w.round = a.round
      BY <1>1, <1>5
    <3>2. Needs(w.taken) = a.round + 0
      BY <2>1, <2>3
    <3>3. QED
      BY <3>1, <3>2
  <2>6. (\E d \in ToSet(w.taken) : ~d.error) => reserved + w.cached + w.round <= Pool
    <3>1. reserved + a.cached + a.round <= Pool => reserved + w.cached + a.round <= Pool
      BY <1>1, <1>2, <1>3
    <3>2. QED
      BY <1>1, <1>5, <2>1, <2>3, <3>1
  <2>7. \A d \in ToSet(w.taken) : ~d.error => GoodEntry(d)
    BY <1>1, <2>1, <2>3
  <2>8. w.free \in Nat /\ w.stop \in BOOLEAN /\ w.round \in Nat /\ w.spare \in Nat
    BY <1>1, <1>5
  <2>9. QED
    BY <1>3, <2>3, <2>5, <2>6, <2>7, <2>8 DEF Sound
<1>6. CASE /\ a.stop = FALSE /\ w.stop = FALSE /\ a.free > 0 /\ w.free = a.free - 1
           /\ w.taken = Append(a.taken, Taken(e.row, FALSE, need, full))
           /\ w.round = a.round + need /\ w.spare = a.spare + Least(GrowCells, full - need)
           /\ ~(w.cached + full > Pool)
           /\ ~(w.cached + reserved + resuming + a.round + need + a.spare > Pool)
  <2> DEFINE t == Taken(e.row, FALSE, need, full)
  <2>1. t \in TakenType /\ t.error = FALSE /\ t.need = need /\ t.full = full /\ t.row = e.row
    BY DEF Taken, TakenType
  <2> HIDE DEF t
  <2>2. w.taken = Append(a.taken, t)
    BY <1>6 DEF t
  <2>3. /\ w.taken \in Seq(TakenType) /\ ToSet(w.taken) = ToSet(a.taken) \cup {t}
        /\ Needs(w.taken) = a.round + t.need
    BY <2>1, <2>2, RoundGrows
  <2>5. w.round = Needs(w.taken)
    BY <1>6, <2>1, <2>3
  <2>6. reserved + w.cached + w.round <= Pool
    <3>1. ~(w.cached + reserved + resuming + a.round + need + a.spare > Pool)
      BY <1>6
    <3>2. w.round = a.round + need
      BY <1>6
    <3> DEFINE c == w.cached
               rs == a.round
               sp == a.spare
    <3>3. c \in Nat /\ rs \in Nat /\ sp \in Nat
      BY <1>1, <1>3
    <3>4. ~(c + reserved + resuming + rs + need + sp > Pool)
      BY <3>1
    <3> HIDE DEF c, rs, sp
    <3>5. reserved + c + (rs + need) <= Pool
      BY <1>2, <3>3, <3>4
    <3>6. QED
      BY <3>2, <3>5 DEF c, rs
  <2>7. GoodEntry(t)
    <3>1. ~(full = Pool + 1)
      <4>1. ~(w.cached + full > Pool)
        BY <1>6
      <4>2. QED
        BY <1>2, <1>3, <4>1
    <3>2. QED
      BY <2>1, <3>1 DEF GoodEntry
  <2>8. \A d \in ToSet(w.taken) : ~d.error => GoodEntry(d)
    BY <1>1, <2>3, <2>7
  <2>9. w.free \in Nat /\ w.stop \in BOOLEAN /\ w.round \in Nat /\ w.spare \in Nat
    <3>1. Least(GrowCells, full - need) \in Nat
      BY <1>2 DEF Least
    <3> DEFINE more == Least(GrowCells, full - need)
    <3> HIDE DEF more
    <3>2. more \in Nat /\ w.spare = a.spare + more /\ w.free = a.free - 1 /\ a.free > 0
          /\ w.round = a.round + need /\ w.stop = FALSE
      BY <1>6, <3>1 DEF more
    <3>3. a.free \in Nat /\ a.round \in Nat /\ a.spare \in Nat
      BY <1>1
    <3>4. w.free \in Nat
      BY <3>2, <3>3
    <3>5. w.spare \in Nat /\ w.round \in Nat
      BY <3>2, <3>3
    <3>6. QED
      BY <3>2, <3>4, <3>5
  <2>10. QED
    BY <1>3, <2>3, <2>5, <2>6, <2>8, <2>9 DEF Sound
<1>7. QED
  BY <1>4, <1>5, <1>6 DEF WeighsTo

LEMMA RoundSound ==
  ASSUME IInv, PoolInv, Busy
  PROVE  Sound(Round)
<1> DEFINE n == Len(ready)
<1>1. /\ ready \in Seq(ReadyType) /\ n \in Nat /\ cached \in Nat /\ order \in Seq(Slots)
      /\ load \in Loads /\ DOMAIN ready = 1 .. n
  BY DEF IInv, TypeInv
<1>2. PICK f : Runs(f, n) /\ Round = f[n]
  BY <1>1, RoundRuns, Zenon
<1> HIDE DEF n
<1>3. /\ f[0] = RoundBase /\ \A i \in 1 .. n : f[i] = Weigh(f[i - 1], ready[i])
  BY <1>2 DEF Runs
<1>4. reserved \in Nat /\ resuming \in Nat /\ NumSlots - Len(order) \in Nat
  <2>1. reserved = Cells(slot, Active) /\ SlotsTyped(slot) /\ Active \in SUBSET Slots /\ Lists(order, Active)
    BY RangeIn DEF IInv, Reserved, SlotsTyped, TypeInv, Active, Accounted, Apart, Listed
  <2>2. reserved \in Nat
    BY <2>1, CellsAre
  <2>3. resuming \in Nat
    BY KeptIs, SharesAre
  <2>4. Cardinality(Active) = Len(order) /\ Cardinality(Active) <= Cardinality(Slots)
    BY <2>1, ListsFinite, SlotsFinite, FS_Subset
  <2>5. Len(order) \in Nat
    BY <1>1
  <2>6. QED
    BY <2>2, <2>3, <2>4, <2>5, SlotCount
<1>5. /\ Prompt \in Nat /\ Budget \in Nat /\ Pool \in Nat /\ GrowCells \in Nat
  BY <1>1, LoadFits
<1> DEFINE P == {i \in 0 .. n : Sound(f[i])}
<1>6. 0 \in P
  <2>1. /\ f[0].taken = <<>> /\ f[0].stop = FALSE /\ f[0].free = NumSlots - Len(order) /\ f[0].cached = cached
        /\ f[0].round = 0 /\ f[0].spare = Spare /\ DOMAIN f[0] = RoundFields
    BY <1>3 DEF RoundBase, RoundFields
  <2>2. ToSet(f[0].taken) = {}
    BY <2>1 DEF ToSet
  <2>3. Needs(f[0].taken) = 0
    BY <2>1, NeedsNone
  <2>4. Spare \in Nat
    BY SpareNat
  <2>5. f[0].taken \in Seq(TakenType)
    BY <2>1
  <2> DEFINE a == f[0]
  <2>6. /\ DOMAIN a = RoundFields /\ a.free \in Nat /\ a.stop \in BOOLEAN /\ a.cached \in {cached, 0}
        /\ a.round \in Nat /\ a.spare \in Nat /\ a.taken \in Seq(TakenType) /\ a.round = Needs(a.taken)
    <3>1. a.free \in Nat
      BY <1>4, <2>1
    <3>2. a.round \in Nat /\ a.round = Needs(a.taken)
      BY <2>1, <2>3
    <3>3. a.spare \in Nat /\ a.taken \in Seq(TakenType)
      BY <2>1, <2>4, <2>5
    <3>4. DOMAIN a = RoundFields /\ a.stop \in BOOLEAN /\ a.cached \in {cached, 0}
      BY <2>1
    <3> HIDE DEF a
    <3>5. QED
      BY <3>1, <3>2, <3>3, <3>4
  <2>8. ToSet(a.taken) = {}
    BY <2>2
  <2> HIDE DEF a
  <2>9. Sound(a)
    BY <2>6, <2>8 DEF Sound
  <2>10. QED
    BY <1>1, <2>9 DEF a
<1>7. ASSUME NEW i \in 1 .. n, i - 1 \in P PROVE i \in P
  <2> DEFINE a == f[i - 1]
             w == f[i]
             e == ready[i]
             full == Full(e.row)
             need == FirstShare(full, kept[e.row].gen)
  <2>1. Sound(a) /\ w = Weigh(a, e)
    BY <1>3, <1>7
  <2>2. e \in ReadyType /\ e.row \in Nat /\ e.error \in BOOLEAN /\ kept[e.row].gen \in Nat
    BY ReadyRow DEF n
  <2>3. full \in Nat /\ (full = Pool + 1 \/ full = FullSize)
    BY <1>5 DEF Full, FullSize
  <2>4. need \in Nat /\ need <= full
    <3> HIDE DEF full
    <3>1. QED
      BY <1>5, <2>2, <2>3 DEF FirstShare, Least, StepRows
  <2>5. full = Pool + 1 \/ (full = FullSize /\ need = FirstShare(FullSize, kept[e.row].gen))
    BY <2>3
  <2> HIDE DEF e, full
  <2>6. WeighsTo(a, e, w, full, need)
    <3>1. full = Full(e.row) /\ need = FirstShare(full, kept[e.row].gen)
      BY DEF full
    <3>2. DOMAIN a = RoundFields /\ a.free \in Nat /\ a.stop \in BOOLEAN /\ w = Weigh(a, e)
      BY <2>1 DEF Sound
    <3> HIDE DEF a, w, need
    <3>3. Weighs(a, e, w, full, need)
      BY <2>2, <3>1, <3>2 DEF Weighs
    <3>4. QED
      BY <3>3, Weighed
  <2> HIDE DEF a, w, need
  <2>7. Sound(w)
    BY <1>1, <1>4, <2>1, <2>2, <2>3, <2>4, <2>5, <2>6, SoundOn
  <2>8. QED
    BY <2>7 DEF w
<1>8. n \in P
  <2>1. P \in SUBSET (0 .. n) /\ n \in 0 .. n
    BY <1>1
  <2> HIDE DEF P
  <2>2. P = 0 .. n
    BY <1>1, <1>6, <1>7, <2>1, Upward
  <2>3. QED
    BY <2>1, <2>2
<1>9. QED
  BY <1>2, <1>8

LEMMA AdmitKeepsPool == IInv /\ PoolInv /\ Admit => PoolInv'
<1> SUFFICES ASSUME IInv, PoolInv, Admit PROVE PoolInv'
  OBVIOUS
<1>1. /\ pc = "admit" /\ pc' \in {"top", "step", "launch"}
      /\ UNCHANGED <<load, slot, order, kept, growing, pendReady, pendLanes>>
      /\ \/ ~pendReady /\ taken' = Round.taken /\ cached' = Round.cached
         \/ UNCHANGED <<taken, cached>>
  BY DEF Admit, growth, pend
<1>2. Busy /\ load \in Loads /\ SlotsTyped(slot) /\ Active \in SUBSET Slots /\ cached \in Nat
      /\ reserved = Cells(slot, Active)
  <2>1. Busy
    BY <1>1 DEF Busy
  <2>2. QED
    BY <2>1, RangeIn DEF IInv, TypeInv, SlotsTyped, Active, Reserved
<1>3. CASE UNCHANGED <<taken, cached>>
  BY <1>1, <1>3, PoolStays
<1>4. CASE ~pendReady /\ taken' = Round.taken /\ cached' = Round.cached
  <2>1. Sound(Round)
    BY <1>2, RoundSound
  <2>2. /\ cached' \in {cached, 0}
        /\ \A e \in ToSet(taken') : ~e.error => GoodEntry(e)
        /\ (\E e \in ToSet(taken') : ~e.error) => reserved + cached' + Needs(taken') <= Pool
    BY <1>4, <2>1 DEF Sound
  <2>3. /\ Active' = Active /\ FullSize' = FullSize /\ Budget' = Budget /\ Prompt' = Prompt /\ Ahead' = Ahead
        /\ Pool' = Pool /\ Prefix' = Prefix /\ GrowCells' = GrowCells
        /\ Pool \in Nat /\ Prefix \in Nat
    BY <1>1, <1>2, LoadStays, LoadFits DEF Active, Ahead
  <2>4. SlotsFit'
    BY <1>1, <2>3 DEF PoolInv, SlotsFit, SlotFits, Grown, StepRows
  <2>5. PoolFits'
    <3>1. Fitting(slot, Active, cached) /\ cached \in {0, Prefix}
      BY DEF PoolInv, PoolFits
    <3>2. Fitting(slot, Active, cached')
      <4> DEFINE top == Pool + (IF \E s \in Active : slot[s].shares THEN Prefix ELSE 0)
      <4>1. top \in Nat /\ Cells(slot, Active) \in Nat /\ Cells(slot, Active) + cached <= top
        BY <1>2, <2>3, <3>1, CellsAre DEF Fitting
      <4> HIDE DEF top
      <4>2. Cells(slot, Active) + cached' <= top
        BY <1>2, <2>2, <4>1
      <4>3. QED
        BY <4>2 DEF Fitting, top
    <3>3. cached' \in {0, Prefix}
      BY <2>2, <3>1
    <3>4. UNCHANGED load /\ Active = Active' /\ slot = slot'
      BY <1>1, <2>3
    <3>5. QED
      BY <3>2, <3>3, <3>4, FitsNow
  <2>6. RoundFits'
    <3>1. \A e \in ToSet(taken') : ~e.error => GoodEntry(e)'
      BY <1>1, <2>2, <2>3 DEF GoodEntry, FirstShare, StepRows
    <3>2. (\E e \in ToSet(taken') : ~e.error) => Cells(slot', Active') + cached' + Needs(taken') <= Pool'
      BY <1>1, <1>2, <2>2, <2>3
    <3>3. ~pendReady'
      BY <1>1, <1>4
    <3>4. QED
      BY <3>1, <3>2, <3>3 DEF RoundFits
  <2>7. LanesRide' /\ KeptShort'
    BY <1>1, <2>3 DEF PoolInv, LanesRide, KeptShort
  <2>8. QED
    BY <2>4, <2>5, <2>6, <2>7 DEF PoolInv
<1>5. QED
  BY <1>1, <1>3, <1>4

-----------------------------------------------------------------------------
(* The sequences that sit down.                                              *)

(* A sum is not more than one that has a part for each of its parts.         *)
Injects(f, A, B) == f \in [A -> B] /\ \A x, y \in A : f[x] = f[y] => x = y

LEMMA TotalInto ==
  ASSUME NEW A, IsFiniteSet(A), NEW v \in [A -> Nat], NEW B, IsFiniteSet(B), NEW w \in [B -> Nat],
         NEW f, Injects(f, A, B), \A x \in A : v[x] <= w[f[x]]
  PROVE  Total(v, A) <= Total(w, B)
<1> DEFINE Img(C) == {f[x] : x \in C}
           Bad == {C \in SUBSET A : ~(Total(v, C) <= Total(w, Img(C)))}
<1>0. f \in [A -> B] /\ \A x, y \in A : f[x] = f[y] => x = y
  BY DEF Injects
<1>1. ASSUME Bad # {} PROVE FALSE
  <2>1. Family(Bad, A)
    BY <1>1 DEF Family
  <2>2. PICK C \in Bad : \A D \in Bad : ~(D \subseteq C /\ D # C)
    <3> HIDE DEF Bad
    <3>1. QED
      BY <2>1, LeastSubset
  <2>3. C \in SUBSET A /\ IsFiniteSet(C) /\ ~(Total(v, C) <= Total(w, Img(C)))
    BY <2>2, FS_Subset
  <2>4. CASE C = {}
    <3>1. Img(C) = {}
      BY <2>4
    <3>2. Total(v, {}) = 0 /\ Total(w, {}) = 0
      BY TotalEmpty
    <3>3. QED
      BY <2>3, <2>4, <3>1, <3>2
  <2>5. CASE C # {}
    <3>1. PICK x : x \in C
      BY <2>5
    <3>2. C \ {x} \in SUBSET A /\ C \ {x} \subseteq C /\ C \ {x} # C
      BY <2>3, <3>1
    <3>3. Total(v, C \ {x}) <= Total(w, Img(C \ {x}))
      BY <2>2, <3>2
    <3>4. Total(v, C) = v[x] + Total(v, C \ {x}) /\ Total(v, C \ {x}) \in Nat /\ v[x] \in Nat
      BY <2>3, <3>1, TotalRemove
    <3>5. /\ Img(C) \in SUBSET B /\ f[x] \in Img(C) /\ Img(C) \ {f[x]} = Img(C \ {x}) /\ x \in A
      BY <1>0, <2>3, <3>1
    <3>6. IsFiniteSet(Img(C))
      BY <3>5, FS_Subset
    <3> DEFINE D == Img(C)
               E == Img(C \ {x})
               y == f[x]
    <3>7. D \in SUBSET B /\ y \in D /\ D \ {y} = E /\ IsFiniteSet(D)
      BY <3>5, <3>6
    <3> HIDE DEF D, E, y
    <3>8. Total(w, D) = w[y] + Total(w, D \ {y}) /\ Total(w, D \ {y}) \in Nat /\ w[y] \in Nat
      BY <3>7, TotalRemove
    <3>9. v[x] <= w[y]
      BY <3>5 DEF y
    <3>10. Total(v, C \ {x}) <= Total(w, D \ {y})
      BY <3>3, <3>7 DEF E
    <3>11. Total(v, C) <= Total(w, D)
      BY <3>4, <3>8, <3>9, <3>10
    <3>12. QED
      BY <2>3, <3>11 DEF D
  <2>6. QED
    BY <2>4, <2>5
<1>2. Total(v, A) <= Total(w, Img(A))
  <2>1. A \in SUBSET A /\ A \notin Bad
    BY <1>1
  <2>2. QED
    BY <2>1
<1> DEFINE I == Img(A)
           R == B \ I
<1>3. I \in SUBSET B /\ R \in SUBSET B /\ I \cap R = {} /\ I \cup R = B
  BY <1>0
<1> HIDE DEF I, R
<1>4. IsFiniteSet(I) /\ IsFiniteSet(R)
  BY <1>3, FS_Subset
<1>5. Total(w, I \cup R) = Total(w, I) + Total(w, R) /\ Total(w, I) \in Nat /\ Total(w, R) \in Nat
  BY <1>3, <1>4, TotalSplit
<1>6. Total(v, A) \in Nat
  <2>1. A \in SUBSET A
    OBVIOUS
  <2>2. QED
    BY <2>1, TotalSame
<1>7. Total(v, A) <= Total(w, I)
  BY <1>2 DEF I
<1>8. Total(w, B) = Total(w, I) + Total(w, R)
  BY <1>3, <1>5
<1> DEFINE a == Total(v, A)
           b == Total(w, B)
           i == Total(w, I)
           r == Total(w, R)
<1>9. a \in Nat /\ i \in Nat /\ r \in Nat /\ a <= i /\ b = i + r
  BY <1>5, <1>6, <1>7, <1>8
<1> HIDE DEF a, b, i, r
<1>10. a <= b
  BY <1>9
<1>11. QED
  BY <1>10 DEF a, b

(* A new slot holds what its entry needs: the first share of its sequence.   *)
LEMMA SeatHolds ==
  ASSUME IInv, PoolInv, load \in Loads, NEW e \in ToSet(taken), ~e.error, NEW rec \in SlotType, SeatOf(e, rec)
  PROVE  /\ rec.full = FullSize /\ rec.gen \in Nat /\ rec.gen < Budget /\ rec.pos = Prompt + rec.gen
         /\ rec.cells = e.need /\ rec.cells \in Nat /\ rec.shares = TRUE
         /\ rec.cells <= FullSize /\ Prefix <= rec.cells
         /\ rec.gen + 1 < Budget => rec.pos + StepRows <= rec.cells
         /\ rec.pos + 1 <= rec.cells
<1>1. /\ Prompt \in Nat /\ Prefix \in Nat /\ Prefix <= Prompt /\ Budget \in Nat /\ GrowCells \in Nat
      /\ FullSize = Prompt + Budget + 1 /\ FullSize \in Nat
  BY LoadFits DEF FullSize
<1>2. /\ rec.gen = kept[e.row].gen /\ rec.pos = Prompt + kept[e.row].gen
      /\ rec.cells = e.need /\ rec.full = e.full /\ rec.shares = TRUE
  BY DEF SeatOf
<1>3. e.full = FullSize /\ e.need = FirstShare(FullSize, kept[e.row].gen)
  BY DEF PoolInv, RoundFits, GoodEntry
<1>4. e.row \in DOMAIN kept /\ kept[e.row].gen < Budget
  <2>1. taken # <<>>
    BY DEF ToSet
  <2>2. Busy
    BY <2>1 DEF IInv, Phases, Busy
  <2>3. e.row \in TakenRows
    BY DEF TakenRows, RowsOf, ToSet
  <2>4. e.row \in Live /\ Live \subseteq 1 .. MaxTickets
    BY <2>2, <2>3, PlacesLive DEF IInv, Accounts, Accounted
  <2>5. e.row \in DOMAIN kept
    BY <2>4 DEF IInv, TypeInv
  <2>6. QED
    BY <2>5 DEF PoolInv, KeptShort
<1>5. rec.gen \in Nat /\ rec.cells \in Nat
  BY DEF SlotType
<1> DEFINE gen == rec.gen
           need == Prompt + gen + StepRows + GrowCells
<1>6. gen \in Nat /\ gen < Budget /\ rec.cells = Least(FullSize, need)
  BY <1>2, <1>3, <1>4, <1>5 DEF FirstShare
<1>7. need \in Nat /\ Prompt + gen + 2 <= need
  BY <1>1, <1>6 DEF StepRows
<1> HIDE DEF gen, need
<1>8. /\ rec.cells <= FullSize /\ Prefix <= rec.cells
      /\ gen + 1 < Budget => Prompt + gen + 2 <= rec.cells
      /\ Prompt + gen + 1 <= rec.cells
  BY <1>1, <1>6, <1>7 DEF Least
<1>9. rec.pos = Prompt + gen
  BY <1>2 DEF gen
<1>10. QED
  BY <1>1, <1>2, <1>3, <1>5, <1>6, <1>8, <1>9 DEF gen, StepRows

(* What new sequences hold is within the needs of the round.                 *)
LEMMA NewCells ==
  ASSUME IInv, NEW failed, NEW good, NEW free, NEW new, NEW placed, NEW seats, NEW lost, NEW token, NEW c,
         Placement(failed, good, free, new, placed, seats, lost, token, c)
  PROVE  Cells(placed, new) <= Needs(taken) /\ Needs(taken) \in Nat
<1>1. /\ good \in Seq(TakenType) /\ ToSet(good) \subseteq ToSet(taken)
      /\ Once(RowsOf(good)) /\ new = {free[i] : i \in DOMAIN good}
      /\ SlotsTyped(placed) /\ new \in SUBSET Slots
      /\ \A i \in DOMAIN good : placed[free[i]].cells = good[i].need
  BY DEF Placement, Lists, SeatOf
<1>2. taken \in Seq(TakenType)
  BY DEF IInv, TypeInv
<1> DEFINE v == [s \in new |-> placed[s].cells]
           B == DOMAIN taken
           w == [j \in B |-> taken[j].need]
           Seat(s, j) == \E i \in DOMAIN good : free[i] = s /\ taken[j] = good[i]
           f == [s \in new |-> CHOOSE j \in B : Seat(s, j)]
<1>3. ASSUME NEW s \in new PROVE \E j \in B : Seat(s, j)
  <2>1. PICK i \in DOMAIN good : s = free[i]
    BY <1>1
  <2>2. good[i] \in ToSet(taken)
    BY <1>1 DEF ToSet
  <2>3. PICK j \in B : taken[j] = good[i]
    BY <2>2 DEF ToSet
  <2>4. QED
    BY <2>1, <2>3
<1>4. ASSUME NEW s \in new PROVE f[s] \in B /\ Seat(s, f[s])
  <2> HIDE DEF Seat
  <2>1. \E j \in B : Seat(s, j)
    BY <1>3
  <2>2. QED
    BY <2>1
<1>5. v \in [new -> Nat] /\ Cells(placed, new) = Total(v, new) /\ IsFiniteSet(new)
  <2>1. \A s \in new : placed[s].cells \in Nat
    BY <1>1 DEF SlotsTyped, SlotType
  <2>2. QED
    BY <1>1, <2>1, SlotsFinite DEF Cells
<1>6. w \in [B -> Nat] /\ Needs(taken) = Total(w, B) /\ IsFiniteSet(B)
  <2>0. \A j \in B : taken[j] \in TakenType
    BY <1>2
  <2>1. \A j \in B : taken[j].need \in Nat
    BY <2>0 DEF TakenType
  <2>2. B = 1 .. Len(taken) /\ Len(taken) \in Nat
    BY <1>2
  <2>3. QED
    BY <2>1, <2>2, FS_Interval DEF Needs
<1>7. Injects(f, new, B)
  <2>1. f \in [new -> B]
    BY <1>4
  <2>2. ASSUME NEW s \in new, NEW t \in new, f[s] = f[t] PROVE s = t
    <3>1. PICK i \in DOMAIN good : free[i] = s /\ taken[f[s]] = good[i]
      BY <1>4
    <3>2. PICK k \in DOMAIN good : free[k] = t /\ taken[f[t]] = good[k]
      BY <1>4
    <3>3. RowsOf(good)[i] = RowsOf(good)[k] /\ i \in DOMAIN RowsOf(good) /\ k \in DOMAIN RowsOf(good)
      BY <2>2, <3>1, <3>2 DEF RowsOf
    <3>4. i = k
      BY <1>1, <3>3 DEF Once
    <3>5. QED
      BY <3>1, <3>2, <3>4
  <2> HIDE DEF f
  <2>3. QED
    BY <2>1, <2>2 DEF Injects
<1>8. \A s \in new : v[s] <= w[f[s]]
  <2>1. ASSUME NEW s \in new PROVE v[s] <= w[f[s]]
    <3>1. PICK i \in DOMAIN good : free[i] = s /\ taken[f[s]] = good[i]
      BY <1>4
    <3>2. f[s] \in B
      BY <1>4
    <3>3. w[f[s]] = good[i].need /\ v[s] = good[i].need
      BY <1>1, <3>1, <3>2
    <3>4. w[f[s]] \in Nat
      BY <1>6, <3>2
    <3>5. QED
      BY <3>3, <3>4
  <2>2. QED
    BY <2>1
<1> HIDE DEF v, w, f
<1>9. Total(v, new) <= Total(w, B)
  BY <1>5, <1>6, <1>7, <1>8, TotalInto
<1>10. Total(w, B) \in Nat
  <2>1. B \in SUBSET B
    OBVIOUS
  <2> HIDE DEF B
  <2>2. QED
    BY <1>6, <2>1, TotalSame
<1>11. QED
  BY <1>5, <1>6, <1>9, <1>10

LEMMA PlaceKeepsPool == IInv /\ PoolInv /\ Place => PoolInv'
<1> SUFFICES ASSUME IInv, PoolInv, Place PROVE PoolInv'
  OBVIOUS
<1>1. /\ pc = "place" /\ taken' = <<>> /\ pc' = "top"
      /\ kept' = [r \in DOMAIN kept |->
              IF \E i \in DOMAIN taken : taken[i].row = r THEN NotKept ELSE kept[r]]
      /\ UNCHANGED <<load, growing, pendReady, pendLanes>>
  BY Zenon DEF Place, growth, pend
<1>2. PICK failed, good, free, new, placed, seats, lost, token, c :
        Placement(failed, good, free, new, placed, seats, lost, token, c)
  BY Placements
<1>3. /\ slot' = c.slot /\ order' = c.order /\ SlotsTyped(placed) /\ \A s \in Slots \ new : placed[s] = slot[s]
      /\ new = {free[i] : i \in DOMAIN good} /\ good \in Seq(TakenType)
      /\ ToSet(good) = {e \in ToSet(taken) : ~e.error}
      /\ \A i \in DOMAIN good : SeatOf(good[i], placed[free[i]])
      /\ new \in SUBSET (Slots \ Active) /\ ToSet(seats) = Active \cup new
      /\ Cells(placed, Active \cup new) = Cells(slot, Active) + Cells(placed, new)
      /\ Sampling(placed, seats, reserved + Cells(placed, new), new, token, c)
      /\ cached' = IF good = <<>> THEN cached ELSE Prefix
  BY <1>2 DEF Placement
<1>4. /\ load \in Loads /\ SlotsTyped(slot) /\ Active \in SUBSET Slots /\ cached \in Nat
      /\ pendReady \in BOOLEAN /\ DOMAIN kept = 1 .. MaxTickets
  BY RangeIn DEF IInv, TypeInv, SlotsTyped, Active
<1>5. /\ FullSize' = FullSize /\ Budget' = Budget /\ Prompt' = Prompt /\ Prefix' = Prefix /\ Pool' = Pool
      /\ Prompt \in Nat /\ Prefix \in Nat /\ Budget \in Nat /\ Budget >= 1 /\ Pool \in Nat /\ FullSize \in Nat
      /\ Ahead' = Ahead /\ (~pendReady => Ahead = 0)
  BY <1>1, <1>4, LoadStays, LoadFits DEF Ahead
<1> DEFINE seated == Active \cup new
<1>6. PICK over \in SUBSET new :
        /\ ToSet(c.order) = seated \ over /\ SlotsTyped(c.slot)
        /\ \A s \in seated \ over :
             /\ c.slot[s].full = placed[s].full /\ c.slot[s].pos = placed[s].pos
             /\ c.slot[s].cells = placed[s].cells /\ c.slot[s].shares = placed[s].shares
             /\ s \notin new => c.slot[s].gen = placed[s].gen
             /\ s \in new => c.slot[s].gen = placed[s].gen + 1 /\ ~(placed[s].gen + 1 >= Budget)
  <2>1. Sampling(placed, seats, reserved + Cells(placed, new), new, token, c) /\ ToSet(seats) = seated
    BY <1>3
  <2> HIDE DEF seated
  <2>2. QED
    BY <2>1, CommitLeaves
<1>7. /\ Active' = seated \ over /\ SlotsTyped(slot') /\ seated \in SUBSET Slots
      /\ \A s \in seated \ over :
           /\ slot'[s].full = placed[s].full /\ slot'[s].pos = placed[s].pos
           /\ slot'[s].cells = placed[s].cells /\ slot'[s].shares = placed[s].shares
           /\ s \notin new => slot'[s].gen = placed[s].gen
           /\ s \in new => slot'[s].gen = placed[s].gen + 1 /\ ~(placed[s].gen + 1 >= Budget)
  BY <1>3, <1>4, <1>6 DEF Active
<1>8. \A s \in Active : placed[s] = slot[s] /\ s \notin new
  BY <1>3, <1>4
<1>9. ASSUME NEW s \in new
      PROVE  /\ placed[s].full = FullSize /\ placed[s].gen \in Nat /\ placed[s].pos = Prompt + placed[s].gen
             /\ placed[s].cells \in Nat /\ placed[s].shares = TRUE
             /\ placed[s].cells <= FullSize /\ Prefix <= placed[s].cells
             /\ placed[s].gen + 1 < Budget => placed[s].pos + StepRows <= placed[s].cells
             /\ \E e \in ToSet(taken) : ~e.error
  <2>1. PICK i \in DOMAIN good : s = free[i]
    BY <1>3
  <2>2. good[i] \in ToSet(taken) /\ ~good[i].error
    BY <1>3 DEF ToSet
  <2>3. placed[s] \in SlotType /\ SeatOf(good[i], placed[s])
    BY <1>3, <1>4, <2>1 DEF SlotsTyped
  <2>4. QED
    BY <1>4, <2>2, <2>3, SeatHolds
<1>10. new # {} => ~pendReady /\ Cells(slot, Active) + cached + Needs(taken) <= Pool
  <2>1. ASSUME NEW s \in new PROVE ~pendReady /\ Cells(slot, Active) + cached + Needs(taken) <= Pool
    <3>1. \E e \in ToSet(taken) : ~e.error
      BY <1>9
    <3>2. taken # <<>>
      BY <3>1 DEF ToSet
    <3>3. QED
      BY <3>1, <3>2 DEF PoolInv, RoundFits
  <2>2. QED
    BY <2>1
<1>11. SlotsFit'
  <2>1. ASSUME NEW s \in Active PROVE s \in seated \ over => SlotFits(s)'
    <3>1. /\ slot[s].full = FullSize /\ slot[s].gen \in 1 .. Budget - 1
          /\ slot[s].pos = Prompt + slot[s].gen - 1 + Ahead
          /\ slot[s].pos <= slot[s].cells /\ slot[s].cells <= FullSize /\ Grown(s)
      BY DEF PoolInv, SlotsFit, SlotFits
    <3>2. slot[s].pos + StepRows <= slot[s].cells
      BY <1>1, <3>1 DEF Grown
    <3>3. s \in seated \ over => /\ slot'[s].full = slot[s].full /\ slot'[s].pos = slot[s].pos
                                 /\ slot'[s].cells = slot[s].cells /\ slot'[s].gen = slot[s].gen
      BY <1>7, <1>8
    <3>4. QED
      BY <1>5, <3>1, <3>2, <3>3 DEF SlotFits, Grown, StepRows
  <2>2. ASSUME NEW s \in new, s \notin over PROVE SlotFits(s)'
    <3>1. /\ slot'[s].full = placed[s].full /\ slot'[s].pos = placed[s].pos /\ slot'[s].cells = placed[s].cells
          /\ slot'[s].gen = placed[s].gen + 1 /\ ~(placed[s].gen + 1 >= Budget)
      BY <1>7, <2>2
    <3>2. Ahead' = 0
      BY <1>5, <1>10
    <3>3. /\ placed[s].full = FullSize /\ placed[s].gen \in Nat /\ placed[s].pos = Prompt + placed[s].gen
          /\ placed[s].cells \in Nat /\ placed[s].cells <= FullSize
          /\ placed[s].gen + 1 < Budget => placed[s].pos + StepRows <= placed[s].cells
      BY <1>9
    <3> DEFINE gen == placed[s].gen
               pos == placed[s].pos
               cells == placed[s].cells
    <3>4. /\ gen \in Nat /\ cells \in Nat /\ pos = Prompt + gen /\ cells <= FullSize /\ gen + 1 < Budget
          /\ pos + 2 <= cells
      <4>1. gen + 1 < Budget
        BY <1>5, <3>1, <3>3
      <4>2. QED
        BY <3>3, <4>1 DEF StepRows
    <3>5. slot'[s].full = FullSize' /\ slot'[s].pos = pos /\ slot'[s].cells = cells /\ slot'[s].gen = gen + 1
      BY <1>5, <3>1, <3>3
    <3> HIDE DEF gen, pos, cells
    <3>6. /\ slot'[s].gen \in 1 .. Budget' - 1 /\ slot'[s].pos = Prompt' + slot'[s].gen - 1 + Ahead'
          /\ slot'[s].pos <= slot'[s].cells /\ slot'[s].cells <= FullSize'
          /\ slot'[s].pos + StepRows <= slot'[s].cells
      BY <1>5, <3>2, <3>4, <3>5 DEF StepRows
    <3>7. QED
      BY <3>5, <3>6 DEF SlotFits, Grown, StepRows
  <2>3. QED
    BY <1>7, <2>1, <2>2 DEF SlotsFit
<1>12. PoolFits'
  <2>1. Fitting(slot, Active, cached) /\ cached \in {0, Prefix}
    BY DEF PoolInv, PoolFits
  <2>2. Fitting(placed, seated, cached') /\ cached' \in {0, Prefix}
    <3>1. CASE new = {}
      <4>1. good = <<>>
        <5>1. DOMAIN good = {}
          BY <1>3, <3>1
        <5>2. QED
          BY <1>3, <5>1
      <4>2. cached' = cached /\ seated = Active
        BY <1>3, <3>1, <4>1
      <4>3. Cells(placed, Active) = Cells(slot, Active)
        BY <1>3, <1>4, <1>8, CellsSame
      <4>4. QED
        BY <1>8, <2>1, <4>2, <4>3 DEF Fitting
    <3>2. CASE new # {}
      <4>1. good # <<>>
        BY <1>3, <3>2
      <4>2. cached' = Prefix
        BY <1>3, <4>1
      <4>3. \E s \in seated : placed[s].shares
        BY <1>9, <3>2
      <4>4. Cells(placed, new) <= Needs(taken) /\ Needs(taken) \in Nat
        BY <1>2, NewCells
      <4>5. Cells(slot, Active) \in Nat /\ Cells(placed, new) \in Nat
        BY <1>3, <1>4, CellsAre
      <4>6. Cells(slot, Active) + cached + Needs(taken) <= Pool
        BY <1>10, <3>2
      <4>7. Cells(placed, seated) <= Pool /\ Cells(placed, seated) \in Nat
        BY <1>3, <1>4, <1>5, <4>4, <4>5, <4>6
      <4> HIDE DEF seated
      <4>8. Cells(placed, seated) + Prefix <= Pool + Prefix
        BY <1>5, <4>7
      <4>9. QED
        BY <4>2, <4>3, <4>8 DEF Fitting
    <3>3. QED
      BY <3>1, <3>2
  <2>3. Shrinks(placed, slot', seated, over)
    BY <1>3, <1>6, <1>7, <1>9 DEF Shrinks
  <2>4. cached' \in Nat
    BY <1>5, <2>2
  <2> HIDE DEF seated
  <2>5. Fitting(slot', seated \ over, cached')
    BY <1>4, <2>2, <2>3, <2>4, FitsLess
  <2>6. QED
    BY <1>1, <1>7, <2>2, <2>5, FitsNow
<1>13. RoundFits'
  BY <1>1, NoRound
<1>14. LanesRide'
  <2>1. CASE new = {}
    BY <1>1, <1>7, <2>1 DEF PoolInv, LanesRide
  <2>2. CASE new # {}
    BY <1>1, <1>10, <2>2 DEF LanesRide
  <2>3. QED
    BY <2>1, <2>2
<1>15. KeptShort'
  BY <1>1, <1>5 DEF PoolInv, KeptShort, NotKept
<1>16. QED
  BY <1>11, <1>12, <1>13, <1>14, <1>15 DEF PoolInv

-----------------------------------------------------------------------------
(* The pool, step by step.                                                   *)

LEMMA StepKeepsPoolInv == IInv /\ IInv' /\ PoolInv /\ [Next]_vars => PoolInv'
<1> SUFFICES ASSUME IInv, IInv', PoolInv, [Next]_vars PROVE PoolInv'
  OBVIOUS
<1>1. load \in Loads
  BY DEF IInv, TypeInv
<1>2. CASE Start
  BY <1>1, <1>2, PoolFresh DEF Start
<1>3. CASE EngineStep
  <2>1. CASE ProcessCancels    BY <2>1, ProcessCancelsKeepsPool
  <2>2. CASE HarvestJob        BY <2>2, HarvestJobKeepsPool
  <2>3. CASE Admit             BY <2>3, AdmitKeepsPool
  <2>4. CASE Place             BY <2>4, PlaceKeepsPool
  <2>5. CASE Step              BY <2>5, StepKeepsPool
  <2>6. CASE CommitStep        BY <2>6, CommitStepKeepsPool
  <2>7. CASE Grow              BY <2>7, GrowKeepsPool
  <2>8. CASE Preempt           BY <2>8, PreemptKeepsPool
  <2>9. CASE DropPromptCache   BY <2>9, DropPromptCacheKeepsPool
  <2>10. CASE \/ HarvestTimestamps \/ Deliver \/ Flushed \/ NothingPosted \/ Harvested
              \/ LaunchResumed \/ LaunchTake \/ Submit \/ Idling \/ Poll \/ Requeue
              \/ Drained \/ Return
    BY <2>10, QuietPool
  <2>11. QED
    BY <1>3, <2>1, <2>2, <2>3, <2>4, <2>5, <2>6, <2>7, <2>8, <2>9, <2>10 DEF EngineStep
<1>4. CASE AwaitWork \/ EncoderDone \/ AlignmentDone \/ \E t \in load.cancels : Cancel(t)
  BY <1>4, QuietPool
<1>5. CASE Throw
  BY <1>1, <1>5, PoolFresh DEF Throw
<1>6. CASE UNCHANGED vars
  <2>1. UNCHANGED <<pc, load, slot, order, cached, kept, taken, growing, pendReady, pendLanes>>
    BY <1>6 DEF vars, queues, kv, growth, pend
  <2>2. QED
    BY <2>1, PoolStays
<1>7. QED
  BY <1>2, <1>3, <1>4, <1>5, <1>6 DEF Next

(* A decode step never runs out of cells (grow_kv, preempt and the admission *)
(* rule): what a slot has written, or will with the step that is prepared,   *)
(* is inside its reservation, and the reservations fit the pool with the     *)
(* prefix they share with the prompt cache counted once, for any number of   *)
(* slots, any pool, prompt and budget, and whatever is cancelled, preempted  *)
(* or thrown.                                                                *)
THEOREM PoolAlwaysSuffices == Spec => []PoolSuffices
<1>1. Init => IInv /\ PoolInv
  BY KeepsInit, PoolInit
<1>2. IInv /\ IInv' /\ PoolInv /\ [Next]_vars => PoolInv'
  BY StepKeepsPoolInv
<1>3. Spec => []IInv
  BY Invariance
<1>4. IInv /\ PoolInv => PoolSuffices
  BY PoolIsSuffices
<1>5. QED
  BY <1>1, <1>2, <1>3, <1>4, PTL DEF Spec
=============================================================================
