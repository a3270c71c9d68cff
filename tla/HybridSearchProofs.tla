---------------------------- MODULE HybridSearchProofs ----------------------------
(* Proofs about Search and Typeahead, for any number of documents, lists   *)
(* and hits, and whatever the backends answer.                             *)
EXTENDS RetrievalProofs

LEMMA Induction ==
    ASSUME NEW T \in SUBSET Nat, 0 \in T, \A n \in T : n + 1 \in T
    PROVE  \A n \in Nat : n \in T
<1> SUFFICES ASSUME Nat \ T # {}
             PROVE  FALSE
  OBVIOUS
<1>1. PICK m \in Nat \ T : \A n \in Nat \ T : m <= n
  BY Smallest
<1>2. m # 0 /\ m - 1 \in Nat
  OBVIOUS
<1>3. m - 1 \in T
  BY <1>1, <1>2
<1> QED BY <1>2, <1>3

--------------------------------------------------------------------------------
(* Folds over finite sets.  The recursive functions of Folds take the      *)
(* elements of a set one by one, as CHOOSE picks them.                     *)
Pick(s) == CHOOSE x \in s : TRUE

Rest(s) == s \ {Pick(s)}

LEMMA PickAndRest ==
    ASSUME NEW L, IsFiniteSet(L), NEW s \in SUBSET L, s # {}
    PROVE  /\ Pick(s) \in s /\ Pick(s) \in L
           /\ Rest(s) \in SUBSET L
           /\ Cardinality(s) \in Nat /\ Cardinality(Rest(s)) = Cardinality(s) - 1
<1>1. Pick(s) \in s
  BY DEF Pick
<1>2. IsFiniteSet(s) /\ Cardinality(s) \in Nat
  BY FS_Subset, FS_CardinalityType
<1>3. Cardinality(s \ {Pick(s)}) = Cardinality(s) - 1
  BY <1>1, <1>2, FS_RemoveElement
<1> QED BY <1>1, <1>2, <1>3 DEF Rest

(* A set of subsets closed under adding an element has them all.           *)
LEMMA SetInduction ==
    ASSUME NEW L, IsFiniteSet(L), NEW P \in SUBSET SUBSET L,
           \A s \in SUBSET L : (\A y \in s : s \ {y} \in P) => s \in P
    PROVE  \A s \in SUBSET L : s \in P
<1> DEFINE T == {n \in Nat : \A s \in SUBSET L : Cardinality(s) = n => s \in P}
<1>1. \A s \in SUBSET L : IsFiniteSet(s) /\ Cardinality(s) \in Nat
  BY FS_Subset, FS_CardinalityType
<1>2. 0 \in T
  <2>1. \A s \in SUBSET L : Cardinality(s) = 0 => s = {}
    BY <1>1, FS_EmptySet
  <2>2. {} \in P
    OBVIOUS
  <2> QED BY <2>1, <2>2
<1>3. ASSUME NEW n \in T
      PROVE  n + 1 \in T
  <2> SUFFICES ASSUME NEW s \in SUBSET L, Cardinality(s) = n + 1
               PROVE  s \in P
    OBVIOUS
  <2>1. ASSUME NEW y \in s
        PROVE  s \ {y} \in P
    <3>1. Cardinality(s \ {y}) = n /\ s \ {y} \in SUBSET L
      BY <1>1, FS_RemoveElement
    <3>2. \A r \in SUBSET L : Cardinality(r) = n => r \in P
      BY <1>3
    <3> QED BY <3>1, <3>2
  <2> QED BY <2>1
<1> HIDE DEF T
<1>4. \A n \in Nat : n \in T
  <2>1. T \in SUBSET Nat
    BY DEF T
  <2> QED BY <1>2, <1>3, <2>1, Induction
<1> QED BY <1>1, <1>4 DEF T

IsFold(g, F, base, L) ==
    /\ g \in [SUBSET L -> Nat]
    /\ \A s \in SUBSET L : g[s] = IF s = {} THEN base ELSE F[Pick(s)][g[Rest(s)]]

(* The recursion of a fold has a solution.                                 *)
LEMMA FoldExists ==
    ASSUME NEW L, IsFiniteSet(L), NEW F \in [L -> [Nat -> Nat]], NEW base \in Nat
    PROVE  \E g : IsFold(g, F, base, L)
<1> DEFINE Good(g, n) == \A s \in SUBSET L : Cardinality(s) <= n =>
                            g[s] = IF s = {} THEN base ELSE F[Pick(s)][g[Rest(s)]]
           T == {n \in Nat : \E g \in [SUBSET L -> Nat] : Good(g, n)}
<1>1. \A s \in SUBSET L : IsFiniteSet(s) /\ Cardinality(s) \in Nat
  BY FS_Subset, FS_CardinalityType
<1>2. 0 \in T
  <2>1. \A s \in SUBSET L : Cardinality(s) <= 0 => s = {}
    BY <1>1, FS_EmptySet
  <2>2. Good([s \in SUBSET L |-> base], 0)
    BY <2>1
  <2> QED BY <2>2
<1>3. ASSUME NEW n \in T
      PROVE  n + 1 \in T
  <2>1. PICK g \in [SUBSET L -> Nat] : Good(g, n)
    OBVIOUS
  <2> DEFINE h == [s \in SUBSET L |->
                     IF Cardinality(s) <= n THEN g[s]
                     ELSE IF s = {} THEN base ELSE F[Pick(s)][g[Rest(s)]]]
  <2>2. h \in [SUBSET L -> Nat]
    <3>1. ASSUME NEW s \in SUBSET L, s # {}
          PROVE  F[Pick(s)][g[Rest(s)]] \in Nat
      BY <3>1, PickAndRest
    <3> QED BY <3>1
  <2>3. ASSUME NEW s \in SUBSET L, Cardinality(s) <= n + 1
        PROVE  h[s] = IF s = {} THEN base ELSE F[Pick(s)][h[Rest(s)]]
    <3>1. CASE s = {}
      <4>1. Cardinality(s) = 0
        BY <3>1, FS_EmptySet
      <4> QED BY <2>1, <3>1, <4>1
    <3>2. CASE s # {}
      <4>1. /\ Rest(s) \in SUBSET L /\ Cardinality(s) \in Nat
            /\ Cardinality(Rest(s)) = Cardinality(s) - 1
        BY <3>2, PickAndRest
      <4>2. Cardinality(Rest(s)) <= n /\ h[Rest(s)] = g[Rest(s)]
        BY <2>3, <4>1
      <4>3. h[s] = F[Pick(s)][g[Rest(s)]]
        BY <2>1, <3>2
      <4> QED BY <3>2, <4>2, <4>3
    <3> QED BY <3>1, <3>2
  <2> HIDE DEF h
  <2>4. Good(h, n + 1)
    BY <2>3
  <2>5. n + 1 \in Nat
    OBVIOUS
  <2> HIDE DEF Good
  <2> QED BY <2>2, <2>4, <2>5
<1> HIDE DEF T
<1>4. \A n \in Nat : n \in T
  <2>1. T \in SUBSET Nat
    BY DEF T
  <2> QED BY <1>2, <1>3, <2>1, Induction
<1>5. Cardinality(L) \in Nat /\ \A s \in SUBSET L : Cardinality(s) <= Cardinality(L)
  BY FS_Subset, FS_CardinalityType
<1>6. PICK g \in [SUBSET L -> Nat] : Good(g, Cardinality(L))
  BY <1>4, <1>5 DEF T
<1> QED BY <1>5, <1>6 DEF IsFold

--------------------------------------------------------------------------------
(* Sums.                                                                   *)
IsSum(g, F, L) ==
    \A s \in SUBSET L : g[s] = IF s = {} THEN 0 ELSE F[Pick(s)] + g[Rest(s)]

TakesAny(g, F, L) ==
    /\ \A s \in SUBSET L : g[s] \in Nat
    /\ \A s \in SUBSET L : \A y \in s : g[s] = F[y] + g[s \ {y}]

(* A sum may be taken in any order.                                        *)
LEMMA SumTakesAny ==
    ASSUME NEW L, IsFiniteSet(L), NEW F \in [L -> Nat], NEW g, IsSum(g, F, L)
    PROVE  TakesAny(g, F, L)
<1> DEFINE P == {s \in SUBSET L : g[s] \in Nat}
           Q == {s \in SUBSET L : \A y \in s : g[s] = F[y] + g[s \ {y}]}
<1>1. \A s \in SUBSET L : s \in P
  <2>1. ASSUME NEW s \in SUBSET L, \A y \in s : s \ {y} \in P
        PROVE  s \in P
    <3>1. CASE s = {}
      <4>1. g[s] = 0
        BY <3>1 DEF IsSum
      <4> QED BY <4>1
    <3>2. CASE s # {}
      <4>1. Pick(s) \in L /\ Pick(s) \in s
        BY <3>2, PickAndRest
      <4>2. g[Rest(s)] \in Nat
        BY <2>1, <4>1 DEF Rest
      <4> QED BY <3>2, <4>1, <4>2 DEF IsSum
    <3> QED BY <3>1, <3>2
  <2> HIDE DEF P
  <2>2. P \in SUBSET SUBSET L
    BY DEF P
  <2> QED BY <2>1, <2>2, SetInduction
<1>2. \A s \in SUBSET L : g[s] \in Nat
  BY <1>1
<1>3. \A s \in SUBSET L : s \in Q
  <2>1. ASSUME NEW s \in SUBSET L, \A y \in s : s \ {y} \in Q
        PROVE  s \in Q
    <3> SUFFICES ASSUME NEW y \in s
                 PROVE  g[s] = F[y] + g[s \ {y}]
      OBVIOUS
    <3>1. PICK x \in s : x = Pick(s)
      BY PickAndRest
    <3>2. g[s] = F[x] + g[s \ {x}]
      BY <3>1 DEF IsSum, Rest
    <3>3. CASE y # x
      <4>1. g[s \ {x}] = F[y] + g[(s \ {x}) \ {y}]
        BY <2>1, <3>3
      <4>2. g[s \ {y}] = F[x] + g[(s \ {y}) \ {x}]
        BY <2>1, <3>3
      <4>3. (s \ {x}) \ {y} = (s \ {y}) \ {x} /\ (s \ {x}) \ {y} \in SUBSET L
        OBVIOUS
      <4>4. PICK c \in Nat : c = g[(s \ {x}) \ {y}]
        BY <1>2, <4>3
      <4>5. F[x] \in Nat /\ F[y] \in Nat
        OBVIOUS
      <4>6. g[s \ {x}] = F[y] + c /\ g[s \ {y}] = F[x] + c
        BY <4>1, <4>2, <4>3, <4>4
      <4> QED BY <3>2, <4>5, <4>6
    <3> QED BY <3>2, <3>3
  <2> HIDE DEF Q
  <2>2. Q \in SUBSET SUBSET L
    BY DEF Q
  <2> QED BY <2>1, <2>2, SetInduction
<1> QED BY <1>2, <1>3 DEF TakesAny

(* More summands, and larger ones, make a larger sum.                      *)
LEMMA LargerSum ==
    ASSUME NEW L, IsFiniteSet(L), NEW F \in [L -> Nat], NEW f, IsSum(f, F, L),
           NEW M \in SUBSET L, NEW G \in [M -> Nat], NEW g, IsSum(g, G, M),
           M # {}, \A i \in M : G[i] < F[i]
    PROVE  g[M] < f[L]
<1>1. IsFiniteSet(M)
  BY FS_Subset
<1>2. TakesAny(f, F, L)
  BY SumTakesAny
<1>3. TakesAny(g, G, M)
  BY <1>1, SumTakesAny
<1> DEFINE P == {s \in SUBSET M : \A t \in SUBSET L : s \subseteq t =>
                    g[s] <= f[t] /\ (s # {} => g[s] < f[t])}
<1>4. \A s \in SUBSET M : s \in P
  <2>1. ASSUME NEW s \in SUBSET M, \A y \in s : s \ {y} \in P
        PROVE  s \in P
    <3> SUFFICES ASSUME NEW t \in SUBSET L, s \subseteq t
                 PROVE  g[s] <= f[t] /\ (s # {} => g[s] < f[t])
      OBVIOUS
    <3>1. CASE s = {}
      <4>1. g[s] = 0
        BY <3>1 DEF IsSum
      <4> QED BY <1>2, <3>1, <4>1 DEF TakesAny
    <3>2. CASE s # {}
      <4>1. PICK y \in s : TRUE
        BY <3>2
      <4>2. g[s] = G[y] + g[s \ {y}] /\ f[t] = F[y] + f[t \ {y}]
        BY <1>2, <1>3 DEF TakesAny
      <4>3. s \ {y} \subseteq t \ {y} /\ t \ {y} \in SUBSET L
        OBVIOUS
      <4>4. g[s \ {y}] <= f[t \ {y}]
        BY <2>1, <4>3
      <4>5. /\ g[s \ {y}] \in Nat /\ f[t \ {y}] \in Nat /\ G[y] < F[y]
            /\ G[y] \in Nat /\ F[y] \in Nat
        BY <1>2, <1>3 DEF TakesAny
      <4> QED BY <4>2, <4>4, <4>5
    <3> QED BY <3>1, <3>2
  <2> HIDE DEF P
  <2>2. P \in SUBSET SUBSET M
    BY DEF P
  <2> QED BY <1>1, <2>1, <2>2, SetInduction
<1> QED BY <1>4

--------------------------------------------------------------------------------
(* The scale of the scores: a positive number that every k + rank divides. *)
IsProduct(g, S) ==
    \A s \in SUBSET S : g[s] = IF s = {} THEN 1 ELSE Pick(s) * g[Rest(s)]

LEMMA ProductExists ==
    ASSUME NEW S \in SUBSET Nat, IsFiniteSet(S)
    PROVE  \E g : IsProduct(g, S) /\ ProductSet(S) = g[S]
<1> DEFINE F == [x \in S |-> [n \in Nat |-> x * n]]
           body(g) == [s \in SUBSET S |-> IF s = {} THEN 1
                         ELSE (CHOOSE x \in s : TRUE) * g[s \ {CHOOSE x \in s : TRUE}]]
<1>1. PICK g \in [SUBSET S -> Nat] : \A s \in SUBSET S :
         g[s] = IF s = {} THEN 1 ELSE F[Pick(s)][g[Rest(s)]]
  <2>1. \A x \in S, n \in Nat : x * n \in Nat
    OBVIOUS
  <2>2. F \in [S -> [Nat -> Nat]]
    BY <2>1
  <2> HIDE DEF F
  <2>3. \E g : IsFold(g, F, 1, S)
    <3>1. \A base \in Nat : \E g : IsFold(g, F, base, S)
      BY <2>2, FoldExists
    <3> QED BY <3>1
  <2> QED BY <2>3 DEF IsFold
<1>2. ASSUME NEW s \in SUBSET S
      PROVE  g[s] = IF s = {} THEN 1 ELSE Pick(s) * g[Rest(s)]
  <2>1. CASE s = {}
    BY <1>1, <2>1
  <2>2. CASE s # {}
    <3>1. Pick(s) \in S /\ Rest(s) \in SUBSET S
      BY <2>2, PickAndRest
    <3>2. g[Rest(s)] \in Nat
      BY <1>1, <3>1
    <3>3. F[Pick(s)][g[Rest(s)]] = Pick(s) * g[Rest(s)]
      BY <3>1, <3>2
    <3> HIDE DEF F
    <3> QED BY <1>1, <2>2, <3>3
  <2> QED BY <2>1, <2>2
<1>3. g = body(g)
  BY <1>1, <1>2 DEF Pick, Rest
<1> DEFINE h == CHOOSE f : f = body(f)
<1>4. h = body(h)
  BY <1>3
<1>5. ProductSet(S) = h[S]
  BY DEF ProductSet, FoldSet, MapThenFoldSet
<1>6. IsProduct(h, S)
  BY <1>4 DEF IsProduct, Pick, Rest
<1> QED BY <1>5, <1>6

LEMMA ProductDivides ==
    ASSUME NEW S \in SUBSET (Nat \ {0}), IsFiniteSet(S)
    PROVE  /\ ProductSet(S) \in Nat \ {0}
           /\ \A y \in S : \E q \in Nat \ {0} : ProductSet(S) = q * y
<1>1. PICK g : IsProduct(g, S) /\ ProductSet(S) = g[S]
  BY ProductExists
<1> DEFINE P == {s \in SUBSET S : /\ g[s] \in Nat \ {0}
                                  /\ \A y \in s : \E q \in Nat \ {0} : g[s] = q * y}
<1>2. \A s \in SUBSET S : s \in P
  <2>1. ASSUME NEW s \in SUBSET S, \A y \in s : s \ {y} \in P
        PROVE  s \in P
    <3>1. CASE s = {}
      <4>1. g[s] = 1
        BY <1>1, <3>1 DEF IsProduct
      <4> QED BY <3>1, <4>1
    <3>2. CASE s # {}
      <4>1. PICK x \in s : x = Pick(s)
        BY <3>2, PickAndRest
      <4>2. s \ {x} \in P /\ g[s] = x * g[s \ {x}]
        BY <1>1, <2>1, <3>2, <4>1 DEF IsProduct, Rest
      <4>3. PICK r \in Nat \ {0} : /\ r = g[s \ {x}]
                                   /\ \A y \in s \ {x} : \E q \in Nat \ {0} : r = q * y
        BY <4>2
      <4>4. x \in Nat \ {0} /\ g[s] = x * r
        BY <4>2, <4>3
      <4>5. x * r \in Nat \ {0}
        BY <4>4
      <4>6. ASSUME NEW y \in s
            PROVE  \E q \in Nat \ {0} : x * r = q * y
        <5>1. CASE y = x
          <6>1. x * r = r * x
            BY <4>4
          <6> QED BY <5>1, <6>1
        <5>2. CASE y # x
          <6>1. PICK q \in Nat \ {0} : r = q * y
            BY <4>3, <5>2
          <6>2. x * q \in Nat \ {0} /\ y \in Nat
            BY <4>4
          <6>3. x * (q * y) = (x * q) * y
            BY <4>4, <6>2
          <6> QED BY <6>1, <6>2, <6>3
        <5> QED BY <5>1, <5>2
      <4> QED BY <4>4, <4>5, <4>6
    <3> QED BY <3>1, <3>2
  <2> HIDE DEF P
  <2>2. P \in SUBSET SUBSET S
    BY DEF P
  <2> QED BY <2>1, <2>2, SetInduction
<1> QED BY <1>1, <1>2

(* A better rank has a larger share.                                       *)
LEMMA BetterRankLargerShare ==
    /\ \A r \in 1 .. Limit : Share(r) \in Nat \ {0}
    /\ \A r, t \in 1 .. Limit : r < t => Share(t) < Share(r)
<1> DEFINE S == {RRFK + rank : rank \in 1 .. Limit}
<1>1. RRFK \in Nat \ {0} /\ Limit \in Nat \ {0}
  BY HybridSearchAssumption
<1>2. S \in SUBSET (Nat \ {0}) /\ IsFiniteSet(S)
  <2>1. IsFiniteSet(1 .. Limit)
    BY <1>1, FS_Interval
  <2> DEFINE term == [rank \in 1 .. Limit |-> RRFK + rank]
  <2>2. term \in Surjection(1 .. Limit, S)
    BY DEF Surjection
  <2>3. IsFiniteSet(S)
    BY <2>1, <2>2, FS_Surjection
  <2> QED BY <1>1, <2>3
<1>3. /\ Scale \in Nat \ {0}
      /\ \A y \in S : \E q \in Nat \ {0} : Scale = q * y
  <2> HIDE DEF S
  <2>1. Scale = ProductSet(S)
    BY DEF Scale, S
  <2> QED BY <1>2, <2>1, ProductDivides
<1>4. ASSUME NEW r \in 1 .. Limit
      PROVE  Share(r) \in Nat \ {0} /\ Scale = Share(r) * (RRFK + r)
  <2>1. PICK q \in Nat \ {0} : Scale = q * (RRFK + r)
    BY <1>3
  <2>2. PICK c \in Nat \ {0} : c = RRFK + r
    BY <1>1
  <2>3. (q * c) \div c = q
    OBVIOUS
  <2> QED BY <2>1, <2>2, <2>3 DEF Share
<1>5. ASSUME NEW r \in 1 .. Limit, NEW t \in 1 .. Limit, r < t
      PROVE  Share(t) < Share(r)
  <2>1. PICK c \in Nat, d \in Nat : c = RRFK + r /\ d = RRFK + t /\ c < d
    BY <1>1, <1>5
  <2>2. PICK p \in Nat \ {0}, q \in Nat \ {0} : p = Share(r) /\ q = Share(t) /\ p * c = q * d
    BY <1>4, <2>1
  <2>3. ASSUME p <= q
        PROVE  FALSE
    <3>1. p * c <= q * c
      BY <2>3
    <3>2. q * c < q * d
      BY <2>1
    <3> QED BY <2>2, <3>1, <3>2
  <2> QED BY <2>2, <2>3
<1> QED BY <1>4, <1>5

--------------------------------------------------------------------------------
(* The fused score is a sum over the lists that have the document.         *)
LEMMA FusedIsSum ==
    ASSUME NEW d, IsFiniteSet(ListsOf(d)),
           \A i \in ListsOf(d) : Share(answers[i][d]) \in Nat
    PROVE  LET F == [i \in ListsOf(d) |-> Share(answers[i][d])] IN
           \E g : IsSum(g, F, ListsOf(d)) /\ Fused(d) = g[ListsOf(d)]
<1> DEFINE L == ListsOf(d)
           F == [i \in L |-> Share(answers[i][d])]
           A == [i \in L |-> [n \in Nat |-> F[i] + n]]
           body(g) == [s \in SUBSET L |-> IF s = {} THEN 0
                         ELSE Share(answers[CHOOSE x \in s : TRUE][d])
                                + g[s \ {CHOOSE x \in s : TRUE}]]
<1>1. PICK g : IsFold(g, A, 0, L)
  <2>1. A \in [L -> [Nat -> Nat]]
    OBVIOUS
  <2> HIDE DEF A, L
  <2>2. \A base \in Nat : \E g : IsFold(g, A, base, L)
    BY <2>1, FoldExists DEF L
  <2> QED BY <2>2
<1>2. ASSUME NEW s \in SUBSET L
      PROVE  g[s] = IF s = {} THEN 0 ELSE Share(answers[Pick(s)][d]) + g[Rest(s)]
  <2>1. CASE s = {}
    BY <1>1, <2>1 DEF IsFold
  <2>2. CASE s # {}
    <3>1. Pick(s) \in L /\ Rest(s) \in SUBSET L
      BY <2>2, PickAndRest
    <3>2. g[Rest(s)] \in Nat
      BY <1>1, <3>1 DEF IsFold
    <3>3. A[Pick(s)][g[Rest(s)]] = Share(answers[Pick(s)][d]) + g[Rest(s)]
      BY <3>1, <3>2
    <3> HIDE DEF A
    <3> QED BY <1>1, <2>2, <3>3 DEF IsFold
  <2> QED BY <2>1, <2>2
<1>3. g = body(g)
  BY <1>1, <1>2 DEF Pick, Rest, IsFold
<1> DEFINE h == CHOOSE f : f = body(f)
<1>4. h = body(h)
  BY <1>3
<1>5. Fused(d) = h[L]
  BY DEF Fused, MapThenSumSet, MapThenFoldSet
<1>6. IsSum(h, F, L)
  <2> HIDE DEF h
  <2> SUFFICES ASSUME NEW s \in SUBSET L
               PROVE  h[s] = IF s = {} THEN 0 ELSE F[Pick(s)] + h[Rest(s)]
    BY DEF IsSum
  <2>1. h[s] = IF s = {} THEN 0 ELSE Share(answers[Pick(s)][d]) + h[Rest(s)]
    BY <1>4 DEF Pick, Rest
  <2>2. s # {} => Pick(s) \in L
    BY PickAndRest
  <2> QED BY <2>1, <2>2
<1> QED BY <1>5, <1>6

--------------------------------------------------------------------------------
(* The plan of a search asks in its languages only.                        *)
LangSet(r) == IF r.fallback THEN {r.language, English} ELSE {r.language}

Backends == {"fts", "plain fts", "trigram", "pgroonga", "embed", "semantic"}

Step(r) == [backend : Backends, language : LangSet(r)]

LEMMA Flattened ==
    ASSUME NEW S, NEW n \in {1, 2}, NEW parts \in [1 .. n -> Seq(S)]
    PROVE  FlattenSeq(parts) \in Seq(S)
<1> DEFINE body(f) == [i \in 1 .. n |-> IF i = 1 THEN parts[i] ELSE f[i - 1] \o parts[i]]
           g == [i \in 1 .. n |-> IF i = 1 THEN parts[1] ELSE parts[1] \o parts[2]]
           h == CHOOSE f : f = body(f)
<1>1. parts[1] \in Seq(S) /\ (n = 2 => parts[1] \o parts[2] \in Seq(S))
  BY ConcatProperties
<1>2. g = body(g)
  <2>1. ASSUME NEW i \in 1 .. n
        PROVE  g[i] = IF i = 1 THEN parts[i] ELSE g[i - 1] \o parts[i]
    <3>1. CASE i = 1
      BY <3>1
    <3>2. CASE i # 1
      <4>1. i = 2 /\ n = 2 /\ i - 1 = 1
        BY <3>2
      <4>2. g[1] = parts[1] /\ g[2] = parts[1] \o parts[2]
        BY <4>1
      <4> HIDE DEF g
      <4> QED BY <4>1, <4>2
    <3> QED BY <3>1, <3>2
  <2>2. g = [i \in 1 .. n |-> g[i]]
    OBVIOUS
  <2> HIDE DEF g
  <2> QED BY <2>1, <2>2
<1>3. h = body(h)
  <2> HIDE DEF g
  <2> QED BY <1>2
<1>4. FlattenSeq(parts) = h[n]
  <2>1. Len(parts) = n
    OBVIOUS
  <2> QED BY <2>1 DEF FlattenSeq
<1> HIDE DEF h
<1>5. h[1] = parts[1] /\ (n = 2 => h[2] = parts[1] \o parts[2])
  <2>1. 1 \in 1 .. n /\ h[1] = parts[1]
    BY <1>3
  <2>2. ASSUME n = 2
        PROVE  h[2] = parts[1] \o parts[2]
    <3>1. 2 \in 1 .. n /\ 2 # 1 /\ 2 - 1 = 1
      BY <2>2
    <3>2. h[2] = h[2 - 1] \o parts[2]
      BY <1>3, <3>1
    <3> QED BY <2>1, <3>1, <3>2
  <2> QED BY <2>1, <2>2
<1> QED BY <1>1, <1>4, <1>5

LEMMA AskIsPlan ==
    ASSUME NEW r, NEW lang \in LangSet(r), NEW b \in Seq(Backends)
    PROVE  Ask(b, lang) \in Seq(Step(r))
<1>1. DOMAIN b = 1 .. Len(b) /\ Len(b) \in Nat
  BY LenProperties
<1>2. ASSUME NEW i \in DOMAIN b
      PROVE  [backend |-> b[i], language |-> lang] \in Step(r)
  <2>1. b[i] \in Backends
    BY <1>1, ElementOfSeq
  <2> QED BY <2>1 DEF Step
<1>3. Ask(b, lang) \in [1 .. Len(b) -> Step(r)]
  BY <1>1, <1>2 DEF Ask
<1> QED BY <1>1, <1>3

LEMMA PlanAsksItsLanguages ==
    ASSUME NEW r \in Request
    PROVE  Plan(r) \in Seq(Step(r))
<1>1. /\ r.language \in Language /\ r.fallback \in BOOLEAN
      /\ English \in Language
  BY HybridSearchAssumption DEF Request
<1>2. /\ Len(Languages(r)) \in {1, 2} /\ DOMAIN Languages(r) = 1 .. Len(Languages(r))
      /\ \A i \in 1 .. Len(Languages(r)) : Languages(r)[i] \in LangSet(r)
  <2>1. CASE r.fallback /\ r.language # English
    BY <2>1 DEF Languages, LangSet
  <2>2. CASE ~(r.fallback /\ r.language # English)
    <3>1. Languages(r) = <<r.language>>
      BY <2>2 DEF Languages
    <3>2. r.language \in LangSet(r)
      BY DEF LangSet
    <3> QED BY <3>1, <3>2
  <2> QED BY <2>1, <2>2
<1>3. ASSUME NEW lang \in LangSet(r)
      PROVE  /\ Ask(<<"embed">>, lang) \in Seq(Step(r))
             /\ Ask(<<"semantic">>, lang) \in Seq(Step(r))
             /\ Ask(Route(r, lang), lang) \in Seq(Step(r))
  <2>1. Route(r, lang) \in Seq(Backends)
    <3> DEFINE a == IF r.ascii THEN <<"trigram">> ELSE <<>>
               c == IF r.cjk THEN <<"pgroonga">> ELSE <<>>
    <3>1. /\ <<>> \in Seq(Backends) /\ <<"fts">> \in Seq(Backends)
          /\ <<"trigram">> \in Seq(Backends) /\ <<"pgroonga">> \in Seq(Backends)
      BY DEF Backends
    <3>2. a \in Seq(Backends) /\ c \in Seq(Backends)
      BY <3>1, Zenon
    <3> HIDE DEF a, c
    <3>3. a \o c \in Seq(Backends)
      BY <3>2, ConcatProperties
    <3>4. CASE lang \in CJK
      <4>1. Route(r, lang) = a \o c
        BY <3>4 DEF Route, a, c
      <4> QED BY <3>3, <4>1
    <3>5. CASE lang \notin CJK
      <4>1. Route(r, lang) = <<"trigram">> \/ Route(r, lang) = <<"fts">>
        BY <3>5 DEF Route
      <4> QED BY <3>1, <4>1
    <3> QED BY <3>4, <3>5
  <2>2. <<"embed">> \in Seq(Backends) /\ <<"semantic">> \in Seq(Backends)
    BY DEF Backends
  <2> QED BY <2>1, <2>2, AskIsPlan
<1>4. LexicalPlan(r) \in Seq(Step(r))
  <2> DEFINE parts == [i \in DOMAIN Languages(r) |->
                          Ask(Route(r, Languages(r)[i]), Languages(r)[i])]
  <2>1. PICK n \in {1, 2} : DOMAIN Languages(r) = 1 .. n
    BY <1>2
  <2>2. parts \in [1 .. n -> Seq(Step(r))]
    BY <1>2, <1>3, <2>1
  <2> HIDE DEF parts
  <2>3. FlattenSeq(parts) \in Seq(Step(r))
    BY <2>2, Flattened
  <2> QED BY <2>3 DEF LexicalPlan, parts
<1>5. SemanticPlan(r) \in Seq(Step(r))
  <2> DEFINE parts == [i \in DOMAIN Languages(r) |->
                          Ask(<<"semantic">>, Languages(r)[i])]
  <2>1. PICK n \in {1, 2} : DOMAIN Languages(r) = 1 .. n
    BY <1>2
  <2>2. parts \in [1 .. n -> Seq(Step(r))]
    BY <1>2, <1>3, <2>1
  <2>3. Ask(<<"embed">>, r.language) \in Seq(Step(r))
    BY <1>3 DEF LangSet
  <2> HIDE DEF parts
  <2>4. FlattenSeq(parts) \in Seq(Step(r))
    BY <2>2, Flattened
  <2>5. Ask(<<"embed">>, r.language) \o FlattenSeq(parts) \in Seq(Step(r))
    BY <2>3, <2>4, ConcatProperties
  <2> QED BY <2>5 DEF SemanticPlan, parts
<1>6. LexicalPlan(r) \o SemanticPlan(r) \in Seq(Step(r))
  BY <1>4, <1>5, ConcatProperties
<1> QED BY <1>4, <1>5, <1>6 DEF Plan

--------------------------------------------------------------------------------
(* The invariant of a search.                                              *)
Numbers(r) == IF r.kind = "search" THEN 1 .. Limit ELSE 1 .. MaxScore

Answer(r) == UNION {[S -> Numbers(r)] : S \in SUBSET (Entity \X LangSet(r))}

SearchTyped ==
    /\ request \in Request
    /\ plan \in Seq(Step(request))
    /\ answers \in Seq(Answer(request))
    /\ status \in {"running", "done", "failed"}

ResultTyped ==
    \E n \in Nat :
        /\ result \in [1 .. n -> [doc : Entity \X LangSet(request), score : Nat]]
        /\ \A i, j \in 1 .. n : result[i].doc = result[j].doc => i = j

SearchInv ==
    /\ SearchTyped
    /\ status = "running" => result = <<>>
    /\ ResultTyped
    /\ AgreementKept
    /\ TopHits

LEMMA AnswersAreFinite ==
    ASSUME SearchTyped
    PROVE  /\ Found \in SUBSET (Entity \X LangSet(request)) /\ IsFiniteSet(Found)
           /\ \A d : /\ IsFiniteSet(ListsOf(d))
                     /\ d \in Found <=> ListsOf(d) # {}
                     /\ \A i \in ListsOf(d) : answers[i][d] \in Numbers(request)
<1>1. /\ Len(answers) \in Nat /\ DOMAIN answers = 1 .. Len(answers)
      /\ \A i \in 1 .. Len(answers) : answers[i] \in Answer(request)
  BY LenProperties, ElementOfSeq DEF SearchTyped
<1>2. ASSUME NEW i \in DOMAIN answers
      PROVE  /\ DOMAIN answers[i] \in SUBSET (Entity \X LangSet(request))
             /\ \A d \in DOMAIN answers[i] : answers[i][d] \in Numbers(request)
  <2>1. PICK S \in SUBSET (Entity \X LangSet(request)) : answers[i] \in [S -> Numbers(request)]
    BY <1>1 DEF Answer
  <2> QED BY <2>1
<1>3. Found \in SUBSET (Entity \X LangSet(request))
  BY <1>2 DEF Found
<1>4. IsFiniteSet(Entity \X LangSet(request))
  <2>1. IsFiniteSet({request.language}) /\ IsFiniteSet({request.language, English})
    <3>1. IsFiniteSet({request.language})
      BY FS_Singleton
    <3>2. IsFiniteSet({request.language} \cup {English})
      BY <3>1, FS_AddElement
    <3>3. {request.language} \cup {English} = {request.language, English}
      OBVIOUS
    <3> QED BY <3>1, <3>2, <3>3
  <2>2. IsFiniteSet(LangSet(request))
    BY <2>1 DEF LangSet
  <2>3. IsFiniteSet(Entity)
    BY HybridSearchAssumption
  <2> QED BY <2>2, <2>3, FS_Product
<1>5. IsFiniteSet(Found)
  BY <1>3, <1>4, FS_Subset
<1>6. IsFiniteSet(DOMAIN answers)
  BY <1>1, FS_Interval
<1>7. ASSUME NEW d
      PROVE  /\ IsFiniteSet(ListsOf(d))
             /\ d \in Found <=> ListsOf(d) # {}
             /\ \A i \in ListsOf(d) : answers[i][d] \in Numbers(request)
  <2>1. ListsOf(d) \in SUBSET DOMAIN answers
    BY DEF ListsOf
  <2>2. IsFiniteSet(ListsOf(d))
    BY <1>6, <2>1, FS_Subset
  <2>3. d \in Found <=> ListsOf(d) # {}
    BY DEF Found, ListsOf
  <2>4. \A i \in ListsOf(d) : answers[i][d] \in Numbers(request)
    BY <1>2 DEF ListsOf
  <2> QED BY <2>2, <2>3, <2>4
<1> QED BY <1>3, <1>5, <1>7

LEMMA SharesOfLists ==
    ASSUME SearchTyped, request.kind = "search", NEW d
    PROVE  [i \in ListsOf(d) |-> Share(answers[i][d])] \in [ListsOf(d) -> Nat]
<1>1. \A i \in ListsOf(d) : answers[i][d] \in 1 .. Limit
  BY AnswersAreFinite DEF Numbers
<1>2. \A i \in ListsOf(d) : Share(answers[i][d]) \in Nat
  BY <1>1, BetterRankLargerShare
<1> QED BY <1>2

(* Typeahead keeps the best score of a document.                           *)
LEMMA MergedIsBest ==
    ASSUME SearchTyped, request.kind # "search", NEW d \in Found
    PROVE  /\ Merged(d) \in Nat
           /\ \E i \in ListsOf(d) : Merged(d) = answers[i][d]
           /\ \A i \in ListsOf(d) : answers[i][d] <= Merged(d)
<1> DEFINE T == {answers[i][d] : i \in ListsOf(d)}
<1>1. MaxScore \in Int /\ Numbers(request) = 1 .. MaxScore
  BY HybridSearchAssumption DEF Numbers
<1>2. T \in SUBSET Int /\ (\A n \in T : n <= MaxScore) /\ T \in SUBSET Nat /\ T # {}
  BY <1>1, AnswersAreFinite
<1> HIDE DEF T
<1>3. Max(T) \in T /\ \A n \in T : n <= Max(T)
  BY <1>1, <1>2, MaxIsLargest
<1>4. Merged(d) = Max(T)
  BY DEF Merged, T
<1> QED BY <1>2, <1>3, <1>4 DEF T

LEMMA ScoreIsNumber ==
    ASSUME SearchTyped, NEW d \in Found
    PROVE  Score(d) \in Nat
<1>1. CASE request.kind = "search"
  <2> DEFINE F == [i \in ListsOf(d) |-> Share(answers[i][d])]
  <2>1. F \in [ListsOf(d) -> Nat] /\ IsFiniteSet(ListsOf(d))
    BY <1>1, AnswersAreFinite, SharesOfLists
  <2>2. \E g : IsSum(g, F, ListsOf(d)) /\ Fused(d) = g[ListsOf(d)]
    <3>1. \A i \in ListsOf(d) : Share(answers[i][d]) \in Nat
      BY <2>1
    <3> QED BY <2>1, <3>1, FusedIsSum
  <2> HIDE DEF F
  <2>3. PICK g : IsSum(g, F, ListsOf(d)) /\ Fused(d) = g[ListsOf(d)]
    BY <2>2
  <2>4. TakesAny(g, F, ListsOf(d))
    BY <2>1, <2>3, SumTakesAny
  <2> QED BY <1>1, <2>3, <2>4 DEF TakesAny, Score
<1>2. CASE request.kind # "search"
  BY <1>2, MergedIsBest DEF Score
<1> QED BY <1>1, <1>2

(* A document that every list of another also has, ranked higher, has the  *)
(* larger fused score.                                                     *)
LEMMA AgreementRaisesScore ==
    ASSUME SearchTyped, request.kind = "search", NEW a, NEW b, Dominates(a, b)
    PROVE  Score(b) < Score(a)
<1> DEFINE L == ListsOf(a)
           M == ListsOf(b)
           F == [i \in L |-> Share(answers[i][a])]
           G == [i \in M |-> Share(answers[i][b])]
<1>1. /\ M # {} /\ M \in SUBSET L
      /\ \A i \in M : answers[i][a] < answers[i][b]
  BY DEF Dominates
<1>2. /\ F \in [L -> Nat] /\ G \in [M -> Nat]
      /\ IsFiniteSet(L) /\ IsFiniteSet(M)
  BY AnswersAreFinite, SharesOfLists
<1>3. \A i \in M : G[i] < F[i]
  <2>1. \A i \in M : answers[i][a] \in 1 .. Limit /\ answers[i][b] \in 1 .. Limit
    BY <1>1, AnswersAreFinite DEF Numbers
  <2>2. \A i \in M : Share(answers[i][b]) < Share(answers[i][a])
    BY <1>1, <2>1, BetterRankLargerShare
  <2> QED BY <1>1, <2>2
<1>4. \E f : IsSum(f, F, L) /\ Fused(a) = f[L]
  <2>1. \A i \in ListsOf(a) : Share(answers[i][a]) \in Nat
    BY <1>2
  <2> QED BY <1>2, <2>1, FusedIsSum
<1>5. \E g : IsSum(g, G, M) /\ Fused(b) = g[M]
  <2>1. \A i \in ListsOf(b) : Share(answers[i][b]) \in Nat
    BY <1>2
  <2> QED BY <1>2, <2>1, FusedIsSum
<1> HIDE DEF L, M, F, G
<1>6. PICK f : IsSum(f, F, L) /\ Fused(a) = f[L]
  BY <1>4
<1>7. PICK g : IsSum(g, G, M) /\ Fused(b) = g[M]
  BY <1>5
<1>8. g[M] < f[L]
  BY <1>1, <1>2, <1>3, <1>6, <1>7, LargerSum
<1> QED BY <1>6, <1>7, <1>8 DEF Score

--------------------------------------------------------------------------------
(* The steps of a search.                                                  *)
RankedFirst(s, n) ==
    /\ n \in Nat
    /\ s \in [1 .. n -> Found]
    /\ \A i, j \in 1 .. n : s[i] = s[j] => i = j
    /\ \A i \in 1 .. n : \A x \in Found :
          (\A j \in 1 .. i : s[j] # x) => ~Before(x, s[i])

LEMMA RankingIsRanked ==
    ASSUME SearchTyped, NEW s \in Rankings
    PROVE  \E n : RankedFirst(s, n)
<1> DEFINE n == Min({Limit, Cardinality(Found)})
<1>1. Limit \in Nat /\ Cardinality(Found) \in Nat
  BY AnswersAreFinite, FS_CardinalityType, HybridSearchAssumption
<1>2. n \in Nat
  BY <1>1, MinOfTwo
<1>3. /\ s \in [1 .. n -> Found]
      /\ \A i \in 1 .. n : /\ \A j \in 1 .. i - 1 : s[j] # s[i]
                           /\ \A x \in Found \ {s[j] : j \in 1 .. i} : ~Before(x, s[i])
  BY DEF Rankings, FirstBy
<1> HIDE DEF n
<1>4. ASSUME NEW i \in 1 .. n, NEW j \in 1 .. n, s[i] = s[j]
      PROVE  i = j
  <2>1. CASE i < j
    <3>1. i \in 1 .. j - 1
      BY <1>2, <2>1
    <3> QED BY <1>3, <1>4, <3>1
  <2>2. CASE j < i
    <3>1. j \in 1 .. i - 1
      BY <1>2, <2>2
    <3> QED BY <1>3, <1>4, <3>1
  <2> QED BY <1>2, <2>1, <2>2
<1>5. ASSUME NEW i \in 1 .. n, NEW x \in Found, \A j \in 1 .. i : s[j] # x
      PROVE  ~Before(x, s[i])
  <2>1. x \in Found \ {s[j] : j \in 1 .. i}
    BY <1>5
  <2> QED BY <1>3, <2>1
<1> QED BY <1>2, <1>3, <1>4, <1>5 DEF RankedFirst

LEMMA SearchStarts == SearchInit \/ NoSearch => SearchInv
<1>1. Request # {}
  <2>1. PICK f \in Filter : TRUE
    BY HybridSearchAssumption
  <2>2. [kind |-> "search", mode |-> "dual", fallback |-> TRUE, language |-> English,
         ascii |-> TRUE, cjk |-> TRUE, filter |-> f] \in Request
    BY <2>1, HybridSearchAssumption DEF Request
  <2> QED BY <2>2
<1>2. SUFFICES ASSUME SearchInit \/ NoSearch
               PROVE  SearchInv
  OBVIOUS
<1>3. request \in Request
  BY <1>1, <1>2 DEF SearchInit, NoSearch
<1>4. plan \in Seq(Step(request)) /\ answers = <<>> /\ result = <<>>
  <2>1. CASE SearchInit
    BY <1>3, <2>1, PlanAsksItsLanguages DEF SearchInit
  <2>2. CASE NoSearch
    <3>1. plan = <<>> /\ answers = <<>> /\ result = <<>>
      BY <2>2 DEF NoSearch
    <3>2. <<>> \in Seq(Step(request))
      BY EmptySeq
    <3> QED BY <3>1, <3>2
  <2> QED BY <1>2, <2>1, <2>2
<1>5. SearchTyped
  BY <1>2, <1>3, <1>4 DEF SearchTyped, SearchInit, NoSearch
<1>6. ResultTyped
  <2>1. /\ result \in [1 .. 0 -> [doc : Entity \X LangSet(request), score : Nat]]
        /\ \A i, j \in 1 .. 0 : result[i].doc = result[j].doc => i = j
    BY <1>4
  <2> QED BY <2>1 DEF ResultTyped
<1>7. AgreementKept /\ TopHits
  BY <1>4 DEF AgreementKept, TopHits
<1> QED BY <1>4, <1>5, <1>6, <1>7 DEF SearchInv

(* Nothing is ranked while the backends are asked.                         *)
LEMMA NothingRanked ==
    ASSUME result' = <<>>
    PROVE  ResultTyped' /\ AgreementKept' /\ TopHits'
<1>1. ResultTyped'
  <2>1. /\ result' \in [1 .. 0 -> [doc : Entity \X LangSet(request'), score : Nat]]
        /\ \A i, j \in 1 .. 0 : result'[i].doc = result'[j].doc => i = j
    OBVIOUS
  <2> QED BY <2>1 DEF ResultTyped
<1>2. AgreementKept' /\ TopHits'
  BY DEF AgreementKept, TopHits
<1> QED BY <1>1, <1>2

LEMMA QueryKeeps ==
    ASSUME SearchInv, Query
    PROVE  SearchInv'
<1>1. /\ status = "running" /\ plan # <<>> /\ plan' = Tail(plan)
      /\ request' = request /\ status' = status /\ result' = result
  BY DEF Query, Running
<1>2. PICK f \in Answerable(Head(plan).language) : answers' = Append(answers, f)
  BY DEF Query
<1>3. SearchTyped /\ result = <<>> /\ request \in Request
  BY <1>1 DEF SearchInv, SearchTyped
<1>4. Head(plan) \in Step(request) /\ Tail(plan) \in Seq(Step(request))
  BY <1>1, <1>3, HeadTailProperties DEF SearchTyped
<1>5. f \in Answer(request)
  <2> DEFINE lang == Head(plan).language
  <2>1. lang \in LangSet(request)
    BY <1>4 DEF Step
  <2>2. PICK S \in SUBSET (Entity \X {lang}) :
           /\ Cardinality(S) <= Limit
           /\ f \in IF request.kind = "typeahead" THEN [S -> 1 .. MaxScore]
                    ELSE {g \in [S -> 1 .. Cardinality(S)] :
                             \A a, b \in S : a # b => g[a] # g[b]}
    BY <1>2 DEF Answerable
  <2>3. S \in SUBSET (Entity \X LangSet(request))
    BY <2>1
  <2>4. f \in [S -> Numbers(request)]
    <3>1. request.kind \in {"search", "typeahead"}
      BY <1>3 DEF Request
    <3>2. CASE request.kind = "typeahead"
      BY <2>2, <3>2 DEF Numbers
    <3>3. CASE request.kind = "search"
      <4>1. f \in [S -> 1 .. Cardinality(S)]
        BY <2>2, <3>3
      <4>2. IsFiniteSet(S) /\ Cardinality(S) \in Nat
        <5>1. IsFiniteSet({lang}) /\ IsFiniteSet(Entity)
          BY FS_Singleton, HybridSearchAssumption
        <5>2. IsFiniteSet(Entity \X {lang})
          BY <5>1, FS_Product
        <5> QED BY <5>2, FS_Subset, FS_CardinalityType
      <4>3. Limit \in Nat
        BY HybridSearchAssumption
      <4>4. 1 .. Cardinality(S) \subseteq 1 .. Limit
        BY <2>2, <4>2, <4>3
      <4> QED BY <3>3, <4>1, <4>4 DEF Numbers
    <3> QED BY <3>1, <3>2, <3>3
  <2> QED BY <2>3, <2>4 DEF Answer
<1>6. Append(answers, f) \in Seq(Answer(request))
  BY <1>3, <1>5, AppendProperties DEF SearchTyped
<1>7. SearchTyped'
  BY <1>1, <1>2, <1>3, <1>4, <1>6 DEF SearchTyped
<1>8. result' = <<>>
  BY <1>1, <1>3
<1>9. ResultTyped' /\ AgreementKept' /\ TopHits'
  BY <1>8, NothingRanked
<1> QED BY <1>7, <1>8, <1>9 DEF SearchInv

LEMMA OtherStepsKeep ==
    ASSUME SearchInv, FTSFallsBack \/ EmbedQuery \/ QueryFails
    PROVE  SearchInv'
<1>1. /\ status = "running" /\ plan # <<>>
      /\ request' = request /\ answers' = answers /\ result' = result
      /\ status' \in {"running", "done", "failed"}
  BY DEF FTSFallsBack, EmbedQuery, QueryFails, Running
<1>2. SearchTyped /\ result = <<>>
  BY <1>1 DEF SearchInv
<1>3. Head(plan) \in Step(request) /\ Tail(plan) \in Seq(Step(request))
  BY <1>1, <1>2, HeadTailProperties DEF SearchTyped
<1>4. plan' \in Seq(Step(request))
  <2>1. CASE FTSFallsBack
    <3> DEFINE again == Ask(<<"plain fts">>, Head(plan).language)
    <3>1. again \in Seq(Step(request))
      <4>1. <<"plain fts">> \in Seq(Backends)
        BY DEF Backends
      <4>2. Head(plan).language \in LangSet(request)
        BY <1>3 DEF Step
      <4> QED BY <4>1, <4>2, AskIsPlan
    <3>2. again \o Tail(plan) \in Seq(Step(request))
      <4> HIDE DEF again
      <4> QED BY <1>3, <3>1, ConcatProperties
    <3> QED BY <2>1, <3>2 DEF FTSFallsBack
  <2>2. CASE EmbedQuery \/ QueryFails
    BY <1>2, <1>3, <2>2 DEF EmbedQuery, QueryFails, SearchTyped
  <2> QED BY <2>1, <2>2
<1>5. SearchTyped'
  BY <1>1, <1>2, <1>4 DEF SearchTyped
<1>6. result' = <<>>
  BY <1>1, <1>2
<1>7. ResultTyped' /\ AgreementKept' /\ TopHits'
  BY <1>6, NothingRanked
<1> QED BY <1>5, <1>6, <1>7 DEF SearchInv

LEMMA RankKeeps ==
    ASSUME SearchInv, Rank
    PROVE  SearchInv'
<1>1. /\ request' = request /\ plan' = plan /\ answers' = answers
      /\ status' = "done" /\ SearchTyped
  BY DEF SearchInv, Rank
<1>2. PICK s \in Rankings :
         result' = [i \in DOMAIN s |-> [doc |-> s[i], score |-> Score(s[i])]]
  BY DEF Rank
<1>3. PICK n : RankedFirst(s, n)
  BY <1>1, RankingIsRanked
<1>4. /\ DOMAIN result' = 1 .. n /\ n \in Nat
      /\ \A i \in 1 .. n : result'[i].doc = s[i] /\ result'[i].score = Score(s[i])
      /\ result' = [i \in 1 .. n |-> [doc |-> s[i], score |-> Score(s[i])]]
  BY <1>2, <1>3 DEF RankedFirst
<1>5. SearchTyped'
  BY <1>1 DEF SearchTyped
<1>6. ResultTyped'
  <2>1. \A i \in 1 .. n : s[i] \in Entity \X LangSet(request) /\ Score(s[i]) \in Nat
    BY <1>1, <1>3, AnswersAreFinite, ScoreIsNumber DEF RankedFirst
  <2>2. result' \in [1 .. n -> [doc : Entity \X LangSet(request), score : Nat]]
    BY <1>4, <2>1
  <2>3. \A i, j \in 1 .. n : result'[i].doc = result'[j].doc => i = j
    BY <1>3, <1>4 DEF RankedFirst
  <2> QED BY <1>1, <1>4, <2>2, <2>3 DEF ResultTyped
<1>7. AgreementKept'
  <2> SUFFICES ASSUME request.kind = "search", NEW a \in Found, NEW j \in 1 .. n,
                      Dominates(a, s[j])
               PROVE  \E i \in 1 .. j - 1 : s[i] = a
    <3>1. Found' = Found
      BY <1>1 DEF Found
    <3>2. \A x, y : Dominates(x, y)' <=> Dominates(x, y)
      BY <1>1 DEF Dominates, ListsOf
    <3> HIDE DEF Found, Dominates
    <3>3. \A k \in 1 .. n : \A i \in 1 .. k - 1 : i \in 1 .. n
      BY <1>4
    <3> QED BY <1>1, <1>4, <3>1, <3>2, <3>3 DEF AgreementKept
  <2>1. Score(s[j]) < Score(a)
    BY <1>1, AgreementRaisesScore
  <2>2. s[j] \in Found /\ Score(s[j]) \in Nat /\ Score(a) \in Nat
    BY <1>1, <1>3, ScoreIsNumber DEF RankedFirst
  <2>3. Before(a, s[j])
    BY <2>1, <2>2 DEF Before, RRFBefore
  <2>4. PICK i \in 1 .. j : s[i] = a
    BY <1>3, <2>3 DEF RankedFirst
  <2>5. i # j
    BY <2>1, <2>2, <2>4
  <2> QED BY <2>4, <2>5
<1>8. TopHits'
  <2> SUFFICES ASSUME request.kind = "typeahead",
                      NEW d \in Found, \A j \in 1 .. n : s[j] # d,
                      NEW i \in ListsOf(d), NEW j \in 1 .. n
               PROVE  \E l \in ListsOf(s[j]) : answers[l][s[j]] >= answers[i][d]
    <3>1. Found' = Found
      BY <1>1 DEF Found
    <3>2. \A x : ListsOf(x)' = ListsOf(x)
      BY <1>1 DEF ListsOf
    <3>3. ResultDocs' = {s[k] : k \in 1 .. n}
      BY <1>4 DEF ResultDocs
    <3> HIDE DEF Found, ListsOf, ResultDocs
    <3> QED BY <1>1, <1>4, <3>1, <3>2, <3>3 DEF TopHits
  <2>1. request.kind # "search"
    OBVIOUS
  <2>2. s[j] \in Found
    BY <1>3 DEF RankedFirst
  <2>3. /\ Merged(d) \in Nat /\ answers[i][d] <= Merged(d)
        /\ Merged(s[j]) \in Nat
        /\ Score(d) = Merged(d) /\ Score(s[j]) = Merged(s[j])
    BY <1>1, <2>1, <2>2, MergedIsBest DEF Score
  <2>4. PICK l \in ListsOf(s[j]) : Merged(s[j]) = answers[l][s[j]]
    BY <1>1, <2>1, <2>2, MergedIsBest
  <2>5. ~Before(d, s[j])
    <3>1. \A k \in 1 .. j : s[k] # d
      BY <1>4
    <3> QED BY <1>3, <3>1 DEF RankedFirst
  <2>6. Merged(d) <= Merged(s[j])
    BY <2>3, <2>5 DEF Before, RRFBefore
  <2>7. answers[i][d] \in Nat
    BY <1>1, AnswersAreFinite, HybridSearchAssumption DEF Numbers
  <2>8. answers[l][s[j]] >= answers[i][d]
    BY <2>3, <2>4, <2>6, <2>7
  <2> QED BY <2>8
<1> QED BY <1>1, <1>5, <1>6, <1>7, <1>8 DEF SearchInv

LEMMA SearchAtRest ==
    ASSUME SearchInv, UNCHANGED searchVars
    PROVE  SearchInv'
<1>1. UNCHANGED <<request, plan, answers, status, result>>
  BY DEF searchVars
<1>2. SearchTyped' /\ ResultTyped'
  BY <1>1 DEF SearchInv, SearchTyped, ResultTyped
<1>3. AgreementKept'
  BY <1>1 DEF SearchInv, AgreementKept, Ranked, Found, Dominates, ListsOf
<1>4. TopHits'
  BY <1>1 DEF SearchInv, TopHits, Ranked, Found, ResultDocs, ListsOf
<1> QED BY <1>1, <1>2, <1>3, <1>4 DEF SearchInv

LEMMA SearchInvariant == APISpec => []SearchInv
<1>1. APIInit => SearchInv
  BY SearchStarts DEF APIInit
<1>2. SearchInv /\ [APINext]_apiVars => SearchInv'
  <2> SUFFICES ASSUME SearchInv, [APINext]_apiVars
               PROVE  SearchInv'
    OBVIOUS
  <2>1. CASE Query
    BY <2>1, QueryKeeps
  <2>2. CASE FTSFallsBack \/ EmbedQuery \/ QueryFails
    BY <2>2, OtherStepsKeep
  <2>3. CASE Rank
    BY <2>3, RankKeeps
  <2>4. CASE UNCHANGED searchVars
    BY <2>4, SearchAtRest
  <2> QED BY <2>1, <2>2, <2>3, <2>4 DEF APINext, SearchNext, apiVars
<1> QED BY <1>1, <1>2, PTL DEF APISpec

(* Whatever the backends answer and whichever fails: the plan of a search  *)
(* asks in its languages, what comes out are documents with numbers.       *)
THEOREM SearchTypeCorrect == APISpec => []SearchTypeOK
<1>1. SearchInv => SearchTypeOK
  <2> SUFFICES ASSUME SearchInv
               PROVE  SearchTypeOK
    OBVIOUS
  <2>1. LangSet(request) \subseteq Language
    BY HybridSearchAssumption DEF SearchInv, SearchTyped, Request, LangSet
  <2>2. ASSUME NEW i \in DOMAIN answers
        PROVE  DOMAIN answers[i] \subseteq Doc
    <3>1. answers[i] \in Answer(request)
      BY LenProperties, ElementOfSeq DEF SearchInv, SearchTyped
    <3>2. PICK S \in SUBSET (Entity \X LangSet(request)) : answers[i] \in [S -> Numbers(request)]
      BY <3>1 DEF Answer
    <3> QED BY <2>1, <3>2 DEF Doc
  <2>3. ASSUME NEW i \in DOMAIN result
        PROVE  result[i].doc \in Doc /\ result[i].score \in Nat
    <3>1. PICK n \in Nat : result \in [1 .. n -> [doc : Entity \X LangSet(request), score : Nat]]
      BY DEF SearchInv, ResultTyped
    <3>2. result[i] \in [doc : Entity \X LangSet(request), score : Nat]
      BY <3>1
    <3> QED BY <2>1, <3>2 DEF Doc
  <2> QED BY <2>2, <2>3 DEF SearchTypeOK, SearchInv, SearchTyped
<1> QED BY <1>1, SearchInvariant, PTL

(* Reciprocal rank fusion (FuseRRF, src/search/rrf.go) of any number of    *)
(* lists, each of any length: a document that every list of another ranks  *)
(* higher comes before it and is not cut off first.  Every 1 / (k + rank)  *)
(* it adds is larger, and a sum may be taken in any order.                 *)
THEOREM FusionRespectsAgreement == APISpec => []AgreementKept
<1>1. SearchInv => AgreementKept
  BY DEF SearchInv
<1> QED BY <1>1, SearchInvariant, PTL

(* Typeahead (src/client.go) merges any number of lists by the best score  *)
(* and cuts afterwards: what is left out is nowhere better than a hit.     *)
THEOREM BestHitsAreShown == APISpec => []TopHits
<1>1. SearchInv => TopHits
  BY DEF SearchInv
<1> QED BY <1>1, SearchInvariant, PTL

--------------------------------------------------------------------------------
(* Under a strict total order a finite set has one ranking.                *)
StrictOrder(R, S) ==
    /\ \A a, b \in S : <<a, b>> \in R => <<b, a>> \notin R
    /\ \A a, b \in S : a # b => <<a, b>> \in R \/ <<b, a>> \in R
    /\ \A a, b, c \in S : <<a, b>> \in R /\ <<b, c>> \in R => <<a, c>> \in R

InOrder(s, n, R, S) ==
    /\ s \in [1 .. n -> S]
    /\ \A i \in 1 .. n :
          /\ \A j \in 1 .. i - 1 : s[j] # s[i]
          /\ \A x \in S : (\A j \in 1 .. i : s[j] # x) => <<x, s[i]>> \notin R

LEMMA LeastExists ==
    ASSUME NEW S, IsFiniteSet(S), NEW R, StrictOrder(R, S), NEW t \in SUBSET S, t # {}
    PROVE  \E m \in t : \A x \in t : <<x, m>> \notin R
<1> DEFINE P == {r \in SUBSET S : r = {} \/ \E m \in r : \A x \in r : <<x, m>> \notin R}
<1>1. \A r \in SUBSET S : r \in P
  <2>1. ASSUME NEW r \in SUBSET S, \A y \in r : r \ {y} \in P
        PROVE  r \in P
    <3> SUFFICES ASSUME NEW y \in r
                 PROVE  \E m \in r : \A x \in r : <<x, m>> \notin R
      OBVIOUS
    <3>1. CASE r \ {y} = {}
      <4>1. \A x \in r : <<x, y>> \notin R
        BY <3>1 DEF StrictOrder
      <4> QED BY <4>1
    <3>2. CASE r \ {y} # {}
      <4>1. PICK m \in r \ {y} : \A x \in r \ {y} : <<x, m>> \notin R
        BY <2>1, <3>2
      <4>2. CASE <<y, m>> \in R
        <5>1. ASSUME NEW x \in r, <<x, y>> \in R
              PROVE  FALSE
          <6>1. x # y
            BY <5>1 DEF StrictOrder
          <6>2. <<x, m>> \in R
            BY <4>2, <5>1 DEF StrictOrder
          <6> QED BY <4>1, <6>1, <6>2
        <5> QED BY <5>1
      <4>3. CASE <<y, m>> \notin R
        BY <4>1, <4>3
      <4> QED BY <4>2, <4>3
    <3> QED BY <3>1, <3>2
  <2> HIDE DEF P
  <2>2. P \in SUBSET SUBSET S
    BY DEF P
  <2> QED BY <2>1, <2>2, SetInduction
<1> QED BY <1>1

LEMMA OrderExists ==
    ASSUME NEW S, IsFiniteSet(S), NEW R, StrictOrder(R, S),
           NEW n \in Nat, n <= Cardinality(S)
    PROVE  \E s : InOrder(s, n, R, S)
<1> DEFINE T == {k \in Nat : k <= Cardinality(S) => \E s : InOrder(s, k, R, S)}
<1>1. 0 \in T
  <2>1. InOrder([i \in 1 .. 0 |-> 0], 0, R, S)
    BY DEF InOrder
  <2> QED BY <2>1
<1>2. ASSUME NEW k \in T
      PROVE  k + 1 \in T
  <2> SUFFICES ASSUME k + 1 <= Cardinality(S)
               PROVE  \E s : InOrder(s, k + 1, R, S)
    OBVIOUS
  <2>1. Cardinality(S) \in Nat /\ k \in Nat
    BY FS_CardinalityType
  <2>2. PICK s : InOrder(s, k, R, S)
    BY <2>1
  <2> HIDE DEF T
  <2> DEFINE taken == {s[j] : j \in 1 .. k}
  <2>3. S \ taken # {}
    <3> SUFFICES ASSUME S \subseteq taken
                 PROVE  FALSE
      OBVIOUS
    <3>1. s \in Surjection(1 .. k, S)
      BY <2>2 DEF InOrder, Surjection
    <3>2. IsFiniteSet(1 .. k) /\ Cardinality(1 .. k) = k
      BY <2>1, FS_Interval
    <3>3. Cardinality(S) <= k
      BY <3>1, <3>2, FS_Surjection
    <3> QED BY <2>1, <3>3
  <2>4. PICK m \in S \ taken : \A x \in S \ taken : <<x, m>> \notin R
    BY <2>3, LeastExists
  <2> DEFINE more == [i \in 1 .. k + 1 |-> IF i <= k THEN s[i] ELSE m]
  <2>5. /\ \A i \in 1 .. k : more[i] = s[i]
        /\ more[k + 1] = m
    BY <2>1
  <2>6. more \in [1 .. k + 1 -> S]
    BY <2>1, <2>2 DEF InOrder
  <2> HIDE DEF more
  <2>7. ASSUME NEW i \in 1 .. k + 1
        PROVE  /\ \A j \in 1 .. i - 1 : more[j] # more[i]
               /\ \A x \in S : (\A j \in 1 .. i : more[j] # x) => <<x, more[i]>> \notin R
    <3>1. CASE i \in 1 .. k
      <4>1. \A j \in 1 .. i : j \in 1 .. k /\ more[j] = s[j]
        BY <2>1, <2>5, <3>1
      <4>2. \A j \in 1 .. i - 1 : j \in 1 .. i
        BY <2>1
      <4>3. more[i] = s[i]
        BY <2>5, <3>1
      <4> QED BY <2>2, <3>1, <4>1, <4>2, <4>3 DEF InOrder
    <3>2. CASE i = k + 1
      <4>1. \A j \in 1 .. i - 1 : j \in 1 .. k /\ j \in 1 .. i
        BY <2>1, <3>2
      <4>2. more[i] = m
        BY <2>5, <3>2
      <4>3. \A j \in 1 .. i - 1 : more[j] # more[i]
        BY <2>4, <2>5, <4>1, <4>2
      <4>4. ASSUME NEW x \in S, \A j \in 1 .. i : more[j] # x
            PROVE  x \notin taken
        <5>1. \A j \in 1 .. k : j \in 1 .. i
          BY <2>1, <3>2
        <5> QED BY <2>5, <4>4, <5>1
      <4> QED BY <2>4, <4>2, <4>3, <4>4
    <3>3. i \in 1 .. k \/ i = k + 1
      BY <2>1
    <3> QED BY <3>1, <3>2, <3>3
  <2>8. InOrder(more, k + 1, R, S)
    BY <2>6, <2>7 DEF InOrder
  <2> QED BY <2>8
<1> HIDE DEF T
<1>3. \A k \in Nat : k \in T
  <2>1. T \in SUBSET Nat
    BY DEF T
  <2> QED BY <1>1, <1>2, <2>1, Induction
<1> QED BY <1>3 DEF T

LEMMA OrderUnique ==
    ASSUME NEW S, NEW R, StrictOrder(R, S), NEW n \in Nat,
           NEW s, InOrder(s, n, R, S), NEW t, InOrder(t, n, R, S)
    PROVE  s = t
<1> DEFINE D == {i \in 1 .. n : s[i] # t[i]}
<1>1. D = {}
  <2> SUFFICES ASSUME D # {}
               PROVE  FALSE
    OBVIOUS
  <2>1. PICK i \in D : \A j \in D : i <= j
    <3>1. D \in SUBSET Nat
      OBVIOUS
    <3> HIDE DEF D
    <3> QED BY <3>1, Smallest
  <2>2. i \in 1 .. n /\ s[i] # t[i] /\ s[i] \in S /\ t[i] \in S
    BY DEF InOrder
  <2>3. \A j \in 1 .. i - 1 : j \in 1 .. n /\ s[j] = t[j]
    BY <2>1, <2>2
  <2>4. \A j \in 1 .. i - 1 : s[j] # s[i] /\ t[j] # t[i]
    BY <2>2 DEF InOrder
  <2>5. \A j \in 1 .. i : j \in 1 .. i - 1 \/ j = i
    BY <2>2
  <2>6. \A j \in 1 .. i : s[j] # t[i] /\ t[j] # s[i]
    BY <2>2, <2>3, <2>4, <2>5
  <2>7. <<t[i], s[i]>> \notin R /\ <<s[i], t[i]>> \notin R
    BY <2>2, <2>6 DEF InOrder
  <2> QED BY <2>2, <2>7 DEF StrictOrder
<1> QED BY <1>1 DEF InOrder

(* Both searches order by a total order when no two documents differ in    *)
(* their language only, or the language is compared too.                   *)
LEMMA BeforeIsStrict ==
    ASSUME SearchTyped,
           request.kind = "typeahead" \/ Len(Languages(request)) = 1
    PROVE  StrictOrder({p \in Found \X Found : Before(p[1], p[2])}, Found)
<1> DEFINE R == {p \in Found \X Found : Before(p[1], p[2])}
<1>1. \A a, b \in Found : <<a, b>> \in R <=> Before(a, b)
  OBVIOUS
<1>2. ASSUME NEW a \in Found
      PROVE  /\ Score(a) \in Nat /\ a[1] \in Nat /\ a[2] \in Nat /\ a = <<a[1], a[2]>>
  <2>1. a \in Entity \X LangSet(request)
    BY AnswersAreFinite
  <2>2. LangSet(request) \subseteq Nat /\ Entity \subseteq Nat
    BY HybridSearchAssumption DEF SearchTyped, Request, LangSet
  <2>3. Score(a) \in Nat
    BY ScoreIsNumber
  <2>4. PICK e \in Entity, lang \in LangSet(request) : a = <<e, lang>>
    BY <2>1
  <2>5. a[1] = e /\ a[2] = lang
    BY <2>4
  <2> QED BY <2>2, <2>3, <2>4, <2>5
<1>3. ASSUME NEW a \in Found, NEW b \in Found, request.kind # "typeahead"
      PROVE  a[2] = b[2]
  <2>1. a \in Entity \X LangSet(request) /\ b \in Entity \X LangSet(request)
    BY AnswersAreFinite
  <2>2. ~(request.fallback /\ request.language # English)
    BY <1>3 DEF Languages
  <2>3. LangSet(request) = {request.language}
    BY <2>2 DEF LangSet
  <2> QED BY <2>1, <2>3
<1> HIDE DEF R
<1>4. \A a, b \in Found : Before(a, b) => ~Before(b, a)
  BY <1>2 DEF Before, RRFBefore
<1>5. \A a, b \in Found : a # b => Before(a, b) \/ Before(b, a)
  <2> SUFFICES ASSUME NEW a \in Found, NEW b \in Found, a # b
               PROVE  Before(a, b) \/ Before(b, a)
    OBVIOUS
  <2>1. a[1] # b[1] \/ a[2] # b[2]
    BY <1>2
  <2>2. a[1] = b[1] => a[2] # b[2] /\ request.kind = "typeahead"
    BY <1>3, <2>1
  <2> QED BY <1>2, <2>2 DEF Before, RRFBefore
<1>6. \A a, b, c \in Found : Before(a, b) /\ Before(b, c) => Before(a, c)
  BY <1>2 DEF Before, RRFBefore
<1> QED BY <1>1, <1>4, <1>5, <1>6 DEF StrictOrder, R

(* The same answers give one ranking, for any number of documents: the     *)
(* comparison of FuseRRF decides between any two documents of a language,  *)
(* that of Typeahead between any two.                                      *)
THEOREM OneRanking == APISpec => []RankingDetermined
<1>1. ASSUME SearchTyped,
             request.kind = "typeahead" \/ Len(Languages(request)) = 1
      PROVE  Cardinality(Rankings) = 1
  <2> DEFINE R == {p \in Found \X Found : Before(p[1], p[2])}
             n == Min({Limit, Cardinality(Found)})
  <2>1. StrictOrder(R, Found)
    BY <1>1, BeforeIsStrict
  <2>2. /\ IsFiniteSet(Found) /\ Cardinality(Found) \in Nat /\ Limit \in Nat
        /\ n \in Nat /\ n <= Cardinality(Found)
    <3>1. IsFiniteSet(Found) /\ Cardinality(Found) \in Nat /\ Limit \in Nat
      BY <1>1, AnswersAreFinite, FS_CardinalityType, HybridSearchAssumption
    <3>2. n = IF Limit <= Cardinality(Found) THEN Limit ELSE Cardinality(Found)
      BY <3>1, MinOfTwo
    <3> QED BY <3>1, <3>2
  <2>3. ASSUME NEW s
        PROVE  s \in Rankings <=> InOrder(s, n, R, Found)
    <3>1. s \in Rankings <=>
             /\ s \in [1 .. n -> Found]
             /\ \A i \in 1 .. n :
                   /\ \A j \in 1 .. i - 1 : s[j] # s[i]
                   /\ \A x \in Found \ {s[j] : j \in 1 .. i} : ~Before(x, s[i])
      BY DEF Rankings, FirstBy
    <3> HIDE DEF n
    <3>2. ASSUME s \in [1 .. n -> Found], NEW i \in 1 .. n
          PROVE  (\A x \in Found \ {s[j] : j \in 1 .. i} : ~Before(x, s[i]))
                  <=> \A x \in Found : (\A j \in 1 .. i : s[j] # x) => <<x, s[i]>> \notin R
      <4>1. s[i] \in Found
        BY <3>2
      <4>2. \A x \in Found : <<x, s[i]>> \in R <=> Before(x, s[i])
        BY <4>1
      <4>3. \A x : x \notin {s[j] : j \in 1 .. i} <=> \A j \in 1 .. i : s[j] # x
        OBVIOUS
      <4> HIDE DEF R
      <4> QED BY <4>2, <4>3
    <3> HIDE DEF R
    <3> QED BY <3>1, <3>2 DEF InOrder
  <2> HIDE DEF R, n
  <2>4. PICK s : InOrder(s, n, R, Found)
    BY <2>1, <2>2, OrderExists
  <2>5. Rankings = {s}
    <3>1. ASSUME NEW t \in Rankings
          PROVE  t = s
      <4>1. InOrder(t, n, R, Found)
        BY <2>3
      <4> QED BY <2>1, <2>2, <2>4, <4>1, OrderUnique
    <3>2. s \in Rankings
      BY <2>3, <2>4
    <3> QED BY <3>1, <3>2
  <2> QED BY <2>5, FS_Singleton
<1>2. SearchInv => RankingDetermined
  BY <1>1 DEF SearchInv, RankingDetermined
<1> QED BY <1>2, SearchInvariant, PTL

--------------------------------------------------------------------------------
(* RecallAtK and MRR (src/eval/metrics.go) of what a search of one         *)
(* language returned, of any length: no entity counts twice, and at every  *)
(* k something was recalled exactly when the first hit is within k.        *)
THEOREM MetricsAlwaysAgree == APISpec => []MetricsAgree
<1>1. ASSUME SearchInv, Len(Languages(request)) = 1,
             NEW expected \in (SUBSET Entity) \ {{}}
      PROVE  LET got == [i \in DOMAIN result |-> result[i].doc[1]] IN
             /\ RecallAtK(got, expected, Len(got)) <= Cardinality(expected)
             /\ \A k \in 0 .. Len(got) :
                   RecallAtK(got, expected, k) > 0 <=> MRR(got, expected) \in 1 .. k
  <2> DEFINE got == [i \in DOMAIN result |-> result[i].doc[1]]
             Within(k) == {i \in DOMAIN got : i <= k /\ got[i] \in expected}
             found == {i \in DOMAIN got : got[i] \in expected}
  <2>1. PICK n \in Nat :
           /\ result \in [1 .. n -> [doc : Entity \X LangSet(request), score : Nat]]
           /\ \A i, j \in 1 .. n : result[i].doc = result[j].doc => i = j
    BY <1>1 DEF SearchInv, ResultTyped
  <2>2. DOMAIN got = 1 .. n /\ Len(got) = n
    BY <2>1
  <2>3. \A i, j \in 1 .. n : got[i] = got[j] => i = j
    <3> SUFFICES ASSUME NEW i \in 1 .. n, NEW j \in 1 .. n, got[i] = got[j]
                 PROVE  i = j
      OBVIOUS
    <3>1. LangSet(request) = {request.language}
      BY <1>1 DEF Languages, LangSet
    <3>2. \A x \in 1 .. n : result[x].doc \in Entity \X LangSet(request)
      BY <2>1
    <3>3. result[i].doc[1] = result[j].doc[1]
      BY <2>1
    <3>4. result[i].doc = result[j].doc
      BY <3>1, <3>2, <3>3
    <3> QED BY <2>1, <3>4
  <2> HIDE DEF got
  <2>4. \A k \in 0 .. n : IsFiniteSet(Within(k)) /\ Cardinality(Within(k)) \in Nat
    <3>1. IsFiniteSet(1 .. n)
      BY FS_Interval
    <3>2. \A k \in 0 .. n : Within(k) \in SUBSET (1 .. n)
      BY <2>2
    <3> HIDE DEF Within
    <3> QED BY <3>1, <3>2, FS_Subset, FS_CardinalityType
  <2>5. Cardinality(Within(n)) <= Cardinality(expected)
    <3> DEFINE f == [i \in Within(n) |-> got[i]]
    <3>1. f \in Injection(Within(n), expected)
      BY <2>2, <2>3 DEF Injection, IsInjective
    <3>2. IsFiniteSet(expected)
      BY FS_Subset, HybridSearchAssumption
    <3> HIDE DEF f, Within
    <3> QED BY <3>1, <3>2, FS_Injection
  <2>6. ASSUME NEW k \in 0 .. n
        PROVE  Cardinality(Within(k)) > 0 <=> MRR(got, expected) \in 1 .. k
    <3>1. Cardinality(Within(k)) > 0 <=> Within(k) # {}
      <4> HIDE DEF Within
      <4> QED BY <2>4, FS_EmptySet
    <3>2. CASE found = {}
      <4>1. MRR(got, expected) = 0 /\ Within(k) = {}
        BY <3>2 DEF MRR
      <4> QED BY <3>1, <4>1
    <3>3. CASE found # {}
      <4>1. MRR(got, expected) = Min(found)
        BY <3>3 DEF MRR
      <4>2. found \in SUBSET Nat /\ found \in SUBSET (1 .. n)
        BY <2>2
      <4>3. Min(found) \in found /\ \A i \in found : Min(found) <= i
        <5> HIDE DEF found
        <5> QED BY <3>3, <4>2, MinIsSmallest
      <4>4. \A i : i \in Within(k) <=> i \in found /\ i <= k
        OBVIOUS
      <4> HIDE DEF found, Within
      <4>5. PICK m \in 1 .. n : /\ m = Min(found) /\ m \in found
                                /\ \A i \in found : m <= i
        BY <4>2, <4>3
      <4>6. Within(k) # {} <=> m <= k
        <5>1. ASSUME NEW i \in Within(k)
              PROVE  m <= k
          <6>1. i \in found /\ i <= k /\ i \in 1 .. n
            BY <4>2, <4>4
          <6> QED BY <4>5, <6>1
        <5> QED BY <4>4, <4>5, <5>1
      <4> QED BY <3>1, <4>1, <4>5, <4>6
    <3> QED BY <3>2, <3>3
  <2>7. \A k : RecallAtK(got, expected, k) = Cardinality(Within(k))
    BY DEF RecallAtK
  <2> HIDE DEF Within
  <2> QED BY <2>2, <2>5, <2>6, <2>7 DEF got
<1>2. SearchInv => MetricsAgree
  BY <1>1 DEF MetricsAgree
<1> QED BY <1>2, SearchInvariant, PTL
================================================================================
