------------------------------ MODULE RetrievalProofs ------------------------------
(* Proofs about the vector queries and the reranking, for every table and  *)
(* every option.                                                           *)
EXTENDS SearchAPI, FiniteSetTheorems, SequenceTheorems, TLAPS

(* Sets of numbers have a smallest element, bounded ones a largest.        *)
LEMMA Smallest ==
    ASSUME NEW T \in SUBSET Nat, T # {}
    PROVE  \E m \in T : \A n \in T : m <= n
<1> DEFINE less == {p \in Nat \X Nat : p[1] < p[2]}
<1>1. IsWellFoundedOn(less, Nat)
  BY NatLessThanWellFounded DEF OpToRel
<1>2. PICK m \in T : \A n \in T : <<n, m>> \notin less
  BY <1>1, WFMin
<1>3. ASSUME NEW n \in T
      PROVE  m <= n
  <2>1. m \in Nat /\ n \in Nat /\ <<n, m>> \in Nat \X Nat
    OBVIOUS
  <2>2. ~(<<n, m>>[1] < <<n, m>>[2])
    BY <1>2, <2>1
  <2> QED BY <2>1, <2>2
<1> QED BY <1>3

LEMMA MinIsSmallest ==
    ASSUME NEW T \in SUBSET Nat, T # {}
    PROVE  Min(T) \in T /\ \A n \in T : Min(T) <= n
  BY Smallest DEF Min

LEMMA LargestOfBounded ==
    ASSUME NEW T \in SUBSET Int, NEW b \in Int, \A n \in T : n <= b, T # {}
    PROVE  \E m \in T : \A n \in T : n <= m
<1> DEFINE gaps == {g \in Nat : b - g \in T}
<1>1. \A n \in T : b - n \in gaps /\ b - (b - n) = n
  OBVIOUS
<1>2. PICK g \in gaps : \A h \in gaps : g <= h
  <2>1. gaps # {}
    BY <1>1
  <2> QED BY <2>1, Smallest
<1>3. b - g \in T /\ \A n \in T : n <= b - g
  BY <1>1, <1>2
<1> QED BY <1>3

LEMMA MaxIsLargest ==
    ASSUME NEW T \in SUBSET Int, NEW b \in Int, \A n \in T : n <= b, T # {}
    PROVE  Max(T) \in T /\ \A n \in T : n <= Max(T)
<1>1. PICK m \in T : \A n \in T : n <= m
  BY LargestOfBounded
<1> QED BY <1>1 DEF Max

LEMMA MinOfTwo ==
    ASSUME NEW a \in Nat, NEW b \in Nat
    PROVE  Min({a, b}) = IF a <= b THEN a ELSE b
<1>1. Min({a, b}) \in {a, b} /\ \A n \in {a, b} : Min({a, b}) <= n
  BY MinIsSmallest
<1> QED BY <1>1

(* As many different elements of a finite set as it has are all of them.   *)
LEMMA AllTaken ==
    ASSUME NEW S, IsFiniteSet(S), NEW s \in [1 .. Cardinality(S) -> S],
           \A i, j \in 1 .. Cardinality(S) : s[i] = s[j] => i = j
    PROVE  \A x \in S : \E i \in 1 .. Cardinality(S) : s[i] = x
<1>1. Cardinality(S) \in Nat
  BY FS_CardinalityType
<1>2. Cardinality(1 .. Cardinality(S)) = Cardinality(S)
  BY <1>1, FS_Interval
<1>3. s \in Injection(1 .. Cardinality(S), S)
  BY DEF Injection, IsInjective
<1>4. s \in Surjection(1 .. Cardinality(S), S)
  BY <1>2, <1>3, FS_Injection
<1> QED BY <1>4 DEF Surjection

(* ToSet and RemoveAt by their elements.                                   *)
LEMMA ElementRemoved ==
    ASSUME NEW S, NEW s \in Seq(S), NEW i \in 1 .. Len(s)
    PROVE  /\ RemoveAt(s, i) \in Seq(S)
           /\ Len(RemoveAt(s, i)) = Len(s) - 1
           /\ \A j \in 1 .. Len(s) - 1 :
                 RemoveAt(s, i)[j] = IF j < i THEN s[j] ELSE s[j + 1]
<1> DEFINE a == SubSeq(s, 1, i - 1)
           b == SubSeq(s, i + 1, Len(s))
<1>1. Len(s) \in Nat /\ \A j \in 1 .. Len(s) : s[j] \in S
  BY LenProperties, ElementOfSeq
<1>2. /\ a \in Seq(S)
      /\ Len(a) = i - 1
      /\ \A j \in 1 .. i - 1 : a[j] = s[j]
  <2>1. \A j \in 1 .. i - 1 : s[j] \in S
    BY <1>1
  <2>2. /\ a \in Seq(S)
        /\ Len(a) = IF 1 <= i - 1 THEN i - 1 - 1 + 1 ELSE 0
        /\ \A j \in 1 .. i - 1 - 1 + 1 : a[j] = s[1 + j - 1]
    BY <1>1, <2>1, SubSeqProperties
  <2> QED BY <1>1, <2>2
<1>3. /\ b \in Seq(S)
      /\ Len(b) = Len(s) - i
      /\ \A j \in 1 .. Len(s) - i : b[j] = s[i + j]
  <2>1. \A j \in i + 1 .. Len(s) : s[j] \in S
    BY <1>1
  <2>2. /\ b \in Seq(S)
        /\ Len(b) = IF i + 1 <= Len(s) THEN Len(s) - (i + 1) + 1 ELSE 0
        /\ \A j \in 1 .. Len(s) - (i + 1) + 1 : b[j] = s[i + 1 + j - 1]
    BY <1>1, <2>1, SubSeqProperties
  <2> QED BY <1>1, <2>2
<1>4. /\ a \o b \in Seq(S)
      /\ Len(a \o b) = Len(a) + Len(b)
      /\ \A j \in 1 .. Len(a) + Len(b) :
            (a \o b)[j] = IF j <= Len(a) THEN a[j] ELSE b[j - Len(a)]
  BY <1>2, <1>3, ConcatProperties
<1>5. RemoveAt(s, i) = a \o b
  BY DEF RemoveAt
<1> HIDE DEF a, b
<1>6. Len(a) + Len(b) = Len(s) - 1
  BY <1>1, <1>2, <1>3
<1>7. ASSUME NEW j \in 1 .. Len(s) - 1
      PROVE  (a \o b)[j] = IF j < i THEN s[j] ELSE s[j + 1]
  <2>1. (a \o b)[j] = IF j <= Len(a) THEN a[j] ELSE b[j - Len(a)]
    BY <1>4, <1>6
  <2>2. CASE j < i
    BY <1>1, <1>2, <2>1, <2>2
  <2>3. CASE ~(j < i)
    <3>1. (a \o b)[j] = b[j - (i - 1)] /\ j - (i - 1) \in 1 .. Len(s) - i
      BY <1>1, <1>2, <2>1, <2>3
    <3>2. b[j - (i - 1)] = s[i + (j - (i - 1))]
      BY <1>3, <3>1
    <3>3. i + (j - (i - 1)) = j + 1
      BY <1>1
    <3> QED BY <2>3, <3>1, <3>2, <3>3
  <2> QED BY <2>2, <2>3
<1> QED BY <1>4, <1>5, <1>6, <1>7

--------------------------------------------------------------------------------
(* The vector query.  ORDER BY similarity DESC LIMIT: the rows of S in an  *)
(* order that leaves out, when S has more, no row nearer than those in it. *)
NearestFirst(s, n, S) ==
    /\ n \in 0 .. knn.limit
    /\ s \in [1 .. n -> S]
    /\ \A i, j \in 1 .. n : i < j => s[i] # s[j] /\ similarity[s[j]] <= similarity[s[i]]
    /\ \A x \in S : \/ \E i \in 1 .. n : s[i] = x
                    \/ n = knn.limit /\ \A i \in 1 .. n : similarity[x] <= similarity[s[i]]

LEMMA NearestIsFirst ==
    ASSUME knn.limit \in Nat, similarity \in [Row -> Int], IsFiniteSet(Row),
           NEW S \in SUBSET Row, NEW s \in Nearest(S)
    PROVE  \E n \in Nat : NearestFirst(s, n, S)
<1> DEFINE n == Min({knn.limit, Cardinality(S)})
<1>1. IsFiniteSet(S) /\ Cardinality(S) \in Nat
  BY FS_Subset, FS_CardinalityType
<1>2. n = IF knn.limit <= Cardinality(S) THEN knn.limit ELSE Cardinality(S)
  BY <1>1, MinOfTwo
<1>3. /\ s \in [1 .. n -> S]
      /\ \A i \in 1 .. n :
            /\ \A j \in 1 .. i - 1 : s[j] # s[i]
            /\ \A x \in S \ {s[j] : j \in 1 .. i} : ~(similarity[x] > similarity[s[i]])
  BY DEF Nearest, FirstBy, Nearer
<1> HIDE DEF n
<1>4. n \in 0 .. knn.limit
  BY <1>1, <1>2
<1>5. \A i, j \in 1 .. n : i < j => s[i] # s[j]
  BY <1>3, <1>4
<1>6. \A i \in 1 .. n, x \in S :
         (\A j \in 1 .. i : s[j] # x) => similarity[x] <= similarity[s[i]]
  BY <1>3
<1>7. \A i, j \in 1 .. n : i < j => similarity[s[j]] <= similarity[s[i]]
  BY <1>3, <1>4, <1>5, <1>6
<1>8. ASSUME NEW x \in S, \A i \in 1 .. n : s[i] # x
      PROVE  n = knn.limit /\ \A i \in 1 .. n : similarity[x] <= similarity[s[i]]
  <2>1. n # Cardinality(S)
    <3> SUFFICES ASSUME n = Cardinality(S)
                 PROVE  FALSE
      OBVIOUS
    <3>1. \A i, j \in 1 .. Cardinality(S) : s[i] = s[j] => i = j
      BY <1>1, <1>5
    <3> QED BY <1>1, <1>3, <1>8, <3>1, AllTaken
  <2>2. \A i \in 1 .. n : 1 .. i \subseteq 1 .. n
    BY <1>4
  <2> QED BY <1>2, <1>6, <1>8, <2>1, <2>2
<1>9. NearestFirst(s, n, S)
  BY <1>3, <1>4, <1>5, <1>7, <1>8 DEF NearestFirst
<1> QED BY <1>4, <1>9

(* The result loop keeps the rows that pass, in their order.               *)
KeptInOrder(r, s, n, S) ==
    \E m \in 0 .. n, f \in [1 .. n -> 1 .. n] :
        /\ r \in [1 .. m -> S]
        /\ \A j \in 1 .. m : r[j] = s[f[j]]
        /\ \A i, j \in 1 .. m : i < j => f[i] < f[j]
        /\ \A i \in 1 .. n : Kept(s[i]) => \E j \in 1 .. m : f[j] = i
        /\ (\A i \in 1 .. n : Kept(s[i])) => m = n

LEMMA ResultsAreKept ==
    ASSUME NEW S, NEW n \in Nat, NEW s \in [1 .. n -> S], NEW r \in Results(s)
    PROVE  KeptInOrder(r, s, n, S)
<1> DEFINE K == {i \in 1 .. n : Kept(s[i])}
           c == Cardinality(K)
<1>1. s \in Seq(S) /\ Len(s) = n /\ DOMAIN s = 1 .. n
  OBVIOUS
<1>2. /\ IsFiniteSet(1 .. n) /\ Cardinality(1 .. n) = n
      /\ IsFiniteSet(K) /\ c \in Nat /\ c <= n
  <2>1. IsFiniteSet(1 .. n) /\ Cardinality(1 .. n) = n
    BY FS_Interval
  <2>2. K \in SUBSET (1 .. n)
    OBVIOUS
  <2> QED BY <2>1, <2>2, FS_Subset, FS_CardinalityType
<1>3. Min({n, c}) = c
  BY <1>2, MinOfTwo
<1>4. PICK g \in [1 .. c -> K] :
         /\ \A i \in 1 .. c :
               /\ \A j \in 1 .. i - 1 : g[j] # g[i]
               /\ \A x \in K \ {g[j] : j \in 1 .. i} : ~(x < g[i])
         /\ r = [j \in DOMAIN g |-> s[g[j]]]
  BY <1>1, <1>3 DEF Results, FirstBy
<1>5. DOMAIN g = 1 .. c
  OBVIOUS
<1> HIDE DEF c
<1>6. \A i, j \in 1 .. c : i < j => g[i] < g[j]
  <2> SUFFICES ASSUME NEW i \in 1 .. c, NEW j \in 1 .. c, i < j
               PROVE  g[i] < g[j]
    OBVIOUS
  <2>1. \A k \in 1 .. i : g[k] # g[j]
    BY <1>2, <1>4
  <2>2. ~(g[j] < g[i]) /\ g[i] # g[j]
    BY <1>2, <1>4, <2>1
  <2> QED BY <1>2, <1>4, <2>2
<1>7. \A i \in K : \E j \in 1 .. c : g[j] = i
  <2>1. \A i, j \in 1 .. c : g[i] = g[j] => i = j
    BY <1>2, <1>4
  <2> QED BY <1>2, <1>4, <2>1, AllTaken DEF c
<1>8. (\A i \in 1 .. n : Kept(s[i])) => c = n
  <2>1. (\A i \in 1 .. n : Kept(s[i])) => K = 1 .. n
    OBVIOUS
  <2> QED BY <1>2, <2>1 DEF c
<1> DEFINE f == [j \in 1 .. n |-> IF j \in 1 .. c THEN g[j] ELSE j]
<1>9. f \in [1 .. n -> 1 .. n] /\ \A j \in 1 .. c : f[j] = g[j]
  BY <1>2, <1>4
<1>10. r \in [1 .. c -> S] /\ \A j \in 1 .. c : r[j] = s[f[j]]
  BY <1>4, <1>5, <1>9
<1> HIDE DEF f
<1>11. /\ \A i, j \in 1 .. c : i < j => f[i] < f[j]
       /\ \A i \in 1 .. n : Kept(s[i]) => \E j \in 1 .. c : f[j] = i
  BY <1>6, <1>7, <1>9
<1>12. c \in 0 .. n
  BY <1>2
<1> QED BY <1>8, <1>9, <1>10, <1>11, <1>12 DEF KeptInOrder

(* Hits that are some of the rows of S, nearest first.                     *)
Descending(h) ==
    \A i, j \in 1 .. Len(h) : i < j => similarity[h[j]] <= similarity[h[i]]

NoneNearer(h, S) ==
    \A e \in S \ ToSet(h) :
        similarity[e] >= knn.min =>
            /\ Len(h) = knn.limit
            /\ \A x \in ToSet(h) : similarity[x] >= similarity[e]

LEMMA HitsOfNearest ==
    ASSUME knn.limit \in Nat, knn.min \in Nat, similarity \in [Row -> Int],
           IsFiniteSet(Row),
           NEW S \in SUBSET Row, NEW s \in Nearest(S), NEW h \in Results(s)
    PROVE  h \in Seq(Row) /\ ToSet(h) \subseteq S /\ Descending(h) /\ NoneNearer(h, S)
<1>1. PICK n \in Nat : NearestFirst(s, n, S)
  BY NearestIsFirst
<1>2. /\ n \in 0 .. knn.limit
      /\ s \in [1 .. n -> S]
      /\ \A i, j \in 1 .. n : i < j => similarity[s[j]] <= similarity[s[i]]
      /\ \A x \in S : \/ \E i \in 1 .. n : s[i] = x
                      \/ n = knn.limit /\ \A i \in 1 .. n : similarity[x] <= similarity[s[i]]
  BY <1>1 DEF NearestFirst
<1>3. PICK m \in 0 .. n, f \in [1 .. n -> 1 .. n] :
              /\ h \in [1 .. m -> S]
              /\ \A j \in 1 .. m : h[j] = s[f[j]]
              /\ \A i, j \in 1 .. m : i < j => f[i] < f[j]
              /\ \A i \in 1 .. n : Kept(s[i]) => \E j \in 1 .. m : f[j] = i
              /\ (\A i \in 1 .. n : Kept(s[i])) => m = n
  <2>1. KeptInOrder(h, s, n, S)
    BY <1>2, ResultsAreKept
  <2> QED BY <2>1 DEF KeptInOrder
<1>4. m \in Nat /\ 1 .. m \subseteq 1 .. n
  BY <1>2
<1>5. h \in Seq(Row) /\ Len(h) = m /\ DOMAIN h = 1 .. m
  BY <1>3, <1>4
<1>6. ToSet(h) \subseteq S
  BY <1>3, <1>5 DEF ToSet
<1>7. Descending(h)
  <2> SUFFICES ASSUME NEW i \in 1 .. m, NEW j \in 1 .. m, i < j
               PROVE  similarity[h[j]] <= similarity[h[i]]
    BY <1>5 DEF Descending
  <2>1. f[i] \in 1 .. n /\ f[j] \in 1 .. n /\ f[i] < f[j]
    BY <1>3, <1>4
  <2> QED BY <1>2, <1>3, <2>1
<1>8. ASSUME NEW e \in S, e \notin ToSet(h), similarity[e] >= knn.min
      PROVE  /\ Len(h) = knn.limit
             /\ \A x \in ToSet(h) : similarity[x] >= similarity[e]
  <2>1. \A i \in 1 .. n : s[i] # e
    <3> SUFFICES ASSUME NEW i \in 1 .. n, s[i] = e
                 PROVE  FALSE
      OBVIOUS
    <3>1. Kept(e)
      BY <1>8 DEF Kept
    <3>2. PICK j \in 1 .. m : f[j] = i
      BY <1>3, <3>1
    <3>3. h[j] = e
      BY <1>3, <3>2
    <3> QED BY <1>5, <1>8, <3>3 DEF ToSet
  <2>2. n = knn.limit /\ \A i \in 1 .. n : similarity[e] <= similarity[s[i]]
    BY <1>2, <1>8, <2>1
  <2>3. similarity[e] \in Int /\ \A i \in 1 .. n : similarity[s[i]] \in Int
    BY <1>2
  <2>4. \A i \in 1 .. n : similarity[s[i]] >= knn.min
    BY <1>8, <2>2, <2>3
  <2>5. m = n
    BY <1>3, <2>4 DEF Kept
  <2>6. \A j \in 1 .. m : similarity[h[j]] >= similarity[e]
    BY <1>3, <1>4, <2>2, <2>3
  <2> QED BY <1>5, <2>2, <2>5, <2>6 DEF ToSet
<1> QED BY <1>5, <1>6, <1>7, <1>8 DEF NoneNearer

(* What a query leaves behind, in one stage or two.                        *)
LEMMA SearchFinds ==
    ASSUME knn.limit \in Nat, knn.min \in Nat, knn.factor \in Nat,
           similarity \in [Row -> Int], IsFiniteSet(Row),
           NEW S \in SUBSET Row, OneStage(S) \/ TwoStage(S),
           NEW h, h = hits'
    PROVE  /\ h \in Seq(Row) /\ ToSet(h) \subseteq S /\ Descending(h)
           /\ OneStage(S) \/ Cardinality(S) <= Oversample => NoneNearer(h, S)
<1>1. CASE OneStage(S)
  BY <1>1, HitsOfNearest DEF OneStage
<1>2. CASE TwoStage(S)
  <2>1. PICK C \in SUBSET S :
           /\ Cardinality(C) = Min({Oversample, Cardinality(S)})
           /\ \E s \in Nearest(Rescored(C)) : h \in Results(s)
    BY <1>2 DEF TwoStage
  <2>2. Rescored(C) \in SUBSET Row /\ Rescored(C) \subseteq S
    BY DEF Rescored
  <2>3. h \in Seq(Row) /\ ToSet(h) \subseteq S /\ Descending(h) /\ NoneNearer(h, Rescored(C))
    BY <2>1, <2>2, HitsOfNearest
  <2>4. ASSUME Cardinality(S) <= Oversample
        PROVE  NoneNearer(h, S)
    <3>1. IsFiniteSet(S) /\ Cardinality(S) \in Nat
      BY FS_Subset, FS_CardinalityType
    <3>2. Oversample \in Nat
      BY DEF Oversample
    <3>3. Cardinality(C) = Cardinality(S)
      BY <2>1, <2>4, <3>1, <3>2, MinOfTwo
    <3>4. C = S
      BY <3>1, <3>3, FS_Subset
    <3> QED BY <2>3, <3>4 DEF NoneNearer, Rescored
  <2>5. ~(Cardinality(S) <= Oversample) /\ OneStage(S) => NoneNearer(h, S)
    BY HitsOfNearest DEF OneStage
  <2> QED BY <2>3, <2>4, <2>5
<1> QED BY <1>1, <1>2

--------------------------------------------------------------------------------
(* The invariant: the hits are rows the query met, nearest first, and the  *)
(* reranking deals them out, one to `selected' per step.                   *)
HitsInv ==
    /\ RetrievalTypeOK
    /\ \A s \in {hits, selected, remaining} : s \in Seq(Row)
    /\ stage = "search" => hits = <<>>
    /\ stage # "reranked" => selected = <<>> /\ remaining = <<>>
    /\ Descending(hits)
    /\ NothingNearerMissed

RelevanceOrder ==
    stage = "reranked" /\ mmr.lambda = 2 =>
        /\ \A i \in 1 .. Len(selected) : selected[i] = hits[i]
        /\ \A i \in 1 .. Len(remaining) : remaining[i] = hits[Len(selected) + i]

DiversityOrder ==
    stage = "reranked" /\ mmr.lambda = 0 =>
        \A i \in 2 .. Len(selected), j \in 1 .. Len(selected) :
            j < i /\ Alike(selected[i], selected[j]) =>
                \A e \in ToSet(hits) : \E l \in 1 .. i - 1 :
                    e = selected[l] \/ Alike(e, selected[l])

ReRankInv == ReRankKeepsHits /\ RelevanceOrder /\ DiversityOrder

RetrievalInv == HitsInv /\ ReRankInv

LEMMA NumbersOfAQuery ==
    ASSUME RetrievalTypeOK
    PROVE  /\ knn.limit \in Nat /\ knn.min \in Nat /\ knn.factor \in Nat
           /\ similarity \in [Row -> Int]
           /\ IsFiniteSet(Row)
<1>1. knn.limit \in 0 .. MaxRows /\ knn.min \in 0 .. MaxSimilarity /\ knn.factor \in Factor
  BY DEF RetrievalTypeOK, KNN
<1>2. similarity \in [Row -> Int]
  BY RetrievalAssumption DEF RetrievalTypeOK, Similarity, NoMatch
<1>3. knn.limit \in Nat /\ knn.min \in Nat /\ knn.factor \in Nat
  <2>1. 0 .. MaxRows \subseteq Nat /\ 0 .. MaxSimilarity \subseteq Nat /\ Factor \subseteq Nat
    BY RetrievalAssumption
  <2> QED BY <1>1, <2>1, Zenon
<1>4. IsFiniteSet(Row)
  BY RetrievalAssumption
<1> QED BY <1>2, <1>3, <1>4

LEMMA NoKNNIsKNN == NoKNN \in KNN
<1>1. Min(Factor) \in Factor
  BY RetrievalAssumption, MinIsSmallest
<1>2. 0 \in 0 .. MaxRows /\ 0 \in 0 .. MaxSimilarity
  BY RetrievalAssumption
<1> DEFINE q == [source |-> NoRow, stored |-> FALSE, twoStage |-> FALSE,
                 factor |-> Min(Factor), limit |-> 0, min |-> 0]
<1>3. q \in KNN
  <2> HIDE DEF q
  <2>1. q = [source |-> NoRow, stored |-> FALSE, twoStage |-> FALSE,
             factor |-> Min(Factor), limit |-> 0, min |-> 0]
    BY DEF q
  <2> QED BY <1>1, <1>2, <2>1 DEF KNN
<1> QED BY <1>3 DEF NoKNN

LEMMA RetrievalStarts == RetrievalInit \/ NoRetrieval => RetrievalInv
<1> SUFFICES ASSUME RetrievalInit \/ NoRetrieval
             PROVE  RetrievalInv
  OBVIOUS
<1>1. /\ hits = <<>> /\ selected = <<>> /\ remaining = <<>> /\ met = {}
      /\ stage \in {"search", "found"}
      /\ mmr = NoMMR
  BY DEF RetrievalInit, NoRetrieval
<1>2. knn \in KNN /\ similarity \in [Row -> Similarity \cup {NoMatch}]
  BY NoKNNIsKNN DEF RetrievalInit, NoRetrieval
<1>3. NoMMR \in MMR
  BY RetrievalAssumption DEF NoMMR, MMR
<1>4. ToSet(<<>>) = {} /\ <<>> \in Seq(Row) /\ Len(<<>>) = 0
  BY DEF ToSet
<1>5. RetrievalTypeOK
  BY <1>1, <1>2, <1>3, <1>4 DEF RetrievalTypeOK
<1>6. Descending(hits) /\ NothingNearerMissed
  BY <1>1, <1>4 DEF Descending, NothingNearerMissed
<1>7. ReRankInv
  BY <1>1 DEF ReRankInv, ReRankKeepsHits, RelevanceOrder, DiversityOrder
<1> QED BY <1>1, <1>4, <1>5, <1>6, <1>7 DEF RetrievalInv, HitsInv

(* Whatever factor is given, stage 1 has room for twice the limit.         *)
LEMMA RoomForTwice ==
    ASSUME knn.limit \in Nat, knn.factor \in Nat
    PROVE  Oversample \in Nat /\ 2 * knn.limit <= Oversample
<1>1. CASE knn.factor <= 1
  BY <1>1 DEF Oversample
<1>2. CASE knn.factor > 1
  <2>1. knn.factor - 2 \in Nat /\ knn.factor = 2 + (knn.factor - 2)
    BY <1>2
  <2>2. \A l, d \in Nat : l * d \in Nat /\ l * (2 + d) = 2 * l + l * d
    OBVIOUS
  <2>3. Oversample = knn.limit * knn.factor
    BY <1>2 DEF Oversample
  <2> QED BY <2>1, <2>2, <2>3
<1> QED BY <1>1, <1>2

LEMMA AnswerKeepsHits ==
    ASSUME HitsInv, SemanticSearch \/ SimilarTo
    PROVE  HitsInv'
<1>1. /\ stage = "search" /\ stage' = "found"
      /\ UNCHANGED <<knn, similarity, mmr, selected, remaining>>
  BY DEF SemanticSearch, SimilarTo
<1>2. PICK S \in SUBSET Matching :
         /\ met' = S
         /\ OneStage(S) \/ TwoStage(S)
         /\ ~knn.twoStage => OneStage(S)
  <2>1. CASE SemanticSearch
    BY <2>1 DEF SemanticSearch, Search
  <2>2. CASE SimilarTo
    BY <2>2 DEF SimilarTo
  <2> QED BY <2>1, <2>2
<1>3. PICK h : h = hits'
  OBVIOUS
<1>4. S \in SUBSET Row
  BY DEF Matching
<1>5. /\ h \in Seq(Row) /\ ToSet(h) \subseteq S /\ Descending(h)
      /\ OneStage(S) \/ Cardinality(S) <= Oversample => NoneNearer(h, S)
  BY <1>2, <1>3, <1>4, NumbersOfAQuery, SearchFinds DEF HitsInv
<1>6. NothingNearerMissed'
  <2>1. Overflown' <=> knn.twoStage /\ Cardinality(S) > 2 * knn.limit
    BY <1>1, <1>2 DEF Overflown
  <2>2. Cardinality(S) \in Nat /\ knn.limit \in Nat /\ Oversample \in Nat
        /\ 2 * knn.limit <= Oversample
    BY <1>4, NumbersOfAQuery, FS_Subset, FS_CardinalityType, RoomForTwice DEF HitsInv
  <2>3. ~Overflown' => NoneNearer(h, S)
    BY <1>2, <1>5, <2>1, <2>2
  <2> QED BY <1>1, <1>2, <1>3, <2>3 DEF NothingNearerMissed, NoneNearer
<1>7. RetrievalTypeOK'
  <2>1. ToSet(<<>>) = {}
    BY DEF ToSet
  <2> QED BY <1>1, <1>2, <1>3, <1>4, <1>5, <2>1
        DEF HitsInv, RetrievalTypeOK, Matching
<1>8. Descending(hits)'
  BY <1>1, <1>3, <1>5 DEF Descending
<1> QED BY <1>1, <1>3, <1>5, <1>6, <1>7, <1>8 DEF HitsInv

LEMMA AnswerKeepsReRank ==
    ASSUME SemanticSearch \/ SimilarTo
    PROVE  ReRankInv'
  BY DEF SemanticSearch, SimilarTo, ReRankInv, ReRankKeepsHits, RelevanceOrder, DiversityOrder

(* ToSet by positions.                                                     *)
LEMMA InToSet ==
    ASSUME NEW S, NEW s \in Seq(S)
    PROVE  /\ \A i \in 1 .. Len(s) : s[i] \in ToSet(s) /\ s[i] \in S
           /\ \A x \in ToSet(s) : x \in S /\ \E i \in 1 .. Len(s) : s[i] = x
  BY LenProperties, ElementOfSeq DEF ToSet

LEMMA StartKeeps ==
    ASSUME HitsInv, MMRReRank
    PROVE  RetrievalInv'
<1>1. /\ hits \in Seq(Row) /\ hits # <<>> /\ Len(hits) \in Nat \ {0}
      /\ stage' = "reranked" /\ UNCHANGED hits
      /\ selected' = <<Head(hits)>> /\ remaining' = Tail(hits)
      /\ knn' = NoKNN /\ met' = {}
  BY EmptySeq DEF HitsInv, MMRReRank
<1>2. /\ Head(hits) = hits[1] /\ hits[1] \in Row /\ hits[1] \in ToSet(hits)
      /\ Tail(hits) \in Seq(Row) /\ Len(Tail(hits)) = Len(hits) - 1
      /\ \A i \in 1 .. Len(hits) - 1 : Tail(hits)[i] = hits[i + 1]
  BY <1>1, HeadTailProperties, InToSet
<1>3. /\ <<hits[1]>> \in Seq(Row) /\ Len(<<hits[1]>>) = 1 /\ <<hits[1]>>[1] = hits[1]
      /\ ToSet(<<hits[1]>>) = {hits[1]}
  BY <1>2 DEF ToSet
<1>4. ToSet(Tail(hits)) \subseteq ToSet(hits)
  <2> SUFFICES ASSUME NEW x \in ToSet(Tail(hits))
               PROVE  x \in ToSet(hits)
    OBVIOUS
  <2>1. PICK i \in 1 .. Len(hits) - 1 : Tail(hits)[i] = x
    <3>1. PICK q \in Seq(Row) : q = Tail(hits)
      BY <1>2
    <3>2. \E i \in 1 .. Len(q) : q[i] = x
      BY <3>1, InToSet
    <3> QED BY <1>2, <3>1, <3>2
  <2>2. i + 1 \in 1 .. Len(hits) /\ hits[i + 1] = x
    BY <1>1, <1>2, <2>1
  <2> QED BY <1>1, <2>2, InToSet
<1>5. ToSet(hits) \subseteq {hits[1]} \cup ToSet(Tail(hits))
  <2> SUFFICES ASSUME NEW x \in ToSet(hits), x # hits[1]
               PROVE  x \in ToSet(Tail(hits))
    OBVIOUS
  <2>1. PICK i \in 1 .. Len(hits) : hits[i] = x
    BY <1>1, InToSet
  <2>2. i - 1 \in 1 .. Len(hits) - 1 /\ Tail(hits)[i - 1] = x
    BY <1>1, <1>2, <2>1
  <2> QED BY <1>2, <2>2, InToSet
<1>6. ToSet(hits) \subseteq {e \in Row : similarity[e] # NoMatch}
  BY DEF HitsInv, RetrievalTypeOK
<1>7. \A e \in ToSet(hits) : similarity'[e] = similarity[e]
  BY <1>6 DEF MMRReRank
<1>8. similarity' \in [Row -> Similarity \cup {NoMatch}]
  BY DEF MMRReRank, HitsInv, RetrievalTypeOK
<1>9. mmr' \in MMR /\ mmr'.k \in 1 .. MaxRows + 1
  BY <1>6, RetrievalAssumption DEF MMRReRank, MMR, kSubset
<1>10. RetrievalTypeOK'
  <2>1. NoRow \notin Row
    BY RetrievalAssumption
  <2>2. ToSet(hits)' \subseteq {e \in Row : similarity'[e] # NoMatch} \ {NoRow}
    BY <1>1, <1>6, <1>7, <2>1
  <2>3. knn'.source = NoRow
    BY <1>1 DEF NoKNN
  <2> QED BY <1>1, <1>2, <1>3, <1>4, <1>8, <1>9, <2>2, <2>3, NoKNNIsKNN DEF RetrievalTypeOK
<1>11. Descending(hits)'
  <2> SUFFICES ASSUME NEW i \in 1 .. Len(hits), NEW j \in 1 .. Len(hits), i < j
               PROVE  similarity'[hits[j]] <= similarity'[hits[i]]
    BY <1>1 DEF Descending
  <2>1. hits[i] \in ToSet(hits) /\ hits[j] \in ToSet(hits)
    BY <1>1, InToSet
  <2> QED BY <1>7, <2>1 DEF HitsInv, Descending
<1>12. HitsInv'
  BY <1>1, <1>2, <1>3, <1>10, <1>11 DEF HitsInv, NothingNearerMissed
<1>13. ReRankKeepsHits'
  <2>1. Wanted' >= 1
    BY <1>1, <1>9, MinOfTwo DEF Wanted
  <2> QED BY <1>1, <1>2, <1>3, <1>4, <1>5, <2>1 DEF ReRankKeepsHits
<1>14. RelevanceOrder'
  BY <1>1, <1>2, <1>3 DEF RelevanceOrder
<1>15. DiversityOrder'
  BY <1>1, <1>2, <1>3 DEF DiversityOrder
<1> QED BY <1>12, <1>13, <1>14, <1>15 DEF RetrievalInv, ReRankInv

(* The next hit: the first of those that are left whose marginal relevance *)
(* is largest.                                                             *)
LEMMA RelevanceIsNumber ==
    ASSUME RetrievalTypeOK, NEW e \in Row
    PROVE  /\ MarginalRelevance(e) \in Int
           /\ MarginalRelevance(e) <= 2 * MaxSimilarity
           /\ mmr.lambda = 2 => MarginalRelevance(e) = 2 * similarity[e]
           /\ mmr.lambda = 0 => MarginalRelevance(e) = - (2 * Redundancy(e))
<1>1. Redundancy(e) \in {0, 1}
  BY DEF Redundancy
<1>2. similarity[e] \in Int /\ similarity[e] <= MaxSimilarity /\ MaxSimilarity \in Nat
  BY RetrievalAssumption DEF RetrievalTypeOK, Similarity, NoMatch
<1>3. mmr.lambda \in {0, 1, 2}
  BY DEF RetrievalTypeOK, MMR
<1>4. CASE mmr.lambda = 0
  BY <1>1, <1>2, <1>4 DEF MarginalRelevance
<1>5. CASE mmr.lambda = 1
  BY <1>1, <1>2, <1>5 DEF MarginalRelevance
<1>6. CASE mmr.lambda = 2
  BY <1>1, <1>2, <1>6 DEF MarginalRelevance
<1> QED BY <1>3, <1>4, <1>5, <1>6

LEMMA BestIsBest ==
    ASSUME HitsInv, remaining # <<>>
    PROVE  /\ Best \in 1 .. Len(remaining)
           /\ \A j \in 1 .. Len(remaining) :
                 MarginalRelevance(remaining[j]) <= MarginalRelevance(remaining[Best])
           /\ \A i \in 1 .. Len(remaining) :
                 (\A j \in 1 .. Len(remaining) :
                     MarginalRelevance(remaining[j]) <= MarginalRelevance(remaining[i]))
                 => Best <= i
<1>1. /\ remaining \in Seq(Row) /\ Len(remaining) \in Nat \ {0}
      /\ DOMAIN remaining = 1 .. Len(remaining)
      /\ \A i \in 1 .. Len(remaining) : remaining[i] \in Row
  BY EmptySeq, LenProperties, ElementOfSeq DEF HitsInv
<1> DEFINE n == Len(remaining)
           R(i) == MarginalRelevance(remaining[i])
           values == {R(i) : i \in 1 .. n}
<1>2. \A i \in 1 .. n : R(i) \in Int /\ R(i) <= 2 * MaxSimilarity
  BY <1>1, RelevanceIsNumber DEF HitsInv
<1> HIDE DEF R
<1>3. PICK m \in values : \A v \in values : v <= m
  <2>1. values \in SUBSET Int /\ \A v \in values : v <= 2 * MaxSimilarity
    BY <1>2
  <2>2. values # {} /\ 2 * MaxSimilarity \in Int
    BY <1>1, RetrievalAssumption
  <2> HIDE DEF values
  <2> QED BY <2>1, <2>2, LargestOfBounded
<1>4. PICK b \in 1 .. n : R(b) = m
  BY <1>3
<1>5. \A j \in 1 .. n : R(j) <= R(b)
  BY <1>3, <1>4
<1>6. BestIndices = {i \in 1 .. n : \A j \in 1 .. n : R(j) <= R(i)}
  BY <1>1 DEF BestIndices, R
<1>7. BestIndices \in SUBSET Nat /\ BestIndices # {}
  BY <1>1, <1>4, <1>5, <1>6
<1>8. Best \in BestIndices /\ \A i \in BestIndices : Best <= i
  BY <1>7, MinIsSmallest DEF Best
<1> QED BY <1>6, <1>8 DEF R

LEMMA SelectKeepsOrder ==
    ASSUME HitsInv, ReRankInv, SelectNext
    PROVE  RetrievalInv'
<1>1. /\ stage = "reranked" /\ UNCHANGED <<knn, similarity, met, hits, stage, mmr>>
      /\ Len(selected) < Wanted
      /\ remaining # <<>>
      /\ selected' = Append(selected, remaining[Best])
      /\ remaining' = RemoveAt(remaining, Best)
  BY DEF SelectNext, Others
<1>2. PICK b \in 1 .. Len(remaining) :
         /\ b = Best
         /\ \A j \in 1 .. Len(remaining) :
               MarginalRelevance(remaining[j]) <= MarginalRelevance(remaining[b])
         /\ \A i \in 1 .. Len(remaining) :
               (\A j \in 1 .. Len(remaining) :
                   MarginalRelevance(remaining[j]) <= MarginalRelevance(remaining[i]))
               => b <= i
  BY <1>1, BestIsBest
<1>3. PICK x \in Row : x = remaining[b]
  BY InToSet DEF HitsInv
<1>4. PICK s, r, h : s = selected /\ r = remaining /\ h = hits
  OBVIOUS
<1>5. /\ s \in Seq(Row) /\ r \in Seq(Row) /\ h \in Seq(Row)
      /\ Len(s) \in Nat /\ Len(r) \in Nat /\ Len(h) \in Nat
      /\ ToSet(s) \cup ToSet(r) = ToSet(h)
      /\ Len(s) + Len(r) = Len(h)
      /\ b \in 1 .. Len(r) /\ x = r[b] /\ x \in ToSet(r)
  BY <1>1, <1>2, <1>3, <1>4, LenProperties, InToSet DEF HitsInv, ReRankInv, ReRankKeepsHits
<1>6. PICK t, q :
         /\ t = Append(s, x) /\ t = selected'
         /\ q = RemoveAt(r, b) /\ q = remaining'
  BY <1>1, <1>2, <1>3, <1>4
<1>7. /\ t \in Seq(Row) /\ Len(t) = Len(s) + 1
      /\ \A i \in 1 .. Len(s) : t[i] = s[i]
      /\ t[Len(s) + 1] = x
  <2>1. /\ Append(s, x) \in Seq(Row)
        /\ Len(Append(s, x)) = Len(s) + 1
        /\ \A i \in 1 .. Len(s) : Append(s, x)[i] = s[i]
        /\ Append(s, x)[Len(s) + 1] = x
    BY <1>5, AppendProperties
  <2> QED BY <1>6, <2>1
<1>8. /\ q \in Seq(Row) /\ Len(q) = Len(r) - 1
      /\ \A j \in 1 .. Len(r) - 1 : q[j] = IF j < b THEN r[j] ELSE r[j + 1]
  BY <1>5, <1>6, ElementRemoved
<1>9. ToSet(t) = ToSet(s) \cup {x}
  <2>1. ASSUME NEW y \in ToSet(t)
        PROVE  y \in ToSet(s) \cup {x}
    <3>1. PICK i \in 1 .. Len(s) + 1 : t[i] = y
      BY <1>7, InToSet
    <3>2. i = Len(s) + 1 \/ i \in 1 .. Len(s)
      BY <1>5
    <3> QED BY <1>5, <1>7, <3>1, <3>2, InToSet
  <2>2. ASSUME NEW y \in ToSet(s)
        PROVE  y \in ToSet(t)
    <3>1. PICK i \in 1 .. Len(s) : s[i] = y
      BY <1>5, InToSet
    <3>2. i \in 1 .. Len(t) /\ t[i] = y
      BY <1>5, <1>7, <3>1
    <3> QED BY <1>7, <3>2, InToSet
  <2>3. x \in ToSet(t)
    <3>1. Len(s) + 1 \in 1 .. Len(t)
      BY <1>5, <1>7
    <3> QED BY <1>7, <3>1, InToSet
  <2> QED BY <2>1, <2>2, <2>3
<1>10. ToSet(q) \subseteq ToSet(r) /\ ToSet(r) \subseteq ToSet(q) \cup {x}
  <2>1. ASSUME NEW y \in ToSet(q)
        PROVE  y \in ToSet(r)
    <3>1. PICK j \in 1 .. Len(r) - 1 : q[j] = y
      <4>1. \E j \in 1 .. Len(q) : q[j] = y
        BY <1>8, InToSet
      <4> QED BY <1>8, <4>1
    <3>2. j \in 1 .. Len(r) /\ j + 1 \in 1 .. Len(r) /\ (y = r[j] \/ y = r[j + 1])
      BY <1>5, <1>8, <3>1
    <3> QED BY <1>5, <3>2, InToSet
  <2>2. ASSUME NEW y \in ToSet(r), y # x
        PROVE  y \in ToSet(q)
    <3>1. PICK i \in 1 .. Len(r) : r[i] = y
      BY <1>5, InToSet
    <3>2. i # b
      BY <1>5, <2>2, <3>1
    <3>3. CASE i < b
      <4>1. i \in 1 .. Len(q) /\ q[i] = y
        BY <1>5, <1>8, <3>1, <3>3
      <4> QED BY <1>8, <4>1, InToSet
    <3>4. CASE b < i
      <4>1. i - 1 \in 1 .. Len(q) /\ q[i - 1] = y
        BY <1>5, <1>8, <3>1, <3>4
      <4> QED BY <1>8, <4>1, InToSet
    <3> QED BY <1>5, <3>2, <3>3, <3>4
  <2> QED BY <2>1, <2>2
<1>11. HitsInv'
  <2>1. ToSet(t) \subseteq ToSet(h) /\ ToSet(q) \subseteq ToSet(h)
    BY <1>5, <1>9, <1>10
  <2>2. RetrievalTypeOK'
    BY <1>1, <1>4, <1>6, <2>1 DEF HitsInv, RetrievalTypeOK
  <2>3. Descending(hits)'
    BY <1>1 DEF HitsInv, Descending
  <2> QED BY <1>1, <1>4, <1>6, <1>7, <1>8, <2>2, <2>3 DEF HitsInv, NothingNearerMissed
<1>12. ReRankKeepsHits'
  <2>1. ToSet(t) \cup ToSet(q) = ToSet(h)
    BY <1>5, <1>9, <1>10
  <2>2. Len(t) + Len(q) = Len(h)
    <3>1. Len(s) \in Nat /\ Len(r) \in Nat /\ Len(s) + Len(r) = Len(h)
      BY <1>5
    <3>2. Len(t) = Len(s) + 1 /\ Len(q) = Len(r) - 1
      BY <1>7, <1>8
    <3> QED BY <3>1, <3>2
  <2>3. Wanted' = Wanted /\ Wanted \in Nat
    <3>1. mmr.k \in 0 .. MaxRows + 1 /\ MaxRows \in Nat
      BY RetrievalAssumption DEF HitsInv, RetrievalTypeOK, MMR
    <3>2. mmr.k \in Nat /\ Len(hits) \in Nat
      BY <1>4, <1>5, <3>1
    <3>3. Wanted \in Nat
      BY <3>2, MinOfTwo DEF Wanted
    <3> QED BY <1>1, <3>3 DEF Wanted
  <2>4. Len(t) <= Wanted
    BY <1>1, <1>4, <1>5, <1>7, <2>3
  <2> QED BY <1>1, <1>4, <1>6, <2>1, <2>2, <2>3, <2>4 DEF ReRankKeepsHits
<1>13. RelevanceOrder'
  <2> SUFFICES ASSUME mmr.lambda = 2
               PROVE  /\ \A i \in 1 .. Len(t) : t[i] = h[i]
                      /\ \A i \in 1 .. Len(q) : q[i] = h[Len(t) + i]
    BY <1>1, <1>4, <1>6 DEF RelevanceOrder
  <2>1. /\ \A i \in 1 .. Len(s) : s[i] = h[i]
        /\ \A i \in 1 .. Len(r) : r[i] = h[Len(s) + i]
    BY <1>1, <1>4 DEF ReRankInv, RelevanceOrder
  <2>2. \A i \in 1 .. Len(r) : /\ MarginalRelevance(r[i]) = 2 * similarity[r[i]]
                               /\ similarity[r[i]] \in Int
    BY <1>5, InToSet, RelevanceIsNumber, NumbersOfAQuery DEF HitsInv
  <2>3. \A j \in 1 .. Len(r) : similarity[r[j]] <= similarity[r[1]]
    <3> SUFFICES ASSUME NEW j \in 1 .. Len(r)
                 PROVE  similarity[r[j]] <= similarity[r[1]]
      OBVIOUS
    <3>1. CASE j = 1
      BY <1>5, <2>2, <3>1
    <3>2. CASE j # 1
      <4>1. /\ Len(s) + 1 \in 1 .. Len(h) /\ Len(s) + j \in 1 .. Len(h)
            /\ Len(s) + 1 < Len(s) + j /\ 1 \in 1 .. Len(r)
        BY <1>5, <3>2
      <4> QED BY <1>4, <2>1, <4>1 DEF HitsInv, Descending
    <3> QED BY <3>1, <3>2
  <2>4. b <= 1
    <3>1. 1 \in 1 .. Len(r)
      BY <1>5
    <3>2. \A j \in 1 .. Len(r) : MarginalRelevance(r[j]) <= MarginalRelevance(r[1])
      BY <2>2, <2>3, <3>1
    <3> QED BY <1>2, <1>4, <3>1, <3>2
  <2>5. b = 1 /\ x = h[Len(s) + 1]
    BY <1>5, <2>1, <2>4
  <2>6. \A i \in 1 .. Len(t) : t[i] = h[i]
    <3> TAKE i \in 1 .. Len(t)
    <3>1. i \in 1 .. Len(s) \/ i = Len(s) + 1
      BY <1>5, <1>7
    <3> QED BY <1>7, <2>1, <2>5, <3>1
  <2>7. \A i \in 1 .. Len(q) : q[i] = h[Len(t) + i]
    <3> TAKE i \in 1 .. Len(q)
    <3>1. q[i] = r[i + 1] /\ i + 1 \in 1 .. Len(r)
      BY <1>5, <1>8, <2>5
    <3>2. r[i + 1] = h[Len(s) + (i + 1)]
      BY <2>1, <3>1
    <3>3. Len(s) + (i + 1) = Len(t) + i
      BY <1>5, <1>7
    <3> QED BY <3>1, <3>2, <3>3
  <2> QED BY <2>6, <2>7
<1>14. DiversityOrder'
  <2>0. selected' = t /\ hits' = h /\ mmr' = mmr
    BY <1>1, <1>4, <1>6
  <2> SUFFICES ASSUME mmr.lambda = 0, NEW i \in 2 .. Len(t), NEW j \in 1 .. Len(t),
                      j < i, Alike(t[i], t[j]), NEW e \in ToSet(h)
               PROVE  \E l \in 1 .. i - 1 : e = t[l] \/ Alike(e, t[l])
    BY <2>0 DEF DiversityOrder, Alike
  <2>1. CASE i \in 1 .. Len(s)
    <3>1. \A l \in 1 .. i : t[l] = s[l] /\ l \in 1 .. Len(s)
      BY <1>5, <1>7, <2>1
    <3>2. i \in 2 .. Len(s) /\ j \in 1 .. Len(s) /\ j < i /\ Alike(s[i], s[j])
      BY <1>5, <1>7, <2>1, <3>1
    <3>3. \E l \in 1 .. i - 1 : e = s[l] \/ Alike(e, s[l])
      BY <1>1, <1>4, <3>2 DEF ReRankInv, DiversityOrder
    <3>4. 1 .. i - 1 \subseteq 1 .. i
      BY <2>1
    <3> QED BY <3>1, <3>3, <3>4
  <2>2. CASE i = Len(s) + 1
    <3>1. /\ t[i] = x
          /\ \A l \in 1 .. Len(s) : t[l] = s[l] /\ s[l] \in ToSet(s) /\ l \in 1 .. i - 1
      BY <1>5, <1>7, <2>2, InToSet
    <3>2. CASE e \in ToSet(s)
      <4>1. PICK k \in 1 .. Len(s) : s[k] = e
        BY <1>5, <3>2, InToSet
      <4> QED BY <3>1, <4>1
    <3>3. CASE e \notin ToSet(s)
      <4>1. PICK l \in 1 .. Len(r) : r[l] = e
        BY <1>5, <3>3, InToSet
      <4>2. j \in 1 .. Len(s)
        BY <1>5, <2>2
      <4>3. Redundancy(x) = 1
        BY <1>4, <3>1, <4>2 DEF Redundancy
      <4>4. MarginalRelevance(e) <= MarginalRelevance(x)
        BY <1>2, <1>4, <1>5, <4>1
      <4>5. /\ MarginalRelevance(e) = - (2 * Redundancy(e))
            /\ MarginalRelevance(x) = - (2 * Redundancy(x))
        BY <1>5, <4>1, InToSet, RelevanceIsNumber DEF HitsInv
      <4>6. Redundancy(e) \in {0, 1}
        BY DEF Redundancy
      <4>7. Redundancy(e) = 1
        BY <4>3, <4>4, <4>5, <4>6
      <4>8. PICK y \in ToSet(s) : Alike(e, y)
        BY <1>4, <4>7 DEF Redundancy
      <4>9. PICK k \in 1 .. Len(s) : s[k] = y
        BY <1>5, InToSet
      <4> QED BY <3>1, <4>8, <4>9
    <3> QED BY <3>2, <3>3
  <2>3. i \in 1 .. Len(s) \/ i = Len(s) + 1
    BY <1>5, <1>7
  <2> QED BY <2>1, <2>2, <2>3
<1> QED BY <1>11, <1>12, <1>13, <1>14 DEF RetrievalInv, ReRankInv

LEMMA SearchOnlyOfHits ==
    ASSUME RetrievalInv, UNCHANGED retrievalVars
    PROVE  RetrievalInv'
<1>1. UNCHANGED <<knn, similarity, met, hits, stage, mmr, selected, remaining>>
  BY DEF retrievalVars
<1>2. RetrievalTypeOK' /\ Descending(hits)'
  BY <1>1 DEF RetrievalInv, HitsInv, RetrievalTypeOK, Descending
<1>3. NothingNearerMissed'
  BY <1>1 DEF RetrievalInv, HitsInv, NothingNearerMissed, Overflown
<1>4. ReRankKeepsHits' /\ RelevanceOrder'
  BY <1>1 DEF RetrievalInv, ReRankInv, ReRankKeepsHits, Wanted, RelevanceOrder
<1>5. DiversityOrder'
  BY <1>1 DEF RetrievalInv, ReRankInv, DiversityOrder, Alike
<1> QED BY <1>1, <1>2, <1>3, <1>4, <1>5 DEF RetrievalInv, HitsInv, ReRankInv

LEMMA RetrievalInvariant == APISpec => []RetrievalInv
<1>1. APIInit => RetrievalInv
  BY RetrievalStarts DEF APIInit
<1>2. RetrievalInv /\ [APINext]_apiVars => RetrievalInv'
  <2> SUFFICES ASSUME RetrievalInv, [APINext]_apiVars
               PROVE  RetrievalInv'
    OBVIOUS
  <2>1. CASE SemanticSearch \/ SimilarTo
    BY <2>1, AnswerKeepsHits, AnswerKeepsReRank DEF RetrievalInv
  <2>2. CASE MMRReRank
    BY <2>2, StartKeeps DEF RetrievalInv
  <2>3. CASE SelectNext
    BY <2>3, SelectKeepsOrder DEF RetrievalInv
  <2>4. CASE UNCHANGED retrievalVars
    BY <2>4, SearchOnlyOfHits
  <2> QED BY <2>1, <2>2, <2>3, <2>4 DEF APINext, RetrievalNext, apiVars
<1> QED BY <1>1, <1>2, PTL DEF APISpec

(* Whatever a scan meets and however hits are reranked: what comes out are *)
(* rows that match the query, never the row SimilarTo started from.        *)
THEOREM RetrievalTypeCorrect == APISpec => []RetrievalTypeOK
<1>1. RetrievalInv => RetrievalTypeOK
  BY DEF RetrievalInv, HitsInv
<1> QED BY <1>1, RetrievalInvariant, PTL

(* Whatever the rows, the limit, the threshold and the oversampling are: a *)
(* row the scan met that passes the threshold is in the result unless the  *)
(* result is full of rows at least as near, or stage 1 overflowed.  LIMIT  *)
(* before the threshold (src/search/search.go) costs nothing, because the  *)
(* rows it cuts off are the farthest.                                      *)
THEOREM NearestAreFound == APISpec => []NothingNearerMissed
<1>1. RetrievalInv => NothingNearerMissed
  BY DEF RetrievalInv, HitsInv
<1> QED BY <1>1, RetrievalInvariant, PTL

(* MMRReRank (src/search/mmr.go) neither loses nor repeats a hit and stops *)
(* at k, for hits and similarities of any number.                          *)
THEOREM NoHitLostInReRank == APISpec => []ReRankKeepsHits
<1>1. RetrievalInv => ReRankKeepsHits
  BY DEF RetrievalInv, ReRankInv
<1> QED BY <1>1, RetrievalInvariant, PTL

(* With lambda 1 the reranking is the ranking, ties included.              *)
THEOREM RelevanceKeepsOrder == APISpec => []RelevanceAlone
<1>1. ASSUME RetrievalInv, stage = "reranked", mmr.lambda = 2
      PROVE  IsPrefix(selected, hits)
  <2>1. /\ selected \in Seq(Row) /\ hits \in Seq(Row) /\ remaining \in Seq(Row)
        /\ Len(selected) \in Nat /\ Len(hits) \in Nat /\ Len(remaining) \in Nat
    BY <1>1, LenProperties DEF RetrievalInv, HitsInv
  <2>2. Len(selected) <= Len(hits)
    BY <1>1, <2>1 DEF RetrievalInv, ReRankInv, ReRankKeepsHits
  <2>3. \A i \in 1 .. Len(selected) :
           /\ selected[i] = hits[i]
           /\ selected[i] \in Row
           /\ hits[i] \in Row
    BY <1>1, <2>1, InToSet DEF RetrievalInv, ReRankInv, RelevanceOrder
  <2> DEFINE a == SubSeq(selected, 1, Len(selected))
             b == SubSeq(hits, 1, Len(selected))
  <2>4. /\ a \in Seq(Row)
        /\ Len(a) = IF 1 <= Len(selected) THEN Len(selected) - 1 + 1 ELSE 0
        /\ \A i \in 1 .. Len(selected) - 1 + 1 : a[i] = selected[1 + i - 1]
    BY <2>1, <2>3, SubSeqProperties
  <2>5. /\ b \in Seq(Row)
        /\ Len(b) = IF 1 <= Len(selected) THEN Len(selected) - 1 + 1 ELSE 0
        /\ \A i \in 1 .. Len(selected) - 1 + 1 : b[i] = hits[1 + i - 1]
    BY <2>1, <2>3, SubSeqProperties
  <2> HIDE DEF a, b
  <2>6. Len(a) = Len(b) /\ \A i \in 1 .. Len(a) : a[i] = b[i]
    <3>1. Len(a) = Len(selected) /\ Len(b) = Len(selected)
      BY <2>1, <2>4, <2>5
    <3>2. ASSUME NEW i \in 1 .. Len(selected)
          PROVE  a[i] = b[i]
      <4>1. i \in 1 .. Len(selected) - 1 + 1 /\ 1 + i - 1 = i
        BY <2>1
      <4>2. a[i] = selected[i] /\ b[i] = hits[i]
        BY <2>4, <2>5, <4>1
      <4> QED BY <2>3, <4>2
    <3> QED BY <3>1, <3>2
  <2>7. a = b
    BY <2>4, <2>5, <2>6, SeqEqual
  <2> QED BY <2>2, <2>7 DEF IsPrefix, a, b
<1>2. RetrievalInv => RelevanceAlone
  BY <1>1 DEF RelevanceAlone
<1> QED BY <1>2, RetrievalInvariant, PTL

(* With lambda 0 a hit like one already taken is taken only when all that  *)
(* are left are like one.                                                  *)
THEOREM DiversityComesFirst == APISpec => []DiversityAlone
<1>1. RetrievalInv => DiversityAlone
  <2> SUFFICES ASSUME RetrievalInv, stage = "reranked", mmr.lambda = 0,
                      NEW i \in 2 .. Len(selected), NEW j \in 1 .. i - 1,
                      Alike(selected[i], selected[j]), NEW e \in ToSet(hits),
                      e \notin {selected[l] : l \in 1 .. i - 1}
               PROVE  \E s \in {selected[l] : l \in 1 .. i - 1} : Alike(e, s)
    BY DEF DiversityAlone
  <2>1. Len(selected) \in Nat
    BY LenProperties DEF RetrievalInv, HitsInv
  <2>2. j \in 1 .. Len(selected) /\ j < i
    BY <2>1
  <2>3. PICK l \in 1 .. i - 1 : e = selected[l] \/ Alike(e, selected[l])
    BY <2>2 DEF RetrievalInv, ReRankInv, DiversityOrder
  <2> QED BY <2>3
<1> QED BY <1>1, RetrievalInvariant, PTL
================================================================================
