-------------------------------- MODULE Retrieval --------------------------------
(***************************************************************************)
(* One call of SemanticSearch or SimilarTo (src/search/search.go) over     *)
(* embedding_vectors, and the diversity reranking of its hits              *)
(* (MMRReRank, src/search/mmr.go).                                         *)
(*                                                                         *)
(* Cosine similarities are small integers, negative ones included; what    *)
(* binary quantization does to the order of the rows is left open.  An     *)
(* HNSW index scan meets some of the matching rows, perhaps all.           *)
(***************************************************************************)
EXTENDS Integers, FiniteSetsExt, SequencesExt, Ordering

CONSTANTS
    Row,            \* rows of the model and language, one per entity
    NoRow,
    MaxSimilarity,  \* bound: a similarity is -1 .. MaxSimilarity
    MaxRows,        \* bound: Query.Limit
    Factor          \* values of Options.OversampleFactor

ASSUME RetrievalAssumption ==
    /\ NoRow \notin Row
    /\ IsFiniteSet(Row)
    /\ MaxSimilarity \in Nat \ {0}
    /\ MaxRows \in Nat \ {0}
    /\ Factor \subseteq Nat
    /\ Factor # {}

(* A Query, or the arguments of SimilarTo: then the vector is the stored   *)
(* one of `source', if there is one.                                       *)
KNN == [source : Row \cup {NoRow}, stored : BOOLEAN, twoStage : BOOLEAN,
        factor : Factor, limit : 0 .. MaxRows, min : 0 .. MaxSimilarity]

NoMatch == -2       \* no vector, or rejected by the WHERE clause

VARIABLES
    knn,            \* the arguments
    similarity,     \* row -> similarity to the query vector, or NoMatch
    met,            \* rows the scan met
    hits,           \* the result: rows, best first
    stage,          \* "search", "found", "reranked"
    mmr,            \* the reranking: [k, lambda (of 2), alike]
    selected,       \* hits taken so far
    remaining       \* hits still to choose from

retrievalVars == <<knn, similarity, met, hits, stage, mmr, selected, remaining>>

Similarity == -1 .. MaxSimilarity

MMR == [k : 0 .. MaxRows + 1, lambda : 0 .. 2, alike : SUBSET SUBSET Row]

RetrievalTypeOK ==
    /\ knn \in KNN
    /\ similarity \in [Row -> Similarity \cup {NoMatch}]
    /\ met \subseteq Row
    /\ stage \in {"search", "found", "reranked"}
    /\ mmr \in MMR
    /\ ToSet(hits) \subseteq {e \in Row : similarity[e] # NoMatch} \ {knn.source}
    /\ \A s \in {selected, remaining} : ToSet(s) \subseteq ToSet(hits)

NoKNN == [source |-> NoRow, stored |-> FALSE, twoStage |-> FALSE,
          factor |-> Min(Factor), limit |-> 0, min |-> 0]

NoMMR == [k |-> 0, lambda |-> 0, alike |-> {}]

RetrievalInit ==
    /\ knn \in KNN
    /\ knn.source # NoRow => ~knn.twoStage
    /\ knn.source = NoRow => ~knn.stored
    /\ ~knn.twoStage => knn.factor = Min(Factor)
    /\ similarity \in [Row -> Similarity \cup {NoMatch}]
    /\ met = {}
    /\ hits = <<>>
    /\ stage = "search"
    /\ mmr = NoMMR
    /\ selected = <<>>
    /\ remaining = <<>>

--------------------------------------------------------------------------------
(* The rows a statement may return; SimilarTo leaves out its source.      *)
Matching_WithSource == {e \in Row : similarity[e] # NoMatch}

Matching == {e \in Row \ {knn.source} : similarity[e] # NoMatch}

Nearer_Farther(a, b) == similarity[a] < similarity[b]

Nearer(a, b) == similarity[a] > similarity[b]

Nearest(S) == FirstBy(S, knn.limit, Nearer)

(* The check of the result loop: a threshold of 0 is no threshold.         *)
Kept(e) == knn.min > 0 => similarity[e] >= knn.min

(* The rows of s that pass, in the order in which they came.               *)
Results(s) ==
    {[j \in DOMAIN f |-> s[f[j]]] :
        f \in FirstBy({i \in DOMAIN s : Kept(s[i])}, Len(s), <)}

OneStage(S) == \E s \in Nearest(S) : hits' \in Results(s)

(* Stage 1 takes the candidates nearest in Hamming distance, stage 2 those *)
(* at or above the threshold, be it 0, nearest first.                      *)
Oversample_AsGiven == knn.limit * knn.factor

Oversample == knn.limit * (IF knn.factor <= 1 THEN 5 ELSE knn.factor)

Rescored(S) == {e \in S : similarity[e] >= knn.min}

TwoStage(S) ==
    \E C \in SUBSET S :
        /\ Cardinality(C) = Min({Oversample, Cardinality(S)})
        /\ \E s \in Nearest(Rescored(C)) : hits' \in Results(s)

Search(S) == IF knn.twoStage THEN TwoStage(S) ELSE OneStage(S)

SemanticSearch ==
    /\ stage = "search"
    /\ knn.source = NoRow
    /\ met' \in SUBSET Matching
    /\ Search(met')
    /\ stage' = "found"
    /\ UNCHANGED <<knn, similarity, mmr, selected, remaining>>

(* The order is by a column of a join, which no index serves: all rows are *)
(* met.  Without a stored vector the join is empty.                        *)
SimilarTo ==
    /\ stage = "search"
    /\ knn.source # NoRow
    /\ met' = IF knn.stored THEN Matching ELSE {}
    /\ OneStage(met')
    /\ stage' = "found"
    /\ UNCHANGED <<knn, similarity, mmr, selected, remaining>>

--------------------------------------------------------------------------------
(* MMRReRank.  The host's candidateSim is 1 for hits that are alike, else  *)
(* 0; the first hit is always taken.  The hits are all that is left of the *)
(* query.                                                                  *)
MMRReRank ==
    /\ stage = "found"
    /\ hits # <<>>
    /\ mmr' \in [k : 1 .. MaxRows + 1, lambda : 0 .. 2,
                 alike : SUBSET kSubset(2, ToSet(hits))]
    /\ selected' = <<Head(hits)>>
    /\ remaining' = Tail(hits)
    /\ stage' = "reranked"
    /\ knn' = NoKNN
    /\ met' = {}
    /\ similarity' = [e \in Row |-> IF e \in ToSet(hits) THEN similarity[e] ELSE NoMatch]
    /\ UNCHANGED hits

Alike(a, b) == {a, b} \in mmr.alike

Redundancy_Latest(e) == IF Alike(e, Last(selected)) THEN 1 ELSE 0

Redundancy(e) == IF \E s \in ToSet(selected) : Alike(e, s) THEN 1 ELSE 0

MarginalRelevance(e) ==
    mmr.lambda * similarity[e] - (2 - mmr.lambda) * Redundancy(e)

(* The first of the best.                                                  *)
BestIndices ==
    {i \in DOMAIN remaining : \A j \in DOMAIN remaining :
        MarginalRelevance(remaining[j]) <= MarginalRelevance(remaining[i])}

Best_Latest == Max(BestIndices)

Best == Min(BestIndices)

Others_Truncated(i) == SubSeq(remaining, i + 1, Len(remaining))

Others(i) == RemoveAt(remaining, i)

Wanted == Min({mmr.k, Len(hits)})

SelectNext ==
    /\ stage = "reranked"
    /\ Len(selected) < Wanted
    /\ remaining # <<>>
    /\ selected' = Append(selected, remaining[Best])
    /\ remaining' = Others(Best)
    /\ UNCHANGED <<knn, similarity, met, hits, stage, mmr>>

RetrievalNext == SemanticSearch \/ SimilarTo \/ MMRReRank \/ SelectNext

RetrievalSpec == RetrievalInit /\ [][RetrievalNext]_retrievalVars

--------------------------------------------------------------------------------
(* Properties.                                                             *)

(* Of the rows the scan met, none that passes the threshold is missing     *)
(* while a less similar one is shown or a place is free, although one      *)
(* stage applies the threshold after LIMIT; two stages lose a row only to  *)
(* stage 1, and only when there are more rows than twice the limit,        *)
(* whatever OversampleFactor was given, 0 and 1 included.                  *)
Overflown == knn.twoStage /\ Cardinality(met) > 2 * knn.limit

NothingNearerMissed ==
    stage = "found" /\ ~Overflown =>
        \A e \in met \ ToSet(hits) :
            similarity[e] >= knn.min =>
                /\ Len(hits) = knn.limit
                /\ \A h \in ToSet(hits) : similarity[h] >= similarity[e]

(* Reranking neither loses nor repeats a hit, and stops at k hits.         *)
ReRankKeepsHits ==
    stage = "reranked" =>
        /\ ToSet(selected) \cup ToSet(remaining) = ToSet(hits)
        /\ Len(selected) + Len(remaining) = Len(hits)
        /\ Len(selected) <= Wanted

(* "Higher means more relevance, less diversity": lambda 1 keeps the order *)
(* of the hits, equal ones included.                                       *)
RelevanceAlone ==
    stage = "reranked" /\ mmr.lambda = 2 => IsPrefix(selected, hits)

(* Lambda 0: a hit like one already selected is taken only when every hit  *)
(* left was like one of those.                                             *)
DiversityAlone ==
    stage = "reranked" /\ mmr.lambda = 0 =>
        \A i \in 2 .. Len(selected) :
            LET before == {selected[j] : j \in 1 .. i - 1}
                Repeats(e) == \E s \in before : Alike(e, s) IN
            Repeats(selected[i]) => \A e \in ToSet(hits) \ before : Repeats(e)
================================================================================
