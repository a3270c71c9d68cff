-------------------------------- MODULE SearchAPI --------------------------------
(***************************************************************************)
(* What a host can call: Search or Typeahead of the client (HybridSearch), *)
(* or the vector queries and MMRReRank beneath them (Retrieval), and the   *)
(* metrics it evaluates the hits with (src/eval/metrics.go).               *)
(***************************************************************************)
EXTENDS HybridSearch, Retrieval

apiVars == <<searchVars, retrievalVars>>

NoSearch ==
    /\ request = CHOOSE r \in Request : TRUE
    /\ plan = <<>>
    /\ answers = <<>>
    /\ status = "done"
    /\ result = <<>>

NoRetrieval ==
    /\ knn = NoKNN
    /\ similarity = [e \in Row |-> NoMatch]
    /\ met = {}
    /\ hits = <<>>
    /\ stage = "found"
    /\ mmr = NoMMR
    /\ selected = <<>>
    /\ remaining = <<>>

APIInit ==
    \/ SearchInit /\ NoRetrieval
    \/ RetrievalInit /\ NoSearch

APINext ==
    \/ SearchNext /\ UNCHANGED retrievalVars
    \/ RetrievalNext /\ UNCHANGED searchVars

APISpec == APIInit /\ [][APINext]_apiVars

--------------------------------------------------------------------------------
(* The metrics, of a list of entities against the expected ones.           *)

(* RecallAtK, as the number of expected entities found.                    *)
RecallAtK_TooFar(got, expected, k) ==
    Cardinality({i \in DOMAIN got : i <= k + 1 /\ got[i] \in expected})

RecallAtK(got, expected, k) ==
    Cardinality({i \in DOMAIN got : i <= k /\ got[i] \in expected})

(* MRR, as the rank whose reciprocal it is; 0 if nothing was found.        *)
MRR(got, expected) ==
    LET found == {i \in DOMAIN got : got[i] \in expected} IN
    IF found = {} THEN 0 ELSE Min(found)

--------------------------------------------------------------------------------
(* Properties.                                                             *)

(* The two metrics agree on what a search returned, and no recall exceeds  *)
(* 1: an entity counts once, in a search of one language.                  *)
MetricsAgree ==
    Len(Languages(request)) = 1 =>
        LET got == [i \in DOMAIN result |-> result[i].doc[1]] IN
        \A expected \in (SUBSET Entity) \ {{}} :
            /\ RecallAtK(got, expected, Len(got)) <= Cardinality(expected)
            /\ \A k \in 0 .. Len(got) :
                  RecallAtK(got, expected, k) > 0
                      <=> MRR(got, expected) \in 1 .. k
================================================================================
