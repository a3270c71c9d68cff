------------------------------ MODULE HybridSearch ------------------------------
(***************************************************************************)
(* One call of Client.Search or Client.Typeahead (src/client.go): which    *)
(* backends are asked in which language, what is done with their answers,  *)
(* and the ranking that comes out (FuseRRF, src/search/rrf.go).            *)
(*                                                                         *)
(* A backend is one SQL query over tables that change meanwhile: it may    *)
(* answer anything.  Scores are exact fractions of Scale; float32 rounding *)
(* is left out.                                                            *)
(***************************************************************************)
EXTENDS Integers, FiniteSetsExt, SequencesExt, Ordering

CONSTANTS
    Entity,     \* (entity_type, entity_id) pairs, numbered in string order
    Language,   \* language codes, numbered in string order
    English,
    CJK,        \* the languages isCJKLanguage knows
    Limit,
    RRFK,
    MaxScore,   \* bound: a typeahead score is 1 .. MaxScore
    Filter      \* FilterSQL, by the alias it names: "none", "sd", "ev"

ASSUME HybridSearchAssumption ==
    /\ Entity \subseteq Nat
    /\ IsFiniteSet(Entity)
    /\ Language \subseteq Nat
    /\ English \in Language
    /\ CJK \subseteq Language \ {English}
    /\ Limit \in Nat \ {0}
    /\ RRFK \in Nat \ {0}
    /\ MaxScore \in Nat \ {0}
    /\ Filter \subseteq {"none", "sd", "ev"}
    /\ Filter # {}

Request == [kind : {"search", "typeahead"}, mode : {"lexical", "semantic", "dual"},
            fallback : BOOLEAN, language : Language, ascii : BOOLEAN, cjk : BOOLEAN,
            filter : Filter]

Doc == Entity \X Language

VARIABLES
    request,    \* options, and the scripts found in the query
    plan,       \* the steps left: [backend, language]
    answers,    \* answers so far: document -> rank (Search) or score (Typeahead)
    status,     \* "running", "done", "failed"
    result      \* sequence of [doc, score]

searchVars == <<request, plan, answers, status, result>>

SearchTypeOK ==
    /\ request \in Request
    /\ \A i \in DOMAIN answers : DOMAIN answers[i] \subseteq Doc
    /\ status \in {"running", "done", "failed"}
    /\ \A i \in DOMAIN result : result[i].doc \in Doc /\ result[i].score \in Nat

--------------------------------------------------------------------------------
(* resolveLanguageModes and lexicalRouting.                                *)
Languages_Unknown(r) == <<r.language, 0>>

Languages(r) ==
    IF r.fallback /\ r.language # English THEN <<r.language, English>>
    ELSE <<r.language>>

Route(r, lang) ==
    IF lang \notin CJK
    THEN IF r.kind = "typeahead" THEN <<"trigram">> ELSE <<"fts">>
    ELSE (IF r.ascii THEN <<"trigram">> ELSE <<>>)
             \o (IF r.cjk THEN <<"pgroonga">> ELSE <<>>)

Ask(backends, lang) ==
    [i \in DOMAIN backends |-> [backend |-> backends[i], language |-> lang]]

LexicalPlan(r) ==
    FlattenSeq([i \in DOMAIN Languages(r) |->
                   Ask(Route(r, Languages(r)[i]), Languages(r)[i])])

SemanticPlan(r) ==
    Ask(<<"embed">>, r.language) \o
        FlattenSeq([i \in DOMAIN Languages(r) |->
                       Ask(<<"semantic">>, Languages(r)[i])])

Plan(r) ==
    IF r.kind = "typeahead" \/ r.mode = "lexical" THEN LexicalPlan(r)
    ELSE IF r.mode = "semantic" THEN SemanticPlan(r)
    ELSE LexicalPlan(r) \o SemanticPlan(r)

SearchInit ==
    /\ request \in Request
    /\ request.kind = "typeahead" => request.mode = "lexical"
    /\ plan = Plan(request)
    /\ answers = <<>>
    /\ status = "running"
    /\ result = <<>>

--------------------------------------------------------------------------------
(* FuseRRF.  A document is keyed by type, id and language; every list adds *)
(* its share, 1 / (k + rank).                                              *)

Scale == ProductSet({RRFK + rank : rank \in 1 .. Limit})

Found == UNION {DOMAIN answers[i] : i \in DOMAIN answers}

ListsOf(d) == {i \in DOMAIN answers : d \in DOMAIN answers[i]}

Share(rank) == Scale \div (RRFK + rank)

Fused_SumsRanks(d) == Share(MapThenSumSet(LAMBDA i : answers[i][d], ListsOf(d)))

Fused(d) == MapThenSumSet(LAMBDA i : Share(answers[i][d]), ListsOf(d))

(* Typeahead keeps the best score of a document.                           *)
Merged_LastWins(d) == answers[Max(ListsOf(d))][d]

Merged(d) == Max({answers[i][d] : i \in ListsOf(d)})

Score(d) == IF request.kind = "search" THEN Fused(d) ELSE Merged(d)

(* Search orders by score, then entity; Typeahead goes on to language.     *)
RRFBefore(a, b) == Score(a) > Score(b) \/ (Score(a) = Score(b) /\ a[1] < b[1])

Before_ScoreOnly(a, b) == Score(a) > Score(b)

Before(a, b) ==
    \/ RRFBefore(a, b)
    \/ Score(a) = Score(b) /\ a[1] = b[1] /\ request.kind = "typeahead" /\ a[2] < b[2]

(* The hits come out of a map, the sort is not stable and the rest is cut  *)
(* off: any hits in any order that the comparison allows.                  *)
Rankings == FirstBy(Found, Limit, Before)

--------------------------------------------------------------------------------
(* A list of at most Limit documents of the language, ranked or scored.    *)
Answerable(lang) ==
    LET picks == {S \in SUBSET (Entity \X {lang}) : Cardinality(S) <= Limit} IN
    UNION {IF request.kind = "typeahead" THEN [S -> 1 .. MaxScore]
           ELSE {f \in [S -> 1 .. Cardinality(S)] :
                    \A a, b \in S : a # b => f[a] # f[b]} : S \in picks}

(* The WHERE clause takes FilterSQL as it is: the lexical queries call      *)
(* their table sd, the semantic query calls its own ev.                    *)
Resolves(backend) ==
    \/ request.filter = "none"
    \/ request.filter = "ev" <=> backend = "semantic"

Running(backends) ==
    /\ status = "running"
    /\ plan # <<>>
    /\ Head(plan).backend \in backends

Query ==
    /\ Running({"fts", "plain fts", "trigram", "pgroonga", "semantic"})
    /\ Resolves(Head(plan).backend)
    /\ \E f \in Answerable(Head(plan).language) : answers' = Append(answers, f)
    /\ plan' = Tail(plan)
    /\ UNCHANGED <<request, status, result>>

(* Any error of websearch_to_tsquery, and plainto_tsquery is tried.        *)
FTSFallsBack ==
    /\ Running({"fts"})
    /\ plan' = Ask(<<"plain fts">>, Head(plan).language) \o Tail(plan)
    /\ UNCHANGED <<request, answers, status, result>>

(* EmbedQueryText; an empty vector ends the search without a hit, whatever *)
(* the lexical backends found.                                             *)
EmbedQuery ==
    /\ Running({"embed"})
    /\ plan' = Tail(plan)
    /\ \/ UNCHANGED status
       \/ status' = "done"
    /\ UNCHANGED <<request, answers, result>>

(* The first error of any other step is the call's.                        *)
QueryFails ==
    /\ Running({"plain fts", "trigram", "pgroonga", "semantic", "embed"})
    /\ status' = "failed"
    /\ UNCHANGED <<request, plan, answers, result>>

Rank ==
    /\ status = "running"
    /\ plan = <<>>
    /\ status' = "done"
    /\ \E s \in Rankings :
          result' = [i \in DOMAIN s |-> [doc |-> s[i], score |-> Score(s[i])]]
    /\ UNCHANGED <<request, plan, answers>>

SearchNext == Query \/ FTSFallsBack \/ EmbedQuery \/ QueryFails \/ Rank

SearchSpec == SearchInit /\ [][SearchNext]_searchVars

--------------------------------------------------------------------------------
(* Properties.                                                             *)

Ranked == status = "done" /\ plan = <<>>

ResultDocs == {result[i].doc : i \in DOMAIN result}

(* The same answers always give the same ranking ("merge deterministically"*)
(* of README.md) within one language, and in Typeahead in any: no two hits *)
(* are left to the order of a map.                                         *)
RankingDetermined ==
    plan = <<>> /\ (request.kind = "typeahead" \/ Len(Languages(request)) = 1)
        => Cardinality(Rankings) = 1

(* Fusion respects agreement: a document every list of another document    *)
(* also has, and ranks higher, comes before it and is not cut off first.   *)
Dominates(a, b) ==
    /\ ListsOf(b) # {}
    /\ \A i \in ListsOf(b) : i \in ListsOf(a) /\ answers[i][a] < answers[i][b]

AgreementKept ==
    Ranked /\ request.kind = "search" =>
        \A a \in Found : \A j \in DOMAIN result :
            Dominates(a, result[j].doc) => \E i \in 1 .. j - 1 : result[i].doc = a

(* In Typeahead what is left out scored no higher in any backend than what *)
(* is shown scored in one: the cut comes after the best score is known.    *)
TopHits ==
    Ranked /\ request.kind = "typeahead" =>
        \A d \in Found \ ResultDocs : \A i \in ListsOf(d), j \in DOMAIN result :
            \E l \in ListsOf(result[j].doc) :
                answers[l][result[j].doc] >= answers[i][d]

(* "SearchKit applies these filters inside retrieval queries ... for       *)
(* lexical and semantic search paths" (README.md): no backend of a dual    *)
(* search is handed a filter that its query cannot resolve.                *)
FilterApplies ==
    /\ status = "running"
    /\ request.mode = "dual"
    /\ plan # <<>>
    /\ Head(plan).backend # "embed"
    => Resolves(Head(plan).backend)
================================================================================
