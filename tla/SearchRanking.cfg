\* Every request over three entities and two languages, one of them CJK, and every
\* vector query over four rows; a call ends.
SPECIFICATION APISpec
CONSTANTS
    Entity = {1, 2, 3}
    Language = {1, 2}
    English = 1
    CJK = {2}
    Limit = 2
    RRFK = 60
    MaxScore = 2
    Filter = {"none"}
    Row = {r1, r2, r3, r4}
    NoRow = NoRow
    MaxSimilarity = 1
    MaxRows = 4
    Factor = {0, 1, 2}
SYMMETRY Symmetry
CHECK_DEADLOCK FALSE
INVARIANTS
    SearchTypeOK
    RankingDetermined
    AgreementKept
    TopHits
    RetrievalTypeOK
    NothingNearerMissed
    ReRankKeepsHits
    RelevanceAlone
    DiversityAlone
    MetricsAgree
