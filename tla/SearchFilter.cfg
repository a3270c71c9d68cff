\* One English search with the filter of the README's example.
SPECIFICATION SearchSpec
CONSTANTS
    Entity = {1}
    Language = {1}
    English = 1
    CJK = {}
    Limit = 2
    RRFK = 60
    MaxScore = 2
    Filter = {"sd"}
CHECK_DEADLOCK FALSE
INVARIANT FilterApplies
