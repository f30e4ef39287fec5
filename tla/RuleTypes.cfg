SPECIFICATION Spec
CONSTANTS
    Nil = Nil
    Empty = Empty
    Destinations <- NoJobs
    MaxRules = 2
INVARIANTS TypeOK RefusedIsIncluded ActiveRulesDiffer AddedIsFound
