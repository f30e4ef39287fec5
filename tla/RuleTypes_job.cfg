SPECIFICATION Spec
CONSTANTS
    Nil = Nil
    Empty = Empty
    Destinations <- WithJobs
    MaxRules = 2
INVARIANT RefusedIsIncluded
