SPECIFICATION Spec
CONSTANTS
    t1 = t1
    t2 = t2
    Threads = {t1, t2}
    Bindings = {"app1", "bad"}
    BadBindings = {"bad"}
    Dests = {"d1", "d2"}
    MaxBase = 2
SYMMETRY ThreadSymmetry
INVARIANTS TypeOK AllExpanded OrphansNeedOverlap EqualRulesNeedOverlap
PROPERTIES RemovalCleans AdditionRepairs
