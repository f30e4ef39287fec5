SPECIFICATION Spec
CONSTANTS
    t1 = t1
    t2 = t2
    Threads = {t1, t2}
    Bindings = {"app1"}
    BadBindings = {}
    Dests = {"d1"}
    MaxBase = 1
SYMMETRY ThreadSymmetry
INVARIANT NoOrphans
