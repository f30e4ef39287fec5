SPECIFICATION Spec
CONSTANTS
    t1 = t1
    t2 = t2
    Threads = {t1, t2}
    RestIDs = {"i1", "i2"}
    ServiceIDs = {"s1"}
    Names = {"n1", "i1"}
SYMMETRY ThreadSymmetry
INVARIANTS TypeOK NameKeepsItsRule AddedIsSynced OneClient NoClientNeedsOverlap
PROPERTIES RemovedStaysRemoved
