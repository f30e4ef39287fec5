SPECIFICATION FairSpec
CONSTANTS
    Threads = {"e1", "e2"}
    Apps = {"a1"}
    Jobs = {"j1"}
    PoolNames = {"p1", "p2"}
    Clusters <- MCClusters
    ClusterLists <- MCLists
    Batches <- MCBatches
INVARIANTS TypeOK SingleFlight OnlyRequestsWait
PROPERTIES ImplementsSnapshot SyncRulesReturns
