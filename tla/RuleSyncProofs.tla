--------------------------- MODULE RuleSyncProofs ---------------------------
(***************************************************************************)
(* Proofs about RuleSync, for any number of keys, processes and workers    *)
(* and any length of the intervals.                                        *)
(***************************************************************************)
EXTENDS RuleSync, TLAPS

USE DEF Steps, TimedSteps, HoldingSteps, crashVars

(* Process p dies. *)
Dies(p) == Crash(p) \/ PanicEnds(p)

(* The constants of time, in the form the provers use them. *)
LEMMA Times ==
    /\ SyncInterval \in Nat /\ LockExpire \in Nat /\ PingInterval \in Nat
    /\ MaxDelay \in Nat
    /\ ExpireTime \in Nat /\ SyncInterval <= ExpireTime
    /\ MaxAge \in Nat /\ MaxAge = ExpireTime + MaxDelay + 1
    /\ MaxFaults \in Nat /\ MaxCrashes \in Nat /\ HistoryLimit \in Nat \ {0}
BY TimeAssumption, BoundAssumption DEF ExpireTime, MaxAge

(* There is a request for NoRequest to be. *)
LEMMA NoRequestType == NoRequest \in Requests
<1>1. PICK k \in Keys : TRUE
  BY KeysAssumption
<1>2. PICK c \in Calls : TRUE
  BY CallsAssumption
<1>3. c \in [force : BOOLEAN, removed : BOOLEAN]
  BY CallsAssumption
<1> DEFINE r == [key |-> k, force |-> c.force, removed |-> c.removed]
<1>4. [force |-> r.force, removed |-> r.removed] = c
  BY <1>3
<1>5. r \in Requests
  BY <1>3, <1>4 DEF Requests
<1> QED
  BY <1>5 DEF NoRequest

(* What the fields of a request are. *)
LEMMA RequestType ==
    ASSUME NEW r \in Requests
    PROVE  r.key \in Keys /\ r.force \in BOOLEAN /\ r.removed \in BOOLEAN
BY DEF Requests

(* LatestSync yields a result, and PushSlice keeps a history short. *)
LEMMA LatestType ==
    ASSUME NEW s \in Histories
    PROVE  LatestSync(s) \in SyncData
<1>1. NoSync \in SyncData
  BY DEF NoSync, SyncData
<1>2. s \in Seq(SyncData) /\ Len(s) \in Nat
  BY DEF Histories
<1>3. ASSUME s # <<>> PROVE s[Len(s)] \in SyncData
  <2>1. Len(s) \in 1..Len(s)
    BY <1>2, <1>3
  <2> QED
    BY <1>2, <2>1
<1> QED
  BY <1>1, <1>3 DEF LatestSync

LEMMA PushSliceType ==
    ASSUME NEW s \in Histories, NEW d \in SyncData
    PROVE  PushSlice(s, d) \in Histories
<1> DEFINE all == Append(s, d)
<1>1. all \in Seq(SyncData) /\ Len(all) = Len(s) + 1 /\ Len(s) \in Nat
  BY DEF Histories
<1>2. Tail(all) \in Seq(SyncData) /\ Len(Tail(all)) = Len(s)
  BY <1>1
<1> QED
  BY <1>1, <1>2, Times DEF PushSlice, Histories

(* The shape of a document. *)
LEMMA DocumentType ==
    ASSUME NEW d \in Documents
    PROVE  /\ d.exists \in BOOLEAN /\ d.running \in BOOLEAN
           /\ d.ping \in Nat /\ d.ping <= MaxAge /\ d.syncs \in Histories
BY Times DEF Documents, Ages

(* No command carries a clock reading that is too old to be an age. *)
LEMMA RecentIsAge == \A age \in 0..MaxDelay : age \in Ages
BY Times DEF Ages

(* Taking and giving back a lease, and pinging it, leave a document. *)
LEMMA AcquiredType ==
    ASSUME NEW d \in Documents, NEW age \in Ages
    PROVE  [d EXCEPT !.exists = TRUE, !.running = TRUE, !.ping = age]
             \in Documents
BY DEF Documents

LEMMA ReleasedType ==
    ASSUME NEW d \in Documents, NEW age \in Ages, NEW s \in Histories
    PROVE  [d EXCEPT !.running = FALSE, !.ping = age, !.syncs = s]
             \in Documents
BY DEF Documents

LEMMA PingedType ==
    ASSUME NEW d \in Documents, NEW age \in Ages
    PROVE  [d EXCEPT !.ping = age] \in Documents
BY DEF Documents

-----------------------------------------------------------------------------
(* A PingSyncs in progress is never older than a command may be. *)
PingOnTime == \A p \in Processes : batch[p] # {} => since[p] <= MaxDelay

TypeInv == TypeOK /\ PingOnTime

LEMMA TypeInit == Init => TypeInv
<1> SUFFICES ASSUME Init PROVE TypeInv
  OBVIOUS
<1>1. NoDocument \in Documents
  BY Times DEF NoDocument, Documents, Histories, Ages
<1>2. NoSync \in SyncData
  BY DEF NoSync, SyncData
<1> QED
  BY <1>1, <1>2, NoRequestType, Times DEF Init, TypeOK, TypeInv, PingOnTime

(* Every action keeps the types. *)
LEMMA TypeNext == TypeInv /\ [Next]_vars => TypeInv'
<1> SUFFICES ASSUME TypeInv, [Next]_vars PROVE TypeInv'
  OBVIOUS
<1> USE Times, NoRequestType DEF TypeOK, TypeInv, PingOnTime, lockVars, workerVars, updaterVars
<1>0. NoSync \in SyncData
  BY DEF NoSync, SyncData
<1>1. ASSUME NEW w \in Workers, SyncRule(w) PROVE TypeInv'
  BY <1>1 DEF SyncRule, GoTo
<1>2. ASSUME NEW w \in Workers, NEW k \in Keys, NEW age \in 0..lag[w],
             Acquire(k, age)
      PROVE  doc' \in [Keys -> Documents]
  <2>1. age \in Ages /\ doc[k] \in Documents
    BY RecentIsAge
  <2>2. doc' = [doc EXCEPT ![k] = [doc[k] EXCEPT !.exists = TRUE,
                                      !.running = TRUE, !.ping = age]]
    BY <1>2 DEF Acquire
  <2> QED
    BY <2>1, <2>2, AcquiredType
<1>3. ASSUME NEW w \in Workers, StartSync(w) PROVE TypeInv'
  <2>1. req[w].key \in Keys /\ doc[req[w].key].syncs \in Histories
    BY RequestType, DocumentType
  <2>2. latest' \in [Workers -> SyncData]
    BY <1>3, <2>1, LatestType DEF StartSync
  <2>3. doc' \in [Keys -> Documents]
    BY <1>2, <1>3, <2>1 DEF StartSync
  <2> QED
    BY <1>3, <2>2, <2>3 DEF StartSync, GoTo
<1>4. ASSUME NEW w \in Workers, StartSyncLocked(w) PROVE TypeInv'
  BY <1>0, <1>4 DEF StartSyncLocked, Return, GoTo
<1>5. ASSUME NEW w \in Workers, StartSyncFails(w) PROVE TypeInv'
  <2>1. req[w].key \in Keys
    BY RequestType
  <2>2. doc' \in [Keys -> Documents]
    BY <1>2, <1>5, <2>1 DEF StartSyncFails
  <2> QED
    BY <1>0, <1>5, <2>2 DEF StartSyncFails, Return, GoTo, Fault
<1>6. ASSUME NEW w \in Workers, Enqueue(w) PROVE TypeInv'
  <2>1. req[w].key \in Keys /\ ProcessOf[w] \in Processes
    BY RequestType, ProcessOfAssumption
  <2> QED
    BY <1>6, <2>1 DEF Enqueue, GoTo
<1>7. ASSUME NEW w \in Workers, Sync(w) PROVE TypeInv'
  <2>1. req[w].key \in Keys /\ req[w].removed \in BOOLEAN
    BY RequestType
  <2>2. engine' \in [Keys -> SyncData]
    BY <1>7, <2>1 DEF Sync, SyncData
  <2> QED
    BY <1>7, <2>2 DEF Sync, GoTo
<1>71. ASSUME NEW w \in Workers, SyncReturns(w) PROVE TypeInv'
  BY <1>71 DEF SyncReturns, GoTo
<1>72. ASSUME NEW w \in Workers, SyncPanics(w) PROVE TypeInv'
  BY <1>72 DEF SyncPanics, GoTo
<1>8. ASSUME NEW w \in Workers, Dequeue(w) PROVE TypeInv'
  <2>1. ids' \in [Processes -> SUBSET Keys]
    BY <1>8, ProcessOfAssumption DEF Dequeue
  <2>2. batch' \in [Processes -> SUBSET Keys]
    BY <1>8, <2>1, ProcessOfAssumption DEF Dequeue
  <2> QED
    BY <1>8, <2>1, <2>2, ProcessOfAssumption DEF Dequeue, GoTo
<1>9. ASSUME NEW w \in Workers, EndSync(w) PROVE TypeInv'
  <2>1. PICK age \in 0..lag[w] : Release(w, age)
    BY <1>9 DEF EndSync
  <2> DEFINE k == req[w].key
             data == [removed |-> req[w].removed, successful |-> ok[w]]
  <2>2. k \in Keys /\ data \in SyncData
    BY RequestType DEF SyncData
  <2>3. PushSlice(doc[k].syncs, data) \in Histories
    BY <2>2, PushSliceType, DocumentType
  <2>4. doc' \in [Keys -> Documents]
    <3>1. age \in Ages /\ doc[k] \in Documents
      BY <2>2, RecentIsAge
    <3>2. doc' = [doc EXCEPT ![k] = [doc[k] EXCEPT !.running = FALSE,
                    !.ping = age, !.syncs = PushSlice(doc[k].syncs, data)]]
      BY <2>1 DEF Release
    <3> QED
      BY <2>3, <3>1, <3>2, ReleasedType
  <2> QED
    BY <1>0, <1>9, <2>4 DEF EndSync, Return, GoTo
<1>10. ASSUME NEW w \in Workers, EndSyncFails(w) PROVE TypeInv'
  BY <1>0, <1>10 DEF EndSyncFails, Return, GoTo, Fault
<1>11. ASSUME NEW p \in Processes, PingTimeout(p) PROVE TypeInv'
  BY <1>11 DEF PingTimeout
<1>12. ASSUME NEW p \in Processes, PingSync(p) PROVE TypeInv'
  <2>1. PICK k \in batch[p], age \in 0..since[p] :
            doc' = [doc EXCEPT ![k].ping = age]
    BY <1>12 DEF PingSync
  <2>2. age \in Ages
    BY <2>1, RecentIsAge
  <2>3. doc' \in [Keys -> Documents]
    BY <2>1, <2>2, PingedType
  <2> QED
    BY <1>12, <2>3 DEF PingSync
<1>13. ASSUME NEW p \in Processes, PingSyncsFails(p) PROVE TypeInv'
  BY <1>13 DEF PingSyncsFails, Fault
<1>14. ASSUME NEW p \in Processes, Dies(p) PROVE TypeInv'
  <2>0. Restart(p)
    BY <1>14 DEF Dies, Crash, PanicEnds
  <2>1. pc' \in [Workers -> Steps] /\ req' \in [Workers -> Requests]
    BY <2>0 DEF Restart
  <2>2. latest' \in [Workers -> SyncData] /\ ok' \in [Workers -> BOOLEAN]
    BY <1>0, <2>0 DEF Restart
  <2>3. lag' \in [Workers -> 0..MaxDelay]
    BY <2>0 DEF Restart
  <2>4. /\ ids' \in [Processes -> SUBSET Keys]
        /\ batch' \in [Processes -> SUBSET Keys]
        /\ since' \in [Processes -> 0..PingInterval + MaxDelay]
    BY <2>0 DEF Restart
  <2>5. doc' = doc /\ engine' = engine /\ faults' = faults
    BY <2>0 DEF Restart
  <2>6. crashes' \in 0..MaxCrashes /\ panicked' \in SUBSET Workers
    BY <1>14, <2>0 DEF Dies, Crash, PanicEnds, Restart
  <2>7. PingOnTime'
    BY <2>0 DEF Restart
  <2> QED
    BY <2>1, <2>2, <2>3, <2>4, <2>5, <2>6, <2>7
<1>15. CASE Tick
  <2>1. doc' \in [Keys -> Documents]
    BY <1>15 DEF Tick, Documents, Older, Ages
  <2>2. lag' \in [Workers -> 0..MaxDelay]
    BY <1>15 DEF Tick
  <2>3. since' \in [Processes -> 0..PingInterval + MaxDelay]
    BY <1>15 DEF Tick
  <2> QED
    BY <1>15, <2>1, <2>2, <2>3 DEF Tick
<1>16. CASE UNCHANGED vars
  BY <1>16 DEF vars
<1> QED
  BY <1>1, <1>3, <1>4, <1>5, <1>6, <1>7, <1>71, <1>72, <1>8, <1>9, <1>10,
     <1>11, <1>12, <1>13, <1>14, <1>15, <1>16 DEF Next, Worker, LockUpdater, Dies

(* In every behaviour every variable has its type; in particular a document
   never holds more than HistoryLimit results, an instant older than MaxDelay
   never reaches a storage command, and no failure or crash is unaccounted. *)
THEOREM TypeCorrect == Spec => []TypeOK
<1>1. TypeInv => TypeOK
  BY DEF TypeInv
<1> QED
  BY <1>1, TypeInit, TypeNext, PTL DEF Spec

-----------------------------------------------------------------------------
(* The leases of syncs that nobody forces. *)
NeverForced == \A c \in Calls : ~c.force

Holding(w) == pc[w] \in HoldingSteps

Exclusive ==
    \A v, w \in Workers :
        v # w /\ Holding(v) /\ Holding(w) => req[v].key # req[w].key

HeldIsRunning ==
    \A w \in Workers : Holding(w) =>
        doc[req[w].key].exists /\ doc[req[w].key].running

(* The inductive invariant: no two workers hold a key, because its document is
   running and its pingtime fresh, because the lockUpdater of the holder knows
   the key and pings it in time. *)
LeaseInv == Exclusive /\ HeldIsRunning /\ LeaseAge /\ PingsWhatIsHeld
IInv == TypeInv /\ LeaseInv

LEMMA MissedFacts ==
    ASSUME NEW n \in 0..MaxFaults
    PROVE  /\ Missed(n) \in Nat
           /\ Missed(n + 1) = Missed(n) + PingInterval + 2 * MaxDelay
           /\ Missed(n) <= Missed(MaxFaults)
<1> DEFINE m == PingInterval + 2 * MaxDelay
<1>1. m \in Nat /\ n \in Nat /\ MaxFaults \in Nat /\ n <= MaxFaults
  BY Times
<1>2. \A a, b, c \in Nat : a <= b => a * c <= b * c
  OBVIOUS
<1>3. \A a, c \in Nat : a * c \in Nat /\ (a + 1) * c = a * c + c
  OBVIOUS
<1> HIDE DEF m
<1>4. n * m \in Nat /\ (n + 1) * m = n * m + m /\ n * m <= MaxFaults * m
  BY <1>1, <1>2, <1>3
<1> QED
  BY <1>4, Times DEF m, Missed

LEMMA UnforcedRequest ==
    ASSUME NeverForced, TypeOK, NEW w \in Workers
    PROVE  ~req[w].force
BY DEF NeverForced, TypeOK, Requests

(* The numbers of a state, and where an index points. *)
LEMMA Numbers ==
    ASSUME TypeOK, NEW w \in Workers
    PROVE  /\ req[w].key \in Keys /\ ProcessOf[w] \in Processes
           /\ lag[w] \in Nat /\ lag[w] <= MaxDelay
           /\ doc[req[w].key].ping \in Nat
           /\ since[ProcessOf[w]] \in Nat
           /\ since[ProcessOf[w]] <= PingInterval + MaxDelay
           /\ faults \in 0..MaxFaults
BY RequestType, DocumentType, ProcessOfAssumption, Times DEF TypeOK

(* Nobody but a forced StartSync takes a lease that is held. *)
LEMMA LeaseFresh ==
    ASSUME Timely, IInv, NEW w \in Workers, Holding(w)
    PROVE  doc[req[w].key].ping <= ExpireTime
<1> DEFINE p == ProcessOf[w]
           k == req[w].key
<1>1. TypeOK /\ LeaseAge /\ PingOnTime
  BY DEF IInv, LeaseInv, TypeInv
<1>2. /\ Missed(faults) \in Nat
      /\ Missed(faults) + PingInterval + 3 * MaxDelay <= ExpireTime
  BY <1>1, MissedFacts, Numbers, Times DEF Timely
<1>3. CASE pc[w] = "enqueue"
  BY <1>1, <1>2, <1>3, Numbers, Times DEF LeaseAge
<1>4. CASE Pinged(w) /\ batch[p] # {}
  <2>1. since[p] <= MaxDelay
    BY <1>1, <1>4, Numbers DEF PingOnTime
  <2> QED
    BY <1>1, <1>2, <1>4, <2>1, Numbers, Times DEF LeaseAge
<1>5. CASE Pinged(w) /\ batch[p] = {}
  BY <1>1, <1>2, <1>5, Numbers, Times DEF LeaseAge
<1>6. CASE pc[w] = "EndSync"
  BY <1>1, <1>2, <1>6, Numbers, Times DEF LeaseAge
<1> QED
  BY <1>3, <1>4, <1>5, <1>6 DEF Holding, Pinged

LEMMA StartIsAlone ==
    ASSUME Timely, NeverForced, IInv, NEW w \in Workers, NEW age \in Nat,
           MayStart(doc[req[w].key], req[w].force, age)
    PROVE  \A v \in Workers : Holding(v) => req[v].key # req[w].key
<1> SUFFICES ASSUME NEW v \in Workers, Holding(v), req[v].key = req[w].key
             PROVE  FALSE
  OBVIOUS
<1>1. doc[req[w].key].ping <= ExpireTime /\ doc[req[w].key].ping \in Nat
  BY LeaseFresh, Numbers DEF IInv, TypeInv
<1>2. doc[req[w].key].exists /\ doc[req[w].key].running
  BY DEF IInv, LeaseInv, HeldIsRunning
<1>3. ~req[w].force
  BY UnforcedRequest DEF IInv, TypeInv
<1> QED
  BY <1>1, <1>2, <1>3, Times DEF MayStart

-----------------------------------------------------------------------------
(* One lemma per action: it keeps LeaseInv. *)

LEMMA SyncRuleKeepsLeases ==
    ASSUME IInv, NEW w \in Workers, SyncRule(w)
    PROVE  LeaseInv'
<1>1. /\ \A v \in Workers : Holding(v)' =>
            Holding(v) /\ v # w /\ req'[v] = req[v] /\ pc'[v] = pc[v]
                       /\ lag'[v] = lag[v]
      /\ \A v \in Workers : Pinged(v) => Holding(v) /\ v # w
      /\ \A v \in Workers : v # w => req'[v] = req[v] /\ pc'[v] = pc[v]
      /\ ~Pinged(w)'
      /\ UNCHANGED <<doc, ids, batch, since, faults>>
  BY DEF SyncRule, GoTo, Holding, Pinged, IInv, TypeInv, TypeOK, lockVars,
         updaterVars
<1>2. Exclusive' /\ HeldIsRunning'
  BY <1>1 DEF IInv, LeaseInv, Exclusive, HeldIsRunning
<1>3. PingsWhatIsHeld'
  BY <1>1 DEF IInv, LeaseInv, PingsWhatIsHeld, Pinged
<1>4. LeaseAge'
  BY <1>1 DEF IInv, LeaseInv, LeaseAge, Pinged, Holding
<1> QED
  BY <1>2, <1>3, <1>4 DEF LeaseInv

(* A worker that returns without having been pinged leaves the leases of the
   others alone, whatever becomes of the documents nobody else holds. *)
LEMMA ReturnKeepsLeases ==
    ASSUME IInv, NEW w \in Workers, ~Pinged(w), Return(w),
           UNCHANGED updaterVars, faults' \in {faults, faults + 1},
           faults' \in 0..MaxFaults,
           \A v \in Workers : v # w /\ Holding(v) =>
              doc'[req[v].key] = doc[req[v].key]
    PROVE  LeaseInv'
<1>1. /\ \A v \in Workers : Holding(v)' =>
            Holding(v) /\ v # w /\ req'[v] = req[v] /\ pc'[v] = pc[v]
                       /\ lag'[v] = lag[v]
                       /\ doc'[req[v].key] = doc[req[v].key]
      /\ \A v \in Workers : Pinged(v) => Holding(v) /\ v # w
      /\ \A v \in Workers : v # w => req'[v] = req[v] /\ pc'[v] = pc[v]
      /\ ~Pinged(w)'
      /\ UNCHANGED <<ids, batch, since>>
  BY DEF Return, GoTo, Holding, Pinged, IInv, TypeInv, TypeOK, updaterVars
<1>2. Exclusive' /\ HeldIsRunning'
  BY <1>1 DEF IInv, LeaseInv, Exclusive, HeldIsRunning
<1>3. PingsWhatIsHeld'
  BY <1>1 DEF IInv, LeaseInv, PingsWhatIsHeld, Pinged
<1>4. /\ Missed(faults) \in Nat /\ Missed(faults') \in Nat
      /\ Missed(faults') >= Missed(faults)
  BY MissedFacts, Times DEF IInv, TypeInv, TypeOK
<1>5. ASSUME NEW v \in Workers, Holding(v)'
      PROVE  LeaseAge!(v)'
  <2>1. LeaseAge!(v)
    BY DEF IInv, LeaseInv, LeaseAge
  <2> QED
    BY <1>1, <1>4, <1>5, <2>1, Numbers, Times
       DEF IInv, TypeInv, Pinged, Holding
<1>6. LeaseAge'
  BY <1>5 DEF LeaseAge, Holding, Pinged
<1> QED
  BY <1>2, <1>3, <1>6 DEF LeaseInv

LEMMA StartSyncKeepsLeases ==
    ASSUME Timely, NeverForced, IInv, NEW w \in Workers, StartSync(w)
    PROVE  LeaseInv'
<1> DEFINE k == req[w].key
<1>0. TypeOK
  BY DEF IInv, TypeInv
<1>1. PICK age \in 0..lag[w] : MayStart(doc[k], req[w].force, age)
                                /\ Acquire(k, age)
  BY DEF StartSync
<1>2. age \in Nat /\ age <= MaxDelay
  BY <1>0, <1>1, Numbers, Times
<1>3. \A v \in Workers : Holding(v) => req[v].key # k
  BY <1>1, <1>2, StartIsAlone
<1>4. /\ doc'[k].exists /\ doc'[k].running /\ doc'[k].ping = age
      /\ \A v \in Workers : req[v].key # k =>
            doc'[req[v].key] = doc[req[v].key]
  BY <1>0, <1>1, Numbers, DocumentType DEF Acquire, TypeOK, Documents
<1>5. /\ pc[w] = "StartSync" /\ pc'[w] = "enqueue" /\ lag'[w] = 0
      /\ req' = req /\ UNCHANGED <<ids, batch, since, faults>>
      /\ \A v \in Workers : v # w => pc'[v] = pc[v] /\ lag'[v] = lag[v]
      /\ \A v \in Workers : Pinged(v)' <=> Pinged(v)
  BY <1>0 DEF StartSync, GoTo, Pinged, updaterVars, TypeOK
<1>6. Exclusive' /\ HeldIsRunning'
  BY <1>3, <1>4, <1>5 DEF IInv, LeaseInv, Exclusive, HeldIsRunning, Holding
<1>7. PingsWhatIsHeld'
  BY <1>5 DEF IInv, LeaseInv, PingsWhatIsHeld
<1>8. ASSUME NEW v \in Workers, Holding(v)'
      PROVE  LeaseAge!(v)'
  <2>1. CASE v = w
    BY <1>2, <1>4, <1>5, <2>1, Times DEF Pinged
  <2>2. CASE v # w
    <3>1. LeaseAge!(v) /\ doc'[req[v].key] = doc[req[v].key]
      BY <1>3, <1>4, <1>5, <1>8, <2>2 DEF IInv, LeaseInv, LeaseAge, Holding
    <3> QED
      BY <1>5, <2>2, <3>1 DEF Pinged
  <2> QED
    BY <2>1, <2>2
<1>9. LeaseAge'
  BY <1>8 DEF LeaseAge, Holding, Pinged
<1> QED
  BY <1>6, <1>7, <1>9 DEF LeaseInv

LEMMA StartSyncLockedKeepsLeases ==
    ASSUME IInv, NEW w \in Workers, StartSyncLocked(w)
    PROVE  LeaseInv'
<1>1. ~Pinged(w) /\ Return(w) /\ UNCHANGED <<doc, updaterVars, faults>>
  BY DEF StartSyncLocked, Pinged, lockVars
<1> QED
  BY <1>1, ReturnKeepsLeases DEF IInv, TypeInv, TypeOK

LEMMA StartSyncFailsKeepsLeases ==
    ASSUME Timely, NeverForced, IInv, NEW w \in Workers, StartSyncFails(w)
    PROVE  LeaseInv'
<1> DEFINE k == req[w].key
<1>0. TypeOK
  BY DEF IInv, TypeInv
<1>1. /\ ~Pinged(w) /\ Return(w) /\ UNCHANGED updaterVars
      /\ faults' = faults + 1 /\ faults' \in 0..MaxFaults
  BY <1>0, Times DEF StartSyncFails, Pinged, Fault, TypeOK
<1>2. ASSUME NEW age \in 0..lag[w], MayStart(doc[k], req[w].force, age),
             Acquire(k, age), NEW v \in Workers, Holding(v)
      PROVE  doc'[req[v].key] = doc[req[v].key]
  <2>1. age \in Nat
    BY <1>0, <1>2, Numbers
  <2>2. req[v].key # k
    BY <1>2, <2>1, StartIsAlone
  <2> QED
    BY <1>0, <1>2, <2>2, Numbers DEF Acquire, TypeOK
<1>3. \A v \in Workers : v # w /\ Holding(v) =>
         doc'[req[v].key] = doc[req[v].key]
  BY <1>2 DEF StartSyncFails
<1> QED
  BY <1>1, <1>3, ReturnKeepsLeases

LEMMA EndSyncKeepsLeases ==
    ASSUME IInv, NEW w \in Workers, EndSync(w)
    PROVE  LeaseInv'
<1>0. TypeOK
  BY DEF IInv, TypeInv
<1>1. /\ ~Pinged(w) /\ Holding(w) /\ Return(w)
      /\ UNCHANGED <<updaterVars, faults>>
  BY DEF EndSync, Pinged, Holding
<1>2. \A v \in Workers : v # w /\ Holding(v) => req[v].key # req[w].key
  BY <1>1 DEF IInv, LeaseInv, Exclusive
<1>3. \A v \in Workers : v # w /\ Holding(v) =>
         doc'[req[v].key] = doc[req[v].key]
  BY <1>0, <1>2, Numbers DEF EndSync, Release, TypeOK
<1> QED
  BY <1>0, <1>1, <1>3, ReturnKeepsLeases DEF TypeOK

LEMMA EndSyncFailsKeepsLeases ==
    ASSUME IInv, NEW w \in Workers, EndSyncFails(w)
    PROVE  LeaseInv'
<1>1. /\ ~Pinged(w) /\ Return(w) /\ UNCHANGED <<doc, updaterVars>>
      /\ faults' = faults + 1 /\ faults' \in 0..MaxFaults
  BY Times DEF EndSyncFails, Pinged, Fault, IInv, TypeInv, TypeOK, lockVars
<1> QED
  BY <1>1, ReturnKeepsLeases

LEMMA EnqueueKeepsLeases ==
    ASSUME IInv, NEW w \in Workers, Enqueue(w)
    PROVE  LeaseInv'
<1> DEFINE k == req[w].key
           p == ProcessOf[w]
<1>0. TypeOK
  BY DEF IInv, TypeInv
<1>1. /\ pc[w] = "enqueue" /\ Pinged(w)' /\ batch[p] = {}
      /\ k \in Keys /\ p \in Processes
      /\ ids'[p] = ids[p] \cup {k} /\ batch'[p] = ids'[p] /\ since'[p] = 0
      /\ \A q \in Processes : q # p =>
            ids'[q] = ids[q] /\ batch'[q] = batch[q] /\ since'[q] = since[q]
      /\ UNCHANGED <<doc, req, faults>>
      /\ \A v \in Workers : v # w => pc'[v] = pc[v] /\ lag'[v] = lag[v]
  BY <1>0, Numbers DEF Enqueue, GoTo, Pinged, lockVars, TypeOK
<1>2. Exclusive' /\ HeldIsRunning'
  BY <1>1 DEF IInv, LeaseInv, Exclusive, HeldIsRunning, Holding, Pinged
<1>3. PingsWhatIsHeld'
  <2> SUFFICES ASSUME NEW q \in Processes
               PROVE  PingsWhatIsHeld!(q)'
    BY DEF PingsWhatIsHeld
  <2>1. PingsWhatIsHeld!(q)
    BY DEF IInv, LeaseInv, PingsWhatIsHeld
  <2>2. ~Pinged(w)
    BY <1>1 DEF Pinged
  <2>3. \A v \in Workers : v # w => (Pinged(v)' <=> Pinged(v))
    BY <1>1 DEF Pinged
  <2>4. CASE q = p
    BY <1>1, <2>1, <2>2, <2>3, <2>4
  <2>5. CASE q # p
    BY <1>1, <2>1, <2>2, <2>3, <2>5
  <2> QED
    BY <2>4, <2>5
<1>4. Missed(faults) \in Nat
  BY <1>0, MissedFacts DEF TypeOK
<1>5. ASSUME NEW v \in Workers, Holding(v)'
      PROVE  LeaseAge!(v)'
  <2>1. LeaseAge!(v)
    BY DEF IInv, LeaseInv, LeaseAge
  <2>2. CASE v = w
    <3>1. doc[k].ping <= 2 * MaxDelay
      BY <1>0, <1>1, <2>1, <2>2, Numbers, Times
    <3> QED
      BY <1>0, <1>1, <1>4, <2>2, <3>1, Numbers, Times DEF Pinged
  <2>3. CASE v # w /\ Pinged(v) /\ ProcessOf[v] = p
    <3>1. req[v].key \in batch'[p]
      BY <1>0, <1>1, <2>3, Numbers DEF IInv, LeaseInv, PingsWhatIsHeld
    <3>2. doc[req[v].key].ping
            <= Missed(faults) + PingInterval + 2 * MaxDelay
      BY <1>0, <1>1, <1>4, <2>1, <2>3, Numbers, Times
    <3> QED
      BY <1>0, <1>1, <1>4, <2>3, <3>1, <3>2, Numbers, Times DEF Pinged
  <2>4. CASE v # w /\ ~(Pinged(v) /\ ProcessOf[v] = p)
    BY <1>0, <1>1, <2>1, <2>4, Numbers DEF Pinged
  <2> QED
    BY <2>2, <2>3, <2>4
<1>6. LeaseAge'
  BY <1>5 DEF LeaseAge, Holding, Pinged
<1> QED
  BY <1>2, <1>3, <1>6 DEF LeaseInv

LEMMA SyncKeepsLeases ==
    ASSUME IInv, NEW w \in Workers,
           Sync(w) \/ SyncReturns(w) \/ SyncPanics(w)
    PROVE  LeaseInv'
<1>1. /\ \A v \in Workers : Pinged(v)' <=> Pinged(v)
      /\ \A v \in Workers : Holding(v)' <=> Holding(v)
      /\ \A v \in Workers : v # w => pc'[v] = pc[v] /\ lag'[v] = lag[v]
      /\ Pinged(w) /\ Pinged(w)'
      /\ UNCHANGED <<doc, req, ids, batch, since, faults>>
  BY DEF Sync, SyncReturns, SyncPanics, GoTo, Holding, Pinged, lockVars,
     updaterVars, IInv, TypeInv, TypeOK
<1>2. Exclusive' /\ HeldIsRunning'
  BY <1>1 DEF IInv, LeaseInv, Exclusive, HeldIsRunning
<1>3. PingsWhatIsHeld'
  BY <1>1 DEF IInv, LeaseInv, PingsWhatIsHeld
<1>4. LeaseAge'
  BY <1>1 DEF IInv, LeaseInv, LeaseAge, Pinged
<1> QED
  BY <1>2, <1>3, <1>4 DEF LeaseInv

LEMMA DequeueKeepsLeases ==
    ASSUME IInv, NEW w \in Workers, Dequeue(w)
    PROVE  LeaseInv'
<1> DEFINE k == req[w].key
           p == ProcessOf[w]
<1>0. TypeOK
  BY DEF IInv, TypeInv
<1>1. /\ Pinged(w) /\ Holding(w) /\ pc'[w] = "EndSync" /\ lag'[w] = 0
      /\ k \in Keys /\ p \in Processes /\ batch[p] = {}
      /\ ids'[p] = ids[p] \ {k} /\ batch'[p] = ids'[p] /\ since'[p] = 0
      /\ \A q \in Processes : q # p =>
            ids'[q] = ids[q] /\ batch'[q] = batch[q] /\ since'[q] = since[q]
      /\ UNCHANGED <<doc, req, faults>>
      /\ \A v \in Workers : v # w => pc'[v] = pc[v] /\ lag'[v] = lag[v]
  BY <1>0, Numbers DEF Dequeue, GoTo, Pinged, Holding, lockVars, TypeOK
<1>2. Exclusive' /\ HeldIsRunning'
  BY <1>1 DEF IInv, LeaseInv, Exclusive, HeldIsRunning, Holding
<1>3. \A v \in Workers : v # w /\ Pinged(v) => req[v].key # k
  BY <1>1 DEF IInv, LeaseInv, Exclusive, Pinged, Holding
<1>4. PingsWhatIsHeld'
  <2> SUFFICES ASSUME NEW q \in Processes
               PROVE  PingsWhatIsHeld!(q)'
    BY DEF PingsWhatIsHeld
  <2>1. PingsWhatIsHeld!(q)
    BY DEF IInv, LeaseInv, PingsWhatIsHeld
  <2>2. ~Pinged(w)'
    BY <1>1 DEF Pinged
  <2>3. \A v \in Workers : v # w => (Pinged(v)' <=> Pinged(v))
    BY <1>1 DEF Pinged
  <2>4. CASE q = p
    BY <1>1, <1>3, <2>1, <2>2, <2>3, <2>4
  <2>5. CASE q # p
    BY <1>1, <2>1, <2>2, <2>3, <2>5
  <2> QED
    BY <2>4, <2>5
<1>5. Missed(faults) \in Nat
  BY <1>0, MissedFacts DEF TypeOK
<1>6. ASSUME NEW v \in Workers, Holding(v)'
      PROVE  LeaseAge!(v)'
  <2>1. LeaseAge!(v)
    BY DEF IInv, LeaseInv, LeaseAge
  <2>2. CASE v = w
    <3>1. doc[k].ping <= Missed(faults) + PingInterval + 2 * MaxDelay
      BY <1>0, <1>1, <1>5, <2>1, <2>2, Numbers, Times
    <3> QED
      BY <1>0, <1>1, <1>5, <2>2, <3>1, Numbers, Times DEF Pinged
  <2>3. CASE v # w /\ Pinged(v) /\ ProcessOf[v] = p
    <3>1. req[v].key \in batch'[p]
      BY <1>0, <1>1, <1>3, <2>3, Numbers DEF IInv, LeaseInv, PingsWhatIsHeld
    <3>2. doc[req[v].key].ping
            <= Missed(faults) + PingInterval + 2 * MaxDelay
      BY <1>0, <1>1, <1>5, <2>1, <2>3, Numbers, Times
    <3> QED
      BY <1>0, <1>1, <1>5, <2>3, <3>1, <3>2, Numbers, Times DEF Pinged
  <2>4. CASE v # w /\ ~(Pinged(v) /\ ProcessOf[v] = p)
    BY <1>0, <1>1, <2>1, <2>4, Numbers DEF Pinged
  <2> QED
    BY <2>2, <2>3, <2>4
<1>7. LeaseAge'
  BY <1>6 DEF LeaseAge, Holding, Pinged
<1> QED
  BY <1>2, <1>4, <1>7 DEF LeaseInv

LEMMA PingTimeoutKeepsLeases ==
    ASSUME IInv, NEW p \in Processes, PingTimeout(p)
    PROVE  LeaseInv'
<1>0. TypeOK
  BY DEF IInv, TypeInv
<1>1. /\ batch[p] = {} /\ batch'[p] = ids[p] /\ since'[p] = 0
      /\ \A q \in Processes : q # p =>
            batch'[q] = batch[q] /\ since'[q] = since[q]
      /\ UNCHANGED <<doc, pc, req, lag, ids, faults>>
  BY <1>0 DEF PingTimeout, lockVars, workerVars, TypeOK
<1>2. Exclusive' /\ HeldIsRunning'
  BY <1>1 DEF IInv, LeaseInv, Exclusive, HeldIsRunning, Holding
<1>3. PingsWhatIsHeld'
  BY <1>1 DEF IInv, LeaseInv, PingsWhatIsHeld, Pinged
<1>4. Missed(faults) \in Nat
  BY <1>0, MissedFacts DEF TypeOK
<1>5. ASSUME NEW v \in Workers, Holding(v)'
      PROVE  LeaseAge!(v)'
  <2>1. LeaseAge!(v)
    BY DEF IInv, LeaseInv, LeaseAge
  <2>2. CASE Pinged(v) /\ ProcessOf[v] = p
    <3>1. req[v].key \in batch'[p]
      BY <1>0, <1>1, <2>2, Numbers DEF IInv, LeaseInv, PingsWhatIsHeld
    <3> QED
      BY <1>0, <1>1, <1>4, <2>1, <2>2, <3>1, Numbers, Times DEF Pinged
  <2>3. CASE ~(Pinged(v) /\ ProcessOf[v] = p)
    BY <1>0, <1>1, <2>1, <2>3, Numbers DEF Pinged
  <2> QED
    BY <2>2, <2>3
<1>6. LeaseAge'
  BY <1>5 DEF LeaseAge, Holding, Pinged
<1> QED
  BY <1>2, <1>3, <1>6 DEF LeaseInv

(* The one worker a ping is for is the one that holds the key, so the ping of
   a process never touches the lease of another. *)
LEMMA PingSyncKeepsLeases ==
    ASSUME IInv, NEW p \in Processes, PingSync(p)
    PROVE  LeaseInv'
<1>0. TypeOK /\ PingOnTime
  BY DEF IInv, TypeInv
<1>1. PICK k \in batch[p], age \in 0..since[p] :
         /\ doc' = [doc EXCEPT ![k].ping = age]
         /\ batch' = [batch EXCEPT ![p] = @ \ {k}]
         /\ since' = [since EXCEPT ![p] = IF batch'[p] = {} THEN 0 ELSE @]
  BY DEF PingSync
<1>2. /\ k \in Keys /\ k \in batch[p] /\ k \in ids[p]
      /\ since[p] \in Nat /\ since[p] <= MaxDelay
      /\ age \in Nat /\ age <= since[p]
  BY <1>0, <1>1, Times
     DEF TypeOK, PingOnTime, IInv, LeaseInv, PingsWhatIsHeld
<1>3. /\ batch'[p] = batch[p] \ {k}
      /\ since'[p] = IF batch'[p] = {} THEN 0 ELSE since[p]
      /\ \A q \in Processes : q # p =>
            batch'[q] = batch[q] /\ since'[q] = since[q]
      /\ doc'[k].ping = age
      /\ \A j \in Keys : doc'[j].exists = doc[j].exists
                       /\ doc'[j].running = doc[j].running
                       /\ (j # k => doc'[j] = doc[j])
      /\ UNCHANGED <<pc, req, lag, ids, faults>>
  BY <1>0, <1>1, <1>2, DocumentType
     DEF PingSync, workerVars, TypeOK, Documents
<1>4. PICK w \in Workers : ProcessOf[w] = p /\ Pinged(w) /\ req[w].key = k
  BY <1>2 DEF IInv, LeaseInv, PingsWhatIsHeld
<1>5. \A v \in Workers : Holding(v) /\ v # w => req[v].key # k
  BY <1>4 DEF IInv, LeaseInv, Exclusive, Pinged, Holding
<1>6. Exclusive' /\ HeldIsRunning'
  BY <1>0, <1>3, Numbers
     DEF IInv, LeaseInv, Exclusive, HeldIsRunning, Holding
<1>7. PingsWhatIsHeld'
  BY <1>3 DEF IInv, LeaseInv, PingsWhatIsHeld, Pinged
<1>8. Missed(faults) \in Nat
  BY <1>0, MissedFacts DEF TypeOK
<1>9. ASSUME NEW v \in Workers, Holding(v)'
      PROVE  LeaseAge!(v)'
  <2>1. LeaseAge!(v)
    BY DEF IInv, LeaseInv, LeaseAge
  <2>2. Holding(v)
    BY <1>3, <1>9 DEF Holding
  <2>3. CASE v = w
    BY <1>2, <1>3, <1>4, <1>8, <2>3, Times DEF Pinged
  <2>4. CASE v # w /\ Pinged(v) /\ ProcessOf[v] = p
    <3>1. req[v].key # k /\ doc'[req[v].key] = doc[req[v].key]
      BY <1>0, <1>3, <1>5, <2>2, <2>4, Numbers
    <3>2. CASE req[v].key \in batch[p]
      BY <1>2, <1>3, <2>1, <2>4, <3>1, <3>2 DEF Pinged
    <3>3. CASE req[v].key \notin batch[p]
      <4>1. doc'[req[v].key].ping <= since[p]
        BY <1>2, <2>1, <2>4, <3>1, <3>3
      <4>2. doc'[req[v].key].ping \in Nat
        BY <1>0, <3>1, Numbers
      <4> QED
        BY <1>2, <1>3, <1>8, <2>4, <3>1, <3>3, <4>1, <4>2, Times DEF Pinged
    <3> QED
      BY <3>2, <3>3
  <2>5. CASE v # w /\ ~(Pinged(v) /\ ProcessOf[v] = p)
    <3>1. doc'[req[v].key] = doc[req[v].key]
      BY <1>0, <1>3, <1>5, <2>2, <2>5, Numbers
    <3> QED
      BY <1>0, <1>3, <2>1, <2>5, <3>1, Numbers DEF Pinged
  <2> QED
    BY <2>3, <2>4, <2>5
<1>10. LeaseAge'
  BY <1>9 DEF LeaseAge, Holding, Pinged
<1> QED
  BY <1>6, <1>7, <1>10 DEF LeaseInv

LEMMA PingSyncsFailsKeepsLeases ==
    ASSUME IInv, NEW p \in Processes, PingSyncsFails(p)
    PROVE  LeaseInv'
<1>0. TypeOK /\ PingOnTime
  BY DEF IInv, TypeInv
<1>1. /\ batch[p] # {} /\ batch'[p] = {} /\ since'[p] = 0
      /\ \A q \in Processes : q # p =>
            batch'[q] = batch[q] /\ since'[q] = since[q]
      /\ faults \in 0..MaxFaults /\ faults' = faults + 1
      /\ faults' \in 0..MaxFaults
      /\ UNCHANGED <<doc, pc, req, lag, ids>>
  BY <1>0, Times DEF PingSyncsFails, Fault, lockVars, workerVars, TypeOK
<1>2. since[p] \in Nat /\ since[p] <= MaxDelay
  BY <1>0, <1>1, Times DEF TypeOK, PingOnTime
<1>3. Exclusive' /\ HeldIsRunning'
  BY <1>1 DEF IInv, LeaseInv, Exclusive, HeldIsRunning, Holding
<1>4. PingsWhatIsHeld'
  BY <1>1 DEF IInv, LeaseInv, PingsWhatIsHeld, Pinged
<1>5. /\ Missed(faults) \in Nat
      /\ Missed(faults') = Missed(faults) + PingInterval + 2 * MaxDelay
  BY <1>1, MissedFacts
<1>6. ASSUME NEW v \in Workers, Holding(v)'
      PROVE  LeaseAge!(v)'
  <2>1. LeaseAge!(v)
    BY DEF IInv, LeaseInv, LeaseAge
  <2>2. CASE Pinged(v) /\ ProcessOf[v] = p
    <3>1. doc[req[v].key].ping
            <= Missed(faults) + PingInterval + 3 * MaxDelay
      BY <1>0, <1>1, <1>2, <1>5, <2>1, <2>2, Numbers, Times
    <3> QED
      BY <1>0, <1>1, <1>5, <2>2, <3>1, Numbers, Times DEF Pinged
  <2>3. CASE ~(Pinged(v) /\ ProcessOf[v] = p)
    BY <1>0, <1>1, <1>5, <2>1, <2>3, Numbers, Times DEF Pinged
  <2> QED
    BY <2>2, <2>3
<1>7. LeaseAge'
  BY <1>6 DEF LeaseAge, Holding, Pinged
<1> QED
  BY <1>3, <1>4, <1>7 DEF LeaseInv

LEMMA CrashKeepsLeases ==
    ASSUME IInv, NEW p \in Processes, Dies(p)
    PROVE  LeaseInv'
<1>0. TypeOK
  BY DEF IInv, TypeInv
<1>1. /\ \A v \in Workers : IF ProcessOf[v] = p
            THEN pc'[v] = "idle"
            ELSE pc'[v] = pc[v] /\ req'[v] = req[v] /\ lag'[v] = lag[v]
      /\ ids'[p] = {} /\ batch'[p] = {}
      /\ \A q \in Processes : q # p =>
            ids'[q] = ids[q] /\ batch'[q] = batch[q] /\ since'[q] = since[q]
      /\ UNCHANGED <<doc, faults>>
  BY <1>0 DEF Dies, Crash, PanicEnds, Restart, lockVars, TypeOK
<1>2. Exclusive' /\ HeldIsRunning'
  BY <1>1 DEF IInv, LeaseInv, Exclusive, HeldIsRunning, Holding
<1>3. PingsWhatIsHeld'
  BY <1>1 DEF IInv, LeaseInv, PingsWhatIsHeld, Pinged
<1>4. ASSUME NEW v \in Workers, Holding(v)'
      PROVE  LeaseAge!(v)'
  <2>1. LeaseAge!(v)
    BY DEF IInv, LeaseInv, LeaseAge
  <2>2. ProcessOf[v] # p /\ ProcessOf[v] \in Processes
    BY <1>1, <1>4, ProcessOfAssumption DEF Holding
  <2> QED
    BY <1>1, <2>1, <2>2 DEF Pinged
<1>5. LeaseAge'
  BY <1>4 DEF LeaseAge, Holding, Pinged
<1> QED
  BY <1>2, <1>3, <1>5 DEF LeaseInv

LEMMA TickKeepsLeases ==
    ASSUME IInv, Tick
    PROVE  LeaseInv'
<1>0. TypeOK
  BY DEF IInv, TypeInv
<1>1. UNCHANGED <<pc, req, ids, batch, faults>>
  BY DEF Tick
<1>2. ASSUME NEW k \in Keys
      PROVE  /\ doc'[k].exists = doc[k].exists
             /\ doc'[k].running = doc[k].running
             /\ doc[k].ping \in Nat /\ doc'[k].ping \in Nat
             /\ doc'[k].ping <= doc[k].ping + 1
  <2>1. doc[k] \in Documents
    BY <1>0 DEF TypeOK
  <2>2. doc'[k] = IF doc[k].exists THEN [doc[k] EXCEPT !.ping = Older(@)]
                                   ELSE doc[k]
    BY DEF Tick
  <2> QED
    BY <2>1, <2>2, DocumentType, Times DEF Documents, Older, Ages
<1>3. Exclusive' /\ HeldIsRunning'
  BY <1>0, <1>1, <1>2, Numbers
     DEF IInv, LeaseInv, Exclusive, HeldIsRunning, Holding
<1>4. PingsWhatIsHeld'
  BY <1>1 DEF IInv, LeaseInv, PingsWhatIsHeld, Pinged
<1>5. Missed(faults) \in Nat
  BY <1>0, MissedFacts DEF TypeOK
<1>6. ASSUME NEW v \in Workers, Holding(v)'
      PROVE  LeaseAge!(v)'
  <2>1. LeaseAge!(v)
    BY DEF IInv, LeaseInv, LeaseAge
  <2>2. pc[v] \in TimedSteps => lag'[v] = lag[v] + 1
    BY DEF Tick
  <2>3. Pinged(v) => since'[ProcessOf[v]] = since[ProcessOf[v]] + 1
    <3> SUFFICES ASSUME Pinged(v)
                 PROVE  since'[ProcessOf[v]] = since[ProcessOf[v]] + 1
      OBVIOUS
    <3>1. req[v].key \in ids[ProcessOf[v]]
      BY <1>0, Numbers DEF IInv, LeaseInv, PingsWhatIsHeld
    <3> QED
      BY <1>0, <3>1, Numbers DEF Tick
  <2>4. req[v].key \in Keys
    BY <1>0, Numbers
  <2> QED
    BY <1>0, <1>1, <1>2, <1>5, <2>1, <2>2, <2>3, <2>4, Numbers, Times
       DEF Pinged
<1>7. LeaseAge'
  BY <1>6 DEF LeaseAge, Holding, Pinged
<1> QED
  BY <1>3, <1>4, <1>7 DEF LeaseInv

-----------------------------------------------------------------------------
LEMMA LeaseInit == Init => IInv
<1> SUFFICES ASSUME Init PROVE IInv
  OBVIOUS
<1>1. TypeInv
  BY TypeInit
<1>2. \A w \in Workers : ~Holding(w) /\ ~Pinged(w) /\ pc[w] = "idle"
  BY DEF Init, Holding, Pinged
<1>3. Exclusive /\ HeldIsRunning /\ LeaseAge
  BY <1>2 DEF Exclusive, HeldIsRunning, LeaseAge
<1>4. PingsWhatIsHeld
  BY <1>2 DEF PingsWhatIsHeld, Init
<1> QED
  BY <1>1, <1>3, <1>4 DEF IInv, LeaseInv

LEMMA LeaseNext ==
    ASSUME Timely, NeverForced, IInv, [Next]_vars
    PROVE  IInv'
<1>1. TypeInv'
  BY TypeNext DEF IInv
<1>2. ASSUME NEW w \in Workers, Worker(w) PROVE LeaseInv'
  BY <1>2, SyncRuleKeepsLeases, StartSyncKeepsLeases,
     StartSyncLockedKeepsLeases, StartSyncFailsKeepsLeases,
     EnqueueKeepsLeases, SyncKeepsLeases, DequeueKeepsLeases,
     EndSyncKeepsLeases, EndSyncFailsKeepsLeases DEF Worker
<1>3. ASSUME NEW p \in Processes, LockUpdater(p) \/ Dies(p) PROVE LeaseInv'
  BY <1>3, PingTimeoutKeepsLeases, PingSyncKeepsLeases,
     PingSyncsFailsKeepsLeases, CrashKeepsLeases DEF LockUpdater
<1>4. CASE UNCHANGED vars
  <2>1. UNCHANGED <<doc, pc, req, lag, ids, batch, since, faults>>
    BY <1>4 DEF vars
  <2>2. Exclusive' /\ HeldIsRunning'
    BY <2>1 DEF IInv, LeaseInv, Exclusive, HeldIsRunning, Holding
  <2>3. PingsWhatIsHeld'
    BY <2>1 DEF IInv, LeaseInv, PingsWhatIsHeld, Pinged
  <2>4. LeaseAge'
    BY <2>1 DEF IInv, LeaseInv, LeaseAge, Pinged
  <2> QED
    BY <1>1, <2>2, <2>3, <2>4 DEF IInv, LeaseInv
<1> QED
  BY <1>1, <1>2, <1>3, <1>4, TickKeepsLeases DEF Next, Dies, IInv

LEMMA LeaseInvariant ==
    ASSUME Timely, NeverForced
    PROVE  Spec => []IInv
BY LeaseInit, LeaseNext, PTL DEF Spec

(* Two unforced syncs of one rule by one engine never overlap, as long as no
   sync is forced and lockExpireTime leaves room for the pings that fail and
   the delays there are: whatever process crashes and whatever command fails
   or is late. *)
THEOREM LeasesAreExclusive ==
    ASSUME Timely, NeverForced
    PROVE  Spec => []NonForcedExclusive
<1>1. IInv => NonForcedExclusive
  BY DEF IInv, LeaseInv, Exclusive, Holding, NonForcedExclusive
<1> QED
  BY <1>1, LeaseInvariant, PTL

(* Under the same conditions the document of a held lease always refuses
   everybody else: it is running, and not older than the expiry time. *)
THEOREM LeasesAreKept ==
    ASSUME Timely, NeverForced
    PROVE  Spec => []LeaseKept
<1>1. IInv => LeaseKept
  BY LeaseFresh DEF IInv, LeaseInv, HeldIsRunning, Holding, LeaseKept
<1> QED
  BY <1>1, LeaseInvariant, PTL

(* The bound on the age of a held lease, in the failures there have been. *)
THEOREM LeasesAge ==
    ASSUME Timely, NeverForced
    PROVE  Spec => []LeaseAge
<1>1. IInv => LeaseAge
  BY DEF IInv, LeaseInv
<1> QED
  BY <1>1, LeaseInvariant, PTL

(* Under the same conditions the lockUpdaters have exactly the ids of the syncs
   their process runs. *)
THEOREM LeasesArePinged ==
    ASSUME Timely, NeverForced
    PROVE  Spec => []PingsWhatIsHeld
<1>1. IInv => PingsWhatIsHeld
  BY DEF IInv, LeaseInv
<1> QED
  BY <1>1, LeaseInvariant, PTL

-----------------------------------------------------------------------------
(* RuleSync implements SyncLock. *)

(* A step that leaves syncs, flags and results alone is no step of the lock. *)
LEMMA StutterStep ==
    ASSUME \A w \in Workers, k \in Keys : Holds(w, k)' <=> Holds(w, k),
           \A k \in Keys : /\ doc'[k].running = doc[k].running
                           /\ doc'[k].syncs = doc[k].syncs
    PROVE  UNCHANGED Lock!vars
<1>1. HoldersNow' = HoldersNow
  BY DEF HoldersNow
<1>2. RunningNow' = RunningNow /\ ResultsNow' = ResultsNow
  BY DEF RunningNow, ResultsNow
<1> QED
  BY <1>1, <1>2 DEF Lock!vars

(* Workers that stop without a recorded result abandon what they hold. *)
LEMMA AbandonStep ==
    ASSUME NEW gone \in SUBSET Workers, UNCHANGED doc,
           \A w \in Workers, k \in Keys :
              Holds(w, k)' <=> Holds(w, k) /\ w \notin gone
    PROVE  Lock!Next
<1>1. HoldersNow' = [k \in Keys |-> HoldersNow[k] \ gone]
  BY DEF HoldersNow
<1>2. RunningNow' = RunningNow /\ ResultsNow' = ResultsNow
  BY DEF RunningNow, ResultsNow
<1> QED
  BY <1>1, <1>2 DEF Lock!Next, Lock!Abandon

LEMMA StartSyncStep ==
    ASSUME Timely, NeverForced, IInv, NEW w \in Workers, StartSync(w)
    PROVE  Lock!Next
<1> DEFINE k == req[w].key
<1>0. TypeOK /\ k \in Keys
  BY Numbers DEF IInv, TypeInv
<1>1. PICK age \in 0..lag[w] : MayStart(doc[k], req[w].force, age)
                                /\ Acquire(k, age)
  BY DEF StartSync
<1>2. \A v \in Workers : ~Holds(v, k)
  <2>1. age \in Nat
    BY <1>0, <1>1, Numbers
  <2> QED
    BY <1>1, <2>1, StartIsAlone DEF Holds, Holding
<1>3. \A v \in Workers, j \in Keys :
         Holds(v, j)' <=> Holds(v, j) \/ (v = w /\ j = k)
  BY <1>0 DEF StartSync, GoTo, Holds, TypeOK
<1>4. HoldersNow[k] = {} /\ HoldersNow' = [HoldersNow EXCEPT ![k] = {w}]
  BY <1>0, <1>2, <1>3 DEF HoldersNow
<1>5. RunningNow' = [RunningNow EXCEPT ![k] = TRUE] /\ ResultsNow' = ResultsNow
  BY <1>0, <1>1, DocumentType
     DEF Acquire, RunningNow, ResultsNow, TypeOK, Documents
<1> QED
  BY <1>0, <1>4, <1>5 DEF Lock!Next, Lock!Acquire

LEMMA StartSyncFailsStep ==
    ASSUME Timely, NeverForced, IInv, NEW w \in Workers, StartSyncFails(w)
    PROVE  Lock!Next
<1> DEFINE k == req[w].key
<1>0. TypeOK /\ k \in Keys
  BY Numbers DEF IInv, TypeInv
<1>1. \A v \in Workers, j \in Keys : Holds(v, j)' <=> Holds(v, j)
  BY <1>0 DEF StartSyncFails, Return, GoTo, Holds, TypeOK
<1>2. CASE UNCHANGED doc
  BY <1>1, <1>2, AbandonStep, {} \in SUBSET Workers
<1>3. CASE \E age \in 0..lag[w] :
              MayStart(doc[k], req[w].force, age) /\ Acquire(k, age)
  <2>1. PICK age \in 0..lag[w] :
           MayStart(doc[k], req[w].force, age) /\ Acquire(k, age)
    BY <1>3
  <2>2. \A v \in Workers : ~Holds(v, k)
    <3>1. age \in Nat
      BY <1>0, <2>1, Numbers
    <3> QED
      BY <2>1, <3>1, StartIsAlone DEF Holds, Holding
  <2>3. HoldersNow[k] = {} /\ HoldersNow' = HoldersNow
    BY <1>0, <1>1, <2>2 DEF HoldersNow
  <2>4. RunningNow' = [RunningNow EXCEPT ![k] = TRUE]
        /\ ResultsNow' = ResultsNow
    BY <1>0, <2>1, DocumentType
       DEF Acquire, RunningNow, ResultsNow, TypeOK, Documents
  <2> QED
    BY <1>0, <2>3, <2>4 DEF Lock!Next, Lock!AcquireUnanswered
<1> QED
  BY <1>2, <1>3 DEF StartSyncFails

LEMMA EndSyncStep ==
    ASSUME IInv, NEW w \in Workers, EndSync(w)
    PROVE  Lock!Next
<1>0. TypeOK /\ req[w].key \in Keys
      /\ [removed |-> req[w].removed, successful |-> ok[w]] \in SyncData
  BY Numbers, RequestType DEF IInv, TypeInv, TypeOK, SyncData
<1>k. PICK k \in Keys : k = req[w].key
  BY <1>0
<1>d. PICK data \in SyncData :
         data = [removed |-> req[w].removed, successful |-> ok[w]]
  BY <1>0
<1>1. Holding(w) /\ Holds(w, k)
  BY <1>k DEF EndSync, Holding, Holds
<1>2. \A v \in Workers : Holds(v, k) <=> v = w
  BY <1>1, <1>k DEF IInv, LeaseInv, Exclusive, Holds, Holding
<1>3. \A v \in Workers, j \in Keys : Holds(v, j)' <=> Holds(v, j) /\ v # w
  BY <1>0 DEF EndSync, Return, GoTo, Holds, TypeOK
<1>4. HoldersNow[k] = {w} /\ HoldersNow' = [HoldersNow EXCEPT ![k] = {}]
  <2>1. \A v \in Workers : Holds(v, k)' <=> FALSE
    BY <1>0, <1>2, <1>3
  <2>2. \A v \in Workers, j \in Keys : j # k => (Holds(v, j)' <=> Holds(v, j))
    <3> SUFFICES ASSUME NEW v \in Workers, NEW j \in Keys, j # k
                 PROVE  Holds(v, j)' <=> Holds(v, j)
      OBVIOUS
    <3>1. CASE v = w
      BY <1>3, <1>k, <3>1 DEF Holds
    <3>2. CASE v # w
      BY <1>3, <3>2
    <3> QED
      BY <3>1, <3>2
  <2>3. HoldersNow[k] = {w}
    BY <1>0, <1>2 DEF HoldersNow
  <2>4. HoldersNow'[k] = {}
    BY <1>0, <2>1 DEF HoldersNow
  <2>5. \A j \in Keys : j # k => HoldersNow'[j] = HoldersNow[j]
    BY <2>2 DEF HoldersNow
  <2>6. HoldersNow' = [HoldersNow EXCEPT ![k] = {}]
    BY <1>0, <2>4, <2>5 DEF HoldersNow
  <2> QED
    BY <2>3, <2>6
<1>5. PICK age \in 0..lag[w] : Release(w, age)
  BY DEF EndSync
<1>6. \A j \in Keys : j # k => doc'[j] = doc[j]
  BY <1>0, <1>5, <1>k DEF Release, TypeOK
<1>7. doc'[k].running = FALSE /\ doc'[k].syncs = PushSlice(doc[k].syncs, data)
  BY <1>0, <1>5, <1>k, <1>d, DocumentType DEF Release, TypeOK, Documents
<1>8. RunningNow' = [RunningNow EXCEPT ![k] = FALSE]
  BY <1>0, <1>6, <1>7 DEF RunningNow
<1>9. ResultsNow' = [ResultsNow EXCEPT ![k] = Lock!Newest(Append(@, data))]
  BY <1>0, <1>6, <1>7 DEF ResultsNow, PushSlice, Lock!Newest
<1> QED
  BY <1>0, <1>4, <1>8, <1>9 DEF Lock!Next, Lock!Release

LEMMA WorkerStep ==
    ASSUME Timely, NeverForced, IInv, NEW w \in Workers, Worker(w)
    PROVE  Lock!Next \/ UNCHANGED Lock!vars
<1>0. TypeOK
  BY DEF IInv, TypeInv
<1>1. CASE SyncRule(w) \/ StartSyncLocked(w) \/ Enqueue(w) \/ Sync(w)
           \/ SyncReturns(w) \/ SyncPanics(w) \/ Dequeue(w)
  <2>1. UNCHANGED doc
    BY <1>1 DEF SyncRule, StartSyncLocked, Enqueue, Sync, SyncReturns,
       SyncPanics, Dequeue, lockVars
  <2>2. \A v \in Workers, k \in Keys : Holds(v, k)' <=> Holds(v, k)
    BY <1>0, <1>1 DEF SyncRule, StartSyncLocked, Enqueue, Sync, SyncReturns,
       SyncPanics, Dequeue, Return, GoTo, Holds, TypeOK
  <2> QED
    BY <2>1, <2>2, StutterStep
<1>2. CASE EndSyncFails(w)
  <2>1. \A v \in Workers, k \in Keys :
           Holds(v, k)' <=> Holds(v, k) /\ v \notin {w}
    BY <1>0, <1>2 DEF EndSyncFails, Return, GoTo, Holds, TypeOK
  <2> QED
    BY <1>2, <2>1, AbandonStep DEF EndSyncFails, lockVars
<1> QED
  BY <1>1, <1>2, StartSyncStep, StartSyncFailsStep, EndSyncStep DEF Worker

LEMMA LockUpdaterStep ==
    ASSUME IInv, NEW p \in Processes, LockUpdater(p)
    PROVE  UNCHANGED Lock!vars
<1>1. UNCHANGED <<pc, req>>
  BY DEF LockUpdater, PingTimeout, PingSync, PingSyncsFails, workerVars
<1>2. \A w \in Workers, k \in Keys : Holds(w, k)' <=> Holds(w, k)
  BY <1>1 DEF Holds
<1>3. \A k \in Keys : /\ doc'[k].running = doc[k].running
                      /\ doc'[k].syncs = doc[k].syncs
  BY DEF LockUpdater, PingTimeout, PingSync, PingSyncsFails, lockVars,
     IInv, TypeInv, TypeOK, Documents
<1> QED
  BY <1>2, <1>3, StutterStep

LEMMA CrashStep ==
    ASSUME IInv, NEW p \in Processes, Dies(p)
    PROVE  Lock!Next
<1> DEFINE gone == {w \in Workers : ProcessOf[w] = p}
<1>1. \A w \in Workers, k \in Keys :
         Holds(w, k)' <=> Holds(w, k) /\ w \notin gone
  <2>1. Restart(p)
    BY DEF Dies, Crash, PanicEnds
  <2> QED
    BY <2>1 DEF Restart, Holds
<1> QED
  BY <1>1, AbandonStep DEF Dies, Crash, PanicEnds, Restart, lockVars

LEMMA TickStep ==
    ASSUME IInv, Tick
    PROVE  UNCHANGED Lock!vars
<1>1. \A w \in Workers, k \in Keys : Holds(w, k)' <=> Holds(w, k)
  BY DEF Tick, Holds
<1>2. \A k \in Keys : /\ doc'[k].running = doc[k].running
                      /\ doc'[k].syncs = doc[k].syncs
  BY DEF Tick, IInv, TypeInv, TypeOK, Documents
<1> QED
  BY <1>1, <1>2, StutterStep

(* As long as no sync is forced and lockExpireTime leaves room for the pings
   that fail, every behaviour of the storage, the lockUpdaters and the workers
   is one that SyncLock allows: the clock, the pings and the failures never
   show. *)
THEOREM SyncLockImplemented ==
    ASSUME Timely, NeverForced
    PROVE  Spec => ImplementsSyncLock
<1>1. Init => Lock!Init
  <2> SUFFICES ASSUME Init PROVE Lock!Init
    OBVIOUS
  <2>1. \A k \in Keys, w \in Workers : ~Holds(w, k)
    BY DEF Init, Holds
  <2> QED
    BY <2>1 DEF Init, Lock!Init, HoldersNow, RunningNow, ResultsNow, NoDocument
<1>2. IInv /\ [Next]_vars => [Lock!Next]_(Lock!vars)
  <2> SUFFICES ASSUME IInv, [Next]_vars PROVE [Lock!Next]_(Lock!vars)
    OBVIOUS
  <2>1. ASSUME NEW w \in Workers, Worker(w)
        PROVE  [Lock!Next]_(Lock!vars)
    BY <2>1, WorkerStep
  <2>2. ASSUME NEW p \in Processes, LockUpdater(p) \/ Dies(p)
        PROVE  [Lock!Next]_(Lock!vars)
    BY <2>2, LockUpdaterStep, CrashStep
  <2>3. CASE Tick
    BY <2>3, TickStep
  <2>4. CASE UNCHANGED vars
    BY <2>4, StutterStep DEF vars, Holds
  <2> QED
    BY <2>1, <2>2, <2>3, <2>4 DEF Next, Dies
<1> QED
  BY <1>1, <1>2, LeaseInvariant, PTL DEF Spec, ImplementsSyncLock, Lock!Spec
=============================================================================
