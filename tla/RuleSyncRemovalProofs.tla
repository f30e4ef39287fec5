------------------------ MODULE RuleSyncRemovalProofs ------------------------
(***************************************************************************)
(* When syncRule is right to skip a removal that is "already synced"       *)
(* (engine/engine.go), for any workers, processes, crashes and failures:   *)
(* as long as the syncs of the rule do not overlap and what each call of   *)
(* the engine has done is recorded as its result.  RuleSync_removal_crash  *)
(* shows that the second condition is needed.                              *)
(***************************************************************************)
EXTENDS RuleSyncForcedProofs

USE DEF Steps, TimedSteps, HoldingSteps, crashVars

(* A sync of k will not record what its call of the engine has done.  The call
   had its effect, or was skipped, and the sync ends without EndSync: its
   process dies, or EndSync fails.  Or the engine panics, and SyncEnd records
   a success. *)
LosesResult(k) ==
    \E w \in Workers :
        /\ Holds(w, k)
        /\ \/ /\ pc[w] \in {"return", "dequeue", "EndSync"}
              /\ Dies(ProcessOf[w]) \/ EndSyncFails(w)
           \/ SyncPanics(w)

(* What StartSync has read and what the engine was last told, for k. *)
FlagFresh ==
    \A w \in Workers :
        pc[w] \in {"idle", "StartSync", "enqueue", "Sync"} => ok[w] = TRUE

FreeIsRecorded(k) ==
    (\A w \in Workers : ~Holds(w, k)) => LatestSync(doc[k].syncs) = engine[k]

HeldIsRecorded(k) ==
    \A w \in Workers : Holds(w, k) =>
        /\ pc[w] \in {"enqueue", "Sync"} =>
              LatestSync(doc[k].syncs) = engine[k] /\ latest[w] = engine[k]
        /\ pc[w] \in {"return", "dequeue", "EndSync"} =>
              engine[k] = [removed |-> req[w].removed, successful |-> ok[w]]

Recorded(k) == FlagFresh /\ FreeIsRecorded(k) /\ HeldIsRecorded(k)

Justified(k) ==
    \A w \in Workers :
        Holds(w, k) /\ pc[w] = "enqueue" /\ pc'[w] = "dequeue" =>
            engine[k].removed /\ engine[k].successful

-----------------------------------------------------------------------------
(* What EndSync records is what LatestSync finds. *)
LEMMA LatestIsPushed ==
    ASSUME NEW s \in Histories, NEW d \in SyncData
    PROVE  LatestSync(PushSlice(s, d)) = d
<1> DEFINE all == Append(s, d)
<1>1. s \in Seq(SyncData) /\ Len(s) \in Nat
  BY DEF Histories
<1>2. /\ all \in Seq(SyncData) /\ Len(all) = Len(s) + 1
      /\ all[Len(all)] = d
  BY <1>1
<1>3. CASE Len(all) <= HistoryLimit
  <2>1. PushSlice(s, d) = all /\ all # <<>>
    BY <1>2, <1>3 DEF PushSlice
  <2> QED
    BY <1>2, <2>1 DEF LatestSync
<1>4. CASE ~(Len(all) <= HistoryLimit)
  <2>1. Len(all) \in Nat /\ Len(all) > 1
    BY <1>1, <1>2, <1>4, Times
  <2>2. PushSlice(s, d) = Tail(all)
    BY <1>4 DEF PushSlice
  <2> HIDE DEF all
  <2>3. all # <<>>
    BY <2>1
  <2>4. /\ Len(Tail(all)) = Len(all) - 1
        /\ \A i \in 1..Len(Tail(all)) : Tail(all)[i] = all[i + 1]
    BY <1>2, <2>3
  <2>5. Tail(all)[Len(Tail(all))] = d /\ Tail(all) # <<>>
    BY <1>2, <2>1, <2>4
  <2> QED
    BY <2>2, <2>5 DEF LatestSync
<1> QED
  BY <1>3, <1>4

(* Only EndSync writes to the history of a document. *)
LEMMA SyncsKept ==
    ASSUME NEW k \in Keys, TypeInv, [Next]_vars,
           \A w \in Workers : ~(EndSync(w) /\ req[w].key = k)
    PROVE  doc'[k].syncs = doc[k].syncs
<1>0. TypeOK /\ doc[k] \in Documents
  BY DEF TypeInv, TypeOK
<1>1. CASE UNCHANGED doc
  BY <1>1
<1>2. ASSUME NEW w \in Workers, NEW age, Acquire(req[w].key, age)
      PROVE  doc'[k].syncs = doc[k].syncs
  <2>1. CASE req[w].key = k
    BY <1>0, <1>2, <2>1 DEF Acquire, TypeOK, Documents
  <2>2. CASE req[w].key # k
    BY <1>0, <1>2, <2>2 DEF Acquire, TypeOK
  <2> QED
    BY <2>1, <2>2
<1>3. ASSUME NEW w \in Workers, EndSync(w)
      PROVE  doc'[k].syncs = doc[k].syncs
  BY <1>0, <1>3 DEF EndSync, Release, TypeOK
<1>4. ASSUME NEW p \in Processes, PingSync(p)
      PROVE  doc'[k].syncs = doc[k].syncs
  <2>1. PICK j \in batch[p], age \in 0..since[p] :
             doc' = [doc EXCEPT ![j].ping = age]
    BY <1>4 DEF PingSync
  <2>2. CASE j = k
    BY <1>0, <2>1, <2>2 DEF TypeOK, Documents
  <2>3. CASE j # k
    BY <1>0, <2>1, <2>3 DEF TypeOK
  <2> QED
    BY <2>2, <2>3
<1>5. ASSUME Tick PROVE doc'[k].syncs = doc[k].syncs
  BY <1>0, <1>5 DEF Tick, Documents
<1>6. \/ UNCHANGED doc
      \/ \E w \in Workers : EndSync(w) \/ \E age : Acquire(req[w].key, age)
      \/ \E p \in Processes : PingSync(p)
      \/ Tick
  BY DEF Next, Worker, SyncRule, StartSync, StartSyncLocked, StartSyncFails,
     Enqueue, Sync, SyncReturns, SyncPanics, Dequeue, EndSyncFails,
     LockUpdater, PingTimeout, PingSyncsFails, Crash, PanicEnds, Restart,
     lockVars, vars
<1> QED
  BY <1>1, <1>2, <1>3, <1>4, <1>5, <1>6

(* Only Sync calls the engine. *)
LEMMA EngineKept ==
    ASSUME NEW k \in Keys, TypeInv, [Next]_vars,
           \A w \in Workers : ~(Sync(w) /\ req[w].key = k)
    PROVE  engine'[k] = engine[k]
<1>1. CASE UNCHANGED engine
  BY <1>1
<1>2. ASSUME NEW w \in Workers, Sync(w) PROVE engine'[k] = engine[k]
  BY <1>2 DEF Sync, TypeInv, TypeOK
<1>3. UNCHANGED engine \/ \E w \in Workers : Sync(w)
  BY DEF Next, Worker, SyncRule, StartSync, StartSyncLocked, StartSyncFails,
     Enqueue, SyncReturns, SyncPanics, Dequeue, EndSync, EndSyncFails,
     LockUpdater, PingTimeout, PingSync, PingSyncsFails, Crash, PanicEnds,
     Restart, Tick, lockVars, vars
<1> QED
  BY <1>1, <1>2, <1>3

-----------------------------------------------------------------------------
(* The flag of syncRule's deferred SyncEnd starts out as "no error". *)
LEMMA FlagFreshNext ==
    ASSUME TypeInv, FlagFresh, [Next]_vars
    PROVE  FlagFresh'
<1>0. TypeOK
  BY DEF TypeInv
<1>1. ASSUME NEW w \in Workers, Worker(w) PROVE FlagFresh'
  BY <1>0, <1>1 DEF Worker, SyncRule, StartSync, StartSyncLocked,
     StartSyncFails, Enqueue, Sync, SyncReturns, SyncPanics, Dequeue, EndSync,
     EndSyncFails, GoTo, Return, FlagFresh, TypeOK
<1>2. ASSUME NEW p \in Processes, LockUpdater(p) PROVE FlagFresh'
  BY <1>2 DEF LockUpdater, PingTimeout, PingSync, PingSyncsFails, workerVars,
     FlagFresh
<1>3. ASSUME NEW p \in Processes, Dies(p) PROVE FlagFresh'
  <2>1. Restart(p)
    BY <1>3 DEF Dies, Crash, PanicEnds
  <2> QED
    BY <2>1 DEF Restart, FlagFresh
<1>4. CASE Tick \/ UNCHANGED vars
  BY <1>4 DEF Tick, vars, FlagFresh
<1> QED
  BY <1>1, <1>2, <1>3, <1>4 DEF Next, Dies

(* Worker v takes no step that matters to a sync of k. *)
Rests(v, k) ==
    /\ Holds(v, k)' <=> Holds(v, k)
    /\ Holds(v, k) => /\ pc'[v] = pc[v] /\ req'[v] = req[v]
                      /\ latest'[v] = latest[v] /\ ok'[v] = ok[v]

(* A step in which nobody who syncs k takes part. *)
LEMMA RestKeepsRecords ==
    ASSUME NEW k \in Keys, TypeInv, Recorded(k), [Next]_vars, FlagFresh',
           \A v \in Workers : Rests(v, k)
    PROVE  Recorded(k)'
<1>1. doc'[k].syncs = doc[k].syncs
  <2>1. ASSUME NEW w \in Workers, EndSync(w), req[w].key = k PROVE FALSE
    BY <2>1 DEF EndSync, Return, GoTo, Rests, Holds, TypeInv, TypeOK
  <2> QED
    BY <2>1, SyncsKept
<1>2. engine'[k] = engine[k]
  <2>1. ASSUME NEW w \in Workers, Sync(w), req[w].key = k PROVE FALSE
    BY <2>1 DEF Sync, GoTo, Rests, Holds, TypeInv, TypeOK
  <2> QED
    BY <2>1, EngineKept
<1>3. FreeIsRecorded(k)'
  BY <1>1, <1>2 DEF Recorded, FreeIsRecorded, Rests
<1>4. HeldIsRecorded(k)'
  BY <1>1, <1>2 DEF Recorded, HeldIsRecorded, Rests
<1> QED
  BY <1>3, <1>4 DEF Recorded

(* A worker's step leaves the other workers' syncs alone. *)
LEMMA OthersRest ==
    ASSUME NEW k \in Keys, TypeInv, NEW w \in Workers, Worker(w),
           NEW v \in Workers, v # w
    PROVE  Rests(v, k)
<1>1. TypeOK
  BY DEF TypeInv
<1> QED
  BY <1>1 DEF Worker, SyncRule, StartSync, StartSyncLocked, StartSyncFails,
     Enqueue, Sync, SyncReturns, SyncPanics, Dequeue, EndSync, EndSyncFails,
     GoTo, Return, Rests, Holds, TypeOK

(* A step of the one worker that syncs k. *)
LEMMA HolderKeepsRecords ==
    ASSUME NEW k \in Keys, TypeInv, Recorded(k), FlagFresh', OneHolder(k),
           ~LosesResult(k), NEW w \in Workers, Worker(w), Holds(w, k)
    PROVE  Recorded(k)'
<1>0. /\ TypeOK /\ [Next]_vars /\ req[w].key = k /\ pc[w] \in HoldingSteps
      /\ ok[w] \in BOOLEAN /\ req[w].removed \in BOOLEAN
      /\ engine[k] \in SyncData /\ doc[k] \in Documents
      /\ doc[k].syncs \in Histories
  BY RequestType, DocumentType DEF TypeInv, TypeOK, Holds, Next, Documents
<1>1. \A v \in Workers : v # w => ~Holds(v, k) /\ ~Holds(v, k)'
  BY OthersRest DEF OneHolder, Rests
<1>2. HeldIsRecorded(k)!(w)
  BY DEF Recorded, HeldIsRecorded
<1>3. CASE Enqueue(w)
  <2>1. UNCHANGED <<doc, engine, req, latest, ok>> /\ pc[w] = "enqueue"
    BY <1>3 DEF Enqueue, lockVars
  <2>2. CASE RemovalSynced(req[w].removed, latest[w])
    <3>1. pc'[w] = "dequeue"
      BY <1>0, <1>3, <2>2 DEF Enqueue, GoTo, TypeOK
    <3>2. ok[w] = TRUE
      BY <2>1 DEF Recorded, FlagFresh
    <3>3. latest[w] = engine[k]
      BY <1>2, <2>1
    <3>4. engine[k] = [removed |-> req[w].removed, successful |-> ok[w]]
      BY <1>0, <2>2, <3>2, <3>3 DEF RemovalSynced, SyncData
    <3> QED
      BY <1>0, <1>1, <2>1, <3>1, <3>4
         DEF Recorded, FreeIsRecorded, HeldIsRecorded, Holds
  <2>3. CASE ~RemovalSynced(req[w].removed, latest[w])
    <3>1. pc'[w] = "Sync"
      BY <1>0, <1>3, <2>3 DEF Enqueue, GoTo, TypeOK
    <3> QED
      BY <1>0, <1>1, <1>2, <2>1, <3>1
         DEF Recorded, FreeIsRecorded, HeldIsRecorded, Holds
  <2> QED
    BY <2>2, <2>3
<1>4. CASE Sync(w)
  <2>1. /\ pc'[w] = "return" /\ req' = req
        /\ engine'[k] = [removed |-> req[w].removed, successful |-> ok'[w]]
    BY <1>0, <1>4 DEF Sync, GoTo, TypeOK
  <2> QED
    BY <1>0, <1>1, <2>1 DEF Recorded, FreeIsRecorded, HeldIsRecorded, Holds
<1>41. CASE SyncReturns(w)
  <2>1. /\ UNCHANGED <<doc, engine, req, latest, ok>>
        /\ pc[w] = "return" /\ pc'[w] = "dequeue"
    BY <1>0, <1>41 DEF SyncReturns, GoTo, lockVars, TypeOK
  <2> QED
    BY <1>0, <1>1, <1>2, <2>1
       DEF Recorded, FreeIsRecorded, HeldIsRecorded, Holds
<1>5. CASE Dequeue(w)
  <2>1. /\ UNCHANGED <<doc, engine, req, latest, ok>>
        /\ pc[w] = "dequeue" /\ pc'[w] = "EndSync"
    BY <1>0, <1>5 DEF Dequeue, GoTo, lockVars, TypeOK
  <2> QED
    BY <1>0, <1>1, <1>2, <2>1
       DEF Recorded, FreeIsRecorded, HeldIsRecorded, Holds
<1>6. CASE EndSync(w)
  <2> DEFINE data == [removed |-> req[w].removed, successful |-> ok[w]]
  <2>1. PICK age : Release(w, age)
    BY <1>6 DEF EndSync
  <2>2. doc'[k].syncs = PushSlice(doc[k].syncs, data)
    BY <1>0, <2>1 DEF Release, TypeOK, Documents
  <2>3. data \in SyncData
    BY <1>0 DEF SyncData
  <2>4. LatestSync(doc'[k].syncs) = data
    BY <1>0, <2>2, <2>3, LatestIsPushed
  <2>5. engine[k] = data /\ engine' = engine
    BY <1>2, <1>6 DEF EndSync
  <2>6. ~Holds(w, k)'
    BY <1>0, <1>6 DEF EndSync, Return, GoTo, Holds, TypeOK
  <2> QED
    BY <1>1, <2>4, <2>5, <2>6 DEF Recorded, FreeIsRecorded, HeldIsRecorded
<1>7. ~EndSyncFails(w) /\ ~SyncPanics(w)
  BY DEF LosesResult, EndSyncFails
<1> QED
  BY <1>0, <1>3, <1>4, <1>41, <1>5, <1>6, <1>7 DEF Worker, SyncRule, StartSync,
     StartSyncLocked, StartSyncFails

(* A step of a worker that did not sync k. *)
LEMMA NewcomerKeepsRecords ==
    ASSUME NEW k \in Keys, TypeInv, Recorded(k), FlagFresh', OneHolder(k)',
           NEW w \in Workers, Worker(w), ~Holds(w, k)
    PROVE  Recorded(k)'
<1>0. TypeOK /\ [Next]_vars
  BY DEF TypeInv, Next
<1>1. \A v \in Workers : v # w => Rests(v, k)
  BY OthersRest
<1>2. CASE ~Holds(w, k)'
  BY <1>0, <1>1, <1>2, RestKeepsRecords DEF Rests
<1>3. CASE Holds(w, k)'
  <2>1. StartSync(w) /\ req[w].key = k
    BY <1>3, <1>0, NewHolder
  <2>2. \A v \in Workers : v # w => ~Holds(v, k) /\ ~Holds(v, k)'
    BY <1>1, <1>3 DEF OneHolder, Rests
  <2>3. LatestSync(doc[k].syncs) = engine[k]
    BY <2>2 DEF Recorded, FreeIsRecorded
  <2>4. /\ pc'[w] = "enqueue" /\ engine' = engine
        /\ latest'[w] = LatestSync(doc[k].syncs)
    BY <1>0, <2>1 DEF StartSync, GoTo, TypeOK
  <2>5. doc'[k].syncs = doc[k].syncs
    <3>1. ASSUME NEW v \in Workers, EndSync(v), req[v].key = k PROVE FALSE
      <4>1. Holds(v, k)
        BY <3>1 DEF EndSync, Holds
      <4> QED
        BY <2>2, <4>1
    <3> QED
      BY <1>0, <3>1, SyncsKept
  <2> QED
    BY <1>0, <1>3, <2>2, <2>3, <2>4, <2>5
       DEF Recorded, FreeIsRecorded, HeldIsRecorded
<1> QED
  BY <1>2, <1>3

LEMMA RecordedNext ==
    ASSUME NEW k \in Keys, TypeInv, Recorded(k), OneHolder(k), OneHolder(k)',
           [~LosesResult(k)]_vars, [Next]_vars
    PROVE  Recorded(k)'
<1>0. TypeOK /\ FlagFresh'
  BY FlagFreshNext DEF TypeInv, Recorded
<1>1. ASSUME NEW w \in Workers, Worker(w), vars' # vars PROVE Recorded(k)'
  BY <1>0, <1>1, HolderKeepsRecords, NewcomerKeepsRecords
<1>2. ASSUME NEW p \in Processes, LockUpdater(p) PROVE Recorded(k)'
  <2>1. \A v \in Workers : Rests(v, k)
    BY <1>2 DEF LockUpdater, PingTimeout, PingSync, PingSyncsFails,
       workerVars, Rests, Holds
  <2> QED
    BY <1>0, <2>1, RestKeepsRecords
<1>3. ASSUME NEW p \in Processes, Dies(p), vars' # vars PROVE Recorded(k)'
  <2>0. Restart(p)
    BY <1>3 DEF Dies, Crash, PanicEnds
  <2>1. \A v \in Workers : ProcessOf[v] # p => Rests(v, k)
    BY <2>0 DEF Restart, Rests, Holds
  <2>2. \A v \in Workers : ProcessOf[v] = p => ~Holds(v, k)'
    BY <2>0 DEF Restart, Holds
  <2>3. CASE \A v \in Workers : ProcessOf[v] = p => ~Holds(v, k)
    BY <1>0, <2>1, <2>2, <2>3, RestKeepsRecords DEF Rests
  <2>4. ASSUME NEW w \in Workers, ProcessOf[w] = p, Holds(w, k)
        PROVE  Recorded(k)'
    <3>1. pc[w] \in {"enqueue", "Sync"}
      BY <1>3, <2>4 DEF LosesResult, Holds
    <3>2. LatestSync(doc[k].syncs) = engine[k]
      BY <2>4, <3>1 DEF Recorded, HeldIsRecorded
    <3>3. UNCHANGED <<doc, engine>>
      BY <2>0 DEF Restart, lockVars
    <3>4. \A v \in Workers : ~Holds(v, k)'
      <4>1. \A v \in Workers : v # w => ~Holds(v, k)
        BY <2>4 DEF OneHolder
      <4> QED
        BY <2>1, <2>2, <2>4, <4>1 DEF Rests
    <3> QED
      BY <1>0, <3>2, <3>3, <3>4
         DEF Recorded, FreeIsRecorded, HeldIsRecorded
  <2> QED
    BY <2>3, <2>4
<1>4. ASSUME Tick \/ UNCHANGED vars PROVE Recorded(k)'
  <2>1. \A v \in Workers : Rests(v, k)
    BY <1>4 DEF Tick, vars, Rests, Holds
  <2> QED
    BY <1>0, <2>1, RestKeepsRecords
<1> QED
  BY <1>1, <1>2, <1>3, <1>4 DEF Next, Dies

LEMMA RecordedInit == ASSUME NEW k \in Keys PROVE Init => Recorded(k)
BY DEF Init, Recorded, FlagFresh, FreeIsRecorded, HeldIsRecorded, Holds,
   NoDocument, LatestSync

(* Only Enqueue goes from "enqueue" to "dequeue", and then what StartSync has
   read is still what the engine was last told. *)
LEMMA RecordedSkip ==
    ASSUME NEW k \in Keys, TypeInv, Recorded(k), [Next]_vars
    PROVE  Justified(k)
<1> SUFFICES ASSUME NEW w \in Workers, Holds(w, k), pc[w] = "enqueue",
                    pc'[w] = "dequeue"
             PROVE  engine[k].removed /\ engine[k].successful
  BY DEF Justified
<1>0. TypeOK
  BY DEF TypeInv
<1>1. PICK v \in Workers : Worker(v)
  <2>1. ~ \E p \in Processes : LockUpdater(p)
    BY DEF LockUpdater, PingTimeout, PingSync, PingSyncsFails, workerVars
  <2>2. ASSUME NEW p \in Processes, Dies(p) PROVE FALSE
    <3>0. Restart(p)
      BY <2>2 DEF Dies, Crash, PanicEnds
    <3>1. pc'[w] \in {"idle", pc[w]}
      BY <3>0 DEF Restart
    <3> QED
      BY <3>1
  <2>3. ~Tick /\ ~UNCHANGED vars
    BY DEF Tick, vars
  <2> QED
    BY <2>1, <2>2, <2>3 DEF Next, Dies
<1>2. Enqueue(w)
  BY <1>0, <1>1 DEF Worker, SyncRule, StartSync, StartSyncLocked,
     StartSyncFails, Enqueue, Sync, SyncReturns, SyncPanics, Dequeue, EndSync,
     EndSyncFails, GoTo, Return, TypeOK
<1>3. RemovalSynced(req[w].removed, latest[w])
  BY <1>0, <1>2 DEF Enqueue, GoTo, TypeOK
<1>4. latest[w] = engine[k]
  BY DEF Recorded, HeldIsRecorded
<1> QED
  BY <1>3, <1>4 DEF RemovalSynced

(* A removal that is skipped because it is "already synced" is what the engine
   was last asked for, and what it last did: true of every rule whose syncs do
   not overlap, as long as the result of each call of the engine is recorded,
   whatever happens to the other rules. *)
THEOREM SkipsAreJustified ==
    ASSUME NEW k \in Keys
    PROVE  Spec /\ []OneHolder(k) /\ [][~LosesResult(k)]_vars
             => [][Justified(k)]_vars
<1>1. Init => TypeInv /\ Recorded(k)
  BY TypeInit, RecordedInit
<1>2. TypeInv /\ Recorded(k) /\ [Next]_vars => TypeInv' /\ Justified(k)
  BY TypeNext, RecordedSkip
<1>3. /\ TypeInv /\ Recorded(k) /\ OneHolder(k) /\ OneHolder(k)'
      /\ [Next]_vars /\ [~LosesResult(k)]_vars
      => Recorded(k)'
  BY RecordedNext
<1> QED
  BY <1>1, <1>2, <1>3, PTL DEF Spec

(* The same of all rules. *)
NobodyOverlaps == \A k \in Keys : OneHolder(k)
NothingLost == \A k \in Keys : ~LosesResult(k)
AllRecorded == \A k \in Keys : Recorded(k)

(* Where no two syncs of a rule overlap, and no sync dies, panics or fails to
   record its result once it has called the engine, every removal that is skipped is
   one the engine was last called for, with success. *)
THEOREM RecordedSkipsAreJustified ==
    Spec /\ []NobodyOverlaps /\ [][NothingLost]_vars => SkipJustified
<1> DEFINE Step == \A w \in Workers : pc[w] = "enqueue" /\ pc'[w] = "dequeue" =>
                      LET e == engine[req[w].key] IN e.removed /\ e.successful
<1>1. Init => TypeInv /\ AllRecorded
  BY TypeInit, RecordedInit DEF AllRecorded
<1>2. /\ TypeInv /\ AllRecorded /\ NobodyOverlaps /\ NobodyOverlaps'
      /\ [Next]_vars /\ [NothingLost]_vars
      => TypeInv' /\ AllRecorded'
  <2> SUFFICES ASSUME TypeInv, AllRecorded, NobodyOverlaps, NobodyOverlaps',
                      [Next]_vars, [NothingLost]_vars
               PROVE  TypeInv' /\ AllRecorded'
    OBVIOUS
  <2>1. ASSUME NEW k \in Keys PROVE Recorded(k)'
    <3>1. Recorded(k) /\ OneHolder(k) /\ OneHolder(k)'
      BY DEF AllRecorded, NobodyOverlaps
    <3>2. [~LosesResult(k)]_vars
      BY DEF NothingLost
    <3> QED
      BY <3>1, <3>2, RecordedNext
  <2> QED
    BY <2>1, TypeNext DEF AllRecorded
<1>3. TypeInv /\ AllRecorded /\ [Next]_vars => [Step]_vars
  <2> SUFFICES ASSUME TypeInv, AllRecorded, [Next]_vars,
                      NEW w \in Workers, pc[w] = "enqueue", pc'[w] = "dequeue"
               PROVE  /\ engine[req[w].key].removed
                      /\ engine[req[w].key].successful
    OBVIOUS
  <2>1. PICK k \in Keys : k = req[w].key
    BY Numbers DEF TypeInv
  <2>2. Justified(k)
    BY RecordedSkip DEF AllRecorded
  <2> QED
    BY <2>1, <2>2 DEF Justified, Holds
<1> HIDE DEF Step
<1>4. Spec /\ []NobodyOverlaps /\ [][NothingLost]_vars => [][Step]_vars
  BY <1>1, <1>2, <1>3, PTL DEF Spec
<1> QED
  BY <1>4 DEF Step, SkipJustified
=============================================================================
