------------------------------ MODULE RuleSync ------------------------------
(***************************************************************************)
(* The synchronisation of one rule by one engine, as every acl-api process *)
(* runs it: the lease kept in MongoDB (storage/mongodb/syncstorage.go),    *)
(* the per-process goroutine that pings the leases the process holds       *)
(* (lockUpdater in rule/service.go), and the worker that takes the lease,  *)
(* calls the engine and gives the lease back (engine/engine.go).           *)
(*                                                                         *)
(* A key stands for a pair (rule id, engine).  The unique index on that    *)
(* pair leaves one document per key, and a document keeps its _id for      *)
(* ever, so the key also stands for the SyncID.                            *)
(*                                                                         *)
(* Time.  The code compares the pingtime of a document with a clock read   *)
(* on the client some time before the command reaches the server.  The     *)
(* model keeps every instant as its age, Tick makes everything one unit    *)
(* older, and a command carries a clock reading of any age between zero    *)
(* and the time its step has been pending.  Ages beyond MaxAge are         *)
(* indistinguishable to the code, so they stop there.  The clocks of the   *)
(* processes are taken to agree.                                           *)
(***************************************************************************)
EXTENDS Integers, Sequences, FiniteSets

CONSTANTS
    Keys,            \* pairs (rule id, engine)
    Processes,       \* acl-api processes
    Workers,         \* goroutines that run engineSync
    ProcessOf,       \* the process each worker runs in
    Calls,           \* the [force, removed] with which SyncRules is called
    SyncInterval,    \* viper "sync.interval" (1 minute)
    LockExpire,      \* lockExpireTime (5 minutes)
    PingInterval,    \* lockUpdaterInterval (20 seconds)
    HistoryLimit,    \* the $slice of EndSync (10)
    MaxDelay,        \* bound: no storage command or hand-over takes longer
    MaxFaults,       \* bound: storage commands that fail
    MaxCrashes,      \* bound: process crashes, panics among them
    MayPanic         \* whether the engine may panic

ASSUME ProcessOfAssumption == ProcessOf \in [Workers -> Processes]
ASSUME CallsAssumption ==
    Calls # {} /\ Calls \subseteq [force : BOOLEAN, removed : BOOLEAN]
ASSUME KeysAssumption == Keys # {}
ASSUME TimeAssumption ==
    /\ SyncInterval \in Nat
    /\ LockExpire \in Nat
    /\ PingInterval \in Nat
    /\ MaxDelay \in Nat
ASSUME BoundAssumption ==
    /\ HistoryLimit \in Nat \ {0}
    /\ MaxFaults \in Nat
    /\ MaxCrashes \in Nat
    /\ MayPanic \in BOOLEAN

VARIABLES
    doc,      \* doc[k]: the acl_rule_sync document of key k
    pc,       \* pc[w]: what worker w does next
    req,      \* req[w]: the arguments of the syncRule that w executes
    latest,   \* latest[w]: LatestSync of the document StartSync returned
    ok,       \* ok[w]: err == nil, for the deferred SyncEnd
    lag,      \* lag[w]: time since w's latest step
    ids,      \* ids[p]: syncIDSet of the lockUpdater of process p
    batch,    \* batch[p]: ids the PingSyncs in progress has yet to update
    since,    \* since[p]: time since the lockUpdater of p was last in select
    engine,   \* engine[k]: what the engine was last told of k
    faults,   \* storage commands that have failed
    crashes,  \* processes that have crashed or are about to
    panicked  \* workers that end their process when syncRule is done

lockVars == <<doc, engine>>
workerVars == <<pc, req, latest, ok, lag>>
updaterVars == <<ids, batch, since>>
crashVars == <<crashes, panicked>>
vars == <<doc, pc, req, latest, ok, lag, ids, batch, since, engine, faults,
          crashes, panicked>>

(* The longer of the two times, as StartSync computes it. *)
ExpireTime == IF SyncInterval > LockExpire THEN SyncInterval ELSE LockExpire

(* Bound: no comparison of StartSync tells larger ages apart. *)
MaxAge == ExpireTime + MaxDelay + 1

Ages == 0..MaxAge
Older(age) == IF age < MaxAge THEN age + 1 ELSE age

SyncData == [removed : BOOLEAN, successful : BOOLEAN]
NoSync == [removed |-> FALSE, successful |-> FALSE]

(* The newest HistoryLimit results of a key. *)
Histories == {s \in Seq(SyncData) : Len(s) <= HistoryLimit}

Documents == [exists : BOOLEAN, running : BOOLEAN, ping : Ages,
              syncs : Histories]
NoDocument == [exists |-> FALSE, running |-> FALSE, ping |-> 0,
               syncs |-> <<>>]

(* The key, the flag, and the Removed field of the copy of the rule. *)
Requests == {r \in [key : Keys, force : BOOLEAN, removed : BOOLEAN] :
               [force |-> r.force, removed |-> r.removed] \in Calls}

(* Arguments of a worker that has none: the variables of a returned call are
   gone, so every idle worker holds the same arbitrary values. *)
NoRequest == CHOOSE r \in Requests : TRUE

Steps == {"idle", "StartSync", "enqueue", "Sync", "return", "dequeue",
          "EndSync"}

(* Steps that are a storage command or a channel operation. *)
TimedSteps == {"StartSync", "enqueue", "dequeue", "EndSync"}

(* Steps between a successful StartSync and the matching EndSync. *)
HoldingSteps == {"enqueue", "Sync", "return", "dequeue", "EndSync"}

LatestSync(syncs) == IF syncs = <<>> THEN NoSync ELSE syncs[Len(syncs)]

(* A $push without $slice. *)
PushSliceMutantUnbounded(syncs, data) == Append(syncs, data)

(* $push with $each and a negative $slice: the newest entries stay. *)
PushSlice(syncs, data) ==
    LET all == Append(syncs, data)
    IN IF Len(all) <= HistoryLimit THEN all ELSE Tail(all)

(* A filter that ignores "running" when it compares pingtime. *)
MayStartMutantNoExpiry(d, force, age) ==
    ~d.exists \/ force \/ d.ping - age > SyncInterval

(* A filter that never takes over the lease of a dead process. *)
MayStartMutantNoTakeover(d, force, age) ==
    ~d.exists \/ force \/ (~d.running /\ d.ping - age > SyncInterval)

(* The filter of StartSync, for a clock reading that is "age" old. *)
MayStart(d, force, age) ==
    \/ ~d.exists
    \/ force
    \/ ~d.running /\ d.ping - age > SyncInterval
    \/ d.running /\ d.ping - age > ExpireTime

(* The early return of syncRule for a removal that is already synced. *)
RemovalSynced(removed, last) == removed /\ last.removed /\ last.successful

-----------------------------------------------------------------------------
Init ==
    /\ doc = [k \in Keys |-> NoDocument]
    /\ pc = [w \in Workers |-> "idle"]
    /\ req = [w \in Workers |-> NoRequest]
    /\ latest = [w \in Workers |-> NoSync]
    /\ ok = [w \in Workers |-> TRUE]
    /\ lag = [w \in Workers |-> 0]
    /\ ids = [p \in Processes |-> {}]
    /\ batch = [p \in Processes |-> {}]
    /\ since = [p \in Processes |-> 0]
    /\ engine = [k \in Keys |-> NoSync]
    /\ faults = 0
    /\ crashes = 0
    /\ panicked = {}

(* Worker w moves to a step of the same call. *)
GoTo(w, step) ==
    /\ pc' = [pc EXCEPT ![w] = step]
    /\ lag' = [lag EXCEPT ![w] = 0]

(* syncRule returns: its variables are gone. *)
Return(w) ==
    /\ GoTo(w, "idle")
    /\ req' = [req EXCEPT ![w] = NoRequest]
    /\ latest' = [latest EXCEPT ![w] = NoSync]
    /\ ok' = [ok EXCEPT ![w] = TRUE]

Fault ==
    /\ faults < MaxFaults
    /\ faults' = faults + 1

(* engineSync takes the next rule of some SyncRules call.  The rule is a copy
   the caller made, so "removed" may be out of date in either direction. *)
SyncRule(w) ==
    /\ pc[w] = "idle" /\ w \notin panicked
    /\ \E r \in Requests : req' = [req EXCEPT ![w] = r]
    /\ GoTo(w, "StartSync")
    /\ UNCHANGED <<lockVars, updaterVars, latest, ok, faults, crashVars>>

(* An upsert whose $set leaves pingtime to the first ping. *)
AcquireMutantOldPing(k, age) ==
    doc' = [doc EXCEPT ![k].exists = TRUE, ![k].running = TRUE]

(* FindOneAndUpdate with upsert matched or inserted the document. *)
Acquire(k, age) ==
    doc' = [doc EXCEPT ![k].exists = TRUE, ![k].running = TRUE,
                       ![k].ping = age]

StartSync(w) ==
    /\ pc[w] = "StartSync"
    /\ \E age \in 0..lag[w] :
          /\ MayStart(doc[req[w].key], req[w].force, age)
          /\ Acquire(req[w].key, age)
    /\ latest' = [latest EXCEPT ![w] = LatestSync(doc[req[w].key].syncs)]
    /\ GoTo(w, "enqueue")
    /\ UNCHANGED <<updaterVars, req, ok, engine, faults, crashVars>>

(* The upsert hit the unique index: ErrSyncStorageLocked, and syncRule
   returns nil. *)
StartSyncLocked(w) ==
    /\ pc[w] = "StartSync"
    /\ \E age \in 0..lag[w] : ~MayStart(doc[req[w].key], req[w].force, age)
    /\ Return(w)
    /\ UNCHANGED <<lockVars, updaterVars, faults, crashVars>>

(* The command failed.  It may have been applied all the same, when only its
   answer was lost: syncRule returns the error, and nobody pings the lease. *)
StartSyncFails(w) ==
    /\ pc[w] = "StartSync"
    /\ Fault
    /\ \/ UNCHANGED doc
       \/ \E age \in 0..lag[w] :
             /\ MayStart(doc[req[w].key], req[w].force, age)
             /\ Acquire(req[w].key, age)
    /\ Return(w)
    /\ UNCHANGED <<updaterVars, engine, crashVars>>

(* SyncStart hands the SyncID over an unbuffered channel, so the lockUpdater
   must be in select; it then pings all its ids.  The worker goes on to the
   check of syncRule for removals. *)
Enqueue(w) ==
    LET p == ProcessOf[w] IN
    /\ pc[w] = "enqueue"
    /\ batch[p] = {}
    /\ ids' = [ids EXCEPT ![p] = @ \cup {req[w].key}]
    /\ batch' = [batch EXCEPT ![p] = ids'[p]]
    /\ since' = [since EXCEPT ![p] = 0]
    /\ GoTo(w, IF RemovalSynced(req[w].removed, latest[w])
                 THEN "dequeue" ELSE "Sync")
    /\ UNCHANGED <<lockVars, req, latest, ok, faults, crashVars>>

(* e.Sync has its effect, and is going to return an error or not. *)
Sync(w) ==
    /\ pc[w] = "Sync"
    /\ \E successful \in BOOLEAN :
          /\ ok' = [ok EXCEPT ![w] = successful]
          /\ engine' = [engine EXCEPT ![req[w].key] =
                [removed |-> req[w].removed, successful |-> successful]]
    /\ GoTo(w, "return")
    /\ UNCHANGED <<updaterVars, doc, req, latest, faults, crashVars>>

SyncReturns(w) ==
    /\ pc[w] = "return"
    /\ GoTo(w, "dequeue")
    /\ UNCHANGED <<lockVars, updaterVars, req, latest, ok, faults, crashVars>>

(* e.Sync panics, before or after its effect.  Nothing recovers: the deferred
   SyncEnd runs with err == nil, and then the process dies. *)
SyncPanics(w) ==
    /\ MayPanic
    /\ pc[w] \in {"Sync", "return"}
    /\ crashes < MaxCrashes
    /\ crashes' = crashes + 1
    /\ panicked' = panicked \cup {w}
    /\ ok' = [ok EXCEPT ![w] = TRUE]
    /\ GoTo(w, "dequeue")
    /\ UNCHANGED <<lockVars, updaterVars, req, latest, faults>>

(* A syncRule that returns the engine's error before SyncEnd. *)
DequeueMutantOnlyOnSuccess(w) ==
    LET p == ProcessOf[w] IN
    /\ pc[w] = "dequeue" /\ ok[w]
    /\ batch[p] = {}
    /\ ids' = [ids EXCEPT ![p] = @ \ {req[w].key}]
    /\ batch' = [batch EXCEPT ![p] = ids'[p]]
    /\ since' = [since EXCEPT ![p] = 0]
    /\ GoTo(w, "EndSync")
    /\ UNCHANGED <<lockVars, req, latest, ok, faults, crashVars>>

(* A SyncEnd that leaves the SyncID to the lockUpdater. *)
DequeueMutantStays(w) ==
    /\ pc[w] = "dequeue"
    /\ batch[ProcessOf[w]] = {}
    /\ GoTo(w, "EndSync")
    /\ UNCHANGED <<lockVars, updaterVars, req, latest, ok, faults, crashVars>>

(* SyncEnd takes the SyncID out of the lockUpdater, which pings what is left. *)
Dequeue(w) ==
    LET p == ProcessOf[w] IN
    /\ pc[w] = "dequeue"
    /\ batch[p] = {}
    /\ ids' = [ids EXCEPT ![p] = @ \ {req[w].key}]
    /\ batch' = [batch EXCEPT ![p] = ids'[p]]
    /\ since' = [since EXCEPT ![p] = 0]
    /\ GoTo(w, "EndSync")
    /\ UNCHANGED <<lockVars, req, latest, ok, faults, crashVars>>

(* An update that records the result and forgets the flag. *)
ReleaseMutantRunning(w, age) ==
    LET k == req[w].key
        data == [removed |-> req[w].removed, successful |-> ok[w]]
    IN doc' = [doc EXCEPT ![k].ping = age, ![k].syncs = PushSlice(@, data)]

(* The update of EndSync.  Its filter is the rule and the engine: it does not
   ask whether the lease is still w's. *)
Release(w, age) ==
    LET k == req[w].key
        data == [removed |-> req[w].removed, successful |-> ok[w]]
    IN doc' = [doc EXCEPT ![k].running = FALSE, ![k].ping = age,
                          ![k].syncs = PushSlice(@, data)]

EndSync(w) ==
    /\ pc[w] = "EndSync"
    /\ \E age \in 0..lag[w] : Release(w, age)
    /\ Return(w)
    /\ UNCHANGED <<updaterVars, engine, faults, crashVars>>

(* EndSync failed and was not applied: the error is only logged, and the
   lease stays running until it expires.  (Applied and failed is EndSync.) *)
EndSyncFails(w) ==
    /\ pc[w] = "EndSync"
    /\ Fault
    /\ Return(w)
    /\ UNCHANGED <<updaterVars, lockVars, crashVars>>

-----------------------------------------------------------------------------
(* The lockUpdater of process p. *)

(* time.After(lockUpdaterInterval) fires in select. *)
PingTimeout(p) ==
    /\ batch[p] = {}
    /\ ids[p] # {}
    /\ since[p] >= PingInterval
    /\ batch' = [batch EXCEPT ![p] = ids[p]]
    /\ since' = [since EXCEPT ![p] = 0]
    /\ UNCHANGED <<lockVars, workerVars, ids, faults, crashVars>>

(* A PingSyncs whose filter also asks for "running". *)
PingSyncMutantRunning(p) ==
    \E k \in batch[p], age \in 0..since[p] :
        /\ doc' = IF doc[k].running THEN [doc EXCEPT ![k].ping = age] ELSE doc
        /\ batch' = [batch EXCEPT ![p] = @ \ {k}]
        /\ since' = [since EXCEPT ![p] = IF batch'[p] = {} THEN 0 ELSE @]
        /\ UNCHANGED <<workerVars, ids, engine, faults, crashVars>>

(* PingSyncs updates one document: an UpdateMany is not atomic over the
   documents it matches, and it does not look at "running".  The goroutine is
   back in select after the last one. *)
PingSync(p) ==
    \E k \in batch[p], age \in 0..since[p] :
        /\ doc' = [doc EXCEPT ![k].ping = age]
        /\ batch' = [batch EXCEPT ![p] = @ \ {k}]
        /\ since' = [since EXCEPT ![p] = IF batch'[p] = {} THEN 0 ELSE @]
        /\ UNCHANGED <<workerVars, ids, engine, faults, crashVars>>

(* PingSyncs fails: the error is only logged, the next one is a full
   interval away. *)
PingSyncsFails(p) ==
    /\ batch[p] # {}
    /\ Fault
    /\ batch' = [batch EXCEPT ![p] = {}]
    /\ since' = [since EXCEPT ![p] = 0]
    /\ UNCHANGED <<lockVars, workerVars, ids, crashVars>>

-----------------------------------------------------------------------------
(* Process p dies with all its goroutines and starts again with an empty
   lockUpdater. *)
Restart(p) ==
    LET In(w) == ProcessOf[w] = p IN
    /\ pc' = [w \in Workers |-> IF In(w) THEN "idle" ELSE pc[w]]
    /\ req' = [w \in Workers |-> IF In(w) THEN NoRequest ELSE req[w]]
    /\ latest' = [w \in Workers |-> IF In(w) THEN NoSync ELSE latest[w]]
    /\ ok' = [w \in Workers |-> IF In(w) THEN TRUE ELSE ok[w]]
    /\ lag' = [w \in Workers |-> IF In(w) THEN 0 ELSE lag[w]]
    /\ ids' = [ids EXCEPT ![p] = {}]
    /\ batch' = [batch EXCEPT ![p] = {}]
    /\ since' = [since EXCEPT ![p] = 0]
    /\ panicked' = {w \in panicked : ~In(w)}
    /\ UNCHANGED <<lockVars, faults>>

Crash(p) ==
    /\ crashes < MaxCrashes
    /\ crashes' = crashes + 1
    /\ Restart(p)

(* The deferred calls of a panic are done. *)
PanicEnds(p) ==
    /\ \E w \in panicked : ProcessOf[w] = p /\ pc[w] = "idle"
    /\ Restart(p)
    /\ UNCHANGED crashes

(* Time passes, no further than the latest instant at which a pending command
   or hand-over must have happened (bound MaxDelay).  The time a call of the
   engine takes is not bounded. *)
Tick ==
    /\ \A w \in Workers : pc[w] \in TimedSteps => lag[w] < MaxDelay
    /\ \A p \in Processes :
          /\ batch[p] # {} => since[p] < MaxDelay
          /\ ids[p] # {} => since[p] < PingInterval + MaxDelay
    /\ doc' = [k \in Keys |->
                 IF doc[k].exists THEN [doc[k] EXCEPT !.ping = Older(@)]
                                  ELSE doc[k]]
    /\ lag' = [w \in Workers |->
                 IF pc[w] \in TimedSteps THEN lag[w] + 1 ELSE lag[w]]
    /\ since' = [p \in Processes |->
                 IF ids[p] # {} THEN since[p] + 1 ELSE since[p]]
    /\ UNCHANGED <<pc, req, latest, ok, ids, batch, engine, faults, crashVars>>

Worker(w) ==
    \/ SyncRule(w)
    \/ StartSync(w)
    \/ StartSyncLocked(w)
    \/ StartSyncFails(w)
    \/ Enqueue(w)
    \/ Sync(w)
    \/ SyncReturns(w)
    \/ SyncPanics(w)
    \/ Dequeue(w)
    \/ EndSync(w)
    \/ EndSyncFails(w)

LockUpdater(p) == PingTimeout(p) \/ PingSync(p) \/ PingSyncsFails(p)

Next ==
    \/ \E w \in Workers : Worker(w)
    \/ \E p \in Processes : LockUpdater(p) \/ Crash(p) \/ PanicEnds(p)
    \/ Tick

Spec == Init /\ [][Next]_vars

(* Goroutines are scheduled and storage commands answered; e.Sync returns.  The
   select of lockUpdater picks at random among its ready channels, hence the
   strong fairness of the hand-overs.  Nothing makes requests arrive, commands
   fail or processes crash.  A goroutine is at one step at a time, so it is
   fair to each of its steps when it is fair to them together. *)
Fairness ==
    /\ \A w \in Workers :
          /\ WF_vars(\/ StartSync(w) \/ StartSyncLocked(w)
                     \/ Sync(w) \/ SyncReturns(w) \/ EndSync(w))
          /\ SF_vars(Enqueue(w) \/ Dequeue(w))
    /\ \A p \in Processes : WF_vars(PingTimeout(p) \/ PingSync(p))
    /\ WF_vars(Tick)

FairSpec == Spec /\ Fairness

-----------------------------------------------------------------------------
(* Every variable has its type. *)
TypeOK ==
    /\ doc \in [Keys -> Documents]
    /\ pc \in [Workers -> Steps]
    /\ req \in [Workers -> Requests]
    /\ latest \in [Workers -> SyncData]
    /\ ok \in [Workers -> BOOLEAN]
    /\ lag \in [Workers -> 0..MaxDelay]
    /\ ids \in [Processes -> SUBSET Keys]
    /\ batch \in [Processes -> SUBSET Keys]
    /\ since \in [Processes -> 0..PingInterval + MaxDelay]
    /\ engine \in [Keys -> SyncData]
    /\ faults \in 0..MaxFaults
    /\ crashes \in 0..MaxCrashes
    /\ panicked \in SUBSET Workers

Holds(w, k) == pc[w] \in HoldingSteps /\ req[w].key = k

(* Two syncs of one rule by one engine that were not forced never overlap:
   from the answer of StartSync to the effect of EndSync, over every process,
   crash, expiry and late ping. *)
NonForcedExclusive ==
    \A v, w \in Workers :
        /\ v # w
        /\ pc[v] \in HoldingSteps /\ ~req[v].force
        /\ pc[w] \in HoldingSteps /\ ~req[w].force
        => req[v].key # req[w].key

(* While a worker is between StartSync and EndSync the document says so, and
   its pingtime is recent enough that StartSync refuses everyone else
   (service_test.go, "lock and unlock updater"). *)
LeaseKept ==
    \A w \in Workers : pc[w] \in HoldingSteps =>
        LET d == doc[req[w].key]
        IN d.exists /\ d.running /\ d.ping <= ExpireTime

(* The lockUpdater of a process pings exactly the keys its workers hold: an id
   that stays behind would keep a dead lease alive, one that is missing lets a
   live lease expire. *)
Pinged(w) == pc[w] \in {"Sync", "return", "dequeue"}

PingsWhatIsHeld ==
    \A p \in Processes :
        /\ batch[p] \subseteq ids[p]
        /\ \A k \in Keys : k \in ids[p] <=>
              \E w \in Workers : ProcessOf[w] = p /\ Pinged(w) /\ req[w].key = k

(* The time that n failed PingSyncs cost. *)
Missed(n) == n * (PingInterval + 2 * MaxDelay)

(* lockExpireTime leaves room for the pings that may fail. *)
Timely == Missed(MaxFaults) + PingInterval + 3 * MaxDelay <= ExpireTime

(* How old the pingtime of a held lease gets: one delay from StartSync to the
   lockUpdater, then one interval and two delays from ping to ping, and that
   again for every PingSyncs that fails. *)
LeaseAge ==
    \A w \in Workers :
        LET k == req[w].key
            p == ProcessOf[w]
            age == doc[k].ping
        IN /\ pc[w] = "enqueue" => age <= MaxDelay + lag[w]
           /\ Pinged(w) /\ k \in batch[p] =>
                age <= Missed(faults) + PingInterval + 2 * MaxDelay + since[p]
           /\ Pinged(w) /\ k \notin batch[p] /\ batch[p] # {} =>
                age <= since[p]
           /\ Pinged(w) /\ batch[p] = {} =>
                age <= Missed(faults) + MaxDelay + since[p]
           /\ pc[w] = "EndSync" =>
                age <= Missed(faults) + PingInterval + 2 * MaxDelay + lag[w]

(* Forced syncs.  Where a process has several workers, the lease of one may be
   taken over after its own ping in a batch and before the end of that batch. *)
OneWorkerEach == \A v, w \in Workers : ProcessOf[v] = ProcessOf[w] => v = w
CrowdedDelay == IF OneWorkerEach THEN 0 ELSE MaxDelay

(* The age that the pingtime of a lease can reach while somebody holds it,
   whoever else takes, pings or gives back the same lease in the meantime. *)
LongestAge ==
    Missed(MaxFaults) + PingInterval + 3 * MaxDelay + CrowdedDelay

(* A forced sync starts whatever runs; one that nobody forced does not start
   while any other sync of the rule runs, be that a forced one whose end has
   marked the document as not running under the feet of the others
   (service_test.go, "lock and unlock updater"). *)
UnforcedStartsAlone ==
    [][\A w \in Workers : StartSync(w) /\ ~req[w].force =>
         \A v \in Workers : ~Holds(v, req[w].key)]_vars

(* When syncRule skips a removal because "removal already synced"
   (engine.go:107), the latest call of the engine for this rule was for its
   removal, and succeeded. *)
SkipJustified ==
    [][\A w \in Workers : pc[w] = "enqueue" /\ pc'[w] = "dequeue" =>
         LET e == engine[req[w].key] IN e.removed /\ e.successful]_vars

(* The lease as SyncLock sees it. *)
HoldersNow == [k \in Keys |-> {w \in Workers : Holds(w, k)}]
RunningNow == [k \in Keys |-> doc[k].running]
ResultsNow == [k \in Keys |-> doc[k].syncs]

Lock == INSTANCE SyncLock WITH
    Results <- SyncData,
    holders <- HoldersNow,
    running <- RunningNow,
    results <- ResultsNow

(* With pings, expiry, delays, failing commands and crashes the storage still
   keeps what storage.go promises of an unforced lease: one worker at a time
   ("sync already locked"), and one recorded result per lease, by its holder,
   in the step that gives it back. *)
ImplementsSyncLock == Lock!Spec

(* A worker that has taken a lease gets through both hand-overs to the
   lockUpdater and returns (or its process crashes): the unbuffered channels and
   the pings never block each other for good. *)
SyncFinishes ==
    \A w \in Workers : pc[w] = "enqueue" ~> pc[w] = "idle"

(* A rule that nobody syncs can be synced again some day: neither a lease that
   a crash or a failed command left running, nor a late ping of a sync that has
   ended, nor the interval for which a change is refused and dropped
   (engine.go:83), locks the next caller out for good. *)
LeaseComesFree ==
    \A k \in Keys :
        LET held == \E w \in Workers : Holds(w, k)
        IN ~held ~> held \/ MayStart(doc[k], FALSE, 0)
=============================================================================
