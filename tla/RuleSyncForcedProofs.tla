------------------------ MODULE RuleSyncForcedProofs ------------------------
(***************************************************************************)
(* What remains of the leases of RuleSync when syncs may be forced: proofs *)
(* about one key at a time, whatever happens to the other keys.            *)
(*                                                                         *)
(* A forced StartSync takes a lease that somebody holds, and the EndSync   *)
(* of one holder marks the document as not running for all of them.  What  *)
(* still protects a holder is the age of pingtime, and that stays small as *)
(* long as the lockUpdater of its process pings the key.  The one thing    *)
(* that makes the lockUpdater forget a key that is held is a second sync   *)
(* of it in the same process, since both have the same SyncID.             *)
(***************************************************************************)
EXTENDS RuleSyncProofs

USE DEF Steps, TimedSteps, HoldingSteps, crashVars

(* No process has two syncs of k between the hand-over of the SyncID to its
   lockUpdater and the end of that. *)
IdsApart(k) ==
    \A v, w \in Workers :
        /\ v # w /\ ProcessOf[v] = ProcessOf[w]
        /\ Pinged(v) /\ Pinged(w)
        => ~(req[v].key = k /\ req[w].key = k)

(* Nobody forces a sync of k. *)
Unforced(k) ==
    \A w \in Workers : pc[w] # "idle" /\ req[w].key = k => ~req[w].force

(* The lockUpdaters have k exactly where a sync of k runs. *)
KnownWhereHeld(k) ==
    \A p \in Processes : k \in ids[p] <=>
        \E w \in Workers : ProcessOf[w] = p /\ Pinged(w) /\ req[w].key = k

(* A lockUpdater pings what it has; if it works for one worker only, it has
   nothing but the id of that worker. *)
Batches ==
    /\ \A p \in Processes : batch[p] \subseteq ids[p]
    /\ OneWorkerEach =>
          \A w \in Workers : ids[ProcessOf[w]] \subseteq
              IF Pinged(w) THEN {req[w].key} ELSE {}

(* How old the pingtime of k is while w holds it: as in LeaseAge, except that
   others may renew it at any time, and that this may happen between the ping
   of w's process and the end of its batch. *)
AgeFor(w, k) ==
    LET p == ProcessOf[w]
        age == doc[k].ping
    IN /\ doc[k].exists
       /\ pc[w] = "enqueue" => age <= MaxDelay + lag[w]
       /\ Pinged(w) /\ k \in batch[p] =>
            age <= Missed(faults) + PingInterval + 2 * MaxDelay + CrowdedDelay
                     + since[p]
       /\ Pinged(w) /\ k \notin batch[p] /\ batch[p] # {} =>
            age <= MaxDelay + since[p]
       /\ Pinged(w) /\ batch[p] = {} =>
            age <= Missed(faults) + MaxDelay + CrowdedDelay + since[p]
       /\ pc[w] = "EndSync" =>
            age <= Missed(faults) + PingInterval + 2 * MaxDelay + CrowdedDelay
                     + lag[w]

AgesKept(k) == \A w \in Workers : Holds(w, k) => AgeFor(w, k)

(* The inductive invariant of k, as long as IdsApart(k). *)
KeyInv(k) == TypeInv /\ Batches /\ KnownWhereHeld(k) /\ AgesKept(k)

LEMMA CrowdedType ==
    /\ CrowdedDelay \in Nat /\ CrowdedDelay <= MaxDelay
    /\ ~OneWorkerEach => CrowdedDelay = MaxDelay
BY Times DEF CrowdedDelay

(* The numbers that AgeFor compares. *)
LEMMA AgeNumbers ==
    ASSUME TypeOK, NEW w \in Workers, NEW k \in Keys
    PROVE  /\ ProcessOf[w] \in Processes
           /\ lag[w] \in Nat /\ lag[w] <= MaxDelay
           /\ doc[k].ping \in Nat
           /\ since[ProcessOf[w]] \in Nat
           /\ since[ProcessOf[w]] <= PingInterval + MaxDelay
           /\ faults \in 0..MaxFaults /\ Missed(faults) \in Nat
BY DocumentType, ProcessOfAssumption, Times, MissedFacts DEF TypeOK

(* AgeFor has no room for a time beyond LongestAge. *)
LEMMA AgeIsBounded ==
    ASSUME NEW k \in Keys, KeyInv(k), NEW w \in Workers, Holds(w, k)
    PROVE  doc[k].exists /\ doc[k].ping <= LongestAge
<1> DEFINE p == ProcessOf[w]
<1>0. TypeOK /\ PingOnTime /\ AgeFor(w, k)
  BY DEF KeyInv, TypeInv, AgesKept
<1>1. /\ Missed(faults) <= Missed(MaxFaults)
      /\ Missed(faults) \in Nat /\ Missed(MaxFaults) \in Nat
  BY <1>0, MissedFacts, Times DEF TypeOK
<1>2. /\ lag[w] \in Nat /\ lag[w] <= MaxDelay /\ doc[k].ping \in Nat
      /\ since[p] \in Nat /\ since[p] <= PingInterval + MaxDelay
      /\ p \in Processes
  BY <1>0, AgeNumbers
<1>3. CASE pc[w] \in {"enqueue", "EndSync"}
  BY <1>0, <1>1, <1>2, <1>3, Times, CrowdedType DEF AgeFor, LongestAge
<1>4. CASE Pinged(w) /\ batch[p] # {}
  <2>1. since[p] <= MaxDelay
    BY <1>0, <1>2, <1>4 DEF PingOnTime
  <2> QED
    BY <1>0, <1>1, <1>2, <1>4, <2>1, Times, CrowdedType
       DEF AgeFor, LongestAge
<1>5. CASE Pinged(w) /\ batch[p] = {}
  BY <1>0, <1>1, <1>2, <1>5, Times, CrowdedType DEF AgeFor, LongestAge
<1> QED
  BY <1>0, <1>3, <1>4, <1>5 DEF Holds, Pinged, AgeFor

-----------------------------------------------------------------------------
(* What workers and lockUpdaters other than the one that moves see of it. *)
SameWorker(v) == pc'[v] = pc[v] /\ req'[v] = req[v] /\ lag'[v] = lag[v]
SameUpdater(p) ==
    ids'[p] = ids[p] /\ batch'[p] = batch[p] /\ since'[p] = since[p]

(* The lease of k is as it was, or has just been renewed. *)
KeptOrRenewed(k) ==
    /\ doc[k].exists => doc'[k].exists
    /\ doc'[k].ping = doc[k].ping \/ doc'[k].ping <= MaxDelay

(* Failures take time, but never back. *)
FaultsGrow == faults' \in 0..MaxFaults /\ faults <= faults'

LEMMA MissedGrows ==
    ASSUME TypeOK, FaultsGrow
    PROVE  Missed(faults) <= Missed(faults') /\ Missed(faults') \in Nat
<1> DEFINE m == PingInterval + 2 * MaxDelay
<1>1. \A a, b, c \in Nat : a <= b => a * c <= b * c
  OBVIOUS
<1>2. \A a, c \in Nat : a * c \in Nat
  OBVIOUS
<1>3. m \in Nat /\ faults \in Nat /\ faults' \in Nat /\ faults <= faults'
  BY Times DEF TypeOK, FaultsGrow
<1> HIDE DEF m
<1>4. faults * m <= faults' * m /\ faults' * m \in Nat
  BY <1>1, <1>2, <1>3
<1> QED
  BY <1>4, Times DEF m, Missed

(* A step that neither the holder nor its lockUpdater takes part in. *)
LEMMA ElsewhereKeepsAge ==
    ASSUME NEW k \in Keys, TypeOK, TypeOK', FaultsGrow,
           NEW v \in Workers, SameWorker(v), SameUpdater(ProcessOf[v]),
           KeptOrRenewed(k), AgeFor(v, k)
    PROVE  AgeFor(v, k)'
<1>1. /\ lag[v] \in Nat /\ since[ProcessOf[v]] \in Nat
      /\ doc[k].ping \in Nat /\ Missed(faults) \in Nat
  BY AgeNumbers
<1>2. doc'[k].ping \in Nat
  BY DocumentType DEF TypeOK
<1>3. Missed(faults) <= Missed(faults') /\ Missed(faults') \in Nat
  BY MissedGrows
<1>4. Pinged(v)' <=> Pinged(v)
  BY DEF Pinged, SameWorker
<1>5. CASE doc'[k].ping = doc[k].ping
  BY <1>1, <1>3, <1>4, <1>5, Times, CrowdedType
     DEF AgeFor, SameWorker, SameUpdater, KeptOrRenewed
<1>6. CASE doc'[k].ping <= MaxDelay
  BY <1>1, <1>2, <1>3, <1>4, <1>6, Times, CrowdedType
     DEF AgeFor, SameWorker, SameUpdater, KeptOrRenewed
<1> QED
  BY <1>5, <1>6 DEF KeptOrRenewed

(* A Tick makes no document more than one unit older. *)
LEMMA TickAges ==
    ASSUME TypeOK, Tick, NEW k \in Keys
    PROVE  /\ doc'[k].exists = doc[k].exists
           /\ doc'[k].running = doc[k].running
           /\ doc[k].ping \in Nat /\ doc'[k].ping \in Nat
           /\ doc'[k].ping <= doc[k].ping + 1
<1>1. doc[k] \in Documents
  BY DEF TypeOK
<1>2. doc'[k] = IF doc[k].exists THEN [doc[k] EXCEPT !.ping = Older(@)]
                                 ELSE doc[k]
  BY DEF Tick
<1> QED
  BY <1>1, <1>2, DocumentType, Times DEF Documents, Older, Ages

-----------------------------------------------------------------------------
(* What each action changes, as far as leases see it. *)

(* A worker in a step without the lockUpdater. *)
OwnStep(w) ==
    SyncRule(w) \/ StartSync(w) \/ StartSyncLocked(w) \/ StartSyncFails(w)
      \/ Sync(w) \/ SyncReturns(w) \/ SyncPanics(w)
      \/ EndSync(w) \/ EndSyncFails(w)

LEMMA OwnStepChanges ==
    ASSUME TypeInv, NEW w \in Workers, OwnStep(w)
    PROVE  /\ \A v \in Workers : v # w => SameWorker(v)
           /\ UNCHANGED updaterVars
           /\ FaultsGrow
           /\ Pinged(w)' <=> Pinged(w)
           /\ Pinged(w) => req'[w] = req[w] /\ UNCHANGED doc
           /\ \A k \in Keys : KeptOrRenewed(k)
<1>0. TypeOK /\ req[w].key \in Keys /\ faults \in 0..MaxFaults
  BY Numbers DEF TypeInv
<1>1. \A age \in 0..lag[w] : age \in Nat /\ age <= MaxDelay
  BY <1>0, Numbers, Times
<1>2. ASSUME NEW age \in 0..lag[w],
             Acquire(req[w].key, age) \/ Release(w, age)
      PROVE  \A k \in Keys : KeptOrRenewed(k)
  <2> SUFFICES ASSUME NEW k \in Keys PROVE KeptOrRenewed(k)
    OBVIOUS
  <2>1. doc[k] \in Documents
    BY <1>0 DEF TypeOK
  <2>2. CASE k # req[w].key
    BY <1>0, <1>2, <2>2 DEF Acquire, Release, KeptOrRenewed, TypeOK
  <2>3. CASE k = req[w].key
    <3>1. doc \in [Keys -> Documents]
      BY <1>0 DEF TypeOK
    <3>2. CASE Acquire(req[w].key, age)
      <4>1. doc'[k].exists /\ doc'[k].ping = age
        BY <2>1, <2>3, <3>1, <3>2 DEF Acquire, Documents
      <4> QED
        BY <1>1, <4>1 DEF KeptOrRenewed
    <3>3. CASE Release(w, age)
      <4>1. doc'[k].exists = doc[k].exists /\ doc'[k].ping = age
        BY <2>1, <2>3, <3>1, <3>3 DEF Release, Documents
      <4> QED
        BY <1>1, <4>1 DEF KeptOrRenewed
    <3> QED
      BY <1>2, <3>2, <3>3
  <2> QED
    BY <2>2, <2>3
<1>3. UNCHANGED doc => \A k \in Keys : KeptOrRenewed(k)
  BY DEF KeptOrRenewed
<1>4. CASE SyncRule(w) \/ StartSyncLocked(w) \/ Sync(w) \/ SyncReturns(w)
             \/ SyncPanics(w)
  BY <1>0, <1>3, <1>4, Times DEF SyncRule, StartSyncLocked, Sync, SyncReturns,
     SyncPanics, Return, GoTo, SameWorker, FaultsGrow, Pinged, lockVars, updaterVars, TypeOK
<1>5. CASE StartSync(w)
  <2>1. PICK age \in 0..lag[w] : Acquire(req[w].key, age)
    BY <1>5 DEF StartSync
  <2> QED
    BY <1>0, <1>2, <1>5, <2>1, Times
       DEF StartSync, GoTo, SameWorker, FaultsGrow, Pinged, TypeOK
<1>6. CASE StartSyncFails(w) \/ EndSyncFails(w)
  <2>1. \A k \in Keys : KeptOrRenewed(k)
    BY <1>2, <1>3, <1>6 DEF StartSyncFails, EndSyncFails, lockVars
  <2> QED
    BY <1>0, <1>6, <2>1, Times DEF StartSyncFails, EndSyncFails, Return, GoTo,
       Fault, SameWorker, FaultsGrow, Pinged, updaterVars, TypeOK
<1>7. CASE EndSync(w)
  <2>1. PICK age \in 0..lag[w] : Release(w, age)
    BY <1>7 DEF EndSync
  <2> QED
    BY <1>0, <1>2, <1>7, <2>1, Times
       DEF EndSync, Return, GoTo, SameWorker, FaultsGrow, Pinged, TypeOK
<1> QED
  BY <1>4, <1>5, <1>6, <1>7 DEF OwnStep

(* A worker and its lockUpdater at a hand-over. *)
LEMMA HandOverChanges ==
    ASSUME TypeInv, NEW w \in Workers, Enqueue(w) \/ Dequeue(w)
    PROVE  LET p == ProcessOf[w] IN
           /\ \A v \in Workers : v # w => SameWorker(v)
           /\ \A q \in Processes : q # p => SameUpdater(q)
           /\ FaultsGrow /\ faults' = faults
           /\ UNCHANGED <<doc, req>> /\ lag'[w] = 0
           /\ batch[p] = {} /\ batch'[p] = ids'[p] /\ since'[p] = 0
           /\ Enqueue(w) => /\ pc[w] = "enqueue" /\ Pinged(w)'
                            /\ ids'[p] = ids[p] \cup {req[w].key}
           /\ Dequeue(w) => /\ Pinged(w) /\ pc'[w] = "EndSync"
                            /\ ids'[p] = ids[p] \ {req[w].key}
<1>0. TypeOK /\ ProcessOf[w] \in Processes /\ faults \in 0..MaxFaults
  BY Numbers DEF TypeInv
<1> QED
  BY <1>0, Times DEF Enqueue, Dequeue, GoTo, SameWorker, SameUpdater,
     FaultsGrow, Pinged, lockVars, TypeOK

(* A lockUpdater on its own. *)
LEMMA LockUpdaterChanges ==
    ASSUME TypeInv, NEW p \in Processes, LockUpdater(p)
    PROVE  /\ \A v \in Workers : SameWorker(v) /\ (Pinged(v)' <=> Pinged(v))
           /\ \A q \in Processes : q # p => SameUpdater(q)
           /\ FaultsGrow
           /\ ids' = ids
           /\ batch'[p] \subseteq batch[p] \cup ids[p]
<1>0. TypeOK /\ faults \in 0..MaxFaults
  BY DEF TypeInv, TypeOK
<1> QED
  BY <1>0, Times DEF LockUpdater, PingTimeout, PingSync, PingSyncsFails, Fault,
     SameWorker, SameUpdater, FaultsGrow, Pinged, lockVars, workerVars, TypeOK

LEMMA CrashChanges ==
    ASSUME TypeInv, NEW p \in Processes, Dies(p)
    PROVE  /\ \A v \in Workers : IF ProcessOf[v] = p THEN pc'[v] = "idle"
                                                     ELSE SameWorker(v)
           /\ \A q \in Processes : q # p => SameUpdater(q)
           /\ ids'[p] = {} /\ batch'[p] = {}
           /\ FaultsGrow /\ UNCHANGED doc
<1>0. TypeOK /\ faults \in 0..MaxFaults
  BY DEF TypeInv, TypeOK
<1>1. Restart(p)
  BY DEF Dies, Crash, PanicEnds
<1> QED
  BY <1>0, <1>1, Times DEF Restart, SameWorker, SameUpdater, FaultsGrow, lockVars, TypeOK

-----------------------------------------------------------------------------
(* The batches of the lockUpdaters. *)

LEMMA BatchesNext ==
    ASSUME TypeInv, Batches, [Next]_vars
    PROVE  Batches'
<1>0. TypeOK /\ \A w \in Workers : ProcessOf[w] \in Processes
  BY ProcessOfAssumption DEF TypeInv
<1>1. ASSUME NEW w \in Workers, OwnStep(w) PROVE Batches'
  <2>1. /\ \A v \in Workers : v # w => SameWorker(v)
        /\ UNCHANGED updaterVars /\ (Pinged(w)' <=> Pinged(w))
        /\ Pinged(w) => req'[w] = req[w]
    BY <1>1, OwnStepChanges
  <2> QED
    BY <2>1 DEF Batches, SameWorker, Pinged, updaterVars
<1>2. ASSUME NEW w \in Workers, Enqueue(w) \/ Dequeue(w) PROVE Batches'
  <2> DEFINE p == ProcessOf[w]
  <2>1. /\ \A v \in Workers : v # w => SameWorker(v)
        /\ \A q \in Processes : q # p => SameUpdater(q)
        /\ req' = req /\ batch'[p] = ids'[p]
        /\ Enqueue(w) => /\ pc[w] = "enqueue" /\ Pinged(w)'
                         /\ ids'[p] = ids[p] \cup {req[w].key}
        /\ Dequeue(w) => Pinged(w) /\ ids'[p] = ids[p] \ {req[w].key}
    BY <1>2, HandOverChanges
  <2>2. \A q \in Processes : batch'[q] \subseteq ids'[q]
    BY <2>1 DEF Batches, SameUpdater
  <2>3. ASSUME OneWorkerEach, NEW v \in Workers
        PROVE  ids'[ProcessOf[v]] \subseteq
                   IF Pinged(v)' THEN {req'[v].key} ELSE {}
    <3>1. CASE v = w
      BY <1>2, <2>1, <2>3, <3>1 DEF Batches, Pinged
    <3>2. CASE v # w
      <4>1. ProcessOf[v] # p
        BY <2>3, <3>2 DEF OneWorkerEach
      <4> QED
        BY <1>0, <2>1, <2>3, <3>2, <4>1
           DEF Batches, SameWorker, SameUpdater, Pinged
    <3> QED
      BY <3>1, <3>2
  <2> QED
    BY <2>2, <2>3 DEF Batches
<1>3. ASSUME NEW p \in Processes, LockUpdater(p) PROVE Batches'
  <2>1. /\ \A v \in Workers : SameWorker(v) /\ (Pinged(v)' <=> Pinged(v))
        /\ \A q \in Processes : q # p => SameUpdater(q)
        /\ ids' = ids /\ batch'[p] \subseteq batch[p] \cup ids[p]
    BY <1>3, LockUpdaterChanges
  <2>2. \A q \in Processes : batch'[q] \subseteq ids'[q]
    BY <2>1 DEF Batches, SameUpdater
  <2> QED
    BY <1>0, <2>1, <2>2 DEF Batches, SameWorker
<1>4. ASSUME NEW p \in Processes, Dies(p) PROVE Batches'
  <2>1. /\ \A v \in Workers : ProcessOf[v] # p => SameWorker(v)
        /\ \A q \in Processes : q # p => SameUpdater(q)
        /\ ids'[p] = {} /\ batch'[p] = {}
    BY <1>4, CrashChanges
  <2> QED
    BY <1>0, <2>1 DEF Batches, SameWorker, SameUpdater, Pinged
<1>5. CASE Tick
  BY <1>5 DEF Tick, Batches, Pinged
<1>6. CASE UNCHANGED vars
  BY <1>6 DEF vars, Batches, Pinged
<1> QED
  BY <1>1, <1>2, <1>3, <1>4, <1>5, <1>6 DEF Next, Worker, OwnStep, Dies

-----------------------------------------------------------------------------
(* The lockUpdaters keep to what is held. *)

LEMMA KnownNext ==
    ASSUME NEW k \in Keys, TypeInv, KnownWhereHeld(k), IdsApart(k),
           [Next]_vars
    PROVE  KnownWhereHeld(k)'
<1>0. TypeOK /\ \A w \in Workers : ProcessOf[w] \in Processes
  BY ProcessOfAssumption DEF TypeInv
<1>1. ASSUME NEW w \in Workers, OwnStep(w) PROVE KnownWhereHeld(k)'
  <2>1. /\ \A v \in Workers : v # w => SameWorker(v)
        /\ ids' = ids /\ (Pinged(w)' <=> Pinged(w))
        /\ Pinged(w) => req'[w] = req[w]
    BY <1>1, OwnStepChanges DEF updaterVars
  <2>2. \A v \in Workers : /\ Pinged(v)' <=> Pinged(v)
                           /\ Pinged(v) => req'[v] = req[v]
    BY <2>1 DEF SameWorker, Pinged
  <2> QED
    BY <2>1, <2>2 DEF KnownWhereHeld
<1>2. ASSUME NEW w \in Workers, Enqueue(w) PROVE KnownWhereHeld(k)'
  <2> DEFINE p == ProcessOf[w]
  <2>1. /\ \A v \in Workers : v # w => SameWorker(v)
        /\ \A q \in Processes : q # p => SameUpdater(q)
        /\ req' = req /\ pc[w] = "enqueue" /\ Pinged(w)'
        /\ ids'[p] = ids[p] \cup {req[w].key}
    BY <1>2, HandOverChanges
  <2>2. /\ \A v \in Workers : v # w => (Pinged(v)' <=> Pinged(v))
        /\ ~Pinged(w)
    BY <2>1 DEF SameWorker, Pinged
  <2> SUFFICES ASSUME NEW q \in Processes PROVE KnownWhereHeld(k)!(q)'
    BY DEF KnownWhereHeld
  <2>3. KnownWhereHeld(k)!(q)
    BY DEF KnownWhereHeld
  <2>4. CASE q = p
    BY <1>0, <2>1, <2>2, <2>3, <2>4
  <2>5. CASE q # p
    BY <1>0, <2>1, <2>2, <2>3, <2>5 DEF SameUpdater
  <2> QED
    BY <2>4, <2>5
<1>3. ASSUME NEW w \in Workers, Dequeue(w) PROVE KnownWhereHeld(k)'
  <2> DEFINE p == ProcessOf[w]
  <2>1. /\ \A v \in Workers : v # w => SameWorker(v)
        /\ \A q \in Processes : q # p => SameUpdater(q)
        /\ req' = req /\ Pinged(w) /\ pc'[w] = "EndSync"
        /\ ids'[p] = ids[p] \ {req[w].key}
    BY <1>3, HandOverChanges
  <2>2. /\ \A v \in Workers : v # w => (Pinged(v)' <=> Pinged(v))
        /\ ~Pinged(w)'
    BY <2>1 DEF SameWorker, Pinged
  <2>3. req[w].key = k =>
          \A v \in Workers : v # w /\ ProcessOf[v] = p /\ Pinged(v) =>
             req[v].key # k
    BY <2>1 DEF IdsApart
  <2> SUFFICES ASSUME NEW q \in Processes PROVE KnownWhereHeld(k)!(q)'
    BY DEF KnownWhereHeld
  <2>4. KnownWhereHeld(k)!(q)
    BY DEF KnownWhereHeld
  <2>5. CASE q = p
    BY <1>0, <2>1, <2>2, <2>3, <2>4, <2>5
  <2>6. CASE q # p
    BY <1>0, <2>1, <2>2, <2>4, <2>6 DEF SameUpdater
  <2> QED
    BY <2>5, <2>6
<1>4. ASSUME NEW p \in Processes, LockUpdater(p) PROVE KnownWhereHeld(k)'
  <2>1. /\ \A v \in Workers : SameWorker(v) /\ (Pinged(v)' <=> Pinged(v))
        /\ ids' = ids
    BY <1>4, LockUpdaterChanges
  <2> QED
    BY <2>1 DEF KnownWhereHeld, SameWorker
<1>5. ASSUME NEW p \in Processes, Dies(p) PROVE KnownWhereHeld(k)'
  <2>1. /\ \A v \in Workers : IF ProcessOf[v] = p THEN pc'[v] = "idle"
                                                  ELSE SameWorker(v)
        /\ \A q \in Processes : q # p => SameUpdater(q)
        /\ ids'[p] = {}
    BY <1>5, CrashChanges
  <2>2. \A v \in Workers : IF ProcessOf[v] = p THEN ~Pinged(v)'
                           ELSE (Pinged(v)' <=> Pinged(v)) /\ req'[v] = req[v]
    BY <2>1 DEF SameWorker, Pinged
  <2> QED
    BY <2>1, <2>2 DEF KnownWhereHeld, SameUpdater
<1>6. CASE Tick
  BY <1>6 DEF Tick, KnownWhereHeld, Pinged
<1>7. CASE UNCHANGED vars
  BY <1>7 DEF vars, KnownWhereHeld, Pinged
<1> QED
  BY <1>1, <1>2, <1>3, <1>4, <1>5, <1>6, <1>7 DEF Next, Worker, OwnStep, Dies

-----------------------------------------------------------------------------
(* Pings come in time, one lemma for each kind of step. *)

LEMMA OwnStepKeepsAges ==
    ASSUME NEW k \in Keys, KeyInv(k), TypeInv', NEW w \in Workers, OwnStep(w)
    PROVE  AgesKept(k)'
<1>0. TypeOK /\ TypeOK' /\ req[w].key \in Keys
  BY Numbers DEF KeyInv, TypeInv
<1>1. /\ \A v \in Workers : v # w => SameWorker(v)
      /\ UNCHANGED updaterVars /\ FaultsGrow /\ KeptOrRenewed(k)
      /\ Pinged(w)' <=> Pinged(w)
      /\ Pinged(w) => req'[w] = req[w] /\ UNCHANGED doc
  BY OwnStepChanges DEF KeyInv
<1> SUFFICES ASSUME NEW v \in Workers, Holds(v, k)' PROVE AgeFor(v, k)'
  BY DEF AgesKept
<1>2. CASE v # w
  <2>1. SameWorker(v) /\ SameUpdater(ProcessOf[v])
    BY <1>1, <1>2 DEF SameUpdater, updaterVars
  <2>2. Holds(v, k)
    BY <2>1 DEF Holds, SameWorker
  <2>3. AgeFor(v, k)
    BY <2>2 DEF KeyInv, AgesKept
  <2> QED
    BY <1>0, <1>1, <2>1, <2>3, ElsewhereKeepsAge
<1>3. CASE v = w
  <2>1. \/ StartSync(w)
        \/ Sync(w) \/ SyncReturns(w) \/ SyncPanics(w)
    BY <1>0, <1>3 DEF OwnStep, SyncRule, StartSyncLocked, StartSyncFails,
       EndSync, EndSyncFails, Return, GoTo, Holds, TypeOK
  <2>2. CASE StartSync(w)
    <3>1. req'[w].key = req[w].key /\ pc'[w] = "enqueue" /\ lag'[w] = 0
      BY <1>0, <2>2 DEF StartSync, GoTo, TypeOK
    <3>2. PICK age \in 0..lag[w] : Acquire(k, age)
      BY <1>3, <2>2, <3>1 DEF StartSync, Holds
    <3>3. doc'[k].exists /\ doc'[k].ping = age
      BY <1>0, <3>2, DocumentType DEF Acquire, TypeOK, Documents
    <3>4. age \in Nat /\ age <= MaxDelay
      BY <1>0, Numbers, Times
    <3> QED
      BY <1>3, <3>1, <3>3, <3>4, Times DEF AgeFor, Pinged
  <2>3. CASE Sync(w) \/ SyncReturns(w) \/ SyncPanics(w)
    <3>1. Pinged(w) /\ Pinged(w)' /\ faults' = faults
      BY <1>1, <2>3 DEF Sync, SyncReturns, SyncPanics, Pinged
    <3>2. AgeFor(w, k)
      BY <1>1, <1>3, <3>1 DEF KeyInv, AgesKept, Holds, Pinged
    <3> QED
      BY <1>1, <1>3, <3>1, <3>2 DEF AgeFor, Pinged, updaterVars
  <2> QED
    BY <2>1, <2>2, <2>3
<1> QED
  BY <1>2, <1>3

(* At a hand-over the lockUpdater pings all that its process holds. *)
LEMMA HandOverKeepsAges ==
    ASSUME NEW k \in Keys, KeyInv(k), IdsApart(k), TypeInv',
           NEW w \in Workers, Enqueue(w) \/ Dequeue(w)
    PROVE  AgesKept(k)'
<1> DEFINE p == ProcessOf[w]
<1>0. /\ TypeOK /\ TypeOK' /\ req[w].key \in Keys /\ p \in Processes
      /\ Missed(faults) \in Nat
  BY Numbers, AgeNumbers DEF KeyInv, TypeInv
<1>1. /\ \A v \in Workers : v # w => SameWorker(v)
      /\ \A q \in Processes : q # p => SameUpdater(q)
      /\ FaultsGrow /\ faults' = faults
      /\ UNCHANGED <<doc, req>> /\ lag'[w] = 0
      /\ batch[p] = {} /\ batch'[p] = ids'[p] /\ since'[p] = 0
      /\ Enqueue(w) => /\ pc[w] = "enqueue" /\ Pinged(w)'
                       /\ ids'[p] = ids[p] \cup {req[w].key}
      /\ Dequeue(w) => /\ Pinged(w) /\ pc'[w] = "EndSync"
                       /\ ids'[p] = ids[p] \ {req[w].key}
  BY HandOverChanges DEF KeyInv
<1> SUFFICES ASSUME NEW v \in Workers, Holds(v, k)' PROVE AgeFor(v, k)'
  BY DEF AgesKept
<1>2. /\ lag[v] \in Nat /\ lag[v] <= MaxDelay /\ doc[k].ping \in Nat
      /\ since[ProcessOf[v]] \in Nat /\ ProcessOf[v] \in Processes
      /\ since[ProcessOf[v]] <= PingInterval + MaxDelay
  BY <1>0, AgeNumbers
<1>3. Holds(v, k) /\ AgeFor(v, k)
  <2>1. Holds(v, k)
    BY <1>1 DEF Holds, SameWorker, Pinged
  <2> QED
    BY <2>1 DEF KeyInv, AgesKept
<1>4. CASE v = w
  <2>1. req[w].key = k
    BY <1>3, <1>4 DEF Holds
  <2>2. CASE Enqueue(w)
    <3>1. k \in batch'[p] /\ Pinged(w)' /\ pc[w] = "enqueue"
      BY <1>1, <2>1, <2>2
    <3> QED
      BY <1>0, <1>1, <1>2, <1>3, <1>4, <3>1, Times, CrowdedType
         DEF AgeFor, Pinged
  <2>3. CASE Dequeue(w)
    <3>1. Pinged(w) /\ batch[p] = {} /\ pc'[w] = "EndSync"
      BY <1>1, <2>3
    <3> QED
      BY <1>0, <1>1, <1>2, <1>3, <1>4, <3>1, Times, CrowdedType
         DEF AgeFor, Pinged
  <2> QED
    BY <2>2, <2>3
<1>5. CASE v # w /\ (ProcessOf[v] # p \/ ~Pinged(v))
  <2>1. SameWorker(v) /\ (Pinged(v)' <=> Pinged(v))
    BY <1>1, <1>5 DEF SameWorker, Pinged
  <2> QED
    BY <1>0, <1>1, <1>2, <1>3, <1>5, <2>1 DEF AgeFor, SameWorker, SameUpdater
<1>6. CASE v # w /\ ProcessOf[v] = p /\ Pinged(v)
  <2>1. SameWorker(v) /\ Pinged(v)' /\ pc[v] \in {"Sync", "return", "dequeue"}
    BY <1>1, <1>6 DEF SameWorker, Pinged
  <2>2. k \in ids[p]
    BY <1>0, <1>3, <1>6 DEF KeyInv, KnownWhereHeld, Holds
  <2>3. k \in batch'[p]
    <3>1. CASE Enqueue(w)
      BY <1>1, <2>2, <3>1
    <3>2. CASE Dequeue(w)
      BY <1>1, <1>3, <1>6, <2>2, <3>2 DEF IdsApart, Holds
    <3> QED
      BY <3>1, <3>2
  <2> QED
    BY <1>0, <1>1, <1>2, <1>3, <1>6, <2>1, <2>3, Times, CrowdedType
       DEF AgeFor, SameWorker, Pinged
<1> QED
  BY <1>4, <1>5, <1>6

LEMMA PingTimeoutKeepsAges ==
    ASSUME NEW k \in Keys, KeyInv(k), TypeInv',
           NEW p \in Processes, PingTimeout(p)
    PROVE  AgesKept(k)'
<1>0. TypeOK /\ TypeOK' /\ Missed(faults) \in Nat
  BY MissedFacts DEF KeyInv, TypeInv, TypeOK
<1>1. /\ \A v \in Workers : SameWorker(v) /\ (Pinged(v)' <=> Pinged(v))
      /\ \A q \in Processes : q # p => SameUpdater(q)
      /\ FaultsGrow
  BY LockUpdaterChanges DEF KeyInv, LockUpdater
<1>2. /\ batch[p] = {} /\ batch'[p] = ids[p] /\ since'[p] = 0
      /\ UNCHANGED <<doc, faults>>
  BY <1>0 DEF PingTimeout, lockVars, TypeOK
<1> SUFFICES ASSUME NEW v \in Workers, Holds(v, k)' PROVE AgeFor(v, k)'
  BY DEF AgesKept
<1>3. /\ lag[v] \in Nat /\ doc[k].ping \in Nat
      /\ since[ProcessOf[v]] \in Nat /\ ProcessOf[v] \in Processes
      /\ since[ProcessOf[v]] <= PingInterval + MaxDelay
  BY <1>0, AgeNumbers
<1>4. Holds(v, k) /\ AgeFor(v, k)
  BY <1>1 DEF KeyInv, AgesKept, Holds, SameWorker
<1>5. CASE ProcessOf[v] = p /\ Pinged(v)
  <2>1. k \in batch'[p]
    BY <1>2, <1>4, <1>5 DEF KeyInv, KnownWhereHeld, Holds
  <2> QED
    BY <1>0, <1>1, <1>2, <1>3, <1>4, <1>5, <2>1, Times, CrowdedType
       DEF AgeFor, SameWorker, Pinged
<1>6. CASE ProcessOf[v] # p \/ ~Pinged(v)
  BY <1>1, <1>2, <1>3, <1>4, <1>6 DEF AgeFor, SameWorker, SameUpdater
<1> QED
  BY <1>5, <1>6

(* A ping is for whoever holds the key, in this process or another. *)
LEMMA PingSyncKeepsAges ==
    ASSUME NEW k \in Keys, KeyInv(k), TypeInv',
           NEW p \in Processes, PingSync(p)
    PROVE  AgesKept(k)'
<1>0. TypeOK /\ TypeOK' /\ PingOnTime /\ Missed(faults) \in Nat
  BY MissedFacts DEF KeyInv, TypeInv, TypeOK
<1>1. /\ \A v \in Workers : SameWorker(v) /\ (Pinged(v)' <=> Pinged(v))
      /\ \A q \in Processes : q # p => SameUpdater(q)
      /\ FaultsGrow
  BY LockUpdaterChanges DEF KeyInv, LockUpdater
<1>2. PICK j \in batch[p], age \in 0..since[p] :
         /\ doc' = [doc EXCEPT ![j].ping = age]
         /\ batch' = [batch EXCEPT ![p] = @ \ {j}]
         /\ since' = [since EXCEPT ![p] = IF batch'[p] = {} THEN 0 ELSE @]
  BY DEF PingSync
<1>3. /\ since[p] \in Nat /\ since[p] <= MaxDelay
      /\ age \in Nat /\ age <= since[p] /\ j \in Keys
  BY <1>0, <1>2, Times DEF TypeOK, PingOnTime
<1>4. /\ batch'[p] = batch[p] \ {j} /\ faults' = faults
      /\ since'[p] = IF batch'[p] = {} THEN 0 ELSE since[p]
      /\ doc'[k].exists = doc[k].exists
      /\ doc'[k].ping = IF k = j THEN age ELSE doc[k].ping
  <2>1. doc[j] \in Documents
    BY <1>0, <1>3 DEF TypeOK
  <2> QED
    BY <1>0, <1>2, <1>3, <2>1 DEF PingSync, TypeOK, Documents
<1>5. KeptOrRenewed(k)
  BY <1>3, <1>4, Times DEF KeptOrRenewed
<1> SUFFICES ASSUME NEW v \in Workers, Holds(v, k)' PROVE AgeFor(v, k)'
  BY DEF AgesKept
<1>6. /\ lag[v] \in Nat /\ doc[k].ping \in Nat /\ ProcessOf[v] \in Processes
  BY <1>0, AgeNumbers
<1>7. Holds(v, k) /\ AgeFor(v, k)
  BY <1>1 DEF KeyInv, AgesKept, Holds, SameWorker
<1>8. CASE ProcessOf[v] # p
  <2>1. SameWorker(v) /\ SameUpdater(ProcessOf[v])
    BY <1>1, <1>6, <1>8
  <2> QED
    BY <1>0, <1>1, <1>5, <1>7, <2>1, ElsewhereKeepsAge
<1>9. CASE ProcessOf[v] = p /\ ~Pinged(v)
  BY <1>1, <1>3, <1>4, <1>6, <1>7, <1>9, <1>0, Times, CrowdedType
     DEF AgeFor, SameWorker
<1>10. CASE ProcessOf[v] = p /\ Pinged(v) /\ k = j
  BY <1>0, <1>1, <1>3, <1>4, <1>6, <1>7, <1>10, Times, CrowdedType
     DEF AgeFor, SameWorker, Pinged
<1>11. CASE ProcessOf[v] = p /\ Pinged(v) /\ k # j
  <2>1. k \in batch'[p] <=> k \in batch[p]
    BY <1>4, <1>11
  <2>2. CASE batch'[p] # {}
    BY <1>0, <1>1, <1>3, <1>4, <1>6, <1>7, <1>11, <2>1, <2>2, Times,
       CrowdedType DEF AgeFor, SameWorker, Pinged
  <2>3. CASE batch'[p] = {}
    <3>1. ~OneWorkerEach
      BY <1>2, <1>7, <1>11 DEF KeyInv, Batches, Holds
    <3>2. doc[k].ping <= MaxDelay + since[p]
      BY <1>2, <1>7, <1>11, <2>1, <2>3 DEF AgeFor
    <3> QED
      BY <1>0, <1>1, <1>3, <1>4, <1>6, <1>7, <1>11, <2>3, <3>1, <3>2, Times,
         CrowdedType DEF AgeFor, SameWorker, Pinged
  <2> QED
    BY <2>2, <2>3
<1> QED
  BY <1>8, <1>9, <1>10, <1>11

(* A PingSyncs that fails costs the time that Missed has for it. *)
LEMMA PingSyncsFailsKeepsAges ==
    ASSUME NEW k \in Keys, KeyInv(k), TypeInv',
           NEW p \in Processes, PingSyncsFails(p)
    PROVE  AgesKept(k)'
<1>0. TypeOK /\ TypeOK' /\ PingOnTime
  BY DEF KeyInv, TypeInv
<1>1. /\ \A v \in Workers : SameWorker(v) /\ (Pinged(v)' <=> Pinged(v))
      /\ \A q \in Processes : q # p => SameUpdater(q)
      /\ FaultsGrow
  BY LockUpdaterChanges DEF KeyInv, LockUpdater
<1>2. /\ batch[p] # {} /\ batch'[p] = {} /\ since'[p] = 0
      /\ UNCHANGED doc /\ faults' = faults + 1
  BY <1>0 DEF PingSyncsFails, Fault, lockVars, TypeOK
<1>3. since[p] \in Nat /\ since[p] <= MaxDelay
  BY <1>0, <1>2, Times DEF TypeOK, PingOnTime
<1>4. /\ Missed(faults) \in Nat
      /\ Missed(faults') = Missed(faults) + PingInterval + 2 * MaxDelay
  BY <1>0, <1>2, MissedFacts DEF TypeOK
<1> SUFFICES ASSUME NEW v \in Workers, Holds(v, k)' PROVE AgeFor(v, k)'
  BY DEF AgesKept
<1>5. /\ lag[v] \in Nat /\ doc[k].ping \in Nat /\ ProcessOf[v] \in Processes
  BY <1>0, AgeNumbers
<1>6. Holds(v, k) /\ AgeFor(v, k)
  BY <1>1 DEF KeyInv, AgesKept, Holds, SameWorker
<1>7. CASE ProcessOf[v] # p
  <2>1. SameWorker(v) /\ SameUpdater(ProcessOf[v]) /\ KeptOrRenewed(k)
    BY <1>1, <1>2, <1>5, <1>7 DEF KeptOrRenewed
  <2> QED
    BY <1>0, <1>1, <1>6, <2>1, ElsewhereKeepsAge
<1>8. CASE ProcessOf[v] = p /\ ~Pinged(v)
  BY <1>1, <1>2, <1>4, <1>5, <1>6, <1>8, Times, CrowdedType
     DEF AgeFor, SameWorker
<1>9. CASE ProcessOf[v] = p /\ Pinged(v)
  BY <1>1, <1>2, <1>3, <1>4, <1>5, <1>6, <1>9, Times, CrowdedType
     DEF AgeFor, SameWorker, Pinged
<1> QED
  BY <1>7, <1>8, <1>9

LEMMA CrashKeepsAges ==
    ASSUME NEW k \in Keys, KeyInv(k), TypeInv', NEW p \in Processes, Dies(p)
    PROVE  AgesKept(k)'
<1>0. TypeOK /\ TypeOK'
  BY DEF KeyInv, TypeInv
<1>1. /\ \A v \in Workers : IF ProcessOf[v] = p THEN pc'[v] = "idle"
                                                ELSE SameWorker(v)
      /\ \A q \in Processes : q # p => SameUpdater(q)
      /\ FaultsGrow /\ UNCHANGED doc
  BY CrashChanges DEF KeyInv
<1> SUFFICES ASSUME NEW v \in Workers, Holds(v, k)' PROVE AgeFor(v, k)'
  BY DEF AgesKept
<1>2. SameWorker(v) /\ SameUpdater(ProcessOf[v]) /\ KeptOrRenewed(k)
  BY <1>1, ProcessOfAssumption DEF Holds, KeptOrRenewed
<1>3. AgeFor(v, k)
  BY <1>2 DEF KeyInv, AgesKept, Holds, SameWorker
<1> QED
  BY <1>0, <1>1, <1>2, <1>3, ElsewhereKeepsAge

(* Whatever time passes for a lease passes for the timer that bounds it. *)
LEMMA TickKeepsAges ==
    ASSUME NEW k \in Keys, KeyInv(k), Tick
    PROVE  AgesKept(k)'
<1>0. TypeOK /\ Missed(faults) \in Nat
  BY MissedFacts DEF KeyInv, TypeInv, TypeOK
<1>1. UNCHANGED <<pc, req, ids, batch, faults>>
  BY DEF Tick
<1>2. /\ doc'[k].exists = doc[k].exists
      /\ doc[k].ping \in Nat /\ doc'[k].ping \in Nat
      /\ doc'[k].ping <= doc[k].ping + 1
  BY <1>0, TickAges
<1> SUFFICES ASSUME NEW v \in Workers, Holds(v, k)' PROVE AgeFor(v, k)'
  BY DEF AgesKept
<1>3. /\ lag[v] \in Nat /\ since[ProcessOf[v]] \in Nat
      /\ ProcessOf[v] \in Processes
  BY <1>0, AgeNumbers
<1>4. Holds(v, k) /\ AgeFor(v, k) /\ (Pinged(v)' <=> Pinged(v))
  BY <1>1 DEF KeyInv, AgesKept, Holds, Pinged
<1>5. pc[v] \in TimedSteps => lag'[v] = lag[v] + 1
  BY DEF Tick
<1>6. Pinged(v) => since'[ProcessOf[v]] = since[ProcessOf[v]] + 1
  <2> SUFFICES ASSUME Pinged(v)
               PROVE  since'[ProcessOf[v]] = since[ProcessOf[v]] + 1
    OBVIOUS
  <2>1. k \in ids[ProcessOf[v]]
    BY <1>3, <1>4 DEF KeyInv, KnownWhereHeld, Holds
  <2> QED
    BY <1>3, <2>1 DEF Tick
<1> QED
  BY <1>0, <1>1, <1>2, <1>3, <1>4, <1>5, <1>6, Times, CrowdedType DEF AgeFor

-----------------------------------------------------------------------------
(* The invariant of a key. *)

LEMMA KeyInit ==
    ASSUME NEW k \in Keys
    PROVE  Init => KeyInv(k)
<1> SUFFICES ASSUME Init PROVE KeyInv(k)
  OBVIOUS
<1>1. \A w \in Workers : ~Holds(w, k) /\ ~Pinged(w)
  BY DEF Init, Holds, Pinged
<1>2. \A p \in Processes : ids[p] = {} /\ batch[p] = {}
  BY DEF Init
<1> QED
  BY <1>1, <1>2, TypeInit, ProcessOfAssumption
     DEF KeyInv, Batches, KnownWhereHeld, AgesKept

LEMMA KeyNext ==
    ASSUME NEW k \in Keys, KeyInv(k), IdsApart(k), [Next]_vars
    PROVE  KeyInv(k)'
<1>1. TypeInv' /\ Batches' /\ KnownWhereHeld(k)'
  BY TypeNext, BatchesNext, KnownNext DEF KeyInv
<1>2. ASSUME NEW w \in Workers, Worker(w) PROVE AgesKept(k)'
  BY <1>1, <1>2, OwnStepKeepsAges, HandOverKeepsAges DEF Worker, OwnStep
<1>3. ASSUME NEW p \in Processes, LockUpdater(p) \/ Dies(p)
      PROVE  AgesKept(k)'
  BY <1>1, <1>3, PingTimeoutKeepsAges, PingSyncKeepsAges,
     PingSyncsFailsKeepsAges, CrashKeepsAges DEF LockUpdater
<1>4. ASSUME UNCHANGED vars PROVE AgesKept(k)'
  BY <1>4 DEF vars, KeyInv, AgesKept, AgeFor, Holds, Pinged
<1>5. AgesKept(k)'
  BY <1>2, <1>3, <1>4, TickKeepsAges DEF Next, Dies
<1> QED
  BY <1>1, <1>5 DEF KeyInv

(* As long as no process syncs a rule twice at once, the pingtime of a lease
   that somebody holds is never older than LongestAge, however many others
   force the same sync, and whatever fails, is late or dies. *)
THEOREM SharedLeasesAreFresh ==
    ASSUME NEW k \in Keys
    PROVE  Spec /\ []IdsApart(k) =>
             [](\A w \in Workers : Holds(w, k) =>
                   doc[k].exists /\ doc[k].ping <= LongestAge)
<1>1. Init => KeyInv(k)
  BY KeyInit
<1>2. KeyInv(k) /\ IdsApart(k) /\ [Next]_vars => KeyInv(k)'
  BY KeyNext
<1>3. KeyInv(k) => \A w \in Workers : Holds(w, k) =>
                      doc[k].exists /\ doc[k].ping <= LongestAge
  BY AgeIsBounded
<1> QED
  BY <1>1, <1>2, <1>3, PTL DEF Spec

-----------------------------------------------------------------------------
(* Syncs that nobody forced, among forced ones. *)

(* The sync interval outlasts the pings. *)
TimelyForced == LongestAge <= SyncInterval

(* As UnforcedStartsAlone and NonForcedExclusive, for one key. *)
StartsAlone(k) ==
    \A w \in Workers :
        StartSync(w) /\ ~req[w].force /\ req[w].key = k =>
           \A v \in Workers : ~Holds(v, k)

OneUnforced(k) ==
    \A v, w \in Workers :
        /\ v # w
        /\ Holds(v, k) /\ ~req[v].force
        /\ Holds(w, k) /\ ~req[w].force
        => FALSE

LEMMA KeyStartsAlone ==
    ASSUME TimelyForced, NEW k \in Keys, KeyInv(k)
    PROVE  StartsAlone(k)
<1> SUFFICES ASSUME NEW w \in Workers, StartSync(w), ~req[w].force,
                    req[w].key = k, NEW v \in Workers, Holds(v, k)
             PROVE  FALSE
  BY DEF StartsAlone
<1>0. TypeOK
  BY DEF KeyInv, TypeInv
<1>1. PICK age \in 0..lag[w] : MayStart(doc[k], req[w].force, age)
  BY DEF StartSync
<1>2. age \in Nat /\ doc[k].ping \in Nat
  BY <1>0, AgeNumbers
<1>3. doc[k].exists /\ doc[k].ping <= LongestAge
  BY AgeIsBounded
<1>4. LongestAge \in Nat
  BY Times, CrowdedType, MissedFacts DEF LongestAge
<1> QED
  BY <1>1, <1>2, <1>3, <1>4, Times DEF MayStart, TimelyForced

(* Only StartSync makes a worker hold a key. *)
LEMMA NewHolder ==
    ASSUME TypeInv, [Next]_vars, NEW k \in Keys, NEW v \in Workers,
           Holds(v, k)'
    PROVE  \/ Holds(v, k) /\ req'[v] = req[v]
           \/ StartSync(v) /\ req'[v] = req[v] /\ req[v].key = k
<1>0. TypeOK
  BY DEF TypeInv
<1>1. ASSUME NEW w \in Workers, Worker(w)
      PROVE  \/ Holds(v, k) /\ req'[v] = req[v]
             \/ StartSync(v) /\ req'[v] = req[v] /\ req[v].key = k
  BY <1>0, <1>1 DEF Worker, SyncRule, StartSync, StartSyncLocked,
     StartSyncFails, Enqueue, Sync, SyncReturns, SyncPanics, Dequeue, EndSync,
     EndSyncFails, Return, GoTo, Holds, TypeOK
<1>2. ASSUME NEW p \in Processes, LockUpdater(p)
      PROVE  Holds(v, k) /\ req'[v] = req[v]
  BY <1>2, LockUpdaterChanges DEF SameWorker, Holds
<1>3. ASSUME NEW p \in Processes, Dies(p)
      PROVE  Holds(v, k) /\ req'[v] = req[v]
  BY <1>3, CrashChanges DEF SameWorker, Holds
<1>4. CASE Tick \/ UNCHANGED vars
  BY <1>4 DEF Tick, vars, Holds
<1> QED
  BY <1>1, <1>2, <1>3, <1>4 DEF Next, Dies

LEMMA OneUnforcedNext ==
    ASSUME NEW k \in Keys, KeyInv(k), StartsAlone(k), OneUnforced(k),
           [Next]_vars
    PROVE  OneUnforced(k)'
<1> SUFFICES ASSUME NEW v \in Workers, NEW w \in Workers, v # w,
                    Holds(v, k)', ~req'[v].force,
                    Holds(w, k)', ~req'[w].force
             PROVE  FALSE
  BY DEF OneUnforced
<1>1. \A u \in {v, w} : \/ Holds(u, k) /\ req'[u] = req[u]
                        \/ StartSync(u) /\ ~req[u].force /\ req[u].key = k
  BY NewHolder DEF KeyInv
<1>2. CASE Holds(v, k) /\ Holds(w, k)
  BY <1>1, <1>2 DEF OneUnforced, StartSync, Holds
<1>3. CASE ~Holds(v, k) /\ ~Holds(w, k)
  <2>1. StartSync(v) /\ StartSync(w)
    BY <1>1, <1>3
  <2> QED
    BY <2>1 DEF StartSync, GoTo, KeyInv, TypeInv, TypeOK
<1>4. CASE Holds(v, k) /\ ~Holds(w, k)
  BY <1>1, <1>4 DEF StartsAlone
<1>5. CASE Holds(w, k) /\ ~Holds(v, k)
  BY <1>1, <1>5 DEF StartsAlone
<1> QED
  BY <1>2, <1>3, <1>4, <1>5

(* As long as no process syncs a rule twice at once and the sync interval
   outlasts the pings, no sync of the rule that is not forced starts beside
   another one, forced or not, and two of them never overlap. *)
THEOREM UnforcedSyncsAreAlone ==
    ASSUME TimelyForced, NEW k \in Keys
    PROVE  Spec /\ []IdsApart(k) => [][StartsAlone(k)]_vars /\ []OneUnforced(k)
<1>1. Init => KeyInv(k)
  BY KeyInit
<1>2. Init => OneUnforced(k)
  BY DEF Init, OneUnforced, Holds
<1>3. KeyInv(k) /\ IdsApart(k) /\ [Next]_vars => KeyInv(k)'
  BY KeyNext
<1>4. KeyInv(k) => StartsAlone(k)
  BY KeyStartsAlone
<1>5. KeyInv(k) /\ OneUnforced(k) /\ [Next]_vars => OneUnforced(k)'
  BY <1>4, OneUnforcedNext
<1> QED
  BY <1>1, <1>2, <1>3, <1>4, <1>5, PTL DEF Spec

(* The invariant of all keys, where a process has one worker. *)
AllKeysInv == \A k \in Keys : KeyInv(k) /\ OneUnforced(k)

LEMMA AllKeysInvariant ==
    ASSUME TimelyForced, OneWorkerEach
    PROVE  Spec => []AllKeysInv
<1>1. Init => AllKeysInv
  BY KeyInit DEF Init, AllKeysInv, OneUnforced, Holds
<1>2. AllKeysInv /\ [Next]_vars => AllKeysInv'
  <2> SUFFICES ASSUME AllKeysInv, [Next]_vars, NEW k \in Keys
               PROVE  KeyInv(k)' /\ OneUnforced(k)'
    BY DEF AllKeysInv
  <2>1. KeyInv(k) /\ OneUnforced(k) /\ IdsApart(k)
    BY DEF AllKeysInv, IdsApart, OneWorkerEach
  <2> QED
    BY <2>1, KeyNext, KeyStartsAlone, OneUnforcedNext
<1> QED
  BY <1>1, <1>2, PTL DEF Spec

(* Where a process syncs one rule at a time and the sync interval outlasts the
   pings, a sync that is not forced does not start beside another one. *)
THEOREM UnforcedStartIsAlone ==
    ASSUME TimelyForced, OneWorkerEach
    PROVE  Spec => UnforcedStartsAlone
<1> DEFINE Step == \A w \in Workers : StartSync(w) /\ ~req[w].force =>
                      \A v \in Workers : ~Holds(v, req[w].key)
<1>1. AllKeysInv => Step
  <2> SUFFICES ASSUME AllKeysInv, NEW w \in Workers, StartSync(w),
                      ~req[w].force
               PROVE  \A v \in Workers : ~Holds(v, req[w].key)
    OBVIOUS
  <2>0. \A k \in Keys : KeyInv(k)
    BY DEF AllKeysInv
  <2>1. req[w].key \in Keys
    BY <2>0, KeysAssumption, Numbers DEF KeyInv, TypeInv
  <2> QED
    BY <2>0, <2>1, KeyStartsAlone DEF StartsAlone
<1> HIDE DEF Step
<1>2. AllKeysInv /\ [Next]_vars => [Step]_vars
  BY <1>1
<1>3. Spec => [][Step]_vars
  BY <1>2, AllKeysInvariant, PTL DEF Spec
<1> QED
  BY <1>3 DEF Step, UnforcedStartsAlone

(* Under the same conditions two syncs of a rule that are not forced never
   overlap, though forced ones run beside them. *)
THEOREM UnforcedAreExclusive ==
    ASSUME TimelyForced, OneWorkerEach
    PROVE  Spec => []NonForcedExclusive
<1>1. AllKeysInv => NonForcedExclusive
  <2> SUFFICES ASSUME AllKeysInv, NEW v \in Workers, NEW w \in Workers,
                      v # w, req[v].key = req[w].key,
                      pc[v] \in HoldingSteps, ~req[v].force,
                      pc[w] \in HoldingSteps, ~req[w].force
               PROVE  FALSE
    BY DEF NonForcedExclusive
  <2>1. PICK k \in Keys : k = req[w].key
    BY KeysAssumption, Numbers DEF AllKeysInv, KeyInv, TypeInv
  <2> QED
    BY <2>1 DEF AllKeysInv, OneUnforced, Holds
<1> QED
  BY <1>1, AllKeysInvariant, PTL

-----------------------------------------------------------------------------
(* A rule that nobody forces, among rules that are forced. *)

OneHolder(k) ==
    \A v, w \in Workers : v # w => ~(Holds(v, k) /\ Holds(w, k))

RunningIfHeld(k) ==
    \A w \in Workers : Holds(w, k) => doc[k].running

LEMMA RunningNext ==
    ASSUME NEW k \in Keys, KeyInv(k), OneHolder(k), RunningIfHeld(k),
           [Next]_vars
    PROVE  RunningIfHeld(k)'
<1>0. TypeOK /\ TypeInv /\ doc[k] \in Documents
  BY DEF KeyInv, TypeInv, TypeOK
<1> SUFFICES ASSUME NEW v \in Workers, Holds(v, k)' PROVE doc'[k].running
  BY DEF RunningIfHeld
<1>1. \/ Holds(v, k)
      \/ StartSync(v) /\ req[v].key = k
  BY <1>0, NewHolder
<1>2. CASE StartSync(v) /\ req[v].key = k
  BY <1>0, <1>2 DEF StartSync, Acquire, TypeOK, Documents
<1>3. CASE Holds(v, k)
  <2>0. doc[k].running
    BY <1>3 DEF RunningIfHeld
  <2>1. ASSUME NEW w \in Workers, Worker(w) PROVE doc'[k].running
    <3>1. CASE UNCHANGED doc
      BY <2>0, <3>1
    <3>2. ASSUME NEW age, Acquire(req[w].key, age) PROVE doc'[k].running
      <4>1. CASE req[w].key = k
        BY <1>0, <3>2, <4>1 DEF Acquire, TypeOK, Documents
      <4>2. CASE req[w].key # k
        BY <1>0, <2>0, <3>2, <4>2 DEF Acquire, TypeOK, Documents
      <4> QED
        BY <4>1, <4>2
    <3>3. CASE EndSync(w)
      <4>1. req[w].key # k
        <5>1. v # w
          BY <1>0, <3>3 DEF EndSync, Return, GoTo, Holds, TypeOK
        <5> QED
          BY <1>3, <3>3, <5>1 DEF OneHolder, EndSync, Holds
      <4> QED
        BY <1>0, <2>0, <3>3, <4>1 DEF EndSync, Release, TypeOK
    <3>4. \/ UNCHANGED doc
          \/ \E age : Acquire(req[w].key, age)
          \/ EndSync(w)
      BY <2>1 DEF Worker, SyncRule, StartSync, StartSyncLocked,
         StartSyncFails, Enqueue, Sync, SyncReturns, SyncPanics, Dequeue,
         EndSyncFails, lockVars
    <3> QED
      BY <3>1, <3>2, <3>3, <3>4
  <2>2. ASSUME NEW p \in Processes, LockUpdater(p) \/ Dies(p)
        PROVE  doc'[k].running
    <3>1. CASE UNCHANGED doc
      BY <2>0, <3>1
    <3>2. CASE PingSync(p)
      <4>1. PICK j \in batch[p], age \in 0..since[p] :
                 doc' = [doc EXCEPT ![j].ping = age]
        BY <3>2 DEF PingSync
      <4>2. CASE j = k
        BY <1>0, <2>0, <4>1, <4>2 DEF TypeOK, Documents
      <4>3. CASE j # k
        BY <1>0, <2>0, <4>1, <4>3 DEF TypeOK
      <4> QED
        BY <4>2, <4>3
    <3> QED
      BY <2>2, <3>1, <3>2 DEF LockUpdater, PingTimeout, PingSyncsFails,
         Dies, Crash, PanicEnds, Restart, lockVars
  <2>3. ASSUME Tick PROVE doc'[k].running
    BY <1>0, <2>0, <2>3, TickAges
  <2>4. ASSUME UNCHANGED vars PROVE doc'[k].running
    BY <2>0, <2>4 DEF vars
  <2> QED
    BY <2>1, <2>2, <2>3, <2>4 DEF Next, Dies
<1> QED
  BY <1>1, <1>2, <1>3

LEMMA OneHolderNext ==
    ASSUME LongestAge <= ExpireTime, NEW k \in Keys, KeyInv(k), Unforced(k),
           OneHolder(k), RunningIfHeld(k), [Next]_vars
    PROVE  OneHolder(k)'
<1>0. TypeOK /\ TypeInv
  BY DEF KeyInv, TypeInv
<1>1. ASSUME NEW w \in Workers, StartSync(w), req[w].key = k,
             NEW v \in Workers, Holds(v, k)
      PROVE  FALSE
  <2>1. PICK age \in 0..lag[w] : MayStart(doc[k], req[w].force, age)
    BY <1>1 DEF StartSync
  <2>2. age \in Nat /\ doc[k].ping \in Nat
    BY <1>0, AgeNumbers
  <2>3. doc[k].exists /\ doc[k].running /\ doc[k].ping <= LongestAge
    BY <1>1, AgeIsBounded DEF RunningIfHeld
  <2>4. ~req[w].force
    BY <1>1 DEF Unforced, StartSync
  <2>5. LongestAge \in Nat
    BY Times, CrowdedType, MissedFacts DEF LongestAge
  <2> QED
    BY <2>1, <2>2, <2>3, <2>4, <2>5, Times DEF MayStart
<1> SUFFICES ASSUME NEW v \in Workers, NEW w \in Workers, v # w,
                    Holds(v, k)', Holds(w, k)'
             PROVE  FALSE
  BY DEF OneHolder
<1>2. \A u \in {v, w} : Holds(u, k) \/ (StartSync(u) /\ req[u].key = k)
  BY <1>0, NewHolder
<1>3. ~(Holds(v, k) /\ Holds(w, k))
  BY DEF OneHolder
<1>4. ~(StartSync(v) /\ StartSync(w))
  BY <1>0 DEF StartSync, GoTo, TypeOK
<1> QED
  BY <1>1, <1>2, <1>3, <1>4

(* A rule that nobody forces has at most one sync at a time, whatever is done
   to other rules, in the same processes and through the same lockUpdaters. *)
THEOREM OthersForcedIsNoHarm ==
    ASSUME LongestAge <= ExpireTime, NEW k \in Keys
    PROVE  Spec /\ []Unforced(k) => []OneHolder(k)
<1> DEFINE Inv == KeyInv(k) /\ OneHolder(k) /\ RunningIfHeld(k)
<1>1. Init => Inv
  <2> SUFFICES ASSUME Init PROVE Inv
    OBVIOUS
  <2>1. \A w \in Workers : ~Holds(w, k)
    BY DEF Init, Holds
  <2> QED
    BY <2>1, KeyInit DEF OneHolder, RunningIfHeld
<1>2. Inv /\ Unforced(k) /\ [Next]_vars => Inv'
  <2> SUFFICES ASSUME Inv, Unforced(k), [Next]_vars PROVE Inv'
    OBVIOUS
  <2>1. IdsApart(k)
    BY DEF OneHolder, IdsApart, Pinged, Holds
  <2> QED
    BY <2>1, KeyNext, RunningNext, OneHolderNext
<1>3. Inv => OneHolder(k)
  OBVIOUS
<1> HIDE DEF Inv
<1> QED
  BY <1>1, <1>2, <1>3, PTL DEF Spec
=============================================================================
