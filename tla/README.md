# A verification of acl-api

acl-api keeps the network rules of tsuru applications and jobs. Callers add
rules directly or through the tsuru service API; rules are stored in MongoDB;
whenever rules are added, or a caller forces it, every enabled engine is called
with the rules. The one engine of the repository, acl-operator, makes another
program read a workload's rules again by changing an annotation of the
workload. Several processes run at once and share only MongoDB.

## Inventory

| Part | State | Operations | Modelled in |
|---|---|---|---|
| `engine/engine.go` syncRule, engineSync, SyncRules | local variables of each call | take the lease, skip a removal already synced, call the engine, record the result; one goroutine per engine over all rules of a call | RuleSync; the goroutines and what they share in TsuruClient; the skip also in OperatorEngine |
| `storage/mongodb/syncstorage.go` | `acl_rule_sync`, one document per rule and engine | StartSync, PingSyncs, EndSync, Find | RuleSync; its promise in SyncLock |
| `rule/service.go` lockUpdater | set of ids per process, two unbuffered channels, a timer | add, remove, ping | RuleSync |
| `engine/operator/engine.go` | annotation of an App or CronJob | SyncApp, SyncJob | OperatorEngine |
| `service/service.go`, `storage/mongodb/servicestorage.go` | `acl_services`: base rules, bound apps and jobs | Create, Delete, AddRule, RemoveRule, AddApp, RemoveApp, AddJob, RemoveJob | ServiceInstances |
| `rule/service.go`, `storage/mongodb/rulestorage.go` | `acl_rules` with a unique index on the name | Save, Delete, Find*, FindByRule | RulesAPI; Save and Delete also in ServiceInstances and OperatorEngine; FindByRule in RuleTypes |
| `api/types` | none | Validate, Equals | RuleTypes |
| `api/rule.go` | none | addRule, deleteRule, forceRuleSync | RulesAPI; force and removed are inputs of RuleSync |
| `api/service.go` and the other handlers | none | service API, reads | requests as actions of ServiceInstances |
| `external/tsuru.go`, `rule/logic.go`, `rule/tsuru_*.go` | caches of one SyncRules call, a mutex per entry and one for the client | AppInfo, JobInfo, PoolInfo, PoolCluster, Clusters, LogicFromRule, KubernetesRestConfig | TsuruClient; its promise in TsuruSnapshot |
| `external/client.go`, `kubernetes/client.go` | lazily built HTTP clients | build, round trip | what a reply or a timeout becomes, and which clusters are refused, in TsuruClient |
| `storage/mongodb/base.go` | one client, a `sync.Once` that a failure replaces | createConn | MongoConnection, within RulesAPI |
| `storage/mongodb/aclapistorage.go` | `acl_api_synced_rules` | unused outside its tests | no |
| `cmd`, `main.go`, `api/api.go`, `api/worker.go`, `api/observability.go` | none after start-up | start-up, authentication, metrics | no |

**How the parts interact.** A handler writes `acl_services` or `acl_rules` and
then starts `engine.SyncRules` in a goroutine, with *copies* of the rules. Each
engine goroutine calls `syncRule` for each copy. `SyncStart` takes a lease in
`acl_rule_sync` and hands the SyncID to the process's lockUpdater, which pings
every lease that the process holds; `SyncEnd` takes it out again and records the
result. Removals of rules never start a sync: removed rules get to SyncRules from
the three force handlers, which read back whatever is stored, and from an addRule
whose caller has set Removed. Nothing retries.

**What is hard.** Requests, workers and pings of all processes interleave
between single MongoDB commands, none of which is in a transaction. Commands
fail with or without having been applied, are late, and carry clock readings
from before they were sent. Processes die between any two commands. The lease
is only a timestamp, `EndSync` does not ask whose it is, and forced syncs ignore
it. Each component's correctness:

* lease: unforced syncs of a rule by an engine do not overlap; a held lease does
  not expire; a lease nobody holds does; hand-overs to the lockUpdater do not
  block for good; "already synced" is true;
* instances: when requests have ended, what is in force is what the instance
  says; what fails or races half way is repaired by later requests;
* rules by name: a name that was given to a rule means that rule for ever; what
  was added gets to an engine; what was removed stays removed;
* connection: one client however many requests come first, and nobody is told
  that there is one when there is not;
* tsuru client: a call sees one picture of tsuru, asks for no piece twice, and
  its engines never wait for each other for good;
* types: AddRule refuses only what is there already;
* operator engine: an answer that claims that the operator was told is true.

`PROJECT.json` lists the hazards one by one, at their lines.

## Modules

**RuleSync** is one rule/engine pair ("key") or several, with workers
(goroutines in `syncRule`) and lockUpdaters (one per process). A worker's `pc`
is the call it is in: `StartSync` (the MongoDB command), `enqueue` (blocked on
`addSyncID`), `Sync` (in `e.Sync`, before its effect), `return` (in `e.Sync`,
after it), `dequeue` (blocked on `removeSyncID`), `EndSync` (the command). A
process may die in each of them. A panic of `e.Sync` (`SyncPanics`, where
`MayPanic`) is a death that runs the deferred SyncEnd first, with err == nil, and
takes the process with it afterwards (`PanicEnds`), or before by a `Crash`. The document of a key has `running`, `pingtime` and
the results; the key stands for the SyncID, as `_id` is set on insert only.
Upsert plus unique index make StartSync one atomic step that either takes the
lease or finds it locked. A process's lockUpdater is in `select` exactly when
`batch` is empty; otherwise it is in PingSyncs, which updates one document at a
time and ignores `running`. Instants are kept as ages: `Tick` makes everything
older, a command applies a clock reading taken anywhere between its step's
start and its effect. `engine` is a history variable: the last call of the
engine that had its effect. Left out: clock differences between processes, failure to
create the unique index, `EngineWithFilter` (no engine has it), `next` (unused
by syncRule), and a nil storage in the lockUpdater (a panic there is a `Crash`).

**SyncLock** is what RuleSync comes to without forced syncs: `holders`, `running`
and `results` of each key, and no clock, ping or timeout. `Acquire` needs no
holder, `Release` writes one result and gives the lease back, `Abandon` is a
crash or a lost answer. RuleSync states the mapping (`HoldersNow`, `RunningNow`,
`ResultsNow`) and the refinement, `ImplementsSyncLock`: pings, ticks and
hand-overs are steps in which nothing happens.

**OperatorEngine** is one workload, its annotation, the rules whose source it is
and workers that run `e.Sync`. Deciding, patching and recording are separate
steps; Save, Delete and tsuru's own changes happen in between. `operator[r]` is
the version of rule `r` at the last change of the workload, which is all the
acl-operator can be relied on to know: acl-api does not see what else makes it
run. Workers' clocks differ by `Skew`, the annotation has whole seconds, and a
merge patch without a difference changes nothing. A patch may be applied and its
answer lost (`PatchUnanswered`), a worker may end between any two steps, between
the patch and SyncEnd too (`Stop`), and a panic is recorded as a success
(`SyncPanics`). SyncApp and SyncJob are the same program over different kinds. That a source is not on Kubernetes, or the
app is unknown to tsuru, looks like a workload that does not exist.

**ServiceInstances** is one instance and its expanded rules; two instances
never share a rule. Each request is the sequence of its MongoDB commands; Save
and UpdateMany write one rule at a time; any request may stop after any command
(`Abort`: failed command or dead process). `BadBindings` are names that
`bind` accepts and `Validate` refuses as a source, such as the empty app name,
for which `serviceBindApp` writes a 400 and carries on. `alone`, `overlaps` and
`unsettled` are history variables for the properties: whether a request has run
without another one so far; whether an addition has overlapped a removal
("mixed"), or two AddRules of one destination each other ("twice"); and which
rules of the instance a failed request was about (`About`, `Fails`), until a Save
writes them or they are removed from the instance. A base rule that its caller
has marked as Removed is left out; RuleTypes has those.

**RulesAPI** is the requests for single rules in one process, which connects on
its first request and may die (`Crash`). A request is in createConn
(`connect`), in getRulesColl (`index`), in its one MongoDB command, or has a
rule for SyncRules (`sync`). A document is a name and a removed flag, which a
caller of addRule may set; `Insert` and its two failures are addRule, `Delete` is
deleteRule, `Find` is forceRuleSync, and `Replace` is the Save of an expansion by
the service, which writes to the same collection; answers of both Saves may be
lost. The index is asked for once per process and its error is dropped, so a
process may work without it and a later one may or may not get it. `owner` and
`lost` are history variables: the rule answered for a name, and the rules whose
insert got no answer or whose process died with them in hand.

**MongoConnection** is createConn, instantiated by RulesAPI: the flag and the
mutex of a `sync.Once`, the check outside the mutex and the one inside, and
`once = sync.Once{}` after a failure. Overwriting a mutex that is in use is a
data race; its outcomes are choices of the model: a goroutine that waits may be
forgotten for ever or go on as if it had just come, one that holds the mutex
goes on and ends the process when it unlocks (it is stuck until `Crash`).

**TsuruClient** is one SyncRules call after the other: a goroutine per engine
goes through the rules of the call, and each rule takes it from the source to a
pool, a cluster and a configuration. `Lookup` needs t.Mutex (find or make the
entry), `Hit`, `Ask` and `Reply` the mutex of the entry, `ListAsk` to
`ListFails` hold t.Mutex over a request. Replies are arbitrary and differ from
request to request. `NewCall` makes new caches. It has two goroutines although the
repository registers one engine, since SyncRules starts one for each.

**TsuruSnapshot** is what that comes to: `facts`, learned at most once each and
never changed within a call, and answers that are errors or follow from the
facts (`Sound`), with the choice of a cluster stated without its loop
(`IsClusterOf`). `ImplementsSnapshot` is the refinement; the caches are the facts.

**RuleTypes** is `Validate` and `Equals` over records with a field per kind of
destination, and the base rules of one instance under AddRule and RemoveRule;
`ruleTypeMatch` is the search of FindByRule over them. Names are what Validate
tells apart, `Empty` among them, for which a filter matches every name. The
storage turns a nil port list into an empty one (mgocompat registry), so the
receiver of `Equals` in AddRule always has a list. `Includes` is the reference:
traffic of one destination includes another's.

The `MC*` modules name the model values and give the constants that a `.cfg`
cannot express. The `*Proofs` modules have the theorems about RuleSync,
OperatorEngine, ServiceInstances, RulesAPI, TsuruClient and RuleTypes; for
RuleSync with forced syncs they are in RuleSyncForcedProofs, and about the skip
of removals in RuleSyncRemovalProofs.

## Runs

| Run | Shows |
|---|---|
| RuleSync_lease | TypeOK, NonForcedExclusive, LeaseKept, LeaseAge, PingsWhatIsHeld, the refinement ImplementsSyncLock and, under fairness, SyncFinishes and LeaseComesFree for 3 workers in 2 processes, one failed command, one crash or panic |
| RuleSync_forced | with forced calls, in two processes of one worker each, an unforced sync starts only when nobody syncs the rule (UnforcedStartsAlone), so two of them still never overlap, over one failed command and one crash or panic |
| RuleSync_forced_overlap | violated with two workers in *one* process: finding 1 |
| RuleSync_removal_crash | SkipJustified violated: finding 2 |
| ServiceInstances | AllExpanded, OrphansNeedOverlap, EqualRulesNeedOverlap, RemovalCleans, AdditionRepairs with two overlapping requests, failures and retries |
| ServiceInstances_race | NoOrphans violated: finding 3 |
| OperatorEngine | LastMinuteIsEnough, TriggerReachesOperator with clocks almost a minute apart, lost answers, crashes and panics |
| OperatorEngine_removal | RemovalReachesOperator violated: finding 4 |
| RuleTypes | RefusedIsIncluded, ActiveRulesDiffer, AddedIsFound for destinations of each kind but jobs |
| RuleTypes_job | RefusedIsIncluded violated by a job: finding 5 |
| TsuruClient | SingleFlight, OnlyRequestsWait, the refinement ImplementsSnapshot and, under fairness, SyncRulesReturns for two engines and three rules |
| RulesAPI | NameKeepsItsRule, AddedIsSynced, RemovedStaysRemoved, OneClient, NoClientNeedsOverlap with two overlapping requests, failing connections, a missing index, lost answers and crashes |

**Bounds.** *RuleSync_lease*: one key is enough for the lease, as no operation
mixes documents other than the batch, and the theorems hold for any number. Two
of the three workers share a process, so both kinds of rivals exist. LockExpire
7 is the least that `Timely` allows with an interval of 1, a delay of 1 and one
failed ping; with 6 TLC finds the lease lost, so the formula is tight. (The
code's 5 minutes to 20 seconds leave room for many more.) MaxDelay bounds how
long a command or hand-over may take; the code has a socket timeout of a minute
on commands, so lease safety really depends on commands being faster than the
lease: `Timely` says how much. *RuleSync_forced* needs SyncInterval 7 with one
failed command: with 6, TLC finds an unforced start beside another sync; ages are
exact up to MaxAge, beyond which no comparison tells them apart. Its calls, and
those of the lease run, are of live rules: Removed only matters to the skip, which
RuleSync_removal_crash and RuleSyncRemovalProofs are about. *RuleSync_removal_crash* has no rivals, no
failing commands and no panics, so that the crash is all it takes; with
MaxCrashes = 0 it passes. *ServiceInstances*: two threads make every pair of
requests race; two base rules, one good and one bad binding make expansions of
several rules and poisoned Saves; two destinations make base rules that are equal
and ones that are not. *OperatorEngine*: Minute 3 and Second 2 are no
multiples of each other, so truncation matters; a skew of a whole minute violates
LastMinuteIsEnough. Versions up to 2 are a save followed by a save or removal.
*RuleTypes*: two rules, since the properties relate at most two; every kind of
destination, with nil, empty, reordered, respelled and repeated ports.
*TsuruClient*: two engines and three rules, of which two can have one source, so
that one hits what the other asked for; lists with no cluster, none of
kubernetes, one that names the pool, and defaults only. *RulesAPI*: two requests
race for the index, the connection and a name; the name "i1" is also the id of a
rule, which Find cannot tell apart. Unbounded things that the models cap are MaxFaults, MaxCrashes,
MaxDelay, MaxBase, MaxRules, MaxNow and MaxVersion.

**Fairness.** *RuleSync*: goroutines are scheduled and MongoDB answers (driver
timeouts, `base.go`), hence weak fairness of storage steps; a goroutine is at one
step at a time, so the steps of one are one condition. `e.Sync` returns, as
its HTTP and Kubernetes clients have the timeout `http.timeout`
(`kubernetes/client.go:85`). `select` in Go picks at random among the ready
cases, and a worker blocked on the unbuffered channel competes with others and
with the timer, hence strong fairness of Enqueue and Dequeue. Nothing is
assumed about requests, failures or crashes. `LeaseComesFree` promises that
a rule may be started again, not that someone will. *TsuruClient*: weak fairness
of each goroutine; a request ends within `http.timeout`. That a mutex is free
again and again is no help to a goroutine that loses it each time, but the rules
of a call are finitely many, so weak fairness is enough. The other modules
promise nothing that must happen.

Deadlock is checked except in the OperatorEngine runs, where the clock ends at
MaxNow and versions at MaxVersion.

## What is proved

For every value of the constants (any number of keys, processes, workers,
requests, rules, names, and so on), from the named ASSUMEs of each module, which
the runs evaluate. Each module proves one inductive invariant, `IInv`, with a
lemma for each action or each part of it.

**RuleSyncProofs**

* `TypeCorrect`: Spec => []TypeOK.
* `LeasesAreKept`: []LeaseKept, `LeasesAge`: []LeaseAge, `LeasesArePinged`:
  []PingsWhatIsHeld, `LeasesAreExclusive`: []NonForcedExclusive, and
  `SyncLockImplemented`: Spec => ImplementsSyncLock,
  assuming `Timely` (the lease outlasts the pings that may fail and every delay)
  and `NeverForced` (no call is forced).

Typing alone says nothing of leases, and exclusion is not inductive: StartSync is
refused because the document is running and recent, so LeaseKept is needed; that
holds because pings come in time, so it takes a bound on the age at each step of
a sync, `LeaseAge`, which again needs to know that the lockUpdater has the id
(PingsWhatIsHeld) and how far each timer may be (the guards of Tick). LeaseAge
counts the failed pings so far. For the refinement exclusion is the guard of the
abstract Acquire and Release, and every action is one step of SyncLock or none.

**RuleSyncForcedProofs**, with any calls forced:

* `UnforcedStartIsAlone`: Spec => UnforcedStartsAlone, and `UnforcedAreExclusive`:
  []NonForcedExclusive, assuming `TimelyForced` (the sync interval outlasts the
  pings) and `OneWorkerEach` (one worker in each process);
* `UnforcedSyncsAreAlone`: the same for one rule and any number of workers in a
  process, as long as no process syncs *that* rule twice at once (`IdsApart`);
* `SharedLeasesAreFresh`: as long as `IdsApart`, the pingtime of a lease that
  anybody holds is at most `LongestAge`;
* `OthersForcedIsNoHarm`: a rule that nobody forces has one sync at a time if
  LongestAge is within the expiry time, whatever is forced on other rules.

With forced syncs the flag `running` protects nobody: the EndSync of one holder
clears it for the others, and a start may find it cleared while somebody holds the
lease. What is left is pingtime, against the *sync interval* instead of the
expiry. The invariant, `KeyInv`, is about one rule: the age of its document as
each of its holders sees it (`AgesKept`), that the lockUpdaters know the rule
exactly where it is held (`KnownWhereHeld`), and that a batch never has more
than the ids (`Batches`). The second part is where `IdsApart` is needed: two
syncs of one rule in one process have one id, and the end of one removes it;
RuleSync_forced_overlap shows what happens then, so the assumption cannot go.
Others may take, ping or end the lease between two pings of a holder; all that
can cost it is one more delay, and only where a lockUpdater has several ids
(`CrowdedDelay`). With the interval of 20 seconds and the sync interval
of a minute, `TimelyForced` asks that commands take at most 13 seconds when none
fails, and 4 when one does (10 and 3 where a process has several workers): much
less than what `Timely` asks for with its five minutes.

**RuleSyncRemovalProofs**: `SkipsAreJustified` for one rule and
`RecordedSkipsAreJustified`: Spec => SkipJustified for all of them, as long as
the syncs of a rule do not overlap (`OneHolder`) and none ends without
EndSync once it may have called the engine or has skipped the call, or in a panic,
which records a success that the engine did not report (`LosesResult`).
These are conditions on a behaviour, not on constants: crashes, failed commands
and forced syncs elsewhere, before the call, or in StartSync do no harm.
The invariant, `Recorded`, says that the latest result in the document is what
the engine was last told when nobody holds the lease, and until its holder
calls the engine; the lemma about PushSlice (`LatestIsPushed`) and the fact that
nothing else writes the history (`SyncsKept`) carry it over an EndSync.
RuleSync_removal_crash shows that the second condition is needed; with two
workers in two processes and forced syncs that overlap, TLC finds SkipJustified
violated without any crash, so the first is needed too.

**ServiceInstancesProofs**: `InstanceTypeCorrect`, `OverlapExpandsAll`
([]AllExpanded), `OrphansComeFromOverlap` ([]OrphansNeedOverlap),
`EqualRulesComeFromOverlap` ([]EqualRulesNeedOverlap), `AloneRemovalCleans`
(RemovalCleans),
`AloneAdditionRepairs` (AdditionRepairs). AllExpanded speaks of the end of all
requests; the invariant `Covered` says for every moment who sees to a rule that is
not in force: somebody who has yet to expand or to save it, a removal that will
take its base rule or binding away, or nobody, since a request that was about it
has failed (`unsettled`). A request that was about other rules is no excuse, nor
is a retry that was refused. The others follow from what a request that is alone
has yet to write or delete (`Saving`, `Removing`, `Pushing`). Orphans and equal
rules are not a matter of being alone: `OverlapIsKnown` says only that no
addition is beside a removal, or no AddRule beside one of the same destination,
until `overlaps` has it, and the invariant has to hold among overlapping
additions (whose expansions were read at different times) and among removals.

**RulesAPIProofs**: `RulesTypeCorrect`, `NamesAreKept`, `AddedRulesAreSynced`,
`RemovalsLast`, `ConnectedOnce` ([]OneClient), `AloneGetsAClient`
([]NoClientNeedsOverlap). The names need `OwnersAreNamed` (the rule answered for a
name has it, with the index or without) and `IndexHolds` (where the index is, no
two rules have one name); AddedIsSynced is inductive by itself once it speaks of
every moment. The connection needs `OnceWorks` (as long as nothing has failed the
sync.Once excludes) and `FailuresClear` (a flag that is set means a client, or a
failure that its caller has yet to clear).

**TsuruClientProofs**: `ClientTypeCorrect`, `AsksOnce` ([]SingleFlight),
`WaitsForRequests` ([]OnlyRequestsWait), `NoDeadlock`, `EveryStepGoesFurther` and
`SnapshotImplemented` (Spec => ImplementsSnapshot). The invariant says what a
goroutine on its way to a cluster has in its hands: a pool that the facts give
for its source, and from the list on that the pool is one of kubernetes
(`OnTheWay`), and that who asks holds the mutex (`AskedOnce`,
`ListAskedOnce`). That the first cluster by its loop is the one that the
snapshot states is the lemma `ClusterChoice`. Every mutex that is held
is held by a goroutine with a request under way (`Held`), so until the call has
returned somebody can move (`NoDeadlock`), and each step moves a goroutine on in
its rule or to the next one (`EveryStepGoesFurther`). That is all of
SyncRulesReturns but the fairness, under which TLC checks it.

**OperatorEngineProofs**: `EngineTypeCorrect`, `LastMinute`, assuming that clocks
differ by less than a minute, and `TriggerReaches`. The invariant orders the
versions of a rule with what the operator knows and bounds the times of
annotations and rules by the clocks that wrote them.

**RuleTypesProofs**: `RuleTypesCorrect`, `AddedRulesAreFound`, `ActiveDiffer`
([]ActiveRulesDiffer) and, assuming `NoJobs` (no destination is a job),
`RefusalsAreRight` ([]RefusedIsIncluded). The invariant is that no base rule in force
equals a later one; that destinations which include each other are equal needs
that lists with the same ports, each listed once, are equally long (`NoLonger`).

Only model-checked: what this prover cannot express, liveness under fairness
(SyncFinishes, LeaseComesFree, SyncRulesReturns) and whether an action is
enabled; `CanMove` in `NoDeadlock` states the guards instead. The violated
properties are shown by their counterexamples. Of two forced syncs nothing is
promised, so nothing about them is proved but the age of their lease.

## Findings

1. Two syncs of one rule in one process share one id in the lockUpdater and one
   document. When a forced one ends, the other's lease is released and no longer
   pinged, and an unforced sync can start beside it.
2. "removal already synced" looks at the latest *recorded* sync. After a crash
   between `e.Sync` and `SyncEnd` the engine's latest call may have been for the
   live rule, and the removal is skipped.
3. An addition that has read the instance before a removal writes its rules
   after it: they stay in force for an app that is not bound, or for a base rule
   that is gone, when both requests have ended. Nothing undoes it by itself; a
   later removal of the same thing that runs alone does (RemovalCleans).
4. A removal keeps the rule's Created, so within a minute of the last patch (or
   in the same second, where the patch is empty) the engine changes nothing;
   this is recorded as a successful removal and later ones are skipped. The
   operator then learns of it only when something else changes the workload.
5. `RuleType.Equals` ignores jobs: a base rule to a job makes every other
   destination "already exist".

Also seen, with no promise in the repository to hold it against: an AddRule whose
expansion failed is refused when repeated, so its rules stay missing until another
addition is accepted (AllExpanded says that no more than these are missing,
AdditionRepairs that they come back then); a panic of `e.Sync` is recorded as a
successful sync, by which a removal that no engine got can be skipped later
(`engine.go:91-111`); two overlapping AddRules can push equal rules; a sync refused by the
interval is not made up for; a base rule without ports does not stop an equal one
with ports from being added; `ruleTypeMatch` has no case for an rpaas instance,
so such a filter matches every rule; `base.go:24` says that the sync.Once is only
reset in tests, and line 67 resets it after a failure, by which a goroutine can
wait for ever, end the process, or get a storage without a client (a panic in its
request); a rule whose insert lost its answer is in force but never synced.

## Not modelled

* The HTTP server, authentication and start-up (`cmd`, `main.go`, `api/api.go`,
  `api/worker.go`, `api/observability.go`): wiring, a comparison of passwords and
  metrics, with no state that changes after start-up.
* Handlers and storage operations that only read, plans and catalogue answers, and
  the form of answers.
* `aclapistorage.go`: nothing outside its tests calls it.
* The I/O of the HTTP and Kubernetes clients, and that they are built lazily
  (client-go configurations have no state).
* `EngineWithFilter`: no engine implements it. ClearAll and the storage test suites
  are for tests.
* The text of names, ids and the JSON cache keys.

## What could follow

ServiceInstances with the syncs of the copies that its requests hand over (today
the copies are inputs of RuleSync), and the refinement of SyncLock for the
unforced syncs among forced ones.
