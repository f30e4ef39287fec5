--------------------------- MODULE OperatorEngine ---------------------------
(***************************************************************************)
(* The acl-operator engine (engine/operator/engine.go) over one workload,  *)
(* an App or a CronJob, together with the part of syncRule that decides    *)
(* whether the engine is called (engine/engine.go).  The engine does not   *)
(* apply a rule.  It changes an annotation of the workload, and the change *)
(* makes the acl-operator, another program, read the rules of the workload *)
(* from acl-api again.                                                     *)
(*                                                                         *)
(* "operator" is what the operator is sure to know: the version that every *)
(* rule had when the workload last changed.  A merge patch that changes    *)
(* nothing is no change of the workload.                                   *)
(*                                                                         *)
(* Time is counted in fractions of a second, Second to the second; the     *)
(* annotation holds whole seconds.  The clock of a worker is ahead of real *)
(* time by its Skew.  The lease of syncRule is RuleSync's subject: here it  *)
(* is granted or not, and syncs of one rule may overlap, as forced ones do. *)
(***************************************************************************)
EXTENDS Integers, FiniteSets

CONSTANTS
    Rules,       \* rules whose source is the workload
    Workers,     \* goroutines that sync them
    Skew,        \* Skew[w]: how far the clock of w is ahead
    MaxSkew,     \* bound: no clock is further ahead
    Second,      \* fractions of a second
    Minute,      \* the minute of SyncApp and SyncJob, in fractions
    MaxNow,      \* bound: the model stops here
    MaxVersion,  \* bound: changes of a rule
    MayPanic     \* whether the engine may panic

ASSUME TimeAssumption ==
    /\ Second \in Nat \ {0} /\ Minute \in Nat /\ MaxNow \in Nat
    /\ MaxSkew \in Nat /\ Skew \in [Workers -> 0..MaxSkew]
ASSUME VersionAssumption == MaxVersion \in Nat
ASSUME PanicAssumption == MayPanic \in BOOLEAN
ASSUME RulesAssumption == Rules # {}

VARIABLES
    now,        \* real time
    rule,       \* rule[r]: the stored rule
    latest,     \* latest[r]: LatestSync of the rule and this engine
    workload,   \* the App or CronJob
    operator,   \* operator[r]: version of r when the workload last changed
    pc,         \* pc[w]: what worker w does next
    job,        \* job[w]: the copy of the rule that w syncs
    patch       \* patch[w]: the values of the annotation before and after

vars == <<now, rule, latest, workload, operator, pc, job, patch>>

NoTime == -1
Times == 0..MaxNow + MaxSkew
Versions == 0..MaxVersion

(* version counts the changes of a rule; version 0 is no rule at all. *)
StoredRules == [version : Versions, removed : BOOLEAN, created : Times]
NoRule == [version |-> 0, removed |-> FALSE, created |-> 0]
SyncData == [removed : BOOLEAN, successful : BOOLEAN]
NoSync == [removed |-> FALSE, successful |-> FALSE]
Workloads == [exists : BOOLEAN, annotation : Times \cup {NoTime}]
NoWorkload == [exists |-> FALSE, annotation |-> NoTime]
Jobs == [id : Rules, stored : StoredRules]
NoJob == [id |-> CHOOSE r \in Rules : TRUE, stored |-> NoRule]
Patches == [from : Times \cup {NoTime}, to : Times \cup {NoTime}]
NoPatch == [from |-> NoTime, to |-> NoTime]

Clock(w) == now + Skew[w]

(* A format that rounds up. *)
FormatMutantUp(t) == ((t + Second - 1) \div Second) * Second

(* Formatting as RFC 3339 drops the fraction. *)
Format(t) == t - (t % Second)

VersionsNow == [r \in Rules |-> rule[r].version]

Init ==
    /\ now = 0
    /\ rule = [r \in Rules |-> NoRule]
    /\ latest = [r \in Rules |-> NoSync]
    /\ workload \in {NoWorkload, [exists |-> TRUE, annotation |-> NoTime]}
    /\ operator = VersionsNow
    /\ pc = [w \in Workers |-> "idle"]
    /\ job = [w \in Workers |-> NoJob]
    /\ patch = [w \in Workers |-> NoPatch]

-----------------------------------------------------------------------------
(* What happens to rules and workload from outside. *)

(* ruleStorage.Save: Created is the clock of the process that saves, read
   before the write, which a slower clock stands for; an expanded rule that
   was removed is no longer. *)
Save(r, skew) ==
    /\ rule[r].version < MaxVersion
    /\ rule' = [rule EXCEPT ![r] =
          [version |-> @.version + 1, removed |-> FALSE,
           created |-> now + skew]]
    /\ UNCHANGED <<now, latest, workload, operator, pc, job, patch>>

(* ruleStorage.Delete leaves Created as it is. *)
Delete(r) ==
    /\ rule[r].version \in 1..MaxVersion - 1
    /\ ~rule[r].removed
    /\ rule' = [rule EXCEPT ![r].version = @ + 1, ![r].removed = TRUE]
    /\ UNCHANGED <<now, latest, workload, operator, pc, job, patch>>

(* tsuru creates the workload, which the operator sees, or deletes it. *)
Deploy ==
    /\ ~workload.exists
    /\ workload' = [exists |-> TRUE, annotation |-> NoTime]
    /\ operator' = VersionsNow
    /\ UNCHANGED <<now, rule, latest, pc, job, patch>>

Undeploy ==
    /\ workload.exists
    /\ workload' = NoWorkload
    /\ UNCHANGED <<now, rule, latest, operator, pc, job, patch>>

-----------------------------------------------------------------------------
(* syncRule and e.Sync. *)

Return(w) ==
    /\ pc' = [pc EXCEPT ![w] = "idle"]
    /\ job' = [job EXCEPT ![w] = NoJob]
    /\ patch' = [patch EXCEPT ![w] = NoPatch]

(* e.Sync or syncRule itself is done; the deferred SyncEnd is to come. *)
Finish(w, outcome) ==
    /\ pc' = [pc EXCEPT ![w] = outcome]
    /\ patch' = [patch EXCEPT ![w] = NoPatch]
    /\ UNCHANGED <<latest, job>>

(* A worker has a copy of the stored rule before it asks for the lease. *)
Copy(w, r) ==
    /\ pc[w] = "idle"
    /\ rule[r].version > 0
    /\ pc' = [pc EXCEPT ![w] = "start"]
    /\ job' = [job EXCEPT ![w] = [id |-> r, stored |-> rule[r]]]
    /\ UNCHANGED <<now, rule, latest, workload, operator, patch>>

(* The lease is refused, the process dies, or the result of the sync cannot be
   stored. *)
Stop(w) ==
    /\ pc[w] # "idle"
    /\ Return(w)
    /\ UNCHANGED <<now, rule, latest, workload, operator>>

(* "Nothing to do, removal already synced." *)
AlreadySynced(w) ==
    /\ job[w].stored.removed
    /\ latest[job[w].id].removed /\ latest[job[w].id].successful

(* SyncStart grants the lease and answers with the latest sync. *)
SyncStart(w) ==
    /\ pc[w] = "start"
    /\ pc' = [pc EXCEPT ![w] = IF AlreadySynced(w) THEN "skip" ELSE "get"]
    /\ UNCHANGED <<now, rule, latest, workload, operator, job, patch>>

Skip(w) ==
    /\ pc[w] = "skip"
    /\ Finish(w, "succeeded")
    /\ UNCHANGED <<now, rule, workload, operator>>

(* The tsuru API, the cluster or the workload cannot be read or patched, or
   the annotation does not parse. *)
SyncFails(w) ==
    /\ pc[w] \in {"get", "decide", "patch"}
    /\ Finish(w, "failed")
    /\ UNCHANGED <<now, rule, workload, operator>>

(* The workload is not found, which is no error. *)
GetNothing(w) ==
    /\ pc[w] = "get" /\ ~workload.exists
    /\ Finish(w, "succeeded")
    /\ UNCHANGED <<now, rule, workload, operator>>

Get(w) ==
    /\ pc[w] = "get" /\ workload.exists
    /\ pc' = [pc EXCEPT ![w] = "decide"]
    /\ patch' = [patch EXCEPT ![w].from = workload.annotation]
    /\ UNCHANGED <<now, rule, latest, workload, operator, job>>

(* A rule that compares its creation without the minute of tolerance. *)
NeedsUpdateMutantNoMargin(w) ==
    LET lastUpdated == patch[w].from IN
    \/ lastUpdated = NoTime
    \/ job[w].stored.created > lastUpdated
    \/ Clock(w) > lastUpdated + Minute

NeedsUpdate(w) ==
    LET lastUpdated == patch[w].from IN
    \/ lastUpdated = NoTime
    \/ job[w].stored.created + Minute > lastUpdated
    \/ Clock(w) > lastUpdated + Minute

(* The original is marshalled after the annotation was changed. *)
TriggerMutantLateOriginal(w) ==
    LET to == Format(Clock(w)) IN
    /\ pc[w] = "decide" /\ NeedsUpdate(w)
    /\ pc' = [pc EXCEPT ![w] = "patch"]
    /\ patch' = [patch EXCEPT ![w] = [from |-> to, to |-> to]]
    /\ UNCHANGED <<now, rule, latest, workload, operator, job>>

(* The annotation that the patch will hold. *)
Trigger(w) ==
    /\ pc[w] = "decide" /\ NeedsUpdate(w)
    /\ pc' = [pc EXCEPT ![w] = "patch"]
    /\ patch' = [patch EXCEPT ![w].to = Format(Clock(w))]
    /\ UNCHANGED <<now, rule, latest, workload, operator, job>>

(* "triggered acl-operator in the last minute" *)
InTheLastMinute(w) ==
    /\ pc[w] = "decide" /\ ~NeedsUpdate(w)
    /\ Finish(w, "succeeded")
    /\ UNCHANGED <<now, rule, workload, operator>>

EmptyPatch(w) == patch[w].from = patch[w].to

(* The merge patch holds the annotation only when it differs from the one that
   was read, and the workload changes only when the patch differs from the one
   there is. *)
Patched(w) ==
    LET changed == ~EmptyPatch(w) /\ workload.annotation # patch[w].to
    IN IF changed
         THEN /\ workload' = [workload EXCEPT !.annotation = patch[w].to]
              /\ operator' = VersionsNow
         ELSE UNCHANGED <<workload, operator>>

(* "triggered acl-operator" *)
Patch(w) ==
    /\ pc[w] = "patch" /\ workload.exists
    /\ Patched(w)
    /\ Finish(w, "succeeded")
    /\ UNCHANGED <<now, rule>>

(* The patch is applied and its answer is lost. *)
PatchUnanswered(w) ==
    /\ pc[w] = "patch" /\ workload.exists
    /\ Patched(w)
    /\ Finish(w, "failed")
    /\ UNCHANGED <<now, rule>>

(* A panic in e.Sync runs the deferred SyncEnd with err == nil, before it ends
   the process: the sync is recorded as successful. *)
SyncPanics(w) ==
    /\ MayPanic
    /\ pc[w] \in {"get", "decide", "patch"}
    /\ Finish(w, "succeeded")
    /\ UNCHANGED <<now, rule, workload, operator>>

(* The deferred SyncEnd: the result is recorded with the Removed of the
   worker's copy. *)
SyncEnd(w) ==
    /\ pc[w] \in {"succeeded", "failed"}
    /\ latest' = [latest EXCEPT ![job[w].id] =
          [removed |-> job[w].stored.removed,
           successful |-> pc[w] = "succeeded"]]
    /\ Return(w)
    /\ UNCHANGED <<now, rule, workload, operator>>

Tick ==
    /\ now < MaxNow
    /\ now' = now + 1
    /\ UNCHANGED <<rule, latest, workload, operator, pc, job, patch>>

Outside ==
    \/ \E r \in Rules : Delete(r) \/ \E w \in Workers : Save(r, Skew[w])
    \/ Deploy
    \/ Undeploy

Worker(w) ==
    \/ \E r \in Rules : Copy(w, r)
    \/ Stop(w) \/ SyncStart(w) \/ Skip(w) \/ SyncFails(w)
    \/ GetNothing(w) \/ Get(w) \/ Trigger(w) \/ InTheLastMinute(w)
    \/ Patch(w) \/ PatchUnanswered(w) \/ SyncPanics(w) \/ SyncEnd(w)

Next == Outside \/ Tick \/ \E w \in Workers : Worker(w)

Spec == Init /\ [][Next]_vars

-----------------------------------------------------------------------------
(* Every variable has its type. *)
TypeOK ==
    /\ now \in 0..MaxNow
    /\ rule \in [Rules -> StoredRules]
    /\ latest \in [Rules -> SyncData]
    /\ workload \in Workloads
    /\ operator \in [Rules -> Versions]
    /\ pc \in [Workers ->
          {"idle", "start", "skip", "get", "decide", "patch", "succeeded",
           "failed"}]
    /\ job \in [Workers -> Jobs]
    /\ patch \in [Workers -> Patches]

(* The operator is sure to know the copy of the rule that w syncs. *)
Known(w) == operator[job[w].id] >= job[w].stored.version

(* When the engine answers "triggered acl-operator in the last minute" for a
   rule in force, the workload has changed since that rule was stored, even
   when the clocks of the processes are almost a minute apart. *)
LastMinuteIsEnough ==
    [][\A w \in Workers :
         InTheLastMinute(w) /\ ~job[w].stored.removed => Known(w)]_vars

(* When the engine answers "triggered acl-operator", the operator knows the
   rule, unless another sync wrote the same second. *)
TriggerReachesOperator ==
    [][\A w \in Workers :
         Patch(w) => \/ operator'[job[w].id] >= job[w].stored.version
                     \/ patch[w].to = workload.annotation]_vars

(* When syncRule skips a removal because "removal already synced"
   (engine.go:107), the operator was told of it. *)
RemovalReachesOperator ==
    [][\A w \in Workers : Skip(w) /\ workload.exists => Known(w)]_vars
=============================================================================
