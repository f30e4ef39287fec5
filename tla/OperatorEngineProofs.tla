------------------------ MODULE OperatorEngineProofs ------------------------
(***************************************************************************)
(* Proofs about OperatorEngine, for any number of rules and workers, any   *)
(* clocks and any length of the minute.                                    *)
(***************************************************************************)
EXTENDS OperatorEngine, TLAPS

Steps == {"idle", "start", "skip", "get", "decide", "patch", "succeeded",
          "failed"}

(* The constants of time, in the form the provers use them. *)
LEMMA Constants ==
    /\ Second \in Nat /\ Second > 0 /\ Minute \in Nat
    /\ MaxNow \in Nat /\ MaxSkew \in Nat /\ MaxVersion \in Nat
    /\ \A w \in Workers : Skew[w] \in Nat /\ Skew[w] <= MaxSkew
BY TimeAssumption, VersionAssumption

LEMMA NoJobType == NoJob \in Jobs /\ NoJob.stored.version = 0
<1>1. (CHOOSE r \in Rules : TRUE) \in Rules
  BY RulesAssumption
<1>2. NoRule \in StoredRules
  BY Constants DEF NoRule, StoredRules, Versions, Times
<1> QED
  BY <1>1, <1>2 DEF NoJob, Jobs, NoRule

(* To cut an instant to a whole second gives an earlier one. *)
LEMMA FormatType ==
    ASSUME NEW t \in Nat
    PROVE  Format(t) \in Nat /\ Format(t) <= t
<1> DEFINE q == t \div Second  m == t % Second
<1>1. q \in Int /\ m \in Int /\ 0 <= m /\ m < Second
  BY Constants
<1>2. t = Second * q + m
  BY Constants
<1> HIDE DEF q, m
<1>3. q >= 0
  <2> SUFFICES ASSUME q <= -1 PROVE FALSE
    BY <1>1
  <2>1. Second * q <= -Second
    BY <1>1, Constants
  <2> QED
    BY <1>1, <1>2, <2>1, Constants
<1>4. Second * q \in Int /\ Second * q >= 0
  BY <1>1, <1>3, Constants
<1>5. t - m \in Nat /\ t - m <= t
  BY <1>1, <1>2, <1>4
<1> QED
  BY <1>5 DEF Format, m

LEMMA ClockType ==
    ASSUME TypeOK, NEW w \in Workers
    PROVE  /\ Clock(w) \in Nat /\ Clock(w) <= now + MaxSkew /\ now <= Clock(w)
           /\ Clock(w) \in Times
BY Constants DEF TypeOK, Clock, Times

-----------------------------------------------------------------------------
(* Typing *)

LEMMA TypeInit == Init => TypeOK
<1> SUFFICES ASSUME Init PROVE TypeOK
  OBVIOUS
<1> USE Constants DEF Init
<1>1. NoRule \in StoredRules /\ NoSync \in SyncData /\ NoPatch \in Patches
  BY DEF NoRule, StoredRules, Versions, Times, NoSync, SyncData, NoPatch, Patches
<1>2. workload \in Workloads
  <2>1. NoWorkload \in Workloads
    BY DEF NoWorkload, Workloads
  <2>2. [exists |-> TRUE, annotation |-> NoTime] \in Workloads
    BY DEF Workloads
  <2> QED
    BY <2>1, <2>2
<1>3. operator \in [Rules -> Versions]
  BY DEF VersionsNow, NoRule, Versions
<1> QED
  BY <1>1, <1>2, <1>3, NoJobType DEF TypeOK

(* What the end of a request leaves behind. *)
LEMMA ReturnType ==
    ASSUME TypeOK, NEW w \in Workers, Return(w)
    PROVE  /\ pc' \in [Workers -> Steps]
           /\ job' \in [Workers -> Jobs]
           /\ patch' \in [Workers -> Patches]
BY NoJobType DEF TypeOK, Return, Steps, NoPatch, Patches

LEMMA FinishType ==
    ASSUME TypeOK, NEW w \in Workers, NEW outcome \in {"succeeded", "failed"},
           Finish(w, outcome)
    PROVE  /\ pc' \in [Workers -> Steps]
           /\ patch' \in [Workers -> Patches]
           /\ latest' \in [Rules -> SyncData] /\ job' \in [Workers -> Jobs]
BY DEF TypeOK, Finish, Steps, NoPatch, Patches

LEMMA VersionsNowType ==
    ASSUME TypeOK
    PROVE  VersionsNow \in [Rules -> Versions]
BY DEF TypeOK, VersionsNow, StoredRules

LEMMA TypeNext == TypeOK /\ [Next]_vars => TypeOK'
<1> SUFFICES ASSUME TypeOK, [Next]_vars PROVE TypeOK'
  OBVIOUS
<1>1. ASSUME NEW r \in Rules, NEW w \in Workers, Save(r, Skew[w]) PROVE TypeOK'
  <2>1. /\ rule[r].version + 1 \in Versions
        /\ now + Skew[w] \in Times
    BY <1>1, ClockType, Constants
    DEF Save, TypeOK, StoredRules, Versions, Clock
  <2>2. rule' \in [Rules -> StoredRules]
    BY <1>1, <2>1 DEF Save, TypeOK, StoredRules
  <2> QED
    BY <1>1, <2>2 DEF Save, TypeOK
<1>2. ASSUME NEW r \in Rules, Delete(r) PROVE TypeOK'
  <2>1. rule[r].version + 1 \in Versions
    BY <1>2, Constants DEF Delete, TypeOK, Versions
  <2>2. rule' \in [Rules -> StoredRules]
    BY <1>2, <2>1 DEF Delete, TypeOK, StoredRules
  <2> QED
    BY <1>2, <2>2 DEF Delete, TypeOK
<1>3. CASE Deploy
  BY <1>3, VersionsNowType DEF Deploy, TypeOK, Workloads
<1>4. CASE Undeploy
  BY <1>4 DEF Undeploy, TypeOK, Workloads, NoWorkload
<1>5. CASE Tick
  BY <1>5, Constants DEF Tick, TypeOK
<1>6. ASSUME NEW w \in Workers, NEW r \in Rules, Copy(w, r) PROVE TypeOK'
  BY <1>6 DEF Copy, TypeOK, Jobs
<1>7. ASSUME NEW w \in Workers, Stop(w) PROVE TypeOK'
  BY <1>7, ReturnType DEF Stop, TypeOK, Steps
<1>8. ASSUME NEW w \in Workers, SyncStart(w) PROVE TypeOK'
  BY <1>8 DEF SyncStart, TypeOK
<1>9. ASSUME NEW w \in Workers,
             \/ Skip(w) \/ SyncFails(w) \/ GetNothing(w) \/ InTheLastMinute(w)
             \/ SyncPanics(w)
      PROVE  TypeOK'
  <2>1. PICK outcome \in {"succeeded", "failed"} : Finish(w, outcome)
    BY <1>9 DEF Skip, SyncFails, GetNothing, InTheLastMinute, SyncPanics
  <2>2. UNCHANGED <<now, rule, workload, operator>>
    BY <1>9 DEF Skip, SyncFails, GetNothing, InTheLastMinute, SyncPanics
  <2> QED
    BY <2>1, <2>2, FinishType DEF TypeOK, Steps
<1>10. ASSUME NEW w \in Workers, Get(w) PROVE TypeOK'
  BY <1>10 DEF Get, TypeOK, Workloads, Patches
<1>11. ASSUME NEW w \in Workers, Trigger(w) PROVE TypeOK'
  <2>1. Format(Clock(w)) \in Times
    BY ClockType, FormatType, Constants DEF Times, TypeOK
  <2> QED
    BY <1>11, <2>1 DEF Trigger, TypeOK, Patches
<1>12. ASSUME NEW w \in Workers, Patch(w) \/ PatchUnanswered(w) PROVE TypeOK'
  <2>1. Patched(w)
    BY <1>12 DEF Patch, PatchUnanswered
  <2>2. workload' \in Workloads /\ operator' \in [Rules -> Versions]
    BY <2>1, VersionsNowType DEF Patched, TypeOK, Workloads, Patches
  <2>3. PICK outcome \in {"succeeded", "failed"} : Finish(w, outcome)
    BY <1>12 DEF Patch, PatchUnanswered
  <2>4. UNCHANGED <<now, rule>>
    BY <1>12 DEF Patch, PatchUnanswered
  <2> QED
    BY <2>2, <2>3, <2>4, FinishType DEF TypeOK, Steps
<1>13. ASSUME NEW w \in Workers, SyncEnd(w) PROVE TypeOK'
  <2>1. job[w].stored.removed \in BOOLEAN
    BY DEF TypeOK, Jobs, StoredRules
  <2>2. latest' \in [Rules -> SyncData]
    BY <1>13, <2>1 DEF TypeOK, SyncEnd, SyncData
  <2> QED
    BY <1>13, <2>2, ReturnType DEF SyncEnd, TypeOK, Steps
<1>14. CASE UNCHANGED vars
  BY <1>14 DEF vars, TypeOK
<1> QED
  BY <1>1, <1>2, <1>3, <1>4, <1>5, <1>6, <1>7, <1>8, <1>9, <1>10, <1>11, <1>12,
     <1>13, <1>14 DEF Next, Outside, Worker

(* Every reachable state is well typed. *)
THEOREM EngineTypeCorrect == Spec => []TypeOK
BY TypeInit, TypeNext, PTL DEF Spec

-----------------------------------------------------------------------------
(* What the operator has been told. *)

(* No annotation, there or about to be written, is later than the fastest
   clock. *)
AnnotationsInTime ==
    /\ workload.annotation <= now + MaxSkew
    /\ \A w \in Workers : pc[w] = "patch" => patch[w].to <= now + MaxSkew

(* The operator and the workers know versions that there have been. *)
VersionsInOrder ==
    /\ \A r \in Rules : operator[r] <= rule[r].version
    /\ \A w \in Workers : job[w].stored.version <= rule[job[w].id].version

(* An annotation, there or read, that is older than a rule in force is not
   much later than the rule says it was created. *)
UnknownIsRecent ==
    /\ \A r \in Rules : ~rule[r].removed /\ operator[r] < rule[r].version =>
           workload.annotation <= rule[r].created + MaxSkew
    /\ \A w \in Workers : ~job[w].stored.removed /\ ~Known(w) =>
           /\ workload.annotation <= job[w].stored.created + MaxSkew
           /\ pc[w] = "decide" =>
                  patch[w].from <= job[w].stored.created + MaxSkew

(* Since a worker read the workload nothing has changed, or the operator has
   been told. *)
ReadIsCurrent ==
    \A w \in Workers : pc[w] \in {"decide", "patch"} =>
        ~workload.exists \/ workload.annotation = patch[w].from \/ Known(w)

IInv ==
    /\ TypeOK
    /\ AnnotationsInTime
    /\ VersionsInOrder
    /\ UnknownIsRecent
    /\ ReadIsCurrent

(* The types of the parts of the state, in the form the provers use them. *)
LEMMA Parts ==
    ASSUME TypeOK
    PROVE  /\ now \in Nat
           /\ \A r \in Rules : /\ rule[r].version \in Nat /\ rule[r].created \in Nat
                               /\ operator[r] \in Nat
           /\ workload.annotation \in Int
           /\ \A w \in Workers :
                 /\ job[w].id \in Rules
                 /\ job[w].stored.version \in Nat
                 /\ job[w].stored.created \in Nat
                 /\ patch[w].from \in Int /\ patch[w].to \in Int
BY Constants
DEF TypeOK, StoredRules, Versions, Times, Workloads, NoTime, Jobs, Patches

LEMMA InvInit == Init => IInv
<1> SUFFICES ASSUME Init PROVE IInv
  OBVIOUS
<1>1. TypeOK
  BY TypeInit
<1>2. workload.annotation = -1
  BY DEF Init, NoWorkload, NoTime
<1>3. \A r \in Rules : operator[r] = 0 /\ rule[r].version = 0
  BY DEF Init, VersionsNow, NoRule
<1>4. \A w \in Workers :
         /\ job[w].stored.version = 0 /\ job[w].id \in Rules /\ pc[w] = "idle"
  BY <1>1, Parts, NoJobType DEF Init
<1>5. \A w \in Workers : Known(w)
  BY <1>3, <1>4 DEF Known
<1> QED
  BY <1>1, <1>2, <1>3, <1>4, <1>5, Parts, Constants
  DEF IInv, AnnotationsInTime, VersionsInOrder, UnknownIsRecent, ReadIsCurrent,
      Init

(* A worker that has returned claims nothing. *)
LEMMA ReturnKeeps ==
    ASSUME IInv, TypeOK', NEW w \in Workers, Return(w),
           UNCHANGED <<now, rule, workload, operator>>
    PROVE  IInv'
<1>1. /\ pc'[w] = "idle" /\ job'[w] = NoJob
      /\ \A v \in Workers \ {w} :
            pc'[v] = pc[v] /\ job'[v] = job[v] /\ patch'[v] = patch[v]
  BY DEF IInv, TypeOK, Return
<1>2. job'[w].stored.version = 0 /\ job'[w].id \in Rules
  BY <1>1, NoJobType DEF Jobs
<1>3. Known(w)' /\ job'[w].stored.version <= rule'[job'[w].id].version
  BY <1>2, Parts DEF Known, IInv
<1>4. \A v \in Workers \ {w} : Known(v)' <=> Known(v)
  BY <1>1 DEF Known
<1> QED
  BY <1>1, <1>3, <1>4
  DEF IInv, AnnotationsInTime, VersionsInOrder, UnknownIsRecent, ReadIsCurrent

(* A worker whose sync is done claims no more than before. *)
LEMMA FinishKeeps ==
    ASSUME IInv, TypeOK', NEW w \in Workers,
           NEW outcome \in {"succeeded", "failed"}, Finish(w, outcome),
           UNCHANGED <<now, rule, workload, operator>>
    PROVE  IInv'
<1>1. /\ pc'[w] = outcome /\ job' = job
      /\ \A v \in Workers \ {w} : pc'[v] = pc[v] /\ patch'[v] = patch[v]
  BY DEF IInv, TypeOK, Finish
<1>2. \A v \in Workers : Known(v)' <=> Known(v)
  BY <1>1 DEF Known
<1> QED
  BY <1>1, <1>2
  DEF IInv, AnnotationsInTime, VersionsInOrder, UnknownIsRecent, ReadIsCurrent

(* When the workload changes, the operator knows every rule. *)
LEMMA ToldKeeps ==
    ASSUME IInv, TypeOK', operator' = VersionsNow,
           UNCHANGED <<now, rule>>,
           workload'.annotation <= now + MaxSkew,
           \A v \in Workers :
              \/ job'[v] = job[v] /\ pc'[v] = pc[v] /\ patch'[v] = patch[v]
              \/ job'[v] = job[v] /\ pc'[v] \in {"succeeded", "failed"}
    PROVE  IInv'
<1>1. \A r \in Rules : operator'[r] = rule'[r].version
  BY DEF VersionsNow
<1>2. \A v \in Workers : job'[v].id \in Rules
                         /\ job'[v].stored.version <= rule'[job'[v].id].version
  BY Parts DEF IInv, VersionsInOrder
<1>3. \A v \in Workers : Known(v)'
  BY <1>1, <1>2 DEF Known
<1>4. AnnotationsInTime'
  BY DEF IInv, AnnotationsInTime
<1>5. VersionsInOrder' /\ UnknownIsRecent' /\ ReadIsCurrent'
  BY <1>1, <1>2, <1>3, Parts
  DEF IInv, VersionsInOrder, UnknownIsRecent, ReadIsCurrent
<1> QED
  BY <1>4, <1>5 DEF IInv

LEMMA InvNext == IInv /\ [Next]_vars => IInv'
<1> SUFFICES ASSUME IInv, [Next]_vars PROVE IInv'
  OBVIOUS
<1>0. TypeOK'
  BY TypeNext DEF IInv
<1>1. ASSUME NEW r \in Rules, NEW v \in Workers, Save(r, Skew[v]) PROVE IInv'
  <2>1. /\ rule'[r].version = rule[r].version + 1
        /\ rule'[r].created = now + Skew[v]
        /\ \A i \in Rules \ {r} : rule'[i] = rule[i]
        /\ UNCHANGED <<now, workload, operator, pc, job, patch>>
    BY <1>1 DEF Save, IInv, TypeOK
  <2>2. workload.annotation <= rule'[r].created + MaxSkew
    BY <2>1, Parts, Constants DEF IInv, AnnotationsInTime
  <2>3. VersionsInOrder'
    BY <2>1, Parts DEF IInv, VersionsInOrder
  <2>4. UnknownIsRecent'
    BY <2>1, <2>2 DEF IInv, UnknownIsRecent, Known
  <2> QED
    BY <1>0, <2>1, <2>3, <2>4 DEF IInv, AnnotationsInTime, ReadIsCurrent, Known
<1>2. ASSUME NEW r \in Rules, Delete(r) PROVE IInv'
  <2>1. /\ rule'[r].version = rule[r].version + 1 /\ rule'[r].removed
        /\ \A i \in Rules \ {r} : rule'[i] = rule[i]
        /\ UNCHANGED <<now, workload, operator, pc, job, patch>>
    BY <1>2 DEF Delete, IInv, TypeOK, StoredRules
  <2>2. VersionsInOrder'
    BY <2>1, Parts DEF IInv, VersionsInOrder
  <2> QED
    BY <1>0, <2>1, <2>2
    DEF IInv, AnnotationsInTime, UnknownIsRecent, ReadIsCurrent, Known
<1>3. CASE Deploy
  <2>1. workload'.annotation <= now + MaxSkew
    BY <1>3, Parts, Constants DEF Deploy, NoTime, IInv
  <2> QED
    BY <1>0, <1>3, <2>1, ToldKeeps DEF Deploy
<1>4. CASE Undeploy
  <2>1. workload'.annotation = -1 /\ ~workload'.exists
    BY <1>4 DEF Undeploy, NoWorkload, NoTime
  <2> QED
    BY <1>0, <1>4, <2>1, Parts, Constants
    DEF Undeploy, IInv, AnnotationsInTime, VersionsInOrder, UnknownIsRecent,
        ReadIsCurrent, Known
<1>5. CASE Tick
  BY <1>0, <1>5, Parts, Constants
  DEF Tick, IInv, AnnotationsInTime, VersionsInOrder, UnknownIsRecent,
      ReadIsCurrent, Known
<1>6. ASSUME NEW w \in Workers, NEW r \in Rules, Copy(w, r) PROVE IInv'
  <2>1. /\ pc'[w] = "start" /\ job'[w].id = r /\ job'[w].stored = rule[r]
        /\ \A v \in Workers \ {w} : pc'[v] = pc[v] /\ job'[v] = job[v]
        /\ UNCHANGED <<now, rule, workload, operator, patch>>
    BY <1>6 DEF Copy, IInv, TypeOK
  <2>2. VersionsInOrder'
    BY <2>1, Parts DEF IInv, VersionsInOrder
  <2>3. Known(w)' \/ operator[r] < rule[r].version
    BY <2>1, Parts DEF IInv, Known
  <2>4. UnknownIsRecent'
    BY <2>1, <2>3 DEF IInv, UnknownIsRecent, Known
  <2> QED
    BY <1>0, <2>1, <2>2, <2>4 DEF IInv, AnnotationsInTime, ReadIsCurrent, Known
<1>7. ASSUME NEW w \in Workers, Stop(w) \/ SyncEnd(w) PROVE IInv'
  BY <1>0, <1>7, ReturnKeeps DEF Stop, SyncEnd
<1>71. ASSUME NEW w \in Workers,
             \/ Skip(w) \/ SyncFails(w) \/ GetNothing(w) \/ InTheLastMinute(w)
             \/ SyncPanics(w)
      PROVE  IInv'
  <2>1. PICK outcome \in {"succeeded", "failed"} : Finish(w, outcome)
    BY <1>71 DEF Skip, SyncFails, GetNothing, InTheLastMinute, SyncPanics
  <2>2. UNCHANGED <<now, rule, workload, operator>>
    BY <1>71 DEF Skip, SyncFails, GetNothing, InTheLastMinute, SyncPanics
  <2> QED
    BY <1>0, <2>1, <2>2, FinishKeeps
<1>8. ASSUME NEW w \in Workers, SyncStart(w) PROVE IInv'
  <2>1. /\ pc'[w] \in {"skip", "get"} /\ \A v \in Workers \ {w} : pc'[v] = pc[v]
        /\ UNCHANGED <<now, rule, workload, operator, job, patch>>
    BY <1>8 DEF SyncStart, IInv, TypeOK
  <2> QED
    BY <1>0, <2>1
    DEF IInv, AnnotationsInTime, VersionsInOrder, UnknownIsRecent,
        ReadIsCurrent, Known
<1>9. ASSUME NEW w \in Workers, Get(w) PROVE IInv'
  <2>1. /\ pc'[w] = "decide" /\ patch'[w].from = workload.annotation
        /\ \A v \in Workers \ {w} : pc'[v] = pc[v] /\ patch'[v] = patch[v]
        /\ UNCHANGED <<now, rule, workload, operator, job>>
    BY <1>9 DEF Get, IInv, TypeOK, Patches
  <2> QED
    BY <1>0, <2>1
    DEF IInv, AnnotationsInTime, VersionsInOrder, UnknownIsRecent,
        ReadIsCurrent, Known
<1>10. ASSUME NEW w \in Workers, Trigger(w) PROVE IInv'
  <2>1. /\ pc'[w] = "patch" /\ patch'[w].to = Format(Clock(w))
        /\ pc[w] = "decide" /\ patch'[w].from = patch[w].from
        /\ \A v \in Workers \ {w} : pc'[v] = pc[v] /\ patch'[v] = patch[v]
        /\ UNCHANGED <<now, rule, workload, operator, job>>
    BY <1>10 DEF Trigger, IInv, TypeOK, Patches
  <2>2. patch'[w].to <= now + MaxSkew
    BY <2>1, ClockType, FormatType, Parts, Constants DEF IInv
  <2> QED
    BY <1>0, <2>1, <2>2
    DEF IInv, AnnotationsInTime, VersionsInOrder, UnknownIsRecent,
        ReadIsCurrent, Known
<1>11. ASSUME NEW w \in Workers, Patch(w) \/ PatchUnanswered(w) PROVE IInv'
  <2>1. pc[w] = "patch" /\ Patched(w) /\ UNCHANGED <<now, rule>>
    BY <1>11 DEF Patch, PatchUnanswered
  <2>2. PICK outcome \in {"succeeded", "failed"} : Finish(w, outcome)
    BY <1>11 DEF Patch, PatchUnanswered
  <2>3. CASE UNCHANGED <<workload, operator>>
    BY <1>0, <2>1, <2>2, <2>3, FinishKeeps
  <2>4. CASE /\ workload' = [workload EXCEPT !.annotation = patch[w].to]
             /\ operator' = VersionsNow
    <3>1. workload'.annotation <= now + MaxSkew
      BY <2>1, <2>4 DEF IInv, TypeOK, Workloads, AnnotationsInTime
    <3>2. \A v \in Workers :
             \/ job'[v] = job[v] /\ pc'[v] = pc[v] /\ patch'[v] = patch[v]
             \/ job'[v] = job[v] /\ pc'[v] \in {"succeeded", "failed"}
      BY <2>2 DEF Finish, IInv, TypeOK
    <3> QED
      BY <1>0, <2>1, <2>4, <3>1, <3>2, ToldKeeps
  <2> QED
    BY <2>1, <2>3, <2>4 DEF Patched
<1>12. CASE UNCHANGED vars
  BY <1>0, <1>12
  DEF vars, IInv, AnnotationsInTime, VersionsInOrder, UnknownIsRecent,
      ReadIsCurrent, Known
<1> QED
  BY <1>1, <1>2, <1>3, <1>4, <1>5, <1>6, <1>7, <1>71, <1>8, <1>9, <1>10, <1>11,
     <1>12 DEF Next, Outside, Worker

LEMMA Invariant == Spec => []IInv
BY InvInit, InvNext, PTL DEF Spec

(* The minute of tolerance that SyncApp and SyncJob give (operator/engine.go:120)
   is enough for clocks that differ by less than that. *)
THEOREM LastMinute ==
    ASSUME MaxSkew < Minute
    PROVE  Spec => LastMinuteIsEnough
<1> DEFINE Enough == \A w \in Workers :
                        InTheLastMinute(w) /\ ~job[w].stored.removed => Known(w)
<1>1. IInv /\ [Next]_vars => [Enough]_vars
  <2> SUFFICES ASSUME IInv, NEW w \in Workers, InTheLastMinute(w),
                      ~job[w].stored.removed, ~Known(w)
               PROVE  FALSE
    OBVIOUS
  <2>1. job[w].stored.created + Minute <= patch[w].from
    BY Parts, Constants DEF InTheLastMinute, NeedsUpdate, IInv
  <2>2. patch[w].from <= job[w].stored.created + MaxSkew
    BY DEF InTheLastMinute, IInv, UnknownIsRecent
  <2> QED
    BY <2>1, <2>2, Parts, Constants DEF IInv
<1> QED
  BY <1>1, Invariant, PTL DEF Spec, LastMinuteIsEnough

(* "triggered acl-operator" is true, however rules and workload change between
   the read and the patch, unless another sync wrote the same second. *)
THEOREM TriggerReaches == Spec => TriggerReachesOperator
<1> DEFINE Reached == \A w \in Workers :
              Patch(w) => \/ operator'[job[w].id] >= job[w].stored.version
                          \/ patch[w].to = workload.annotation
<1>1. IInv /\ [Next]_vars => [Reached]_vars
  <2> SUFFICES ASSUME IInv, NEW w \in Workers, Patch(w),
                      patch[w].to # workload.annotation
               PROVE  operator'[job[w].id] >= job[w].stored.version
    OBVIOUS
  <2>1. CASE operator' = VersionsNow
    BY <2>1, Parts DEF VersionsNow, IInv, VersionsInOrder
  <2>2. CASE EmptyPatch(w) /\ operator' = operator
    <3>1. Known(w)
      BY <2>2 DEF EmptyPatch, Patch, Patched, IInv, ReadIsCurrent
    <3> QED
      BY <2>2, <3>1 DEF Known
  <2> QED
    BY <2>1, <2>2 DEF Patch, Patched
<1> QED
  BY <1>1, Invariant, PTL DEF Spec, TriggerReachesOperator
=============================================================================
