----------------------- MODULE ServiceInstancesProofs -----------------------
(***************************************************************************)
(* Proofs about ServiceInstances, for any number of requests, base rules,  *)
(* bindings and destinations.                                              *)
(***************************************************************************)
EXTENDS ServiceInstances, TLAPS

Overlaps == {"mixed", "twice"}

(* Each step belongs to the requests that have it, and a request writes or
   deletes only rules of its own. *)
Fits(t) ==
    /\ pc[t] \in {"find", "push"} => req[t].op = "AddRule"
    /\ pc[t] = "bind" => req[t].op = "AddBinding"
    /\ pc[t] \in {"expand", "save"} => req[t].op \in Additions
    /\ pc[t] \in {"delete", "pull"} =>
          req[t].op \in Removals /\ pending[t] \subseteq Matching(req[t])
    /\ pc[t] = "pull" => pending[t] = {}

StepsFit == \A t \in Threads : Fits(t)

(* alone and overlaps tell the truth about overlaps. *)
AloneIsAlone ==
    \A t \in Threads :
        alone[t] => ~Idle(t) /\ \A u \in Threads \ {t} : Idle(u)

OverlapIsKnown ==
    \A t, u \in Threads : t # u /\ ~Idle(t) /\ ~Idle(u) =>
        /\ "mixed" \notin overlaps => ~Mixed(req[t], req[u])
        /\ "twice" \notin overlaps => ~Twice(req[t], req[u])

(* What a removal that no addition overlaps has not come to yet is all that
   is left. *)
Removing ==
    \A t \in Threads :
        /\ alone[t] \/ "mixed" \notin overlaps
        /\ pc[t] \in {"delete", "pull"}
        => Active \cap Matching(req[t]) \subseteq pending[t]

(* A Save that no removal overlaps writes nothing but the expansion, and what
   one that runs alone has not come to yet is all that is missing. *)
Saving ==
    \A t \in Threads : pc[t] = "save" =>
        /\ "mixed" \notin overlaps => pending[t] \subseteq Expansion(instance)
        /\ alone[t] => Expansion(instance) \ pending[t] \subseteq Active

(* What AddRule has not found before it pushes is not there, if no other
   AddRule of the same overlaps. *)
Pushing ==
    \A t \in Threads :
        "twice" \notin overlaps /\ pc[t] = "push" => ~AlreadyExists(t)

(* t is about x, and will put it in force or take its base rule or binding
   away. *)
Covers(t, x) ==
    /\ x \in About(req[t])
    /\ \/ pc[t] \in {"expand", "delete", "pull"}
       \/ pc[t] = "save" /\ x \in pending[t]

(* Each rule of the expansion is in force, or left over from a request that
   failed, or some request sees to it. *)
Covered ==
    \A x \in Expansion(instance) :
        x \in Active \cup unsettled \/ \E t \in Threads : Covers(t, x)

IInv ==
    /\ TypeOK
    /\ StepsFit
    /\ AloneIsAlone
    /\ OverlapIsKnown
    /\ Removing
    /\ Saving
    /\ Pushing
    /\ Covered
    /\ OrphansNeedOverlap
    /\ EqualRulesNeedOverlap

-----------------------------------------------------------------------------
(* Typing *)

LEMMA RequestType ==
    ASSUME NEW r \in Requests
    PROVE  /\ r.op = "AddRule" => r.id \in BaseIDs /\ r.dest \in Dests
           /\ r.op = "RemoveRule" => r.id \in BaseIDs
           /\ r.op \in {"AddBinding", "RemoveBinding"} => r.binding \in Bindings
           /\ r.op \in {"Create", "Delete", "AddRule", "AddBinding"}
                  \cup {"RemoveRule", "RemoveBinding"}
BY DEF Requests

LEMMA NoRequestType == NoRequest \in Requests /\ NoInstance \in Instances
BY DEF NoRequest, Requests, NoInstance, Instances

LEMMA MatchingType ==
    ASSUME NEW r \in Requests, r.op \in Removals
    PROVE  Matching(r) \subseteq RuleIDs
BY DEF Matching, Removals

LEMMA ExpansionType ==
    ASSUME NEW inst \in Instances
    PROVE  Expansion(inst) \subseteq RuleIDs
BY DEF Instances, BaseRules, Expansion, RuleIDs

(* The first step of a request is one it has. *)
LEMMA FirstStepFits ==
    ASSUME NEW r \in Requests
    PROVE  /\ FirstStep(r) \in {"insert", "find", "bind", "delete"}
           /\ FirstStep(r) = "find" => r.op = "AddRule"
           /\ FirstStep(r) = "bind" => r.op = "AddBinding"
           /\ FirstStep(r) = "delete" => r.op \in Removals
BY RequestType DEF FirstStep, Removals

LEMMA ReturnType ==
    ASSUME TypeOK, NEW t \in Threads, Return(t)
    PROVE  /\ pc' \in [Threads -> Steps]
           /\ req' \in [Threads -> Requests]
           /\ pending' \in [Threads -> SUBSET RuleIDs]
           /\ alone' \in [Threads -> BOOLEAN]
BY NoRequestType DEF TypeOK, Return, GoTo, Steps

(* An instance that stands, with a base rule or a binding more. *)
LEMMA InstanceType ==
    ASSUME TypeOK, NEW t \in Threads
    PROVE  /\ req[t].op = "AddRule" =>
                [instance EXCEPT !.bases =
                   @ \cup {[id |-> req[t].id, dest |-> req[t].dest]}] \in Instances
           /\ req[t].op = "AddBinding" =>
                [instance EXCEPT !.bound = @ \cup {req[t].binding}] \in Instances
           /\ req[t].op \in Removals => Pulled(instance, req[t]) \in Instances
<1>1. req[t] \in Requests /\ instance \in Instances
  BY DEF TypeOK
<1> QED
  BY <1>1, RequestType, NoRequestType
  DEF Instances, BaseRules, Pulled, Removals

(* What is pulled from no instance leaves none. *)
LEMMA PulledFromNothing ==
    ASSUME NEW r, r.op \in Removals
    PROVE  Pulled(NoInstance, r) = NoInstance
BY DEF Pulled, NoInstance, Removals

LEMMA TypeNext == TypeOK /\ StepsFit /\ [Next]_vars => TypeOK'
<1> SUFFICES ASSUME TypeOK, StepsFit, [Next]_vars PROVE TypeOK'
  OBVIOUS
<1>1. ASSUME NEW t \in Threads, NEW r \in Requests, Call(t, r) PROVE TypeOK'
  <2>1. nextID' \in 1..MaxBase + 1
    BY <1>1, RequestType, MaxBaseAssumption DEF Call, TypeOK, BaseIDs
  <2>2. pc' \in [Threads -> Steps] /\ req' \in [Threads -> Requests]
    BY <1>1, FirstStepFits DEF Call, GoTo, TypeOK, Steps
  <2>3. pending' \in [Threads -> SUBSET RuleIDs]
    BY <1>1, FirstStepFits, MatchingType DEF Call, TypeOK
  <2>4. alone' \in [Threads -> BOOLEAN]
    BY <1>1, Zenon DEF Call
  <2>5. overlaps' \in SUBSET Overlaps
    BY <1>1 DEF Call, TypeOK, Overlaps
  <2> QED
    BY <1>1, <2>1, <2>2, <2>3, <2>4, <2>5 DEF Call, TypeOK, Overlaps
<1>2. ASSUME NEW t \in Threads, Insert(t) PROVE TypeOK'
  <2>1. [NoInstance EXCEPT !.exists = TRUE] \in Instances
    BY DEF NoInstance, Instances
  <2>2. instance' \in Instances /\ instance'.exists
    BY <1>2, <2>1 DEF Insert, TypeOK, NoInstance
  <2> QED
    BY <1>2, <2>2, ReturnType DEF Insert, TypeOK
<1>3. ASSUME NEW t \in Threads, FindRefuses(t) \/ ExpandNothing(t) PROVE TypeOK'
  BY <1>3, ReturnType DEF FindRefuses, ExpandNothing, TypeOK
<1>4. ASSUME NEW t \in Threads, FindAccepts(t) PROVE TypeOK'
  BY <1>4 DEF FindAccepts, GoTo, TypeOK, Steps
<1>5. ASSUME NEW t \in Threads, PushRule(t) PROVE TypeOK'
  <2>1. instance' \in Instances /\ (instance'.exists \/ instance' = NoInstance)
    BY <1>5, InstanceType DEF PushRule, StepsFit, Fits, TypeOK, Instances
  <2> QED
    BY <1>5, <2>1 DEF PushRule, GoTo, TypeOK, Steps
<1>6. ASSUME NEW t \in Threads, Bind(t) PROVE TypeOK'
  <2>1. instance' \in Instances /\ (instance'.exists \/ instance' = NoInstance)
    BY <1>6, InstanceType DEF Bind, StepsFit, Fits, TypeOK, Instances
  <2> QED
    BY <1>6, <2>1 DEF Bind, GoTo, TypeOK, Steps
<1>7. ASSUME NEW t \in Threads, Expand(t) PROVE TypeOK'
  BY <1>7, ExpansionType DEF Expand, GoTo, TypeOK, Steps
<1>8. ASSUME NEW t \in Threads, ExpandInvalid(t) \/ Abort(t) PROVE TypeOK'
  <2>1. unsettled' \subseteq unsettled \cup Expansion(instance)
    BY <1>8 DEF ExpandInvalid, Abort, Fails
  <2> QED
    BY <1>8, <2>1, ReturnType, ExpansionType DEF ExpandInvalid, Abort, TypeOK
<1>9. ASSUME NEW t \in Threads, SaveRule(t) PROVE TypeOK'
  <2>1. rules' \in [RuleIDs -> RuleStates]
    BY <1>9 DEF SaveRule, TypeOK, RuleStates
  <2>2. CASE Return(t)
    BY <1>9, <2>1, <2>2, ReturnType DEF SaveRule, TypeOK
  <2>3. CASE ~Return(t)
    BY <1>9, <2>1, <2>3 DEF SaveRule, TypeOK
  <2> QED
    BY <2>2, <2>3
<1>10. ASSUME NEW t \in Threads, DeleteMetadata(t) PROVE TypeOK'
  <2>1. rules' \in [RuleIDs -> RuleStates]
    BY <1>10 DEF DeleteMetadata, TypeOK, RuleStates
  <2> QED
    BY <1>10, <2>1 DEF DeleteMetadata, GoTo, TypeOK, Steps
<1>11. ASSUME NEW t \in Threads, Pull(t) PROVE TypeOK'
  <2>1. req[t].op \in Removals
    BY <1>11 DEF Pull, StepsFit, Fits
  <2>2. instance' \in Instances
    BY <1>11, <2>1, InstanceType DEF Pull
  <2>3. instance'.exists \/ instance' = NoInstance
    BY <1>11, <2>1, PulledFromNothing
    DEF Pull, Pulled, Removals, TypeOK, Instances
  <2> QED
    BY <1>11, <2>2, <2>3, ReturnType DEF Pull, TypeOK
<1>12. CASE UNCHANGED vars
  BY <1>12 DEF vars, TypeOK
<1> QED
  BY <1>1, <1>2, <1>3, <1>4, <1>5, <1>6, <1>7, <1>8, <1>9, <1>10, <1>11, <1>12
  DEF Next, Step

-----------------------------------------------------------------------------
(* What a step leaves alone *)

(* A request that makes a step changes nothing of another one; it keeps its
   arguments and whether it has been alone, or it ends. *)
LEMMA OneMoves ==
    ASSUME TypeOK, NEW t \in Threads, Step(t) \/ Abort(t)
    PROVE  /\ \A u \in Threads \ {t} :
                 /\ pc'[u] = pc[u] /\ req'[u] = req[u]
                 /\ pending'[u] = pending[u] /\ alone'[u] = alone[u]
           /\ \/ pc'[t] = "idle" /\ alone'[t] = FALSE
              \/ pc'[t] # "idle" /\ req'[t] = req[t] /\ alone'[t] = alone[t]
           /\ pc[t] # "idle"
           /\ overlaps' = overlaps
<1> USE DEF TypeOK, Return, GoTo, Idle
<1>1. CASE Insert(t) \/ FindRefuses(t) \/ ExpandNothing(t) \/ Pull(t)
  BY <1>1 DEF Insert, FindRefuses, ExpandNothing, Pull
<1>2. CASE FindAccepts(t) \/ Expand(t) \/ DeleteMetadata(t)
  BY <1>2 DEF FindAccepts, Expand, DeleteMetadata
<1>3. CASE PushRule(t) \/ Bind(t)
  BY <1>3 DEF PushRule, Bind
<1>4. CASE ExpandInvalid(t) \/ Abort(t)
  BY <1>4 DEF ExpandInvalid, Abort
<1>5. CASE SaveRule(t)
  BY <1>5 DEF SaveRule
<1> QED
  BY <1>1, <1>2, <1>3, <1>4, <1>5 DEF Step

(* A call starts its request and tells the others that they overlap. *)
LEMMA CallMoves ==
    ASSUME TypeOK, NEW t \in Threads, NEW r \in Requests, Call(t, r)
    PROVE  /\ \A u \in Threads \ {t} :
                 /\ pc'[u] = pc[u] /\ req'[u] = req[u]
                 /\ pending'[u] = pending[u]
                 /\ alone'[u] = (alone[u] /\ Idle(u))
           /\ pc'[t] = FirstStep(r) /\ req'[t] = r
           /\ pending'[t] = IF FirstStep(r) = "delete" THEN Matching(r) ELSE {}
           /\ alone'[t] = \A u \in Threads \ {t} : Idle(u)
           /\ overlaps \subseteq overlaps'
           /\ overlaps' \subseteq overlaps \cup {"mixed", "twice"}
<1>1. alone'[t] = \A u \in Threads \ {t} : Idle(u)
  BY DEF Call, Idle
<1>2. \A u \in Threads \ {t} : alone'[u] = (alone[u] /\ Idle(u))
  BY DEF Call
<1> HIDE DEF Idle
<1>3. overlaps \subseteq overlaps' /\ overlaps' \subseteq overlaps \cup {"mixed", "twice"}
  BY DEF Call
<1> QED
  BY <1>1, <1>2, <1>3 DEF Call, TypeOK, GoTo

LEMMA CallBegins ==
    ASSUME TypeOK, NEW t \in Threads, NEW r \in Requests, Call(t, r)
    PROVE  pc'[t] = FirstStep(r) /\ pc'[t] \in {"insert", "find", "bind", "delete"}
<1>1. pc'[t] = FirstStep(r)
  BY DEF Call, GoTo, TypeOK
<1> QED
  BY <1>1, FirstStepFits

LEMMA CallOverlaps ==
    ASSUME TypeOK, NEW t \in Threads, NEW r \in Requests, Call(t, r),
           NEW u \in Threads \ {t}, ~Idle(u)
    PROVE  /\ "mixed" \notin overlaps' => ~Mixed(r, req[u])
           /\ "twice" \notin overlaps' => ~Twice(r, req[u])
BY DEF Call

-----------------------------------------------------------------------------
(* The parts of the invariant, one after the other *)

LEMMA StepsFitNext == TypeOK /\ StepsFit /\ [Next]_vars => StepsFit'
<1> SUFFICES ASSUME TypeOK, StepsFit, [Next]_vars,
                    NEW u \in Threads
             PROVE  Fits(u)'
  BY DEF StepsFit
<1>0. Fits(u)
  BY DEF StepsFit
<1>1. ASSUME NEW t \in Threads, NEW r \in Requests, Call(t, r) PROVE Fits(u)'
  <2>1. CASE u = t
    <3>1. /\ pc'[u] = FirstStep(r) /\ req'[u] = r
          /\ FirstStep(r) = "delete" => pending'[u] = Matching(r)
      BY <1>1, <2>1, CallMoves
    <3>2. /\ FirstStep(r) \in {"insert", "find", "bind", "delete"}
          /\ FirstStep(r) = "find" => r.op = "AddRule"
          /\ FirstStep(r) = "bind" => r.op = "AddBinding"
          /\ FirstStep(r) = "delete" => r.op \in Removals
      BY FirstStepFits
    <3> QED
      BY <3>1, <3>2 DEF Fits
  <2>2. CASE u # t
    <3>1. pc'[u] = pc[u] /\ req'[u] = req[u] /\ pending'[u] = pending[u]
      BY <1>1, <2>2, CallMoves
    <3> QED
      BY <1>0, <3>1 DEF Fits
  <2> QED
    BY <2>1, <2>2
<1>2. ASSUME NEW t \in Threads, Step(t) \/ Abort(t) PROVE Fits(u)'
  <2> USE DEF Step, Insert, FindRefuses, FindAccepts, PushRule, Bind, Expand,
          ExpandNothing, ExpandInvalid, SaveRule, DeleteMetadata, Pull, Abort,
          Return, GoTo, TypeOK
  <2>1. pc'[t] = "pull" => pending'[t] = {} /\ pc[t] = "delete"
    BY <1>2
  <2>2. pc'[t] \in {"delete", "pull"} =>
           pc[t] = "delete" /\ pending'[t] \subseteq pending[t]
    BY <1>2
  <2>3. pc'[t] \in {"find", "push"} => pc[t] = "find"
    BY <1>2
  <2>4. pc'[t] # "bind"
    BY <1>2
  <2>41. pc'[t] \in {"expand", "save"} =>
            pc[t] \in {"push", "bind", "expand", "save"}
    BY <1>2
  <2> HIDE DEF Step, Insert, FindRefuses, FindAccepts, PushRule, Bind, Expand,
          ExpandNothing, ExpandInvalid, SaveRule, DeleteMetadata, Pull, Abort,
          Return, GoTo, TypeOK
  <2>5. CASE u = t
    <3>1. pc'[t] = "idle" \/ req'[t] = req[t]
      BY <1>2, OneMoves
    <3> QED
      BY <1>0, <2>1, <2>2, <2>3, <2>4, <2>41, <2>5, <3>1
         DEF Fits, Additions
  <2>6. CASE u # t
    <3>1. pc'[u] = pc[u] /\ req'[u] = req[u] /\ pending'[u] = pending[u]
      BY <1>2, <2>6, OneMoves
    <3> QED
      BY <1>0, <3>1 DEF Fits
  <2> QED
    BY <2>5, <2>6
<1>3. CASE UNCHANGED vars
  BY <1>0, <1>3 DEF vars, Fits
<1> QED
  BY <1>1, <1>2, <1>3 DEF Next

LEMMA AloneNext == TypeOK /\ AloneIsAlone /\ [Next]_vars => AloneIsAlone'
<1> SUFFICES ASSUME TypeOK, AloneIsAlone, [Next]_vars PROVE AloneIsAlone'
  OBVIOUS
<1>1. ASSUME NEW t \in Threads, NEW r \in Requests, Call(t, r)
      PROVE  AloneIsAlone'
  <2>1. pc'[t] # "idle"
    BY <1>1, CallBegins
  <2> QED
    BY <1>1, <2>1, CallMoves DEF AloneIsAlone, Idle
<1>2. ASSUME NEW t \in Threads, Step(t) \/ Abort(t) PROVE AloneIsAlone'
  BY <1>2, OneMoves DEF AloneIsAlone, Idle
<1>3. CASE UNCHANGED vars
  BY <1>3 DEF vars, AloneIsAlone, Idle
<1> QED
  BY <1>1, <1>2, <1>3 DEF Next

LEMMA OverlapNext == TypeOK /\ OverlapIsKnown /\ [Next]_vars => OverlapIsKnown'
<1> DEFINE Known(v, u) ==
      /\ "mixed" \notin overlaps => ~Mixed(req[v], req[u])
      /\ "twice" \notin overlaps => ~Twice(req[v], req[u])
<1> SUFFICES ASSUME TypeOK, OverlapIsKnown, [Next]_vars,
                    NEW v \in Threads, NEW u \in Threads, v # u,
                    ~Idle(v)', ~Idle(u)'
             PROVE  Known(v, u)'
  BY DEF OverlapIsKnown
<1>0. ~Idle(v) /\ ~Idle(u) => Known(v, u)
  BY DEF OverlapIsKnown
<1>1. ASSUME NEW t \in Threads, NEW r \in Requests, Call(t, r)
      PROVE  Known(v, u)'
  <2>1. \A w \in {v, u} \ {t} : ~Idle(w) /\ req'[w] = req[w]
    BY <1>1, CallMoves DEF Idle
  <2>2. overlaps \subseteq overlaps' /\ req'[t] = r
    BY <1>1, CallMoves
  <2>3. \A w \in {v, u} \ {t} :
           /\ "mixed" \notin overlaps' => ~Mixed(r, req[w])
           /\ "twice" \notin overlaps' => ~Twice(r, req[w])
    BY <1>1, <2>1, CallOverlaps
  <2>4. CASE t \notin {v, u}
    BY <1>0, <2>1, <2>2, <2>4
  <2>5. CASE t = v
    BY <2>1, <2>2, <2>3, <2>5
  <2>6. CASE t = u
    BY <2>1, <2>2, <2>3, <2>6 DEF Mixed, Twice
  <2> QED
    BY <2>4, <2>5, <2>6
<1>2. ASSUME NEW t \in Threads, Step(t) \/ Abort(t) PROVE Known(v, u)'
  <2>1. \A w \in {v, u} : ~Idle(w) /\ req'[w] = req[w]
    BY <1>2, OneMoves DEF Idle
  <2>2. overlaps \subseteq overlaps'
    BY <1>2, OneMoves
  <2> QED
    BY <1>0, <2>1, <2>2
<1>3. CASE UNCHANGED vars
  BY <1>0, <1>3 DEF vars, Idle
<1> QED
  BY <1>1, <1>2, <1>3 DEF Next

(* Who is alone after a step has made it. *)
LEMMA OnlyMine ==
    ASSUME TypeOK, AloneIsAlone, [Next]_vars, NEW u \in Threads, alone'[u]
    PROVE  \/ \E r \in Requests : Call(u, r)
           \/ Step(u) /\ alone[u]
           \/ UNCHANGED vars
<1>1. ASSUME NEW t \in Threads, NEW r \in Requests, Call(t, r) PROVE t = u
  BY <1>1, CallMoves DEF AloneIsAlone
<1>2. ASSUME NEW t \in Threads, Step(t) \/ Abort(t) PROVE t = u /\ alone[u]
  BY <1>2, OneMoves DEF AloneIsAlone, Idle
<1>3. ~Abort(u)
  BY DEF Abort, Return, TypeOK
<1> QED
  BY <1>1, <1>2, <1>3 DEF Next

(* What a step does to a request of another thread: nothing. *)
Stays(t) ==
    /\ pc'[t] = pc[t] /\ req'[t] = req[t] /\ pending'[t] = pending[t]
    /\ alone'[t] => alone[t]
    /\ overlaps \subseteq overlaps'

LEMMA OthersStay ==
    ASSUME TypeOK, [Next]_vars, NEW t \in Threads, pc'[t] # "idle"
    PROVE  \/ \E r \in Requests : Call(t, r)
           \/ Step(t)
           \/ UNCHANGED vars
           \/ \E u \in Threads \ {t} :
                 /\ Stays(t)
                 /\ Step(u) \/ UNCHANGED <<instance, rules>>
<1>1. ASSUME NEW u \in Threads \ {t}, NEW r \in Requests, Call(u, r)
      PROVE  Stays(t) /\ UNCHANGED <<instance, rules>>
  <2>1. UNCHANGED <<instance, rules>>
    BY <1>1 DEF Call
  <2> QED
    BY <1>1, <2>1, CallMoves DEF Stays
<1>2. ASSUME NEW u \in Threads \ {t}, Step(u) \/ Abort(u)
      PROVE  Stays(t) /\ (Step(u) \/ UNCHANGED <<instance, rules>>)
  <2>1. Step(u) \/ UNCHANGED <<instance, rules>>
    BY <1>2 DEF Abort
  <2> QED
    BY <1>2, <2>1, OneMoves DEF Stays
<1>3. ~Abort(t)
  BY DEF Abort, Return, GoTo, TypeOK
<1> QED
  BY <1>1, <1>2, <1>3 DEF Next

(* Only a Save puts rules in force. *)
LEMMA OnlySaveActivates ==
    ASSUME TypeOK, NEW u \in Threads, Step(u), ~SaveRule(u)
    PROVE  Active' \subseteq Active
BY DEF Active, TypeOK, Step, Insert, FindRefuses, FindAccepts, PushRule, Bind,
   Expand, ExpandNothing, ExpandInvalid, DeleteMetadata, Pull

LEMMA RemovingNext ==
    TypeOK /\ StepsFit /\ AloneIsAlone /\ OverlapIsKnown /\ Removing
      /\ [Next]_vars => Removing'
<1> SUFFICES ASSUME TypeOK, StepsFit, AloneIsAlone, OverlapIsKnown, Removing,
                    [Next]_vars, NEW t \in Threads,
                    alone'[t] \/ "mixed" \notin overlaps',
                    pc'[t] \in {"delete", "pull"}
             PROVE  Active' \cap Matching(req'[t]) \subseteq pending'[t]
  BY DEF Removing
<1>1. ASSUME NEW r \in Requests, Call(t, r)
      PROVE  Active' \cap Matching(req'[t]) \subseteq pending'[t]
  <2>1. pc'[t] = "delete"
    BY <1>1, CallBegins
  <2>2. pending'[t] = Matching(r) /\ req'[t] = r
    <3>1. FirstStep(r) = "delete"
      BY <1>1, <2>1, CallBegins
    <3>2. pending'[t] = IF FirstStep(r) = "delete" THEN Matching(r) ELSE {}
      BY <1>1, CallMoves
    <3> QED
      BY <1>1, <3>1, <3>2, CallMoves
  <2> QED
    BY <2>2
<1>2. CASE Step(t)
  <2>0. alone[t] \/ "mixed" \notin overlaps
    BY <1>2, OneMoves
  <2>1. DeleteMetadata(t)
    BY <1>2 DEF Step, Insert, FindRefuses, FindAccepts, PushRule, Bind, Expand,
       ExpandNothing, ExpandInvalid, SaveRule, Pull, Return, GoTo, TypeOK
  <2>2. Active \cap Matching(req[t]) \subseteq pending[t]
    BY <2>0, <2>1 DEF Removing, DeleteMetadata
  <2>3. PICK x \in pending[t] :
          /\ rules' = [rules EXCEPT ![x] =
                         IF @ = "active" THEN "removed" ELSE @]
          /\ pending' = [pending EXCEPT ![t] = @ \ {x}]
    BY <2>1 DEF DeleteMetadata
  <2>4. Active' \subseteq Active \ {x}
    BY <2>3 DEF Active, TypeOK
  <2>5. pending'[t] = pending[t] \ {x} /\ req'[t] = req[t]
    BY <2>1, <2>3 DEF DeleteMetadata, TypeOK
  <2> QED
    BY <2>2, <2>4, <2>5
<1>3. ASSUME Stays(t), NEW u \in Threads \ {t},
             Step(u) \/ UNCHANGED <<instance, rules>>
      PROVE  Active' \cap Matching(req'[t]) \subseteq pending'[t]
  <2>1. alone[t] \/ "mixed" \notin overlaps
    BY <1>3 DEF Stays
  <2>2. Active \cap Matching(req[t]) \subseteq pending[t]
    BY <1>3, <2>1 DEF Stays, Removing
  <2>3. ~SaveRule(u)
    <3> SUFFICES ASSUME SaveRule(u) PROVE FALSE
      OBVIOUS
    <3>1. req[u].op \in Additions /\ req[t].op \in Removals
      BY <1>3 DEF SaveRule, StepsFit, Fits, Stays
    <3>2. ~Idle(u) /\ ~Idle(t)
      BY <1>3 DEF SaveRule, Stays, Idle
    <3> QED
      BY <2>1, <3>1, <3>2 DEF AloneIsAlone, OverlapIsKnown, Mixed
  <2>4. Active' \subseteq Active
    BY <1>3, <2>3, OnlySaveActivates DEF Active
  <2> QED
    BY <1>3, <2>2, <2>4 DEF Stays
<1>4. CASE UNCHANGED vars
  BY <1>4 DEF vars, Removing, Active
<1> QED
  BY <1>1, <1>2, <1>3, <1>4, OthersStay

(* The steps of a request that lead to its Save. *)
LEMMA SavesOnly ==
    ASSUME TypeOK, NEW t \in Threads, Step(t), pc'[t] = "save"
    PROVE  Expand(t) \/ SaveRule(t)
BY DEF Step, Insert, FindRefuses, FindAccepts, PushRule, Bind, ExpandNothing,
   ExpandInvalid, DeleteMetadata, Pull, Return, GoTo, TypeOK

LEMMA SaveMoves ==
    ASSUME TypeOK, NEW t \in Threads, SaveRule(t), pc'[t] = "save"
    PROVE  \E x \in pending[t] :
              /\ Active' = Active \cup {x}
              /\ pending'[t] = pending[t] \ {x}
              /\ instance' = instance
<1>1. PICK x \in pending[t] :
        /\ rules' = [rules EXCEPT ![x] = "active"]
        /\ pending' = [pending EXCEPT ![t] = @ \ {x}]
  BY DEF SaveRule, Return, GoTo, TypeOK
<1>2. Active' = Active \cup {x} /\ pending'[t] = pending[t] \ {x}
  BY <1>1 DEF Active, TypeOK
<1> QED
  BY <1>2 DEF SaveRule

(* A Save that runs alone. *)
LEMMA MissingNext ==
    ASSUME TypeOK, AloneIsAlone, Saving, [Next]_vars,
           NEW t \in Threads, alone'[t], pc'[t] = "save"
    PROVE  Expansion(instance') \ pending'[t] \subseteq Active'
<1>1. ASSUME NEW r \in Requests, Call(t, r) PROVE FALSE
  BY <1>1, CallBegins
<1>2. CASE Expand(t)
  BY <1>2 DEF Expand, TypeOK
<1>3. CASE SaveRule(t) /\ alone[t]
  <2>1. Expansion(instance) \ pending[t] \subseteq Active
    BY <1>3 DEF Saving, SaveRule
  <2> QED
    BY <1>3, <2>1, SaveMoves
<1>4. CASE UNCHANGED vars
  <2>1. Expansion(instance) \ pending[t] \subseteq Active
    BY <1>4 DEF Saving, vars
  <2> QED
    BY <1>4, <2>1 DEF vars, Active
<1> QED
  BY <1>1, <1>2, <1>3, <1>4, OnlyMine, SavesOnly

-----------------------------------------------------------------------------
(* What is in force, and the base rules *)

(* Taking away a base rule, a binding or the instance leaves the expansion
   without exactly the rules that the removal matches. *)
LEMMA PulledExpansion ==
    ASSUME NEW inst \in Instances, NEW r \in Requests, r.op \in Removals
    PROVE  Expansion(Pulled(inst, r)) = Expansion(inst) \ Matching(r)
<1>1. Expansion(inst) \subseteq RuleIDs
  BY ExpansionType
<1>2. CASE r.op = "Delete"
  BY <1>1, <1>2 DEF Expansion, Pulled, Matching, NoInstance
<1>3. CASE r.op = "RemoveRule"
  <2>1. Pulled(inst, r).bases = {b \in inst.bases : b.id # r.id}
        /\ Pulled(inst, r).bound = inst.bound
    BY <1>3 DEF Pulled, Instances
  <2>2. Matching(r) = {x \in RuleIDs : x[1] = r.id}
    BY <1>3 DEF Matching
  <2> QED
    BY <1>1, <2>1, <2>2 DEF Expansion
<1>4. CASE r.op = "RemoveBinding"
  <2>1. Pulled(inst, r).bases = inst.bases
        /\ Pulled(inst, r).bound = inst.bound \ {r.binding}
    BY <1>4 DEF Pulled, Instances
  <2>2. Matching(r) = {x \in RuleIDs : x[2] = r.binding}
    BY <1>4 DEF Matching
  <2> QED
    BY <1>1, <2>1, <2>2 DEF Expansion
<1> QED
  BY <1>2, <1>3, <1>4 DEF Removals

(* No other step makes the expansion smaller. *)
LEMMA ExpansionGrows ==
    ASSUME TypeOK, NEW t \in Threads,
           Insert(t) \/ PushRule(t) \/ Bind(t)
    PROVE  Expansion(instance) \subseteq Expansion(instance')
<1>1. CASE Insert(t)
  BY <1>1 DEF Insert, TypeOK, Expansion, NoInstance
<1>2. CASE PushRule(t)
  <2>1. instance.bases \subseteq instance'.bases /\ instance'.bound = instance.bound
    BY <1>2 DEF PushRule, TypeOK, Instances
  <2> QED
    BY <2>1 DEF Expansion
<1>3. CASE Bind(t)
  <2>1. instance'.bases = instance.bases /\ instance.bound \subseteq instance'.bound
    BY <1>3 DEF Bind, TypeOK, Instances
  <2> QED
    BY <2>1 DEF Expansion
<1> QED
  BY <1>1, <1>2, <1>3

(* A Save that no removal overlaps: the expansion it writes does not shrink. *)
LEMMA WritesNext ==
    ASSUME TypeOK, StepsFit, OverlapIsKnown, Saving, [Next]_vars,
           NEW t \in Threads, "mixed" \notin overlaps', pc'[t] = "save"
    PROVE  pending'[t] \subseteq Expansion(instance')
<1>1. ASSUME NEW r \in Requests, Call(t, r) PROVE FALSE
  BY <1>1, CallBegins
<1>2. CASE Expand(t)
  BY <1>2 DEF Expand, TypeOK
<1>3. CASE SaveRule(t)
  <2>1. pending[t] \subseteq Expansion(instance)
    BY <1>3 DEF Saving, SaveRule
  <2> QED
    BY <1>3, <2>1, SaveMoves
<1>4. ASSUME Stays(t), NEW u \in Threads \ {t},
             Step(u) \/ UNCHANGED <<instance, rules>>
      PROVE  pending'[t] \subseteq Expansion(instance')
  <2>1. pending[t] \subseteq Expansion(instance) /\ pc[t] = "save"
        /\ "mixed" \notin overlaps
    BY <1>4 DEF Stays, Saving
  <2>2. ~Pull(u)
    <3> SUFFICES ASSUME Pull(u) PROVE FALSE
      OBVIOUS
    <3>1. req[t].op \in Additions /\ req[u].op \in Removals
      BY <2>1 DEF Pull, StepsFit, Fits
    <3>2. ~Idle(u) /\ ~Idle(t)
      BY <2>1 DEF Pull, Idle
    <3> QED
      BY <2>1, <3>1, <3>2 DEF OverlapIsKnown, Mixed
  <2>3. Expansion(instance) \subseteq Expansion(instance')
    <3>1. CASE Insert(u) \/ PushRule(u) \/ Bind(u)
      BY <3>1, ExpansionGrows
    <3>2. CASE UNCHANGED instance
      BY <3>2
    <3> QED
      BY <1>4, <2>2, <3>1, <3>2 DEF Step, FindRefuses, FindAccepts, Expand,
         ExpandNothing, ExpandInvalid, SaveRule, DeleteMetadata
  <2> QED
    BY <1>4, <2>1, <2>3 DEF Stays
<1>5. CASE UNCHANGED vars
  BY <1>5 DEF vars, Saving
<1> QED
  BY <1>1, <1>2, <1>3, <1>4, <1>5, OthersStay, SavesOnly

LEMMA SavingNext ==
    TypeOK /\ StepsFit /\ AloneIsAlone /\ OverlapIsKnown /\ Saving
      /\ [Next]_vars => Saving'
BY WritesNext, MissingNext DEF Saving

(* Only AddRule adds base rules. *)
LEMMA BasesShrink ==
    ASSUME TypeOK, StepsFit, NEW t \in Threads, Step(t), ~PushRule(t)
    PROVE  instance'.bases \subseteq instance.bases
<1>1. CASE Insert(t)
  BY <1>1 DEF Insert, TypeOK, NoInstance
<1>2. CASE Bind(t)
  BY <1>2 DEF Bind, TypeOK, Instances
<1>3. CASE Pull(t)
  <2>1. req[t].op \in Removals
    BY <1>3 DEF Pull, StepsFit, Fits
  <2> QED
    BY <1>3, <2>1 DEF Pull, Pulled, Removals, NoInstance, TypeOK, Instances
<1>4. CASE UNCHANGED instance
  BY <1>4
<1> QED
  BY <1>1, <1>2, <1>3, <1>4
  DEF Step, FindRefuses, FindAccepts, Expand, ExpandNothing, ExpandInvalid,
      SaveRule, DeleteMetadata

LEMMA BasesGrow ==
    ASSUME TypeOK, NEW t \in Threads, PushRule(t)
    PROVE  instance'.bases \subseteq
              instance.bases \cup {[id |-> req[t].id, dest |-> req[t].dest]}
BY DEF PushRule, TypeOK, Instances

LEMMA PushingNext ==
    TypeOK /\ StepsFit /\ OverlapIsKnown /\ Pushing /\ [Next]_vars => Pushing'
<1> SUFFICES ASSUME TypeOK, StepsFit, OverlapIsKnown, Pushing, [Next]_vars,
                    NEW t \in Threads, "twice" \notin overlaps',
                    pc'[t] = "push"
             PROVE  ~AlreadyExists(t)'
  BY DEF Pushing
<1>1. ASSUME NEW r \in Requests, Call(t, r) PROVE FALSE
  BY <1>1, CallBegins
<1>2. CASE Step(t)
  <2>1. FindAccepts(t)
    BY <1>2 DEF Step, Insert, FindRefuses, PushRule, Bind, Expand,
       ExpandNothing, ExpandInvalid, SaveRule, DeleteMetadata, Pull, Return,
       GoTo, TypeOK
  <2> QED
    BY <2>1 DEF FindAccepts, AlreadyExists
<1>3. ASSUME Stays(t), NEW u \in Threads \ {t},
             Step(u) \/ UNCHANGED <<instance, rules>>
      PROVE  ~AlreadyExists(t)'
  <2>1. pc[t] = "push" /\ "twice" \notin overlaps
    BY <1>3 DEF Stays
  <2>2. ~AlreadyExists(t)
    BY <2>1 DEF Pushing
  <2>3. CASE instance'.bases \subseteq instance.bases
    BY <1>3, <2>2, <2>3 DEF Stays, AlreadyExists
  <2>4. CASE PushRule(u)
    <3>1. req[t].op = "AddRule" /\ req[u].op = "AddRule"
      BY <2>1, <2>4 DEF PushRule, StepsFit, Fits
    <3>2. ~Idle(u) /\ ~Idle(t)
      BY <2>1, <2>4 DEF PushRule, Idle
    <3>3. req[u].dest # req[t].dest
      BY <2>1, <3>1, <3>2 DEF OverlapIsKnown, Twice
    <3> QED
      BY <1>3, <2>2, <2>4, <3>3, BasesGrow DEF Stays, AlreadyExists
  <2> QED
    BY <1>3, <2>3, <2>4, BasesShrink
<1>4. CASE UNCHANGED vars
  BY <1>4 DEF vars, Pushing, AlreadyExists
<1> QED
  BY <1>1, <1>2, <1>3, <1>4, OthersStay

LEMMA OrphansNext ==
    TypeOK /\ StepsFit /\ Removing /\ Saving /\ OrphansNeedOverlap
      /\ [Next]_vars => OrphansNeedOverlap'
<1> SUFFICES ASSUME TypeOK, StepsFit, Removing, Saving, OrphansNeedOverlap,
                    [Next]_vars, "mixed" \notin overlaps'
             PROVE  Active' \subseteq Expansion(instance')
  BY DEF OrphansNeedOverlap
<1>1. "mixed" \notin overlaps
  BY OneMoves, CallMoves DEF Next, vars
<1>2. Active \subseteq Expansion(instance)
  BY <1>1 DEF OrphansNeedOverlap
<1>3. CASE UNCHANGED <<instance, rules>>
  BY <1>2, <1>3 DEF Active
<1>4. ASSUME NEW t \in Threads, Insert(t) \/ PushRule(t) \/ Bind(t)
      PROVE  Active' \subseteq Expansion(instance')
  <2>1. Active' = Active
    BY <1>4 DEF Insert, PushRule, Bind, Active
  <2> QED
    BY <1>2, <1>4, <2>1, ExpansionGrows
<1>5. ASSUME NEW t \in Threads, SaveRule(t)
      PROVE  Active' \subseteq Expansion(instance')
  <2>1. pending[t] \subseteq Expansion(instance)
    BY <1>1, <1>5 DEF SaveRule, Saving
  <2>2. Active' \subseteq Active \cup pending[t] /\ instance' = instance
    BY <1>5 DEF SaveRule, Active, TypeOK
  <2> QED
    BY <1>2, <2>1, <2>2
<1>6. ASSUME NEW t \in Threads, DeleteMetadata(t)
      PROVE  Active' \subseteq Expansion(instance')
  <2>1. Active' \subseteq Active /\ instance' = instance
    BY <1>6 DEF DeleteMetadata, Active, TypeOK
  <2> QED
    BY <1>2, <2>1
<1>7. ASSUME NEW t \in Threads, Pull(t)
      PROVE  Active' \subseteq Expansion(instance')
  <2>1. req[t].op \in Removals /\ pending[t] = {} /\ req[t] \in Requests
    BY <1>7 DEF Pull, StepsFit, Fits, TypeOK
  <2>2. Active \cap Matching(req[t]) = {}
    BY <1>1, <1>7, <2>1 DEF Pull, Removing
  <2>3. Active' = Active /\ instance' = Pulled(instance, req[t])
    BY <1>7 DEF Pull, Active
  <2> QED
    BY <1>2, <2>1, <2>2, <2>3, PulledExpansion DEF TypeOK
<1> QED
  BY <1>3, <1>4, <1>5, <1>6, <1>7
  DEF Next, Step, Call, FindRefuses, FindAccepts, Expand, ExpandNothing,
      ExpandInvalid, Abort, vars

LEMMA EqualRulesNext ==
    TypeOK /\ StepsFit /\ Pushing /\ EqualRulesNeedOverlap /\ [Next]_vars =>
        EqualRulesNeedOverlap'
<1> SUFFICES ASSUME TypeOK, StepsFit, Pushing, EqualRulesNeedOverlap,
                    [Next]_vars, "twice" \notin overlaps',
                    NEW b \in instance'.bases, NEW c \in instance'.bases,
                    b.dest = c.dest
             PROVE  b = c
  BY DEF EqualRulesNeedOverlap
<1>1. "twice" \notin overlaps
  BY OneMoves, CallMoves DEF Next, vars
<1>2. CASE instance'.bases \subseteq instance.bases
  BY <1>1, <1>2 DEF EqualRulesNeedOverlap
<1>3. ASSUME NEW t \in Threads, PushRule(t) PROVE b = c
  <2>1. ~AlreadyExists(t)
    BY <1>1, <1>3 DEF PushRule, Pushing
  <2> QED
    BY <1>1, <1>3, <2>1, BasesGrow DEF AlreadyExists, EqualRulesNeedOverlap
<1> QED
  BY <1>2, <1>3, BasesShrink DEF Next, Call, Abort, vars

(* Who covers a rule goes on to do so until the rule is in force or no longer
   in the expansion, or leaves it unsettled by failing. *)
LEMMA CoveredNext ==
    TypeOK /\ StepsFit /\ Covered /\ [Next]_vars => Covered'
<1> DEFINE Seen(x) ==
      x \in Active \cup unsettled \/ \E t \in Threads : Covers(t, x)
<1> SUFFICES ASSUME TypeOK, StepsFit, Covered, [Next]_vars,
                    NEW x \in Expansion(instance')
             PROVE  Seen(x)'
  BY DEF Covered
<1>1. TypeOK'
  BY TypeNext
<1>2. ASSUME x \in Expansion(instance) PROVE Seen(x)
  BY <1>2 DEF Covered
(* Another request than the one that moves covers what it did. *)
<1>3. ASSUME NEW t \in Threads, NEW u \in Threads, u # t, Covers(u, x),
             Step(t) \/ Abort(t) \/ \E r \in Requests : Call(t, r)
      PROVE  Covers(u, x)'
  <2>1. pc'[u] = pc[u] /\ req'[u] = req[u] /\ pending'[u] = pending[u]
    <3>1. CASE Step(t) \/ Abort(t)
      BY <1>3, <3>1, OneMoves
    <3>2. ASSUME NEW r \in Requests, Call(t, r)
          PROVE  pc'[u] = pc[u] /\ req'[u] = req[u] /\ pending'[u] = pending[u]
      BY <1>3, <3>2, CallMoves
    <3> QED
      BY <1>3, <3>1, <3>2
  <2> QED
    BY <1>3, <2>1 DEF Covers, About, Matching
<1>4. ASSUME NEW t \in Threads, NEW r \in Requests, Call(t, r) PROVE Seen(x)'
  <2>1. /\ Active' = Active /\ unsettled' = unsettled
        /\ Expansion(instance') = Expansion(instance)
    BY <1>4 DEF Call, Active
  <2>2. ~Covers(t, x)
    BY <1>4 DEF Call, Idle, Covers
  <2> QED
    BY <1>2, <1>3, <1>4, <2>1, <2>2
<1>5. ASSUME NEW t \in Threads, PushRule(t) \/ Bind(t) PROVE Seen(x)'
  <2>1. Active' = Active /\ unsettled' = unsettled /\ ~Covers(t, x)
    BY <1>5 DEF PushRule, Bind, Active, Covers
  <2>2. CASE x \in Expansion(instance)
    BY <1>2, <1>3, <1>5, <2>1, <2>2 DEF Step
  <2>3. CASE x \notin Expansion(instance)
    <3>1. x \in RuleIDs
      BY <1>1, ExpansionType DEF TypeOK
    <3>2. x \in About(req[t])
      <4>1. CASE PushRule(t)
        <5>1. req[t].op = "AddRule"
          BY <4>1 DEF PushRule, StepsFit, Fits
        <5>2. /\ instance'.bases \subseteq instance.bases
                   \cup {[id |-> req[t].id, dest |-> req[t].dest]}
              /\ instance'.bound = instance.bound
          BY <4>1 DEF PushRule, TypeOK, Instances
        <5>3. x[1] = req[t].id
          BY <2>3, <5>2 DEF Expansion
        <5> QED
          BY <3>1, <5>1, <5>3 DEF About, Removals
      <4>2. CASE Bind(t)
        <5>1. req[t].op = "AddBinding"
          BY <4>2 DEF Bind, StepsFit, Fits
        <5>2. /\ instance'.bases = instance.bases
              /\ instance'.bound \subseteq instance.bound \cup {req[t].binding}
          BY <4>2 DEF Bind, TypeOK, Instances
        <5>3. x[2] = req[t].binding
          BY <2>3, <5>2 DEF Expansion
        <5> QED
          BY <3>1, <5>1, <5>3 DEF About, Removals
      <4> QED
        BY <1>5, <4>1, <4>2
    <3>3. pc'[t] = "expand" /\ req'[t] = req[t]
      BY <1>5 DEF PushRule, Bind, GoTo, TypeOK
    <3>4. Covers(t, x)'
      BY <3>2, <3>3 DEF Covers, About, Matching
    <3> QED
      BY <3>4
  <2> QED
    BY <2>2, <2>3
<1>6. ASSUME NEW t \in Threads, Expand(t) PROVE Seen(x)'
  <2>1. /\ Active' = Active /\ unsettled' = unsettled /\ instance' = instance
        /\ pc'[t] = "save" /\ req'[t] = req[t]
        /\ pending'[t] = Expansion(instance)
    BY <1>6 DEF Expand, GoTo, TypeOK, Active
  <2>2. CASE Covers(t, x)
    <3>1. Covers(t, x)'
      BY <2>1, <2>2 DEF Covers, About, Matching
    <3> QED
      BY <3>1
  <2>3. CASE ~Covers(t, x)
    BY <1>2, <1>3, <1>6, <2>1, <2>3 DEF Step
  <2> QED
    BY <2>2, <2>3
<1>7. ASSUME NEW t \in Threads,
             Insert(t) \/ FindRefuses(t) \/ FindAccepts(t) \/ ExpandNothing(t)
      PROVE  Seen(x)'
  <2>1. Active' = Active /\ unsettled' = unsettled
    BY <1>7 DEF Insert, FindRefuses, FindAccepts, ExpandNothing, Active
  <2>2. x \in Expansion(instance) /\ ~Covers(t, x)
    <3>1. CASE ExpandNothing(t)
      <4>1. Expansion(instance) = {}
        BY <3>1 DEF ExpandNothing, TypeOK, NoInstance, Expansion
      <4> QED
        BY <3>1, <4>1 DEF ExpandNothing
    <3>2. CASE FindRefuses(t) \/ FindAccepts(t)
      BY <3>2 DEF FindRefuses, FindAccepts, Covers
    <3>3. CASE Insert(t)
      BY <3>3 DEF Insert, Covers, Expansion, NoInstance
    <3> QED
      BY <1>7, <3>1, <3>2, <3>3
  <2> QED
    BY <1>2, <1>3, <1>7, <2>1, <2>2 DEF Step
<1>8. ASSUME NEW t \in Threads, SaveRule(t) PROVE Seen(x)'
  <2>1. PICK y \in pending[t] :
          /\ rules' = [rules EXCEPT ![y] = "active"]
          /\ IF pending[t] = {y}
               THEN Return(t)
               ELSE /\ pending' = [pending EXCEPT ![t] = @ \ {y}]
                    /\ UNCHANGED <<pc, req, alone>>
          /\ unsettled' = unsettled \ {y}
    BY <1>8 DEF SaveRule
  <2>2. Active' = Active \cup {y} /\ instance' = instance
    BY <1>8, <2>1 DEF SaveRule, Active, TypeOK
  <2>3. CASE x = y
    BY <2>2, <2>3
  <2>4. CASE x # y /\ Covers(t, x)
    <3>1. x \in pending[t] /\ pending[t] # {y}
      BY <1>8, <2>4 DEF SaveRule, Covers
    <3>2. /\ pc' = pc /\ req' = req
          /\ pending'[t] = pending[t] \ {y}
      BY <2>1, <3>1 DEF TypeOK
    <3>3. Covers(t, x)'
      BY <2>4, <3>1, <3>2 DEF Covers, About, Matching
    <3> QED
      BY <3>3
  <2>5. CASE x # y /\ ~Covers(t, x)
    BY <1>2, <1>3, <1>8, <2>1, <2>2, <2>5 DEF Step
  <2> QED
    BY <2>3, <2>4, <2>5
<1>9. ASSUME NEW t \in Threads, DeleteMetadata(t) PROVE Seen(x)'
  <2>1. /\ instance' = instance /\ unsettled' = unsettled
        /\ req'[t] = req[t] /\ pc'[t] \in {"delete", "pull"}
    BY <1>9 DEF DeleteMetadata, GoTo, TypeOK
  <2>2. pc[t] = "delete" /\ req[t].op \in Removals
        /\ pending[t] \subseteq Matching(req[t])
    BY <1>9 DEF DeleteMetadata, StepsFit, Fits
  <2>3. About(req[t]) = Matching(req[t])
    BY <2>2 DEF About, Removals
  <2>4. CASE x \in About(req[t])
    <3>1. Covers(t, x)'
      BY <2>1, <2>4 DEF Covers, About, Matching
    <3> QED
      BY <3>1
  <2>5. CASE x \notin About(req[t])
    <3>1. x \in Active => x \in Active'
      BY <1>9, <2>2, <2>3, <2>5 DEF DeleteMetadata, Active, TypeOK
    <3>2. ~Covers(t, x)
      BY <2>5 DEF Covers
    <3> QED
      BY <1>2, <1>3, <1>9, <2>1, <3>1, <3>2 DEF Step
  <2> QED
    BY <2>4, <2>5
<1>10. ASSUME NEW t \in Threads, Pull(t) PROVE Seen(x)'
  <2>1. req[t].op \in Removals /\ req[t] \in Requests /\ instance \in Instances
    BY <1>10 DEF Pull, StepsFit, Fits, TypeOK
  <2>2. x \in Expansion(instance) /\ x \notin Matching(req[t])
    BY <1>10, <2>1, PulledExpansion DEF Pull
  <2>3. About(req[t]) = Matching(req[t])
    BY <2>1 DEF About, Removals
  <2>4. Active' = Active /\ ~Covers(t, x)
    BY <1>10, <2>2, <2>3 DEF Pull, Active, Covers
  <2>5. x \in unsettled => x \in unsettled'
    BY <1>10 DEF Pull
  <2> QED
    BY <1>2, <1>3, <1>10, <2>2, <2>4, <2>5 DEF Step
<1>11. ASSUME NEW t \in Threads, ExpandInvalid(t) \/ Abort(t) PROVE Seen(x)'
  <2>1. Active' = Active /\ instance' = instance /\ unsettled \subseteq unsettled'
    BY <1>11 DEF ExpandInvalid, Abort, Fails, Active
  <2>2. CASE Covers(t, x)
    <3>1. x \in unsettled'
      BY <1>11, <2>1, <2>2 DEF ExpandInvalid, Abort, Fails, Covers
    <3> QED
      BY <3>1
  <2>3. CASE ~Covers(t, x)
    BY <1>2, <1>3, <1>11, <2>1, <2>3 DEF Step
  <2> QED
    BY <2>2, <2>3
<1>12. CASE UNCHANGED vars
  BY <1>2, <1>12 DEF vars, Active, Covers, About, Matching
<1> QED
  BY <1>4, <1>5, <1>6, <1>7, <1>8, <1>9, <1>10, <1>11, <1>12 DEF Next, Step

-----------------------------------------------------------------------------
(* The theorems *)

LEMMA InvInit == Init => IInv
<1> SUFFICES ASSUME Init PROVE IInv
  OBVIOUS
<1> USE DEF Init
<1>1. TypeOK
  BY NoRequestType, MaxBaseAssumption DEF TypeOK, Steps, RuleStates
<1>2. StepsFit /\ AloneIsAlone /\ OverlapIsKnown /\ Removing /\ Saving /\ Pushing
  BY DEF StepsFit, Fits, AloneIsAlone, OverlapIsKnown, Idle, Removing, Saving,
     Pushing
<1>3. instance.bases = {} /\ Expansion(instance) = {} /\ Active = {}
  BY DEF NoInstance, Expansion, Active
<1> QED
  BY <1>1, <1>2, <1>3
  DEF IInv, Covered, OrphansNeedOverlap, EqualRulesNeedOverlap

LEMMA InvNext == IInv /\ [Next]_vars => IInv'
BY TypeNext, StepsFitNext, AloneNext, OverlapNext, RemovingNext, SavingNext,
   PushingNext, CoveredNext, OrphansNext, EqualRulesNext
DEF IInv

THEOREM Invariant == Spec => []IInv
BY InvInit, InvNext, PTL DEF Spec

(* Every variable keeps its type, however many requests there are. *)
THEOREM InstanceTypeCorrect == Spec => []TypeOK
<1>1. IInv => TypeOK
  BY DEF IInv
<1> QED
  BY <1>1, Invariant, PTL

(* When all requests have ended, every base rule is in force for everything
   that is bound, however the requests overlapped and wherever some failed,
   except for what a failed one was about and nobody has written since. *)
THEOREM OverlapExpandsAll == Spec => []AllExpanded
<1>1. IInv => AllExpanded
  BY DEF IInv, AllExpanded, Covered, Covers, Quiescent, Idle
<1> QED
  BY <1>1, Invariant, PTL

(* As long as no addition overlaps a removal, no rule is in force without its
   base rule and binding, however many additions, or removals, overlap among
   themselves, and wherever some of them fail. *)
THEOREM OrphansComeFromOverlap == Spec => []OrphansNeedOverlap
<1>1. IInv => OrphansNeedOverlap
  BY DEF IInv
<1> QED
  BY <1>1, Invariant, PTL

(* Only two AddRules of the same destination that overlap leave an instance
   with two equal base rules. *)
THEOREM EqualRulesComeFromOverlap == Spec => []EqualRulesNeedOverlap
<1>1. IInv => EqualRulesNeedOverlap
  BY DEF IInv
<1> QED
  BY <1>1, Invariant, PTL

(* A removal that runs alone leaves nothing of what it removes, whatever was
   left by requests before it. *)
THEOREM AloneRemovalCleans == Spec => RemovalCleans
<1> DEFINE Cleans ==
      \A t \in Threads : alone[t] /\ Pull(t) =>
          \A x \in Active' :
             /\ req[t].op # "Delete"
             /\ req[t].op = "RemoveRule" => x[1] # req[t].id
             /\ req[t].op = "RemoveBinding" => x[2] # req[t].binding
<1>1. ASSUME IInv, NEW t \in Threads, alone[t], Pull(t), NEW x \in Active'
      PROVE  /\ req[t].op # "Delete"
             /\ req[t].op = "RemoveRule" => x[1] # req[t].id
             /\ req[t].op = "RemoveBinding" => x[2] # req[t].binding
  <2>1. pc[t] = "pull" /\ pending[t] = {}
    BY <1>1 DEF IInv, StepsFit, Fits, Pull
  <2>2. Active \cap Matching(req[t]) = {}
    BY <1>1, <2>1 DEF IInv, Removing
  <2>3. x \in RuleIDs /\ x \notin Matching(req[t])
    BY <1>1, <2>2 DEF Pull, Active
  <2> QED
    BY <2>3 DEF Matching
<1>2. IInv => [Cleans]_vars
  BY <1>1
<1> QED
  BY <1>2, Invariant, PTL DEF RemovalCleans

(* An addition that runs alone to its end puts the whole instance in force. *)
THEOREM AloneAdditionRepairs == Spec => AdditionRepairs
<1> DEFINE Repairs ==
      \A t \in Threads : alone[t] /\ SaveRule(t) /\ pc'[t] = "idle" =>
          Expansion(instance') \subseteq Active'
<1>1. ASSUME IInv, NEW t \in Threads, alone[t], SaveRule(t), pc'[t] = "idle"
      PROVE  Expansion(instance') \subseteq Active'
  <2>1. PICK x \in pending[t] :
          /\ rules' = [rules EXCEPT ![x] = "active"]
          /\ pending[t] = {x}
    BY <1>1 DEF SaveRule, IInv, TypeOK
  <2>2. Active \cup {x} \subseteq Active'
    BY <1>1, <2>1 DEF Active, IInv, TypeOK
  <2>3. Expansion(instance) \ {x} \subseteq Active
    BY <1>1, <2>1 DEF IInv, Saving, SaveRule
  <2> QED
    BY <1>1, <2>2, <2>3 DEF SaveRule
<1>2. IInv => [Repairs]_vars
  BY <1>1
<1> QED
  BY <1>2, Invariant, PTL DEF AdditionRepairs
=============================================================================
