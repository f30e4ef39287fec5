-------------------------- MODULE ServiceInstances --------------------------
(***************************************************************************)
(* A service instance and the rules expanded from it: the requests of the  *)
(* tsuru service API (service/service.go), each a sequence of commands on  *)
(* two collections (storage/mongodb/servicestorage.go, rulestorage.go)     *)
(* without a transaction around them.                                      *)
(*                                                                         *)
(* One instance is enough: the filters of every command name the instance, *)
(* and a base rule id is fresh, so two instances never share a rule.  A    *)
(* binding is an app or a job; AddApp and AddJob, RemoveApp and RemoveJob  *)
(* differ only in the field they write and in the form of the rule id      *)
(* ("<base>-<app>", "job-<base>-<job>").  Base ids are object ids of fixed *)
(* length, so the pair of base id and binding is the rule id.  What a base *)
(* rule allows is one of Dests; two destinations that RuleType.Equals      *)
(* identifies are the same one.  A base rule that its caller has marked as *)
(* Removed is left out; RuleTypes has those.                               *)
(***************************************************************************)
EXTENDS Naturals, FiniteSets

CONSTANTS
    Threads,       \* requests in progress, over all processes
    Bindings,      \* apps and jobs
    BadBindings,   \* those RuleType.Validate refuses as a source
    Dests,         \* destinations
    MaxBase        \* bound: base rules ever added

ASSUME BindingsAssumption == BadBindings \subseteq Bindings
ASSUME MaxBaseAssumption == MaxBase \in Nat

VARIABLES
    instance,  \* the document of the instance in acl_services
    rules,     \* rules[r]: the state of rule r in acl_rules
    nextID,    \* the base rule id newID yields next
    pc,        \* pc[t]: what request t does next
    req,       \* req[t]: its arguments
    pending,   \* pending[t]: the rules its current command has yet to write
    alone,     \* alone[t]: no other request has overlapped t so far
    overlaps,  \* the ways requests have ever overlapped
    unsettled  \* rules of the expansion that a request which failed was
               \* about, and that no Save has written since

vars == <<instance, rules, nextID, pc, req, pending, alone, overlaps,
          unsettled>>

BaseIDs == 1..MaxBase
RuleIDs == BaseIDs \X Bindings
RuleStates == {"absent", "active", "removed"}

BaseRules == [id : BaseIDs, dest : Dests]
Instances == [exists : BOOLEAN, bases : SUBSET BaseRules,
              bound : SUBSET Bindings]
NoInstance == [exists |-> FALSE, bases |-> {}, bound |-> {}]

Requests ==
    [op : {"Create", "Delete"}]
      \cup [op : {"AddRule"}, id : BaseIDs, dest : Dests]
      \cup [op : {"RemoveRule"}, id : BaseIDs]
      \cup [op : {"AddBinding", "RemoveBinding"}, binding : Bindings]

NoRequest == [op |-> "Create"]

Steps == {"idle", "insert", "find", "push", "bind", "expand", "save",
          "delete", "pull"}

(* expandRules: one rule for every base rule and binding. *)
Expansion(inst) ==
    {<<b.id, g>> : b \in inst.bases, g \in inst.bound}

(* A Matching that filters the rules of the current expansion only. *)
MatchingMutantExpanded(r) ==
    CASE r.op = "Delete"        -> Expansion(instance)
      [] r.op = "RemoveRule"    -> {x \in RuleIDs : x[1] = r.id}
      [] r.op = "RemoveBinding" -> {x \in Expansion(instance) :
                                      x[2] = r.binding}

(* What overlapping requests can do to one another: an addition and a removal
   undo each other's commands, and two additions of equal base rules may both
   find that there is none. *)
Additions == {"AddRule", "AddBinding"}
Removals == {"Delete", "RemoveRule", "RemoveBinding"}
Mixed(r, s) ==
    \/ r.op \in Additions /\ s.op \in Removals
    \/ r.op \in Removals /\ s.op \in Additions
Twice(r, s) == r.op = "AddRule" /\ s.op = "AddRule" /\ r.dest = s.dest

(* The metadata filter of each removal. *)
Matching(r) ==
    CASE r.op = "Delete"        -> RuleIDs
      [] r.op = "RemoveRule"    -> {x \in RuleIDs : x[1] = r.id}
      [] r.op = "RemoveBinding" -> {x \in RuleIDs : x[2] = r.binding}

(* A Delete that leaves the rules to nobody. *)
FirstStepMutantDelete(r) ==
    CASE r.op = "Create"     -> "insert"
      [] r.op = "AddRule"    -> "find"
      [] r.op = "AddBinding" -> "bind"
      [] r.op = "Delete"     -> "pull"
      [] r.op \in {"RemoveRule", "RemoveBinding"} -> "delete"

FirstStep(r) ==
    CASE r.op = "Create"     -> "insert"
      [] r.op = "AddRule"    -> "find"
      [] r.op = "AddBinding" -> "bind"
      [] r.op \in {"Delete", "RemoveRule", "RemoveBinding"} -> "delete"

Init ==
    /\ instance = NoInstance
    /\ rules = [r \in RuleIDs |-> "absent"]
    /\ nextID = 1
    /\ pc = [t \in Threads |-> "idle"]
    /\ req = [t \in Threads |-> NoRequest]
    /\ pending = [t \in Threads |-> {}]
    /\ alone = [t \in Threads |-> FALSE]
    /\ overlaps = {}
    /\ unsettled = {}

Idle(t) == pc[t] = "idle"
GoTo(t, step) == pc' = [pc EXCEPT ![t] = step]

Return(t) ==
    /\ GoTo(t, "idle")
    /\ req' = [req EXCEPT ![t] = NoRequest]
    /\ pending' = [pending EXCEPT ![t] = {}]
    /\ alone' = [alone EXCEPT ![t] = FALSE]

(* The rules a request is about. *)
About(r) ==
    CASE r.op = "AddRule"     -> {x \in RuleIDs : x[1] = r.id}
      [] r.op = "AddBinding"  -> {x \in RuleIDs : x[2] = r.binding}
      [] r.op \in Removals    -> Matching(r)
      [] r.op = "Create"      -> {}

(* A request fails: what it has done to the rules it was about stays. *)
Fails(t) ==
    unsettled' = unsettled \cup
        (IF pc[t] \in {"expand", "save", "delete", "pull"}
           THEN About(req[t]) \cap Expansion(instance) ELSE {})

(* A handler is called.  A new base rule gets the id newID makes for it; the
   id of a rule to remove is any that was ever made. *)
Call(t, r) ==
    LET others == {u \in Threads \ {t} : ~Idle(u)} IN
    /\ Idle(t)
    /\ IF r.op = "AddRule"
         THEN r.id = nextID /\ nextID' = nextID + 1
         ELSE UNCHANGED nextID
    /\ r.op = "RemoveRule" => r.id < nextID
    /\ GoTo(t, FirstStep(r))
    /\ req' = [req EXCEPT ![t] = r]
    /\ pending' = [pending EXCEPT ![t] =
          IF FirstStep(r) = "delete" THEN Matching(r) ELSE {}]
    /\ alone' = [u \in Threads |->
          IF u = t THEN others = {} ELSE alone[u] /\ Idle(u)]
    /\ overlaps' = overlaps
          \cup {m \in {"mixed"} : \E u \in others : Mixed(r, req[u])}
          \cup {m \in {"twice"} : \E u \in others : Twice(r, req[u])}
    /\ UNCHANGED <<instance, rules, unsettled>>

(* Create inserts the document, or finds that the name is taken. *)
Insert(t) ==
    /\ pc[t] = "insert"
    /\ instance' = IF instance.exists THEN instance
                                      ELSE [NoInstance EXCEPT !.exists = TRUE]
    /\ Return(t)
    /\ UNCHANGED <<rules, nextID, overlaps, unsettled>>

(* A look for an equal base rule that sees only those already expanded. *)
AlreadyExistsMutantExpanded(t) ==
    \E b \in instance.bases :
        /\ b.dest = req[t].dest
        /\ \E g \in instance.bound : rules[<<b.id, g>>] = "active"

(* AddRule looks for an equal base rule before it adds one. *)
AlreadyExists(t) ==
    \E b \in instance.bases : b.dest = req[t].dest

FindRefuses(t) ==
    /\ pc[t] = "find"
    /\ ~instance.exists \/ AlreadyExists(t)
    /\ Return(t)
    /\ UNCHANGED <<instance, rules, nextID, overlaps, unsettled>>

FindAccepts(t) ==
    /\ pc[t] = "find"
    /\ instance.exists /\ ~AlreadyExists(t)
    /\ GoTo(t, "push")
    /\ UNCHANGED <<instance, rules, nextID, req, pending, alone, overlaps,
                   unsettled>>

(* A $push that makes a document when there is none. *)
PushRuleMutantUpsert(t) ==
    /\ pc[t] = "push"
    /\ instance' = [instance EXCEPT !.bases =
          @ \cup {[id |-> req[t].id, dest |-> req[t].dest]}]
    /\ GoTo(t, "expand")
    /\ UNCHANGED <<rules, nextID, req, pending, alone, overlaps, unsettled>>

(* $push of the base rule.  An instance that is gone matches no document, and
   that is not an error of UpdateOne. *)
PushRule(t) ==
    /\ pc[t] = "push"
    /\ instance' = IF instance.exists
         THEN [instance EXCEPT !.bases =
                 @ \cup {[id |-> req[t].id, dest |-> req[t].dest]}]
         ELSE instance
    /\ GoTo(t, "expand")
    /\ UNCHANGED <<rules, nextID, req, pending, alone, overlaps, unsettled>>

(* $addToSet of the app or job. *)
Bind(t) ==
    /\ pc[t] = "bind"
    /\ instance' = IF instance.exists
         THEN [instance EXCEPT !.bound = @ \cup {req[t].binding}]
         ELSE instance
    /\ GoTo(t, "expand")
    /\ UNCHANGED <<rules, nextID, req, pending, alone, overlaps, unsettled>>

(* An expansion that covers only the new app or job. *)
ExpandMutantOwn(t) ==
    LET new == {x \in Expansion(instance) :
                  req[t].op = "AddBinding" => x[2] = req[t].binding}
    IN  /\ pc[t] = "expand"
        /\ instance.exists /\ new # {}
        /\ \A x \in new : x[2] \notin BadBindings
        /\ pending' = [pending EXCEPT ![t] = new]
        /\ GoTo(t, "save")
        /\ UNCHANGED <<instance, rules, nextID, req, alone, overlaps, unsettled>>

(* expandRules reads the instance again, and Save checks every rule before it
   writes the first. *)
Expand(t) ==
    /\ pc[t] = "expand"
    /\ instance.exists /\ Expansion(instance) # {}
    /\ instance.bound \cap BadBindings = {}
    /\ pending' = [pending EXCEPT ![t] = Expansion(instance)]
    /\ GoTo(t, "save")
    /\ UNCHANGED <<instance, rules, nextID, req, alone, overlaps, unsettled>>

(* The instance is gone, or there is nothing to expand. *)
ExpandNothing(t) ==
    /\ pc[t] = "expand"
    /\ ~instance.exists \/ Expansion(instance) = {}
    /\ Return(t)
    /\ UNCHANGED <<instance, rules, nextID, overlaps, unsettled>>

(* One binding that is not a valid source fails the whole Save. *)
ExpandInvalid(t) ==
    /\ pc[t] = "expand"
    /\ instance.exists /\ Expansion(instance) # {}
    /\ instance.bound \cap BadBindings # {}
    /\ Return(t)
    /\ Fails(t)
    /\ UNCHANGED <<instance, rules, nextID, overlaps>>

(* A Save that inserts what is missing and leaves what is there. *)
SaveRuleMutantInsert(t) ==
    /\ pc[t] = "save"
    /\ \E x \in pending[t] :
          /\ rules' = [rules EXCEPT ![x] = IF @ = "absent" THEN "active" ELSE @]
          /\ IF pending[t] = {x}
               THEN Return(t)
               ELSE /\ pending' = [pending EXCEPT ![t] = @ \ {x}]
                    /\ UNCHANGED <<pc, req, alone>>
          /\ unsettled' = unsettled \ {x}
    /\ UNCHANGED <<instance, nextID, overlaps>>

(* One ReplaceOne of Save.  It replaces whatever is there, so a removed rule
   is active again. *)
SaveRule(t) ==
    /\ pc[t] = "save"
    /\ \E x \in pending[t] :
          /\ rules' = [rules EXCEPT ![x] = "active"]
          /\ IF pending[t] = {x}
               THEN Return(t)
               ELSE /\ pending' = [pending EXCEPT ![t] = @ \ {x}]
                    /\ UNCHANGED <<pc, req, alone>>
          /\ unsettled' = unsettled \ {x}
    /\ UNCHANGED <<instance, nextID, overlaps>>

(* DeleteMetadata marks the matching rules removed, one document at a time:
   an UpdateMany is not atomic over the documents it matches.  That there was
   nothing to remove is not an error for the caller. *)
DeleteMetadata(t) ==
    /\ pc[t] = "delete"
    /\ \E x \in pending[t] :
          /\ rules' = [rules EXCEPT ![x] =
                         IF @ = "active" THEN "removed" ELSE @]
          /\ pending' = [pending EXCEPT ![t] = @ \ {x}]
          /\ GoTo(t, IF pending[t] = {x} THEN "pull" ELSE "delete")
    /\ UNCHANGED <<instance, nextID, req, alone, overlaps, unsettled>>

(* The command on the instance that ends a removal. *)
Pulled(inst, r) ==
    CASE r.op = "Delete"        -> NoInstance
      [] r.op = "RemoveRule"    -> [inst EXCEPT !.bases =
                                      {b \in @ : b.id # r.id}]
      [] r.op = "RemoveBinding" -> [inst EXCEPT !.bound = @ \ {r.binding}]

Pull(t) ==
    /\ pc[t] = "pull"
    /\ instance' = Pulled(instance, req[t])
    /\ Return(t)
    /\ unsettled' = unsettled \cap Expansion(instance')
    /\ UNCHANGED <<rules, nextID, overlaps>>

(* A storage command fails, or the process dies: the request ends where it
   is, and nothing is undone. *)
Abort(t) ==
    /\ ~Idle(t)
    /\ Return(t)
    /\ Fails(t)
    /\ UNCHANGED <<instance, rules, nextID, overlaps>>

Step(t) ==
    \/ Insert(t) \/ FindRefuses(t) \/ FindAccepts(t) \/ PushRule(t) \/ Bind(t)
    \/ Expand(t) \/ ExpandNothing(t) \/ ExpandInvalid(t) \/ SaveRule(t)
    \/ DeleteMetadata(t) \/ Pull(t)

Next ==
    \E t \in Threads :
        \/ \E r \in Requests : Call(t, r)
        \/ Step(t)
        \/ Abort(t)

Spec == Init /\ [][Next]_vars

-----------------------------------------------------------------------------
(* Every variable has its type, and an instance that is gone has nothing. *)
TypeOK ==
    /\ instance \in Instances
    /\ instance.exists \/ instance = NoInstance
    /\ rules \in [RuleIDs -> RuleStates]
    /\ nextID \in 1..MaxBase + 1
    /\ pc \in [Threads -> Steps]
    /\ req \in [Threads -> Requests]
    /\ pending \in [Threads -> SUBSET RuleIDs]
    /\ alone \in [Threads -> BOOLEAN]
    /\ overlaps \in SUBSET {"mixed", "twice"}
    /\ unsettled \in SUBSET RuleIDs

Active == {x \in RuleIDs : rules[x] = "active"}
Quiescent == \A t \in Threads : Idle(t)

(* However requests overlap and whatever fails half way, when all have ended
   every base rule is in force for everything bound to the instance, except
   for rules that a request which failed was about and that nobody has written
   since: each request writes the instance before it reads it for the
   expansion, so the later of two reads sees both writes.  The rules of an
   AddRule that died before its Save stay missing when it is tried again,
   since the retry finds the base rule and is refused. *)
AllExpanded == Quiescent => Expansion(instance) \ Active \subseteq unsettled

(* As long as no addition overlaps a removal, no rule is in force without its
   base rule and binding, not even between two commands of a request or after
   one that failed half way: removals take the rules first, additions write
   them last, so neither a removal among removals nor an addition among
   additions can leave one. *)
OrphansNeedOverlap ==
    "mixed" \notin overlaps => Active \subseteq Expansion(instance)

(* A removal that runs alone leaves nothing of what it removes, whatever
   overlapping or failed requests left behind before. *)
RemovalCleans ==
    [][\A t \in Threads : alone[t] /\ Pull(t) =>
          \A x \in Active' :
             /\ req[t].op # "Delete"
             /\ req[t].op = "RemoveRule" => x[1] # req[t].id
             /\ req[t].op = "RemoveBinding" => x[2] # req[t].binding]_vars

(* An addition that runs alone to its end puts the whole instance in force
   again, whatever was missing before. *)
AdditionRepairs ==
    [][\A t \in Threads : alone[t] /\ SaveRule(t) /\ pc'[t] = "idle" =>
          Expansion(instance') \subseteq Active']_vars

(* When all requests have ended, no rule is in force for an app or job that is
   not bound, or for a base rule that is gone (service_test.go, RemoveApp:
   assert.True(t, rules[0].Removed) once the app is removed). *)
NoOrphans == Quiescent => Active \subseteq Expansion(instance)

(* AddRule looks for an equal base rule and pushes in two commands: only two
   of them that overlap can leave the instance with two equal base rules,
   whatever else is removed, deleted, created or fails in between. *)
EqualRulesNeedOverlap ==
    "twice" \notin overlaps =>
        \A b, c \in instance.bases : b.dest = c.dest => b = c
=============================================================================
