------------------------------ MODULE RulesAPI ------------------------------
(***************************************************************************)
(* The requests of the REST API for single rules (api/rule.go) and the     *)
(* rule storage under them (rule/service.go,                               *)
(* storage/mongodb/rulestorage.go), in one process with its connection     *)
(* (MongoConnection), which may die and be started again.                  *)
(*                                                                         *)
(* A rule is its name and whether it is removed.  Its id is made by newID  *)
(* when a request adds it, or put together by the service, whose Save      *)
(* replaces whatever has that id.  Names are unique by an index that every *)
(* process asks for once, before its first command, without a look at the  *)
(* answer.  A name may look like an id, and Find looks for either.  A rule *)
(* is never taken out of the collection.  That rules are valid is checked  *)
(* before anything changes, and requests that only read change nothing;    *)
(* neither is modelled.  What SyncRules does is RuleSync.                  *)
(***************************************************************************)
EXTENDS Naturals, FiniteSets

CONSTANTS
    Threads,       \* requests in progress
    RestIDs,       \* ids newID makes
    ServiceIDs,    \* ids of rules expanded from a service instance
    Names          \* names that requests give to rules

ASSUME IDsAssumption ==
    RestIDs \cap ServiceIDs = {} /\ "no id" \notin RestIDs \cup ServiceIDs
ASSUME NamesAssumption == "no name" \notin Names

VARIABLES
    docs,      \* docs[id]: the document in acl_rules
    indexed,   \* the unique index on the names exists
    ruleOnce,  \* this process has asked for the index
    step,      \* step[t]: what request t does next
    copy,      \* copy[t]: the rule it has for SyncRules
    handed,    \* the rules requests added that SyncRules has got
    owner,     \* owner[n]: the rule answered 201 for the name n
    lost,      \* rules added whose request has got no answer from the
               \* storage, or died with its process before SyncRules
    once, client, at, err, failed, alone

Conn == INSTANCE MongoConnection

ruleVars == <<docs, indexed, ruleOnce, step, copy, handed, owner, lost>>
connVars == <<once, client, at, err, failed, alone>>
vars == <<docs, indexed, ruleOnce, step, copy, handed, owner, lost,
          once, client, at, err, failed, alone>>

IDs == RestIDs \cup ServiceIDs
NoName == "no name"
NoID == "no id"

Documents == [exists : BOOLEAN, name : Names \cup {NoName}, removed : BOOLEAN]
NoDocument == [exists |-> FALSE, name |-> NoName, removed |-> FALSE]
Document(name, removed) == [exists |-> TRUE, name |-> name, removed |-> removed]

Steps == {"idle", "connect", "index", "command", "sync"}

Init ==
    /\ docs = [id \in IDs |-> NoDocument]
    /\ indexed = FALSE
    /\ ruleOnce = FALSE
    /\ step = [t \in Threads |-> "idle"]
    /\ copy = [t \in Threads |-> NoID]
    /\ handed = {}
    /\ owner = [n \in Names |-> NoID]
    /\ lost = {}
    /\ Conn!Init

GoTo(t, s) == step' = [step EXCEPT ![t] = s]
Idle(t) == step[t] = "idle"
Return(t) == GoTo(t, "idle") /\ copy' = [copy EXCEPT ![t] = NoID]

(* What is left to a request that calls SyncRules, or to the goroutine it
   starts for that. *)
ToSync(t, id) ==
    /\ GoTo(t, "sync")
    /\ copy' = [copy EXCEPT ![t] = id]

-----------------------------------------------------------------------------
(* A handler is called; GetRuleStorage is the first thing its service does.
   What the request asks for comes in with the command that it leads to. *)
Call(t) ==
    /\ Idle(t)
    /\ GoTo(t, "connect")
    /\ Conn!Begin(t)
    /\ UNCHANGED <<docs, indexed, ruleOnce, copy, handed, owner, lost>>

Connecting(t) ==
    /\ Conn!InDo(t)
    /\ UNCHANGED ruleVars

(* getRulesColl follows, and does something the first time only. *)
Connected(t) ==
    /\ Conn!Return(t)
    /\ client # "none"
    /\ GoTo(t, IF ruleOnce THEN "command" ELSE "index")
    /\ UNCHANGED <<docs, indexed, ruleOnce, copy, handed, owner, lost>>

(* A storage without a client panics on its first use, and the HTTP server
   ends the request. *)
Panic(t) ==
    /\ Conn!Return(t)
    /\ client = "none"
    /\ Return(t)
    /\ UNCHANGED <<docs, indexed, ruleOnce, handed, owner, lost>>

NotConnected(t) ==
    /\ Conn!ReturnError(t)
    /\ Return(t)
    /\ UNCHANGED <<docs, indexed, ruleOnce, handed, owner, lost>>

NamesDiffer ==
    \A i, j \in IDs :
        docs[i].name = docs[j].name /\ docs[i].name # NoName => i = j

(* getRulesColl asks for the index once for the process.  It may exist
   already, and cannot be made over documents that have the same name; an
   error goes unnoticed. *)
EnsureIndex(t) ==
    /\ step[t] = "index"
    /\ ruleOnce' = TRUE
    /\ indexed' \in IF ruleOnce \/ indexed THEN {indexed}
                    ELSE IF NamesDiffer THEN BOOLEAN ELSE {FALSE}
    /\ GoTo(t, "command")
    /\ UNCHANGED <<docs, copy, handed, owner, lost>>
    /\ UNCHANGED connVars

(* A check that lets the name of a removed rule be used again. *)
TakenMutantRemoved(name) ==
    \E id \in IDs : docs[id].name = name /\ ~docs[id].removed

(* The unique index holds every document that has a name, removed or not. *)
Taken(name) == \E id \in IDs : docs[id].name = name

Refused(name) == indexed /\ name # NoName /\ Taken(name)

Owned(name, id) ==
    owner' = IF name = NoName THEN owner ELSE [owner EXCEPT ![name] = id]

(* An addition that is never synced. *)
InsertMutantNoSync(t, name) ==
    /\ step[t] = "command"
    /\ ~Refused(name)
    /\ \E id \in RestIDs, removed \in BOOLEAN :
          /\ ~docs[id].exists
          /\ docs' = [docs EXCEPT ![id] = Document(name, removed)]
          /\ Owned(name, id)
          /\ Return(t)
    /\ UNCHANGED <<indexed, ruleOnce, handed, lost>>
    /\ UNCHANGED connVars

(* An addition that replaces the rule whose id its caller gives. *)
InsertMutantUpsert(t, name) ==
    /\ step[t] = "command"
    /\ ~Refused(name)
    /\ \E id \in RestIDs, removed \in BOOLEAN :
          /\ docs' = [docs EXCEPT ![id] = Document(name, removed)]
          /\ Owned(name, id)
          /\ ToSync(t, id)
    /\ UNCHANGED <<indexed, ruleOnce, handed, lost>>
    /\ UNCHANGED connVars

(* Save inserts what the request says, which may be a rule that is removed;
   the answer is 201, and the rule goes to SyncRules, in the request for those
   who wait and in a goroutine for others. *)
Insert(t, name) ==
    /\ step[t] = "command"
    /\ ~Refused(name)
    /\ \E id \in RestIDs, removed \in BOOLEAN :
          /\ ~docs[id].exists
          /\ docs' = [docs EXCEPT ![id] = Document(name, removed)]
          /\ Owned(name, id)
          /\ ToSync(t, id)
    /\ UNCHANGED <<indexed, ruleOnce, handed, lost>>
    /\ UNCHANGED connVars

(* The document is inserted, and the caller gets an error. *)
InsertUnanswered(t, name) ==
    /\ step[t] = "command"
    /\ ~Refused(name)
    /\ \E id \in RestIDs, removed \in BOOLEAN :
          /\ ~docs[id].exists
          /\ docs' = [docs EXCEPT ![id] = Document(name, removed)]
          /\ lost' = lost \cup {id}
    /\ Return(t)
    /\ UNCHANGED <<indexed, ruleOnce, handed, owner>>
    /\ UNCHANGED connVars

(* 409: the name is in use. *)
InsertRefused(t, name) ==
    /\ step[t] = "command"
    /\ Refused(name)
    /\ Return(t)
    /\ UNCHANGED <<docs, indexed, ruleOnce, handed, owner, lost>>
    /\ UNCHANGED connVars

(* An update of "removed" that is an upsert. *)
DeleteMutantUpsert(t, id) ==
    /\ step[t] = "command"
    /\ docs' = [docs EXCEPT ![id].removed = TRUE]
    /\ Return(t)
    /\ UNCHANGED <<indexed, ruleOnce, handed, owner, lost>>
    /\ UNCHANGED connVars

(* UpdateMany by _id; 404 when there is nothing to change. *)
Delete(t, id) ==
    /\ step[t] = "command"
    /\ docs' = IF docs[id].exists THEN [docs EXCEPT ![id].removed = TRUE]
                                  ELSE docs
    /\ Return(t)
    /\ UNCHANGED <<indexed, ruleOnce, handed, owner, lost>>
    /\ UNCHANGED connVars

(* The Save of an expansion replaces the document, or makes it. *)
Replace(t, id) ==
    /\ step[t] = "command"
    /\ docs' = [docs EXCEPT ![id] = Document(NoName, FALSE)]
    /\ ToSync(t, id)
    /\ UNCHANGED <<indexed, ruleOnce, handed, owner, lost>>
    /\ UNCHANGED connVars

(* The document is replaced, and Save returns an error. *)
ReplaceUnanswered(t, id) ==
    /\ step[t] = "command"
    /\ docs' = [docs EXCEPT ![id] = Document(NoName, FALSE)]
    /\ Return(t)
    /\ UNCHANGED <<indexed, ruleOnce, handed, owner, lost>>
    /\ UNCHANGED connVars

(* Find by id or by name; the first of several is any of them. *)
Matches(x) == {id \in IDs : docs[id].exists /\ (id = x \/ docs[id].name = x)}

Find(t, x) ==
    /\ step[t] = "command"
    /\ \E id \in Matches(x) : ToSync(t, id)
    /\ UNCHANGED <<docs, indexed, ruleOnce, handed, owner, lost>>
    /\ UNCHANGED connVars

FindNothing(t, x) ==
    /\ step[t] = "command"
    /\ Matches(x) = {}
    /\ Return(t)
    /\ UNCHANGED <<docs, indexed, ruleOnce, handed, owner, lost>>
    /\ UNCHANGED connVars

(* A command fails and changes nothing. *)
CommandFails(t) ==
    /\ step[t] = "command"
    /\ Return(t)
    /\ UNCHANGED <<docs, indexed, ruleOnce, handed, owner, lost>>
    /\ UNCHANGED connVars

SyncRules(t) ==
    /\ step[t] = "sync"
    /\ handed' = handed \cup ({copy[t]} \cap RestIDs)
    /\ Return(t)
    /\ UNCHANGED <<docs, indexed, ruleOnce, owner, lost>>
    /\ UNCHANGED connVars

InHands == {copy[t] : t \in Threads}

(* The process ends, at any time or because its sync.Once is broken, and
   another is started; what it had not given to SyncRules is forgotten. *)
Crash ==
    /\ step' = [t \in Threads |-> "idle"]
    /\ copy' = [t \in Threads |-> NoID]
    /\ ruleOnce' = FALSE
    /\ lost' = lost \cup (InHands \cap RestIDs)
    /\ Conn!Restart
    /\ UNCHANGED <<docs, indexed, handed, owner>>

Command(t) ==
    \/ \E name \in Names \cup {NoName} :
          Insert(t, name) \/ InsertUnanswered(t, name) \/ InsertRefused(t, name)
    \/ \E id \in IDs : Delete(t, id)
    \/ \E id \in ServiceIDs : Replace(t, id) \/ ReplaceUnanswered(t, id)
    \/ \E x \in IDs \cup Names : Find(t, x) \/ FindNothing(t, x)
    \/ CommandFails(t)

Request(t) ==
    \/ Call(t) \/ Connecting(t) \/ Connected(t) \/ Panic(t)
    \/ NotConnected(t) \/ EnsureIndex(t) \/ Command(t) \/ SyncRules(t)

Next == Crash \/ \E t \in Threads : Request(t)

Spec == Init /\ [][Next]_vars

-----------------------------------------------------------------------------
(* Every variable has its type, a document that was never saved has nothing
   in it, and a request is in createConn while it connects. *)
TypeOK ==
    /\ docs \in [IDs -> Documents]
    /\ \A id \in IDs : docs[id].exists \/ docs[id] = NoDocument
    /\ indexed \in BOOLEAN
    /\ ruleOnce \in BOOLEAN
    /\ step \in [Threads -> Steps]
    /\ copy \in [Threads -> IDs \cup {NoID}]
    /\ \A t \in Threads : copy[t] # NoID <=> step[t] = "sync"
    /\ handed \in SUBSET RestIDs
    /\ owner \in [Names -> RestIDs \cup {NoID}]
    /\ lost \in SUBSET RestIDs
    /\ Conn!TypeOK
    /\ \A t \in Threads : at[t] # "out" <=> step[t] = "connect"

(* Once the index is there, a name that a caller was given for a rule means
   that rule for ever: no other rule ever has it, not even when the rule is
   removed, the process starts again, or another request adds the same name at
   the same time.  That includes the names that were given before, by a
   process whose request for the index had failed. *)
NameKeepsItsRule ==
    indexed =>
        \A n \in Names : owner[n] # NoID =>
            \A id \in IDs : docs[id].name = n <=> id = owner[n]

(* Every rule that was added has been given to SyncRules or is in the hands of
   a request that will do it, whether its caller waits or not, over failures
   and crashes: an engine can only miss a rule whose insert has got no answer,
   or whose process died with the rule in the hands of its request. *)
AddedIsSynced ==
    \A id \in RestIDs : docs[id].exists => id \in handed \cup lost \cup InHands

(* Only the expansion of a service instance puts a removed rule in force
   again; a rule that was added by a request stays removed, whatever else is
   under way. *)
RemovedStaysRemoved ==
    [][\A id \in RestIDs : docs[id].removed => docs'[id].removed]_vars

OneClient == Conn!OneClient
NoClientNeedsOverlap == Conn!NoClientNeedsOverlap
=============================================================================
