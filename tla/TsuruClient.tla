----------------------------- MODULE TsuruClient -----------------------------
(***************************************************************************)
(* One SyncRules call and its questions to tsuru.  Every engine runs in a  *)
(* goroutine of its own and goes through the same rules (engine/engine.go, *)
(* engine/operator/engine.go); all of them share one logic cache           *)
(* (rule/logic.go) and through it one tsuru client with its caches         *)
(* (external/tsuru.go).  For each rule the source is resolved to a pool    *)
(* (rule/tsuru_app.go, rule/tsuru_job.go), the pool to a cluster, and the  *)
(* cluster to a configuration (kubernetes/client.go).                      *)
(*                                                                         *)
(* t.Mutex guards the maps of the client and is held while the list of     *)
(* clusters is requested; every entry of a map has a mutex that is held    *)
(* while that entry is requested.  What tsuru replies is arbitrary and may *)
(* change from one request to the next; a request ends, with a failure if  *)
(* need be, when http.timeout is over.  Sources are valid (Validate): an   *)
(* app, a job, or a pool by its name.  The logic objects of the logic      *)
(* cache are functions of the source, so its lock and its map are part of  *)
(* Start.  What the engine does with the configuration is OperatorEngine.  *)
(***************************************************************************)
EXTENDS Naturals, Sequences, FiniteSetsExt

CONSTANTS
    Threads,       \* the goroutines of a call, one for each engine
    Apps, Jobs,    \* their names
    PoolNames,     \* names of pools
    Clusters,      \* clusters that may be in a list: records with name,
                   \* kubernetes, default, pools, usable
    ClusterLists,  \* the lists that tsuru may reply
    Batches        \* the sequences of sources of the rules of a call

Keys == ({"app"} \X Apps) \cup ({"job"} \X Jobs) \cup ({"pool"} \X PoolNames)

ASSUME ListsAssumption == ClusterLists \subseteq Seq(Clusters)
ASSUME BatchesAssumption == Batches \subseteq Seq(Keys)
(* A pool is not called what else an entry or a reply may be. *)
ASSUME PoolNamesAssumption ==
    PoolNames \cap {"", "unknown", "notFound", "kubernetes", "other", "error",
                    "empty", "404", "failed"} = {}

VARIABLES
    batch,     \* the sources of the rules of this call
    mutex,     \* t.Mutex is held
    locked,    \* the entries whose mutex is held
    entries,   \* entries[k]: appInfoCache, jobInfoCache, poolCache
    clusters,  \* clustersCache
    pc,        \* pc[t]: what thread t does next
    next,      \* next[t]: the rule it is at
    key,       \* key[t]: the entry it needs
    answer     \* answer[t]: the latest answer it got for a rule

vars == <<batch, mutex, locked, entries, clusters, pc, next, key, answer>>

Unknown == "unknown"
NotFound == "notFound"
NoPool == ""
NoList == [known |-> FALSE, list |-> <<>>]
NoAnswer == [source |-> <<>>, outcome |-> "error"]
NoKey == <<>>

(* What an entry may hold: of an app or a job its pool, of a pool its
   provisioner.  Only apps and jobs remember that they were not found. *)
Contents(k) ==
    CASE k[1] = "app"  -> PoolNames \cup {Unknown, NotFound}
      [] k[1] = "job"  -> PoolNames \cup {NoPool, Unknown, NotFound}
      [] k[1] = "pool" -> {"kubernetes", "other", Unknown}

Outcomes == {"error", "ignored"} \cup {c.name : c \in Clusters}

(* What tsuru may reply: data, data that lacks what is needed, status 404, or
   anything else that doRequest makes an error of. *)
Replies(k) ==
    (Contents(k) \ {Unknown, NotFound}) \cup {"empty", "404", "failed"}

Steps == {"start", "lookup", "enter", "asking", "list", "asking list"}

Init ==
    /\ batch \in Batches
    /\ mutex = FALSE
    /\ locked = {}
    /\ entries = [k \in Keys |-> Unknown]
    /\ clusters = NoList
    /\ pc = [t \in Threads |-> "start"]
    /\ next = [t \in Threads |-> 1]
    /\ key = [t \in Threads |-> NoKey]
    /\ answer = [t \in Threads |-> NoAnswer]

Done(t) == pc[t] = "start" /\ next[t] > Len(batch)
AllDone == \A t \in Threads : Done(t)

-----------------------------------------------------------------------------
(* The end of KubernetesRestConfig for the rule thread t is at. *)
Answer(t, outcome) ==
    /\ answer' = [answer EXCEPT ![t] = [source |-> batch[next[t]],
                                        outcome |-> outcome]]
    /\ next' = [next EXCEPT ![t] = @ + 1]
    /\ key' = [key EXCEPT ![t] = NoKey]
    /\ pc' = [pc EXCEPT ![t] = "start"]

GoTo(t, step, k) ==
    /\ pc' = [pc EXCEPT ![t] = step]
    /\ key' = [key EXCEPT ![t] = k]
    /\ UNCHANGED <<next, answer>>

(* What getPool and KubernetesRestConfig make of the content of an entry. *)
Proceed(t, content) ==
    CASE content \in {"error", NotFound, NoPool, "other"} ->
            Answer(t, IF content = "other" THEN "ignored" ELSE "error")
      [] content = "kubernetes" -> GoTo(t, "list", key[t])
      [] content \in PoolNames  -> GoTo(t, "lookup", <<"pool", content>>)

(* PoolCluster: clusters of kubernetes only; the first that names the pool is
   taken, or else the last default one.  RestConfig refuses a cluster without
   an address or with a bad kube config. *)
PoolCluster(list, pool) ==
    LET kubernetes == {i \in DOMAIN list : list[i].kubernetes}
        naming     == {i \in kubernetes : pool \in list[i].pools}
        defaults   == {i \in kubernetes : list[i].default}
    IN  IF naming # {} THEN {list[Min(naming)]}
        ELSE IF defaults # {} THEN {list[Max(defaults)]}
        ELSE {}

RestConfig(chosen) ==
    IF \E c \in chosen : c.usable THEN (CHOOSE c \in chosen : TRUE).name
                                  ELSE "error"

AnswerCluster(t, list) ==
    Answer(t, RestConfig(PoolCluster(list, key[t][2])))

-----------------------------------------------------------------------------
(* The engine takes its next rule, and LogicFromRule its source. *)
Start(t) ==
    /\ pc[t] = "start" /\ ~Done(t)
    /\ GoTo(t, "lookup", batch[next[t]])
    /\ UNCHANGED <<batch, mutex, locked, entries, clusters>>

(* AppInfo, JobInfo and PoolInfo find or make the entry under t.Mutex. *)
Lookup(t) ==
    /\ pc[t] = "lookup"
    /\ ~mutex
    /\ GoTo(t, "enter", key[t])
    /\ UNCHANGED <<batch, mutex, locked, entries, clusters>>

(* The entry knows the answer already. *)
Hit(t) ==
    /\ pc[t] = "enter"
    /\ key[t] \notin locked
    /\ entries[key[t]] # Unknown
    /\ Proceed(t, entries[key[t]])
    /\ UNCHANGED <<batch, mutex, locked, entries, clusters>>

(* An Ask that does not keep the mutex of the entry. *)
AskMutantUnlocked(t) ==
    /\ pc[t] = "enter"
    /\ key[t] \notin locked
    /\ entries[key[t]] = Unknown
    /\ GoTo(t, "asking", key[t])
    /\ UNCHANGED <<batch, mutex, locked, entries, clusters>>

(* The entry is requested under its mutex. *)
Ask(t) ==
    /\ pc[t] = "enter"
    /\ key[t] \notin locked
    /\ entries[key[t]] = Unknown
    /\ locked' = locked \cup {key[t]}
    /\ GoTo(t, "asking", key[t])
    /\ UNCHANGED <<batch, mutex, entries, clusters>>

(* A cache that remembers every 404. *)
RememberMutantPools(k, reply) ==
    CASE reply = "404"                -> NotFound
      [] reply \in {"empty", "failed"} -> Unknown
      [] OTHER                         -> reply

(* What a reply leaves in the entry: data, or for an app or a job the fact
   that there is none.  Every other error is forgotten. *)
Remember(k, reply) ==
    CASE reply = "404" /\ k[1] # "pool"        -> NotFound
      [] reply = "404" /\ k[1] = "pool"        -> Unknown
      [] reply \in {"empty", "failed"}         -> Unknown
      [] reply \notin {"404", "empty", "failed"} -> reply

Reply(t) ==
    /\ pc[t] = "asking"
    /\ \E reply \in Replies(key[t]) :
          /\ entries' = [entries EXCEPT ![key[t]] = Remember(key[t], reply)]
          /\ Proceed(t, IF reply \in {"404", "empty", "failed"} THEN "error"
                                                                ELSE reply)
    /\ locked' = locked \ {key[t]}
    /\ UNCHANGED <<batch, mutex, clusters>>

(* A check by length, for which an empty list is no list. *)
ListKnownMutantLen == clusters.known /\ clusters.list # <<>>

(* clustersCache is not nil. *)
ListKnown == clusters.known

ListHit(t) ==
    /\ pc[t] = "list"
    /\ ~mutex /\ ListKnown
    /\ AnswerCluster(t, clusters.list)
    /\ UNCHANGED <<batch, mutex, locked, entries, clusters>>

(* Clusters requests the list under t.Mutex. *)
ListAsk(t) ==
    /\ pc[t] = "list"
    /\ ~mutex /\ ~ListKnown
    /\ mutex' = TRUE
    /\ GoTo(t, "asking list", key[t])
    /\ UNCHANGED <<batch, locked, entries, clusters>>

(* A list, which may be empty. *)
ListReply(t) ==
    /\ pc[t] = "asking list"
    /\ mutex' = FALSE
    /\ \E list \in ClusterLists :
          /\ clusters' = [known |-> TRUE, list |-> list]
          /\ AnswerCluster(t, list)
    /\ UNCHANGED <<batch, locked, entries>>

(* An error that returns without the unlock. *)
ListFailsMutantLocked(t) ==
    /\ pc[t] = "asking list"
    /\ Answer(t, "error")
    /\ UNCHANGED <<batch, mutex, locked, entries, clusters>>

(* An error, or the JSON value null: no list is kept, and no cluster found. *)
ListFails(t) ==
    /\ pc[t] = "asking list"
    /\ mutex' = FALSE
    /\ Answer(t, "error")
    /\ UNCHANGED <<batch, locked, entries, clusters>>

(* SyncRules has waited for every engine; the next call has caches of its own. *)
NewCall ==
    /\ AllDone
    /\ batch' \in Batches
    /\ entries' = [k \in Keys |-> Unknown]
    /\ clusters' = NoList
    /\ next' = [t \in Threads |-> 1]
    /\ answer' = [t \in Threads |-> NoAnswer]
    /\ UNCHANGED <<mutex, locked, pc, key>>

Thread(t) ==
    \/ Start(t) \/ Lookup(t) \/ Hit(t) \/ Ask(t) \/ Reply(t)
    \/ ListHit(t) \/ ListAsk(t) \/ ListReply(t) \/ ListFails(t)

Next == NewCall \/ \E t \in Threads : Thread(t)

Spec == Init /\ [][Next]_vars

(* The goroutines are scheduled, and http.timeout bounds every request. *)
FairSpec == Spec /\ \A t \in Threads : WF_vars(Thread(t))

-----------------------------------------------------------------------------
(* Every variable has its type; above all, no entry remembers what it must
   not: an error other than a 404, a missing pool, or data without a pool. *)
TypeOK ==
    /\ batch \in Batches
    /\ mutex \in BOOLEAN
    /\ locked \in SUBSET Keys
    /\ \A k \in Keys : entries[k] \in Contents(k)
    /\ clusters \in [known : BOOLEAN, list : ClusterLists \cup {<<>>}]
    /\ pc \in [Threads -> Steps]
    /\ next \in [Threads -> 1..Len(batch) + 1]
    /\ key \in [Threads -> Keys \cup {NoKey}]
    /\ answer \in [Threads -> [source : Keys \cup {NoAnswer.source},
                               outcome : Outcomes]]

(* Whatever the engines of a call do at the same time, tsuru never gets the
   same question twice at once, nor one the call has the answer to. *)
SingleFlight ==
    \A t \in Threads :
        /\ pc[t] = "asking" =>
              /\ entries[key[t]] = Unknown
              /\ \A u \in Threads \ {t} : pc[u] = "asking" => key[u] # key[t]
        /\ pc[t] = "asking list" =>
              /\ ~clusters.known
              /\ \A u \in Threads \ {t} : pc[u] # "asking list"

(* A thread waits for nothing but a request that another one has under way,
   and that one waits for nobody: the mutex of the client and those of the
   entries never make a circle, and no error leaves one held. *)
OnlyRequestsWait ==
    \A t \in Threads :
        /\ pc[t] \in {"lookup", "list"} /\ mutex =>
              \E u \in Threads : pc[u] = "asking list"
        /\ pc[t] = "enter" /\ key[t] \in locked =>
              \E u \in Threads : pc[u] = "asking" /\ key[u] = key[t]

Snapshot == INSTANCE TsuruSnapshot WITH
    Sources <- Keys, facts <- entries, answers <- answer

(* However tsuru changes in the meantime and however the engines interleave,
   a call sees one picture of it: no piece is ever learned twice, all answers
   follow from the pieces, and nothing is carried over to the next call. *)
ImplementsSnapshot == Snapshot!Spec

(* SyncRules returns: no engine waits for ever on a mutex that another holds
   across a request, and a request that fails releases it too. *)
SyncRulesReturns == []<>AllDone
=============================================================================
