---------------------------- MODULE TsuruSnapshot ----------------------------
(***************************************************************************)
(* What the tsuru client promises to one SyncRules call.  Tsuru may change *)
(* between two requests, but a call sees one picture of it: each piece is  *)
(* learned at most once, and every answer that is not an error follows     *)
(* from the pieces learned so far, so that two rules of the call with the  *)
(* same source can only differ in that one of them failed.  The next call  *)
(* starts with an empty picture.                                           *)
(***************************************************************************)
EXTENDS Naturals, Sequences

CONSTANTS
    Threads,       \* the goroutines of the call, one for each engine
    Sources,       \* <<kind, name>>: what is asked of tsuru by name
    PoolNames      \* the names of pools

VARIABLES
    facts,     \* facts[s]: what is known of s
    clusters,  \* the list of clusters, once it is known
    answers    \* answers[t]: the latest answer thread t got for a rule

vars == <<facts, clusters, answers>>

Unknown == "unknown"
NotFound == "notFound"
NoList == [known |-> FALSE, list |-> <<>>]
NoAnswer == [source |-> <<>>, outcome |-> "error"]

Init ==
    /\ facts = [s \in Sources |-> Unknown]
    /\ clusters = NoList
    /\ answers = [t \in Threads |-> NoAnswer]

(* The cluster of a pool: the first that names it, or, when none does, the
   last default one; only clusters of kubernetes count, and it must be of
   use. *)
Naming(c, pool) == c.kubernetes /\ pool \in c.pools
Default(c) == c.kubernetes /\ c.default

IsClusterOf(list, i, pool) ==
    \/ /\ Naming(list[i], pool)
       /\ \A j \in 1..i - 1 : ~Naming(list[j], pool)
    \/ /\ Default(list[i])
       /\ \A j \in i + 1..Len(list) : ~Default(list[j])
       /\ \A j \in DOMAIN list : ~Naming(list[j], pool)

ClusterOf(list, pool) ==
    {list[i].name : i \in {j \in DOMAIN list :
                             list[j].usable /\ IsClusterOf(list, j, pool)}}

(* What the picture says of the pool of a source. *)
InPool(s, pool) ==
    IF s[1] = "pool" THEN s[2] = pool ELSE facts[s] = pool

(* An error, as any request may fail, or what follows from the picture. *)
Sound(a) ==
    \/ a.outcome = "error"
    \/ \E p \in PoolNames :
          /\ InPool(a.source, p)
          /\ \/ facts[<<"pool", p>>] = "other" /\ a.outcome = "ignored"
             \/ /\ facts[<<"pool", p>>] = "kubernetes"
                /\ clusters.known
                /\ a.outcome \in ClusterOf(clusters.list, p)

Learn ==
    \/ /\ \E s \in Sources :
             facts[s] = Unknown /\ facts' = [facts EXCEPT ![s] = facts'[s]]
       /\ UNCHANGED clusters
    \/ ~clusters.known /\ clusters'.known /\ UNCHANGED facts
    \/ UNCHANGED <<facts, clusters>>

Answer(t) ==
    /\ answers' = [answers EXCEPT ![t] = answers'[t]]
    /\ Sound(answers[t])'

NewCall ==
    /\ facts' = [s \in Sources |-> Unknown]
    /\ clusters' = NoList
    /\ answers' = [t \in Threads |-> NoAnswer]

Next ==
    \/ Learn /\ (UNCHANGED answers \/ \E t \in Threads : Answer(t))
    \/ NewCall

Spec == Init /\ [][Next]_vars
=============================================================================
