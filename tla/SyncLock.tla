------------------------------ MODULE SyncLock ------------------------------
(***************************************************************************)
(* What the sync storage promises of the lease it hands out                *)
(* (storage/storage.go, SyncStorage) as long as nobody forces a sync: no   *)
(* clock, no pings and no timeouts.  A rule is synced by one worker at a   *)
(* time; the result of a sync is recorded by the worker that holds the     *)
(* lease, once, in the step that gives the lease back; a lease whose       *)
(* worker is gone stays marked as running until the next worker takes it.  *)
(* RuleSync implements this module.                                        *)
(***************************************************************************)
EXTENDS Naturals, Sequences

CONSTANTS
    Keys,          \* pairs (rule id, engine)
    Workers,       \* goroutines that run engineSync
    Results,       \* what a sync can leave behind
    HistoryLimit   \* results that are kept

VARIABLES
    holders,   \* holders[k]: the workers that hold the lease of k
    running,   \* running[k]: what the storage says of the lease
    results    \* results[k]: the newest results, oldest first

vars == <<holders, running, results>>

Init ==
    /\ holders = [k \in Keys |-> {}]
    /\ running = [k \in Keys |-> FALSE]
    /\ results = [k \in Keys |-> <<>>]

(* The lease is free, or the worker that had it is gone. *)
Acquire(w, k) ==
    /\ holders[k] = {}
    /\ holders' = [holders EXCEPT ![k] = {w}]
    /\ running' = [running EXCEPT ![k] = TRUE]
    /\ UNCHANGED results

(* The lease is taken, and the worker that asked for it never learns. *)
AcquireUnanswered(k) ==
    /\ holders[k] = {}
    /\ running' = [running EXCEPT ![k] = TRUE]
    /\ UNCHANGED <<holders, results>>

Newest(all) == IF Len(all) <= HistoryLimit THEN all ELSE Tail(all)

Release(w, k, result) ==
    /\ holders[k] = {w}
    /\ holders' = [holders EXCEPT ![k] = {}]
    /\ running' = [running EXCEPT ![k] = FALSE]
    /\ results' = [results EXCEPT ![k] = Newest(Append(@, result))]

(* Workers end without a result that is recorded: their process dies, or the
   storage does not answer. *)
Abandon(gone) ==
    /\ holders' = [k \in Keys |-> holders[k] \ gone]
    /\ UNCHANGED <<running, results>>

Next ==
    \/ \E k \in Keys, w \in Workers :
          \/ Acquire(w, k)
          \/ \E result \in Results : Release(w, k, result)
    \/ \E k \in Keys : AcquireUnanswered(k)
    \/ \E gone \in SUBSET Workers : Abandon(gone)

Spec == Init /\ [][Next]_vars
=============================================================================
