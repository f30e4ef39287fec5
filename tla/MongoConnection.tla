--------------------------- MODULE MongoConnection ---------------------------
(***************************************************************************)
(* The connection a process has to MongoDB (storage/mongodb/base.go).      *)
(* Every storage call begins with createConn, which connects inside        *)
(* once.Do.  An attempt that fails puts a fresh sync.Once in the place of  *)
(* the old one, whoever is in it or waits for it, and only the caller that *)
(* made the attempt learns that it failed: err belongs to the call, the    *)
(* client to the process.                                                  *)
(*                                                                         *)
(* sync.Once is a flag and a mutex.  To overwrite a mutex that is in use   *)
(* is a data race; what it can come to is modelled like this: goroutines   *)
(* that wait may be forgotten for ever, or go on as if they had just come; *)
(* one that has it goes on without it, and ends the process when it        *)
(* unlocks it ("unlock of unlocked mutex").  The module has no Next: the   *)
(* module that uses it says when a call begins.                            *)
(***************************************************************************)
CONSTANTS Threads      \* goroutines of the process that use the storage

VARIABLES
    once,        \* the flag and the mutex of the sync.Once
    client,      \* the client of the process
    at,          \* at[t]: where t is in createConn
    err,         \* err[t]: the attempt of t failed
    failed,      \* an attempt of this process has failed
    alone        \* alone[t]: no other call has overlapped that of t so far

(* "none": nil.  "opened": mongo.Connect returned it, but Ping failed. *)
ClientStates == {"none", "opened", "ready"}
Places == {"out", "lock", "locked", "connecting", "unlock", "checking", "lost"}

NewOnce == [done |-> FALSE, locked |-> FALSE]

Init ==
    /\ once = NewOnce
    /\ client = "none"
    /\ at = [t \in Threads |-> "out"]
    /\ err = [t \in Threads |-> FALSE]
    /\ failed = FALSE
    /\ alone = [t \in Threads |-> FALSE]

Out(t) == at[t] \in {"out", "lost"}
Move(t, place) == at' = [at EXCEPT ![t] = place]

(* createConn is called, and once.Do looks at the flag without the mutex. *)
Begin(t) ==
    /\ at[t] = "out"
    /\ Move(t, IF once.done THEN "checking" ELSE "lock")
    /\ alone' = [u \in Threads |->
          IF u = t THEN \A v \in Threads \ {t} : Out(v)
                   ELSE alone[u] /\ Out(u)]
    /\ UNCHANGED <<once, client, err, failed>>

(* A check for a connection without a lock around check and connection. *)
LockMutantNone(t) ==
    /\ at[t] = "lock"
    /\ once' = [once EXCEPT !.locked = TRUE]
    /\ Move(t, "locked")
    /\ UNCHANGED <<client, err, failed, alone>>

Lock(t) ==
    /\ at[t] = "lock"
    /\ ~once.locked
    /\ once' = [once EXCEPT !.locked = TRUE]
    /\ Move(t, "locked")
    /\ UNCHANGED <<client, err, failed, alone>>

(* It looks again under the mutex. *)
Look(t) ==
    /\ at[t] = "locked"
    /\ Move(t, IF once.done THEN "unlock" ELSE "connecting")
    /\ UNCHANGED <<once, client, err, failed, alone>>

Connect(t) ==
    /\ at[t] = "connecting"
    /\ client' = "ready"
    /\ once' = [once EXCEPT !.done = TRUE]
    /\ Move(t, "unlock")
    /\ UNCHANGED <<err, failed, alone>>

(* The address is no good and the client stays what it was, mongo.Connect
   fails, or Ping does.  Do counts this as done. *)
ConnectFails(t) ==
    /\ at[t] = "connecting"
    /\ client' \in {client, "none", "opened"}
    /\ once' = [once EXCEPT !.done = TRUE]
    /\ err' = [err EXCEPT ![t] = TRUE]
    /\ failed' = TRUE
    /\ Move(t, "unlock")
    /\ UNCHANGED alone

(* When the mutex was overwritten meanwhile, this ends the process: t is
   stuck until it does. *)
Unlock(t) ==
    /\ at[t] = "unlock"
    /\ once.locked
    /\ once' = [once EXCEPT !.locked = FALSE]
    /\ Move(t, "checking")
    /\ UNCHANGED <<client, err, failed, alone>>

(* Whoever made no attempt, or a good one, takes the client there is. *)
Return(t) ==
    /\ at[t] = "checking"
    /\ ~err[t]
    /\ Move(t, "out")
    /\ alone' = [alone EXCEPT ![t] = FALSE]
    /\ UNCHANGED <<once, client, err, failed>>

(* A failure that leaves the sync.Once as it is. *)
ReturnErrorMutantKeeps(t) ==
    /\ at[t] = "checking"
    /\ err[t]
    /\ Move(t, "out")
    /\ err' = [err EXCEPT ![t] = FALSE]
    /\ alone' = [alone EXCEPT ![t] = FALSE]
    /\ UNCHANGED <<once, client, failed>>

(* once = sync.Once{}, under the feet of everyone else. *)
ReturnError(t) ==
    /\ at[t] = "checking"
    /\ err[t]
    /\ once' = NewOnce
    /\ \E lost \in SUBSET {u \in Threads : at[u] = "lock"} :
          at' = [u \in Threads |-> IF u \in lost THEN "lost"
                                   ELSE IF u = t THEN "out" ELSE at[u]]
    /\ err' = [err EXCEPT ![t] = FALSE]
    /\ alone' = [alone EXCEPT ![t] = FALSE]
    /\ UNCHANGED <<client, failed>>

(* The steps inside createConn, up to its return. *)
InDo(t) ==
    Lock(t) \/ Look(t) \/ Connect(t) \/ ConnectFails(t) \/ Unlock(t)

(* A new process. *)
Restart ==
    /\ once' = NewOnce
    /\ client' = "none"
    /\ at' = [t \in Threads |-> "out"]
    /\ err' = [t \in Threads |-> FALSE]
    /\ failed' = FALSE
    /\ alone' = [t \in Threads |-> FALSE]

-----------------------------------------------------------------------------
(* Every variable has its type. *)
TypeOK ==
    /\ once \in [done : BOOLEAN, locked : BOOLEAN]
    /\ client \in ClientStates
    /\ at \in [Threads -> Places]
    /\ err \in [Threads -> BOOLEAN]
    /\ failed \in BOOLEAN
    /\ alone \in [Threads -> BOOLEAN]

(* As long as no attempt has failed, a process connects once however many
   requests come first at the same time, and every storage that is handed out
   has that one client. *)
OneClient ==
    ~failed => \A t \in Threads :
        /\ at[t] = "connecting" =>
              client = "none" /\ \A u \in Threads \ {t} : at[u] # "connecting"
        /\ at[t] = "checking" => client = "ready"

(* A caller gets a storage without a client that was ever there, and no error,
   only when its call overlaps that of another: whatever failed before, even
   in calls that broke the sync.Once for each other, a call that is alone
   gets the client, or an error of its own. *)
NoClientNeedsOverlap ==
    \A t \in Threads : alone[t] /\ at[t] = "checking" /\ ~err[t] =>
                           client = "ready"
=============================================================================
