-------------------------- MODULE TsuruClientProofs --------------------------
(***************************************************************************)
(* Proofs about TsuruClient: no question is asked twice, and a call sees   *)
(* one picture of tsuru, for any number of threads, any rules and whatever *)
(* tsuru replies.                                                          *)
(***************************************************************************)
EXTENDS TsuruClient, TLAPS, WellFoundedInduction

AllContents ==
    PoolNames \cup {NoPool, Unknown, NotFound, "kubernetes", "other"}

Names == Apps \cup Jobs \cup PoolNames

(* Every variable has its type, as far as it is needed. *)
ClientType ==
    /\ batch \in Batches
    /\ entries \in [Keys -> AllContents]
    /\ \A k \in Keys : entries[k] \in Contents(k)
    /\ clusters \in [known : BOOLEAN, list : Seq(Clusters)]
    /\ pc \in [Threads -> Steps]
    /\ next \in [Threads -> Nat \ {0}]
    /\ key \in [Threads -> Keys \cup {NoKey}]
    /\ answer = [t \in Threads |-> answer[t]]

(* A thread that is at a rule asks for its source, or for a pool that the
   source is known to be in; it looks for a cluster for pools of kubernetes. *)
Belongs(facts, s, pool) ==
    IF s[1] = "pool" THEN s[2] = pool ELSE facts[s] = pool

Way(t) ==
    /\ key[t] \in Keys
    /\ next[t] <= Len(batch)
    /\ key[t] = batch[next[t]] \/ key[t][1] = "pool"
    /\ key[t][1] = "pool" => Belongs(entries, batch[next[t]], key[t][2])
    /\ pc[t] \in {"list", "asking list"} => entries[key[t]] = "kubernetes"

OnTheWay == \A t \in Threads : pc[t] # "start" => Way(t)

(* Whoever asks has the mutex, and the answer is not there yet. *)
AskedOnce ==
    \A t \in Threads : pc[t] = "asking" =>
        /\ entries[key[t]] = Unknown
        /\ key[t] \in locked
        /\ \A u \in Threads \ {t} : pc[u] = "asking" => key[u] # key[t]

ListAskedOnce ==
    \A t \in Threads : pc[t] = "asking list" =>
        /\ ~clusters.known
        /\ mutex
        /\ \A u \in Threads \ {t} : pc[u] # "asking list"

IInv == ClientType /\ OnTheWay /\ AskedOnce /\ ListAskedOnce

LEMMA KeyParts ==
    ASSUME NEW k \in Keys
    PROVE  /\ k = <<k[1], k[2]>>
           /\ k[1] \in {"app", "job", "pool"}
           /\ k[1] = "pool" => k[2] \in PoolNames
           /\ Contents(k) \subseteq AllContents
           /\ Unknown \in Contents(k)
           /\ k[1] = "pool" => Contents(k) = {"kubernetes", "other", Unknown}
           /\ k[1] # "pool" => Contents(k) \subseteq
                                 PoolNames \cup {NoPool, Unknown, NotFound}
<1>1. /\ k = <<k[1], k[2]>>
      /\ k[1] \in {"app", "job", "pool"}
      /\ k[1] = "pool" => k[2] \in PoolNames
  BY DEF Keys
<1>2. CASE k[1] = "app"
  BY <1>1, <1>2 DEF Contents, AllContents
<1>3. CASE k[1] = "job"
  BY <1>1, <1>3 DEF Contents, AllContents
<1>4. CASE k[1] = "pool"
  BY <1>1, <1>4 DEF Contents, AllContents
<1> QED
  BY <1>1, <1>2, <1>3, <1>4

LEMMA PoolKey == ASSUME NEW p \in PoolNames PROVE <<"pool", p>> \in Keys
BY DEF Keys

LEMMA BatchKeys ==
    ASSUME NEW b \in Batches, NEW i \in 1..Len(b)
    PROVE  b[i] \in Keys
BY BatchesAssumption

(* Where a thread can go with what it has learned. *)
LEMMA ProceedSteps ==
    ASSUME NEW t \in Threads,
           NEW content \in (AllContents \ {Unknown}) \cup {"error"},
           Proceed(t, content)
    PROVE  \/ content \in {"error", NotFound, NoPool} /\ Answer(t, "error")
           \/ content = "other" /\ Answer(t, "ignored")
           \/ content = "kubernetes" /\ GoTo(t, "list", key[t])
           \/ content \in PoolNames /\ GoTo(t, "lookup", <<"pool", content>>)
<1>1. CASE content \in {"error", NotFound, NoPool, "other"}
  <2>1. content # "kubernetes" /\ content \notin PoolNames
    BY <1>1, PoolNamesAssumption DEF NotFound, NoPool
  <2>2. Answer(t, IF content = "other" THEN "ignored" ELSE "error")
    BY <1>1, <2>1 DEF Proceed
  <2> QED
    BY <1>1, <2>2 DEF NotFound, NoPool
<1>2. CASE content = "kubernetes"
  <2>1. content \notin {"error", NotFound, NoPool, "other"} \cup PoolNames
    BY <1>2, PoolNamesAssumption DEF NotFound, NoPool
  <2> QED
    BY <1>2, <2>1 DEF Proceed
<1>3. CASE content \in PoolNames
  <2>1. content \notin {"error", NotFound, NoPool, "other", "kubernetes"}
    BY <1>3, PoolNamesAssumption DEF NotFound, NoPool
  <2> QED
    BY <1>3, <2>1 DEF Proceed
<1> QED
  BY <1>1, <1>2, <1>3 DEF AllContents

(* What the steps of a thread have in common. *)
LEMMA AnswerSteps ==
    ASSUME ClientType, NEW t \in Threads, NEW o, Answer(t, o)
    PROVE  /\ pc'[t] = "start"
           /\ \A u \in Threads \ {t} :
                 pc'[u] = pc[u] /\ key'[u] = key[u] /\ next'[u] = next[u]
           /\ pc' \in [Threads -> Steps]
           /\ next' \in [Threads -> Nat \ {0}]
           /\ key' \in [Threads -> Keys \cup {NoKey}]
           /\ answer' = [u \in Threads |-> answer'[u]]
           /\ answer'[t] = [source |-> batch[next[t]], outcome |-> o]
           /\ answer' = [answer EXCEPT ![t] = answer'[t]]
<1> DEFINE a == [source |-> batch[next[t]], outcome |-> o]
<1>1. /\ answer = [u \in Threads |-> answer[u]]
      /\ answer' = [answer EXCEPT ![t] = a]
  BY DEF ClientType, Answer
<1> HIDE DEF a
<1>2. /\ answer'[t] = a
      /\ answer' = [u \in Threads |-> answer'[u]]
      /\ answer' = [answer EXCEPT ![t] = answer'[t]]
  BY <1>1
<1>3. /\ pc'[t] = "start"
      /\ \A u \in Threads \ {t} :
            pc'[u] = pc[u] /\ key'[u] = key[u] /\ next'[u] = next[u]
      /\ pc' \in [Threads -> Steps]
      /\ next' \in [Threads -> Nat \ {0}]
      /\ key' \in [Threads -> Keys \cup {NoKey}]
  <2>1. /\ next' = [next EXCEPT ![t] = next[t] + 1]
        /\ key' = [key EXCEPT ![t] = NoKey]
        /\ pc' = [pc EXCEPT ![t] = "start"]
    BY DEF Answer
  <2>2. next \in [Threads -> Nat \ {0}] /\ next[t] + 1 \in Nat \ {0}
    BY DEF ClientType
  <2> QED
    BY <2>1, <2>2 DEF ClientType, Steps
<1> QED
  BY <1>2, <1>3 DEF a

LEMMA GoToSteps ==
    ASSUME ClientType, NEW t \in Threads, NEW s \in Steps, NEW k \in Keys,
           GoTo(t, s, k)
    PROVE  /\ pc'[t] = s /\ key'[t] = k /\ next'[t] = next[t]
           /\ \A u \in Threads \ {t} :
                 pc'[u] = pc[u] /\ key'[u] = key[u] /\ next'[u] = next[u]
           /\ pc' \in [Threads -> Steps]
           /\ next' \in [Threads -> Nat \ {0}]
           /\ key' \in [Threads -> Keys \cup {NoKey}]
           /\ answer' = answer
BY DEF ClientType, GoTo

LEMMA InvInit == Init => IInv
<1> SUFFICES ASSUME Init PROVE IInv
  OBVIOUS
<1> USE DEF Init
<1>1. entries \in [Keys -> AllContents] /\ \A k \in Keys : entries[k] \in Contents(k)
  BY KeyParts DEF AllContents
<1>2. clusters \in [known : BOOLEAN, list : Seq(Clusters)]
  BY DEF NoList
<1>3. ClientType
  BY <1>1, <1>2 DEF ClientType, Steps
<1> QED
  BY <1>3 DEF IInv, OnTheWay, AskedOnce, ListAskedOnce

-----------------------------------------------------------------------------
(* Steps of a thread that leave entries and list alone. *)

(* What is known of a source stays so. *)
LEMMA BelongsStays ==
    ASSUME NEW facts \in [Keys -> AllContents], NEW s \in Keys,
           NEW p \in PoolNames, Belongs(facts, s, p),
           NEW k \in Keys, facts[k] = Unknown,
           NEW later, later = [facts EXCEPT ![k] = later[k]]
    PROVE  Belongs(later, s, p)
<1>1. p # Unknown
  BY PoolNamesAssumption DEF Unknown
<1>2. \A i \in Keys \ {k} : later[i] = facts[i]
  OBVIOUS
<1> QED
  BY <1>1, <1>2 DEF Belongs

(* A thread that has its answer. *)
LEMMA AnswerKeeps ==
    ASSUME IInv, NEW t \in Threads, NEW o, Answer(t, o),
           pc[t] \notin {"asking", "asking list"},
           UNCHANGED <<batch, mutex, locked, entries, clusters>>
    PROVE  IInv'
<1> USE DEF IInv
<1>1. ClientType'
  BY AnswerSteps DEF ClientType
<1>2. OnTheWay'
  <2> SUFFICES ASSUME NEW u \in Threads, pc'[u] # "start"
               PROVE  Way(u)'
    BY DEF OnTheWay, Way
  <2>1. u # t /\ pc'[u] = pc[u] /\ key'[u] = key[u] /\ next'[u] = next[u]
    BY AnswerSteps
  <2> QED
    BY <2>1 DEF OnTheWay, Way
<1>3. AskedOnce' /\ ListAskedOnce'
  <2>1. \A u \in Threads :
           pc'[u] \in {"asking", "asking list"} =>
              u # t /\ pc'[u] = pc[u] /\ key'[u] = key[u]
    BY AnswerSteps
  <2> QED
    BY <2>1 DEF AskedOnce, ListAskedOnce
<1> QED
  BY <1>1, <1>2, <1>3

(* A thread that goes on. *)
LEMMA GoToKeeps ==
    ASSUME IInv, NEW t \in Threads,
           NEW s \in {"lookup", "enter", "list"}, NEW k \in Keys, GoTo(t, s, k),
           pc[t] \notin {"asking", "asking list"},
           next[t] <= Len(batch),
           k = batch[next[t]] \/ k[1] = "pool",
           k[1] = "pool" => Belongs(entries, batch[next[t]], k[2]),
           s = "list" => entries[k] = "kubernetes",
           UNCHANGED <<batch, mutex, locked, entries, clusters>>
    PROVE  IInv'
<1>0. /\ pc'[t] = s /\ key'[t] = k /\ next'[t] = next[t]
      /\ \A u \in Threads \ {t} :
            pc'[u] = pc[u] /\ key'[u] = key[u] /\ next'[u] = next[u]
      /\ pc' \in [Threads -> Steps]
      /\ next' \in [Threads -> Nat \ {0}]
      /\ key' \in [Threads -> Keys \cup {NoKey}]
      /\ answer' = answer
  <2>1. s \in Steps
    BY DEF Steps
  <2> QED
    BY <2>1, GoToSteps DEF IInv
<1> USE DEF IInv
<1>1. ClientType'
  BY <1>0 DEF ClientType
<1>2. OnTheWay'
  <2> SUFFICES ASSUME NEW u \in Threads, pc'[u] # "start"
               PROVE  Way(u)'
    BY DEF OnTheWay, Way
  <2>1. CASE u = t
    BY <1>0, <2>1 DEF Way
  <2>2. CASE u # t
    <3>1. pc'[u] = pc[u] /\ key'[u] = key[u] /\ next'[u] = next[u]
      BY <1>0, <2>2
    <3> QED
      BY <3>1 DEF OnTheWay, Way
  <2> QED
    BY <2>1, <2>2
<1>3. AskedOnce' /\ ListAskedOnce'
  <2>1. \A u \in Threads :
           pc'[u] \in {"asking", "asking list"} =>
              u # t /\ pc'[u] = pc[u] /\ key'[u] = key[u]
    BY <1>0
  <2>2. AskedOnce'
    BY <2>1 DEF AskedOnce
  <2>3. ListAskedOnce'
    BY <2>1 DEF ListAskedOnce
  <2> QED
    BY <2>2, <2>3
<1> QED
  BY <1>1, <1>2, <1>3

LEMMA StartKeeps ==
    ASSUME IInv, NEW t \in Threads, Start(t)
    PROVE  IInv'
<1>1. next[t] \in 1..Len(batch)
  <2>1. next[t] \in Nat \ {0} /\ Len(batch) \in Nat
    BY BatchesAssumption DEF IInv, ClientType
  <2> QED
    BY <2>1 DEF Start, Done
<1>2. batch[next[t]] \in Keys
  BY <1>1, BatchKeys DEF IInv, ClientType
<1>3. batch[next[t]][1] = "pool" =>
         Belongs(entries, batch[next[t]], batch[next[t]][2])
  BY DEF Belongs
<1>4. /\ GoTo(t, "lookup", batch[next[t]]) /\ pc[t] = "start"
      /\ UNCHANGED <<batch, mutex, locked, entries, clusters>>
  BY DEF Start
<1>5. next[t] <= Len(batch)
  BY <1>1
<1> QED
  BY <1>2, <1>3, <1>4, <1>5, GoToKeeps

LEMMA LookupKeeps ==
    ASSUME IInv, NEW t \in Threads, Lookup(t)
    PROVE  IInv'
<1>1. key[t] \in Keys /\ next[t] <= Len(batch)
      /\ (key[t] = batch[next[t]] \/ key[t][1] = "pool")
      /\ (key[t][1] = "pool" => Belongs(entries, batch[next[t]], key[t][2]))
  BY DEF Lookup, IInv, OnTheWay, Way
<1> QED
  BY <1>1, GoToKeeps DEF Lookup

(* What a thread does with the content of its entry. *)
LEMMA ProceedKeeps ==
    ASSUME IInv, NEW t \in Threads,
           pc[t] = "enter", entries[key[t]] # Unknown,
           Proceed(t, entries[key[t]]),
           UNCHANGED <<batch, mutex, locked, entries, clusters>>
    PROVE  IInv'
<1> DEFINE c == entries[key[t]]
<1>1. /\ key[t] \in Keys /\ next[t] <= Len(batch)
      /\ key[t] = batch[next[t]] \/ key[t][1] = "pool"
      /\ key[t][1] = "pool" => Belongs(entries, batch[next[t]], key[t][2])
  BY DEF IInv, OnTheWay, Way
<1>2. c \in AllContents \ {Unknown} /\ c \in Contents(key[t])
  BY <1>1 DEF IInv, ClientType
<1>3. CASE \E o : Answer(t, o)
  BY <1>3, AnswerKeeps
<1>4. CASE c = "kubernetes" /\ GoTo(t, "list", key[t])
  BY <1>1, <1>4, GoToKeeps
<1>5. CASE c \in PoolNames /\ GoTo(t, "lookup", <<"pool", c>>)
  <2>1. key[t][1] # "pool"
    <3>1. c \notin {"kubernetes", "other", Unknown}
      BY <1>5, PoolNamesAssumption DEF Unknown
    <3> QED
      BY <1>1, <1>2, <3>1, KeyParts
  <2>2. Belongs(entries, batch[next[t]], c)
    BY <1>1, <2>1 DEF Belongs
  <2>3. <<"pool", c>> \in Keys /\ <<"pool", c>>[1] = "pool" /\ <<"pool", c>>[2] = c
    BY <1>5, PoolKey
  <2> QED
    BY <1>1, <1>5, <2>2, <2>3, GoToKeeps
<1> QED
  BY <1>2, <1>3, <1>4, <1>5, ProceedSteps

-----------------------------------------------------------------------------
(* Steps of a thread that ask or are answered. *)

LEMMA AskKeeps ==
    ASSUME IInv, NEW t \in Threads, Ask(t)
    PROVE  IInv'
<1> USE DEF IInv
<1>1. /\ key[t] \in Keys /\ pc[t] = "enter" /\ key[t] \notin locked
      /\ entries[key[t]] = Unknown
      /\ locked' = locked \cup {key[t]}
      /\ UNCHANGED <<batch, mutex, entries, clusters>>
  BY DEF Ask, OnTheWay, Way
<1>2. /\ pc'[t] = "asking" /\ key'[t] = key[t] /\ next'[t] = next[t]
      /\ \A u \in Threads \ {t} :
            pc'[u] = pc[u] /\ key'[u] = key[u] /\ next'[u] = next[u]
      /\ pc' \in [Threads -> Steps]
      /\ next' \in [Threads -> Nat \ {0}]
      /\ key' \in [Threads -> Keys \cup {NoKey}]
      /\ answer' = answer
  BY <1>1, GoToSteps DEF Ask, Steps
<1>3. ClientType'
  BY <1>1, <1>2 DEF ClientType
<1>4. OnTheWay'
  <2> SUFFICES ASSUME NEW u \in Threads, pc'[u] # "start"
               PROVE  Way(u)'
    BY DEF OnTheWay
  <2>1. Way(u)
    BY <1>1, <1>2 DEF OnTheWay
  <2>2. key'[u] = key[u] /\ next'[u] = next[u]
        /\ (pc'[u] = pc[u] \/ pc'[u] = "asking")
    BY <1>2
  <2> QED
    BY <1>1, <2>1, <2>2 DEF Way
<1>5. AskedOnce'
  BY <1>1, <1>2 DEF AskedOnce
<1>6. ListAskedOnce'
  BY <1>1, <1>2 DEF ListAskedOnce
<1> QED
  BY <1>3, <1>4, <1>5, <1>6

LEMMA ListAskKeeps ==
    ASSUME IInv, NEW t \in Threads, ListAsk(t)
    PROVE  IInv'
<1> USE DEF IInv
<1>1. /\ key[t] \in Keys /\ pc[t] = "list" /\ ~mutex /\ ~clusters.known
      /\ mutex' /\ UNCHANGED <<batch, locked, entries, clusters>>
  BY DEF ListAsk, ListKnown, OnTheWay, Way
<1>2. /\ pc'[t] = "asking list" /\ key'[t] = key[t] /\ next'[t] = next[t]
      /\ \A u \in Threads \ {t} :
            pc'[u] = pc[u] /\ key'[u] = key[u] /\ next'[u] = next[u]
      /\ pc' \in [Threads -> Steps]
      /\ next' \in [Threads -> Nat \ {0}]
      /\ key' \in [Threads -> Keys \cup {NoKey}]
      /\ answer' = answer
  BY <1>1, GoToSteps DEF ListAsk, Steps
<1>3. ClientType'
  BY <1>1, <1>2 DEF ClientType
<1>4. OnTheWay'
  <2> SUFFICES ASSUME NEW u \in Threads, pc'[u] # "start"
               PROVE  Way(u)'
    BY DEF OnTheWay
  <2>1. Way(u)
    BY <1>1, <1>2 DEF OnTheWay
  <2>2. key'[u] = key[u] /\ next'[u] = next[u]
        /\ (pc'[u] = pc[u] \/ (pc'[u] = "asking list" /\ pc[u] = "list"))
    BY <1>1, <1>2
  <2> QED
    BY <1>1, <2>1, <2>2 DEF Way
<1>5. AskedOnce'
  BY <1>1, <1>2 DEF AskedOnce
<1>6. ListAskedOnce'
  BY <1>1, <1>2 DEF ListAskedOnce
<1> QED
  BY <1>3, <1>4, <1>5, <1>6

(* A list that came, or did not come. *)
LEMMA ListAnswerKeeps ==
    ASSUME IInv, NEW t \in Threads, NEW o, Answer(t, o),
           pc[t] = "asking list",
           mutex' = FALSE,
           clusters' \in [known : BOOLEAN, list : Seq(Clusters)],
           UNCHANGED <<batch, locked, entries>>
    PROVE  IInv'
<1> USE DEF IInv
<1>1. ClientType'
  BY AnswerSteps DEF ClientType
<1>2. OnTheWay'
  <2> SUFFICES ASSUME NEW u \in Threads, pc'[u] # "start"
               PROVE  Way(u)'
    BY DEF OnTheWay
  <2>1. u # t /\ pc'[u] = pc[u] /\ key'[u] = key[u] /\ next'[u] = next[u]
    BY AnswerSteps
  <2> QED
    BY <2>1 DEF OnTheWay, Way
<1>3. \A u \in Threads :
         pc'[u] \in {"asking", "asking list"} =>
            u # t /\ pc'[u] = pc[u] /\ key'[u] = key[u]
  BY AnswerSteps
<1>4. AskedOnce'
  BY <1>3 DEF AskedOnce
<1>5. ListAskedOnce'
  BY <1>3 DEF ListAskedOnce
<1> QED
  BY <1>1, <1>2, <1>4, <1>5

(* What a reply leaves in an entry. *)
LEMMA RememberType ==
    ASSUME NEW k \in Keys, NEW reply \in Replies(k)
    PROVE  /\ Remember(k, reply) \in Contents(k)
           /\ reply \notin {"404", "empty", "failed"} =>
                 /\ Remember(k, reply) = reply
                 /\ reply \in AllContents \ {Unknown}
<1>1. CASE reply \in {"empty", "failed"}
  BY <1>1, KeyParts DEF Remember
<1>2. CASE reply = "404" /\ k[1] = "pool"
  BY <1>2, KeyParts DEF Remember
<1>3. CASE reply = "404" /\ k[1] # "pool"
  <2>1. NotFound \in Contents(k)
    BY <1>3, KeyParts DEF Contents
  <2> QED
    BY <1>3, <2>1 DEF Remember
<1>4. CASE reply \notin {"404", "empty", "failed"}
  BY <1>4, KeyParts DEF Remember, Replies
<1> QED
  BY <1>1, <1>2, <1>3, <1>4

(* The reply to the request for an entry. *)
LEMMA ReplySteps ==
    ASSUME IInv, NEW t \in Threads, Reply(t)
    PROVE  \E c \in Contents(key[t]) :
              /\ pc[t] = "asking" /\ Way(t) /\ entries[key[t]] = Unknown
              /\ entries' = [entries EXCEPT ![key[t]] = c]
              /\ locked' = locked \ {key[t]}
              /\ UNCHANGED <<batch, mutex, clusters>>
              /\ \/ Answer(t, "error")
                 \/ c = "other" /\ Answer(t, "ignored")
                 \/ c = "kubernetes" /\ GoTo(t, "list", key[t])
                 \/ c \in PoolNames /\ GoTo(t, "lookup", <<"pool", c>>)
<1>1. /\ pc[t] = "asking" /\ Way(t) /\ entries[key[t]] = Unknown
      /\ key[t] \in Keys
  BY DEF Reply, IInv, OnTheWay, Way, AskedOnce
<1>2. PICK reply \in Replies(key[t]) :
         /\ entries' = [entries EXCEPT ![key[t]] = Remember(key[t], reply)]
         /\ Proceed(t, IF reply \in {"404", "empty", "failed"} THEN "error"
                                                               ELSE reply)
  BY DEF Reply
<1>3. /\ locked' = locked \ {key[t]}
      /\ UNCHANGED <<batch, mutex, clusters>>
  BY DEF Reply
<1>4. Remember(key[t], reply) \in Contents(key[t])
  BY <1>1, RememberType
<1>5. CASE reply \in {"404", "empty", "failed"}
  <2>1. Proceed(t, "error")
    BY <1>2, <1>5
  <2>2. "error" \notin PoolNames
    BY PoolNamesAssumption
  <2>3. Answer(t, "error")
    BY <2>1, <2>2, ProceedSteps
  <2> QED
    BY <1>1, <1>2, <1>3, <1>4, <2>3
<1>6. CASE reply \notin {"404", "empty", "failed"}
  <2>1. /\ Proceed(t, reply) /\ Remember(key[t], reply) = reply
        /\ reply \in AllContents \ {Unknown}
    BY <1>1, <1>2, <1>6, RememberType
  <2> QED
    BY <1>1, <1>2, <1>3, <1>4, <2>1, ProceedSteps
<1> QED
  BY <1>5, <1>6

LEMMA ReplyKeeps ==
    ASSUME IInv, NEW t \in Threads, Reply(t)
    PROVE  IInv'
<1> USE DEF IInv
<1>1. PICK c \in Contents(key[t]) :
         /\ pc[t] = "asking" /\ Way(t) /\ entries[key[t]] = Unknown
         /\ entries' = [entries EXCEPT ![key[t]] = c]
         /\ locked' = locked \ {key[t]}
         /\ UNCHANGED <<batch, mutex, clusters>>
         /\ \/ Answer(t, "error")
            \/ c = "other" /\ Answer(t, "ignored")
            \/ c = "kubernetes" /\ GoTo(t, "list", key[t])
            \/ c \in PoolNames /\ GoTo(t, "lookup", <<"pool", c>>)
  BY ReplySteps
<1>2. key[t] \in Keys /\ next[t] <= Len(batch) /\ c \in AllContents
  BY <1>1, KeyParts DEF Way
<1>3. /\ entries' \in [Keys -> AllContents]
      /\ \A k \in Keys : entries'[k] \in Contents(k)
      /\ entries'[key[t]] = c
      /\ \A k \in Keys \ {key[t]} : entries'[k] = entries[k]
  BY <1>1, <1>2 DEF ClientType
<1>4. /\ pc' \in [Threads -> Steps]
      /\ next' \in [Threads -> Nat \ {0}]
      /\ key' \in [Threads -> Keys \cup {NoKey}]
      /\ answer' = [u \in Threads |-> answer'[u]]
      /\ \A u \in Threads \ {t} :
            pc'[u] = pc[u] /\ key'[u] = key[u] /\ next'[u] = next[u]
      /\ \/ pc'[t] = "start"
         \/ /\ c = "kubernetes" /\ pc'[t] = "list" /\ key'[t] = key[t]
            /\ next'[t] = next[t]
         \/ /\ c \in PoolNames /\ pc'[t] = "lookup"
            /\ key'[t] = <<"pool", c>> /\ next'[t] = next[t]
  <2>1. CASE \E o : Answer(t, o)
    BY <2>1, AnswerSteps
  <2>2. CASE c = "kubernetes" /\ GoTo(t, "list", key[t])
    <3>1. "list" \in Steps
      BY DEF Steps
    <3> QED
      BY <1>2, <2>2, <3>1, GoToSteps DEF ClientType
  <2>3. CASE c \in PoolNames /\ GoTo(t, "lookup", <<"pool", c>>)
    <3>1. "lookup" \in Steps /\ <<"pool", c>> \in Keys
      BY <2>3, PoolKey DEF Steps
    <3> QED
      BY <2>3, <3>1, GoToSteps DEF ClientType
  <2> QED
    BY <1>1, <2>1, <2>2, <2>3
<1>5. ClientType'
  BY <1>1, <1>3, <1>4 DEF ClientType
<1>6. OnTheWay'
  <2> SUFFICES ASSUME NEW u \in Threads, pc'[u] # "start"
               PROVE  Way(u)'
    BY DEF OnTheWay
  <2>1. Way(u)
    BY <1>1, <1>4 DEF OnTheWay
  <2>2. batch[next[u]] \in Keys
    <3>1. next[u] \in Nat \ {0} /\ Len(batch) \in Nat
      BY BatchesAssumption DEF ClientType
    <3>2. next[u] <= Len(batch)
      BY <2>1 DEF Way
    <3> QED
      BY <3>1, <3>2, BatchKeys DEF ClientType
  <2>3. ASSUME NEW p \in PoolNames, Belongs(entries, batch[next[u]], p)
        PROVE  Belongs(entries', batch[next[u]], p)
    <3>1. entries' = [entries EXCEPT ![key[t]] = entries'[key[t]]]
      BY <1>1, <1>3
    <3> QED
      BY <1>1, <1>2, <2>2, <2>3, <3>1, BelongsStays DEF ClientType
  <2>4. CASE u # t
    <3>1. pc'[u] = pc[u] /\ key'[u] = key[u] /\ next'[u] = next[u]
      BY <1>4, <2>4
    <3>2. key[u][1] = "pool" => Belongs(entries', batch'[next'[u]], key'[u][2])
      BY <1>1, <2>1, <2>3, <3>1, KeyParts DEF Way
    <3>3. pc[u] \in {"list", "asking list"} => entries'[key[u]] = "kubernetes"
      BY <1>1, <1>3, <2>1 DEF Way, Unknown
    <3> QED
      BY <1>1, <2>1, <3>1, <3>2, <3>3 DEF Way
  <2>5. CASE u = t /\ c = "kubernetes" /\ pc'[t] = "list" /\ key'[t] = key[t]
             /\ next'[t] = next[t]
    <3>1. key[u][1] = "pool" => Belongs(entries', batch'[next'[u]], key'[u][2])
      BY <1>1, <2>1, <2>3, <2>5, KeyParts DEF Way
    <3> QED
      BY <1>1, <1>3, <2>1, <2>5, <3>1 DEF Way
  <2>6. CASE u = t /\ c \in PoolNames /\ pc'[t] = "lookup"
             /\ key'[t] = <<"pool", c>> /\ next'[t] = next[t]
    <3>1. key[t][1] # "pool"
      <4>1. c \notin {"kubernetes", "other", Unknown}
        BY <2>6, PoolNamesAssumption DEF Unknown
      <4> QED
        BY <1>1, <1>2, <4>1, KeyParts
    <3>2. batch[next[t]] = key[t]
      BY <1>1, <3>1 DEF Way
    <3>3. Belongs(entries', batch'[next'[t]], c)
      BY <1>1, <1>3, <2>6, <3>1, <3>2 DEF Belongs
    <3>4. <<"pool", c>> \in Keys /\ <<"pool", c>>[1] = "pool" /\ <<"pool", c>>[2] = c
      BY <2>6, PoolKey
    <3> QED
      BY <1>1, <1>2, <2>6, <3>3, <3>4 DEF Way
  <2> QED
    BY <1>4, <2>4, <2>5, <2>6
<1>7. AskedOnce'
  <2>1. \A u \in Threads : pc'[u] = "asking" =>
           /\ u # t /\ pc[u] = "asking" /\ key'[u] = key[u]
           /\ key[u] # key[t] /\ key[u] \in Keys
    BY <1>1, <1>4 DEF AskedOnce, OnTheWay, Way
  <2>2. \A u \in Threads : pc'[u] = "asking" =>
           entries'[key'[u]] = Unknown /\ key'[u] \in locked'
    BY <1>1, <1>3, <2>1 DEF AskedOnce
  <2>3. \A u, v \in Threads :
           pc'[u] = "asking" /\ pc'[v] = "asking" /\ u # v => key'[v] # key'[u]
    BY <2>1 DEF AskedOnce
  <2> QED
    BY <2>2, <2>3 DEF AskedOnce
<1>8. ListAskedOnce'
  <2>1. \A u \in Threads : pc'[u] = "asking list" => u # t /\ pc[u] = "asking list"
    BY <1>4
  <2> QED
    BY <1>1, <2>1 DEF ListAskedOnce
<1> QED
  BY <1>5, <1>6, <1>7, <1>8

LEMMA NewCallKeeps ==
    ASSUME IInv, NewCall
    PROVE  IInv'
<1> USE DEF IInv
<1>1. entries' \in [Keys -> AllContents] /\ \A k \in Keys : entries'[k] \in Contents(k)
  BY KeyParts DEF NewCall, AllContents
<1>2. clusters' \in [known : BOOLEAN, list : Seq(Clusters)]
  BY DEF NewCall, NoList
<1>3. ClientType'
  BY <1>1, <1>2 DEF NewCall, ClientType
<1>4. \A t \in Threads : pc'[t] = "start"
  BY DEF NewCall, AllDone, Done
<1> QED
  BY <1>3, <1>4 DEF OnTheWay, AskedOnce, ListAskedOnce

LEMMA InvNext == IInv /\ [Next]_vars => IInv'
<1> SUFFICES ASSUME IInv, [Next]_vars PROVE IInv'
  OBVIOUS
<1>1. ASSUME NEW t \in Threads, Hit(t) PROVE IInv'
  BY <1>1, ProceedKeeps DEF Hit
<1>2. ASSUME NEW t \in Threads, ListHit(t) PROVE IInv'
  BY <1>2, AnswerKeeps DEF ListHit, AnswerCluster
<1>3. ASSUME NEW t \in Threads, ListReply(t) PROVE IInv'
  <2>1. PICK list \in ClusterLists :
           clusters' = [known |-> TRUE, list |-> list] /\ AnswerCluster(t, list)
    BY <1>3 DEF ListReply
  <2>2. clusters' \in [known : BOOLEAN, list : Seq(Clusters)]
    BY <2>1, ListsAssumption
  <2> QED
    BY <1>3, <2>1, <2>2, ListAnswerKeeps DEF ListReply, AnswerCluster
<1>4. ASSUME NEW t \in Threads, ListFails(t) PROVE IInv'
  BY <1>4, ListAnswerKeeps DEF ListFails, IInv, ClientType
<1>5. CASE UNCHANGED vars
  BY <1>5
  DEF vars, IInv, ClientType, OnTheWay, Way, AskedOnce,
      ListAskedOnce
<1> QED
  BY <1>1, <1>2, <1>3, <1>4, <1>5, NewCallKeeps, StartKeeps, LookupKeeps,
     AskKeeps, ReplyKeeps, ListAskKeeps
  DEF Next, Thread

LEMMA Invariant == Spec => []IInv
BY InvInit, InvNext, PTL DEF Spec

(* However many threads ask at the same time, tsuru never gets a question that
   is under way or answered (external/tsuru.go). *)
THEOREM AsksOnce == Spec => []SingleFlight
<1>1. IInv => SingleFlight
  BY DEF IInv, AskedOnce, ListAskedOnce, SingleFlight
<1> QED
  BY <1>1, Invariant, PTL

-----------------------------------------------------------------------------
(* Who waits, and for whom. *)

(* Whatever is held is held by somebody who asks tsuru. *)
MutexHeld == mutex => \E u \in Threads : pc[u] = "asking list"
EntriesHeld ==
    \A k \in locked : \E u \in Threads : pc[u] = "asking" /\ key[u] = k
Held == MutexHeld /\ EntriesHeld

(* What a thread does with its program counter and its key, in any step. *)
LEMMA ThreadMoves ==
    ASSUME IInv, NEW t \in Threads, Thread(t)
    PROVE  \/ \E o : Answer(t, o)
           \/ \E s \in Steps, k \in Keys : GoTo(t, s, k)
<1>1. CASE Start(t)
  <2>1. next[t] \in 1..Len(batch)
    <3>1. next[t] \in Nat \ {0} /\ Len(batch) \in Nat
      BY BatchesAssumption DEF IInv, ClientType
    <3> QED
      BY <1>1, <3>1 DEF Start, Done
  <2> QED
    BY <1>1, <2>1, BatchKeys DEF Start, IInv, ClientType, Steps
<1>2. CASE Lookup(t) \/ Ask(t) \/ ListAsk(t)
  <2>1. key[t] \in Keys
    BY <1>2 DEF Lookup, Ask, ListAsk, IInv, OnTheWay, Way
  <2> QED
    BY <1>2, <2>1 DEF Lookup, Ask, ListAsk, Steps
<1>3. CASE Hit(t)
  <2>1. key[t] \in Keys
    BY <1>3 DEF Hit, IInv, OnTheWay, Way
  <2>2. entries[key[t]] \in AllContents \ {Unknown}
    BY <1>3, <2>1 DEF Hit, IInv, ClientType
  <2> QED
    BY <1>3, <2>1, <2>2, ProceedSteps, PoolKey DEF Hit, Steps
<1>4. CASE Reply(t)
  BY <1>4, ReplySteps, PoolKey DEF Way, Steps
<1>5. CASE ListHit(t) \/ ListReply(t) \/ ListFails(t)
  BY <1>5 DEF ListHit, ListReply, ListFails, AnswerCluster
<1> QED
  BY <1>1, <1>2, <1>3, <1>4, <1>5 DEF Thread

LEMMA OthersKeep ==
    ASSUME IInv, NEW t \in Threads, Thread(t), NEW u \in Threads \ {t}
    PROVE  pc'[u] = pc[u] /\ key'[u] = key[u]
BY ThreadMoves, AnswerSteps, GoToSteps DEF IInv

LEMMA MutexHeldNext == IInv /\ MutexHeld /\ [Next]_vars => MutexHeld'
<1> SUFFICES ASSUME IInv, MutexHeld, [Next]_vars, mutex'
             PROVE  \E u \in Threads : pc'[u] = "asking list"
  BY DEF MutexHeld
<1>1. ASSUME NEW t \in Threads, Thread(t), mutex' = mutex,
             pc[t] # "asking list"
      PROVE  \E u \in Threads : pc'[u] = "asking list"
  <2>1. PICK u \in Threads : pc[u] = "asking list"
    BY <1>1, Zenon DEF MutexHeld
  <2> QED
    BY <1>1, <2>1, OthersKeep
<1>2. ASSUME NEW t \in Threads, ListAsk(t)
      PROVE  \E u \in Threads : pc'[u] = "asking list"
  BY <1>2 DEF ListAsk, GoTo, IInv, ClientType
<1>3. ASSUME NEW t \in Threads, ListReply(t) \/ ListFails(t) PROVE FALSE
  <2>1. mutex' = FALSE
    BY <1>3 DEF ListReply, ListFails
  <2> QED
    BY <2>1, Zenon
<1>4. CASE NewCall \/ UNCHANGED vars
  <2>1. mutex' = mutex /\ pc' = pc
    BY <1>4 DEF NewCall, vars
  <2> QED
    BY <2>1, Zenon DEF MutexHeld
<1>5. ASSUME NEW t \in Threads, Thread(t)
      PROVE  \/ mutex' = mutex /\ pc[t] # "asking list"
             \/ ListAsk(t) \/ ListReply(t) \/ ListFails(t)
  BY <1>5 DEF Thread, Start, Lookup, Hit, Ask, Reply, ListHit
<1> QED
  BY <1>1, <1>2, <1>3, <1>4, <1>5 DEF Next

LEMMA EntriesHeldNext == IInv /\ EntriesHeld /\ [Next]_vars => EntriesHeld'
<1> SUFFICES ASSUME IInv, EntriesHeld, [Next]_vars, NEW k \in locked'
             PROVE  \E u \in Threads : pc'[u] = "asking" /\ key'[u] = k
  BY DEF EntriesHeld
<1>1. ASSUME NEW t \in Threads, Thread(t), k \in locked,
             pc[t] = "asking" => key[t] # k
      PROVE  \E u \in Threads : pc'[u] = "asking" /\ key'[u] = k
  <2>1. PICK u \in Threads : pc[u] = "asking" /\ key[u] = k
    BY <1>1 DEF EntriesHeld
  <2> QED
    BY <1>1, <2>1, OthersKeep
<1>2. ASSUME NEW t \in Threads, Ask(t), k = key[t]
      PROVE  \E u \in Threads : pc'[u] = "asking" /\ key'[u] = k
  BY <1>2 DEF Ask, GoTo, IInv, ClientType
<1>3. CASE NewCall \/ UNCHANGED vars
  BY <1>3 DEF NewCall, vars, EntriesHeld
<1>4. ASSUME NEW t \in Threads, Thread(t)
      PROVE  \/ k \in locked /\ (pc[t] = "asking" => key[t] # k)
             \/ Ask(t) /\ k = key[t]
  BY <1>4 DEF Thread, Start, Lookup, Hit, Ask, Reply, ListHit, ListAsk,
     ListReply, ListFails
<1> QED
  BY <1>1, <1>2, <1>3, <1>4 DEF Next

LEMMA HeldByRequests == Spec => []Held
<1>1. Init => Held
  BY DEF Init, Held, MutexHeld, EntriesHeld
<1>2. IInv /\ Held /\ [Next]_vars => Held'
  BY MutexHeldNext, EntriesHeldNext DEF Held
<1> QED
  BY <1>1, <1>2, Invariant, PTL DEF Spec

(* A thread waits for nothing but a request that another one has under way,
   for any number of threads and whichever requests fail. *)
THEOREM WaitsForRequests == Spec => []OnlyRequestsWait
<1>1. Held => OnlyRequestsWait
  BY DEF Held, MutexHeld, EntriesHeld, OnlyRequestsWait
<1> QED
  BY <1>1, HeldByRequests, PTL

(* As long as the call has not returned, some thread can take a step.  (The
   guards of Thread: a thread at the start of a rule, one whose request is
   under way, or one that finds the mutex it needs free.) *)
CanMove(t) ==
    \/ pc[t] = "start" /\ ~Done(t)
    \/ pc[t] \in {"asking", "asking list"}
    \/ pc[t] \in {"lookup", "list"} /\ ~mutex
    \/ pc[t] = "enter" /\ key[t] \notin locked

SomebodyCanMove == AllDone \/ \E t \in Threads : CanMove(t)

THEOREM NoDeadlock == Spec => []SomebodyCanMove
<1>1. IInv /\ Held => SomebodyCanMove
  <2> SUFFICES ASSUME IInv, Held, NEW t \in Threads, ~Done(t)
               PROVE  \E u \in Threads : CanMove(u)
    BY DEF SomebodyCanMove, AllDone
  <2>1. pc[t] \in Steps
    BY DEF IInv, ClientType
  <2> QED
    BY <2>1 DEF CanMove, Held, MutexHeld, EntriesHeld, Steps
<1> QED
  BY <1>1, HeldByRequests, Invariant, PTL

(* How far thread t is with a rule: from the source to its pool, from the pool
   to the list of clusters. *)
Stage(step, k) ==
    LET pool == IF k[1] = "pool" THEN 3 ELSE 0
    IN  CASE step = "start"       -> 0
          [] step = "lookup"      -> 1 + pool
          [] step = "enter"       -> 2 + pool
          [] step = "asking"      -> 3 + pool
          [] step = "list"        -> 7
          [] step = "asking list" -> 8

(* Every step of a thread brings it further: no thread asks for the same again
   within a rule, so a call of n rules takes a thread at most 9 * n steps. *)
Further(t) ==
    \/ next'[t] = next[t] + 1
    \/ next'[t] = next[t] /\ Stage(pc'[t], key'[t]) > Stage(pc[t], key[t])

LEMMA StageOrder ==
    ASSUME NEW k
    PROVE  /\ Stage("start", k) = 0
           /\ Stage("list", k) = 7 /\ Stage("asking list", k) = 8
           /\ k[1] # "pool" =>
                 /\ Stage("lookup", k) = 1
                 /\ Stage("enter", k) = 2 /\ Stage("asking", k) = 3
           /\ k[1] = "pool" =>
                 /\ Stage("lookup", k) = 4
                 /\ Stage("enter", k) = 5 /\ Stage("asking", k) = 6
BY DEF Stage

THEOREM EveryStepGoesFurther ==
    Spec => [][\A t \in Threads : Thread(t) => Further(t)]_vars
<1> DEFINE Advance == \A t \in Threads : Thread(t) => Further(t)
<1>1. ASSUME IInv, NEW t \in Threads, Thread(t) PROVE Further(t)
  <2>0. pc[t] \in Steps /\ next[t] \in Nat /\ ClientType
    BY <1>1 DEF IInv, ClientType
  <2>1. ASSUME NEW o, Answer(t, o) PROVE Further(t)
    BY <2>0, <2>1 DEF Answer, Further, ClientType
  <2>2. ASSUME NEW s \in Steps, NEW k \in Keys, GoTo(t, s, k)
        PROVE  pc'[t] = s /\ key'[t] = k /\ next'[t] = next[t]
    BY <2>0, <2>2, GoToSteps
  <2>3. CASE Start(t)
    <3>1. next[t] \in 1..Len(batch)
      <4>1. next[t] \in Nat \ {0} /\ Len(batch) \in Nat
        BY <1>1, BatchesAssumption DEF IInv, ClientType
      <4> QED
        BY <2>3, <4>1 DEF Start, Done
    <3>2. pc'[t] = "lookup" /\ next'[t] = next[t] /\ pc[t] = "start"
      BY <1>1, <2>2, <2>3, <3>1, BatchKeys
         DEF Start, IInv, ClientType, Steps
    <3> QED
      <4>1. Stage(pc[t], key[t]) = 0
        BY <3>2, StageOrder
      <4>2. Stage(pc'[t], key'[t]) \in {1, 4}
        BY <3>2, StageOrder
      <4> QED
        BY <3>2, <4>1, <4>2 DEF Further
  <2>4. CASE Lookup(t) \/ Ask(t) \/ ListAsk(t)
    <3>1. key[t] \in Keys
      BY <1>1, <2>4 DEF Lookup, Ask, ListAsk, IInv, OnTheWay, Way
    <3>2. /\ key'[t] = key[t] /\ next'[t] = next[t]
          /\ \/ pc[t] = "lookup" /\ pc'[t] = "enter"
             \/ pc[t] = "enter" /\ pc'[t] = "asking"
             \/ pc[t] = "list" /\ pc'[t] = "asking list"
      BY <2>2, <2>4, <3>1 DEF Lookup, Ask, ListAsk, Steps
    <3>3. next'[t] = next[t]
      BY <3>2
    <3> QED
      <4>1. CASE key[t][1] = "pool"
        <5>1. \/ Stage(pc[t], key[t]) = 4 /\ Stage(pc'[t], key'[t]) = 5
              \/ Stage(pc[t], key[t]) = 5 /\ Stage(pc'[t], key'[t]) = 6
              \/ Stage(pc[t], key[t]) = 7 /\ Stage(pc'[t], key'[t]) = 8
          BY <3>2, <4>1, StageOrder
        <5> QED
          BY <3>3, <5>1 DEF Further
      <4>2. CASE key[t][1] # "pool"
        <5>1. \/ Stage(pc[t], key[t]) = 1 /\ Stage(pc'[t], key'[t]) = 2
              \/ Stage(pc[t], key[t]) = 2 /\ Stage(pc'[t], key'[t]) = 3
              \/ Stage(pc[t], key[t]) = 7 /\ Stage(pc'[t], key'[t]) = 8
          BY <3>2, <4>2, StageOrder
        <5> QED
          BY <3>3, <5>1 DEF Further
      <4> QED
        BY <4>1, <4>2
  <2>5. ASSUME pc[t] \in {"enter", "asking"}, key[t] \in Keys,
               NEW c \in Contents(key[t]),
               \/ c = "kubernetes" /\ GoTo(t, "list", key[t])
               \/ c \in PoolNames /\ GoTo(t, "lookup", <<"pool", c>>)
        PROVE  Further(t)
    <3>1. CASE c = "kubernetes" /\ GoTo(t, "list", key[t])
      <4>1. pc'[t] = "list" /\ next'[t] = next[t] /\ key'[t] = key[t]
        BY <2>2, <2>5, <3>1 DEF Steps
      <4>2. Stage(pc'[t], key'[t]) = 7
        BY <4>1, StageOrder
      <4>3. Stage(pc[t], key[t]) \in {2, 3, 5, 6}
        BY <2>5, StageOrder
      <4> QED
        BY <4>1, <4>2, <4>3 DEF Further
    <3>2. CASE c \in PoolNames /\ GoTo(t, "lookup", <<"pool", c>>)
      <4>1. key[t][1] # "pool"
        <5>1. c \notin {"kubernetes", "other", Unknown}
          BY <3>2, PoolNamesAssumption DEF Unknown
        <5> QED
          BY <2>5, <5>1, KeyParts
      <4>2. pc'[t] = "lookup" /\ next'[t] = next[t] /\ key'[t] = <<"pool", c>>
        BY <2>2, <3>2, PoolKey DEF Steps
      <4>3. key'[t][1] = "pool"
        BY <4>2
      <4>4. Stage(pc'[t], key'[t]) = 4
        BY <4>2, <4>3, StageOrder
      <4>5. Stage(pc[t], key[t]) \in {2, 3}
        BY <2>5, <4>1, StageOrder
      <4> QED
        BY <4>2, <4>4, <4>5 DEF Further
    <3> QED
      BY <2>5, <3>1, <3>2
  <2>6. CASE Hit(t)
    <3>1. key[t] \in Keys /\ pc[t] = "enter"
      BY <1>1, <2>6 DEF Hit, IInv, OnTheWay, Way
    <3>2. entries[key[t]] \in Contents(key[t])
          /\ entries[key[t]] \in AllContents \ {Unknown}
      BY <1>1, <2>6, <3>1 DEF Hit, IInv, ClientType
    <3> QED
      BY <2>1, <2>5, <2>6, <3>1, <3>2, ProceedSteps DEF Hit
  <2>7. CASE Reply(t)
    BY <1>1, <2>1, <2>5, <2>7, ReplySteps DEF Way
  <2>8. CASE ListHit(t) \/ ListReply(t) \/ ListFails(t)
    BY <2>1, <2>8 DEF ListHit, ListReply, ListFails, AnswerCluster
  <2> QED
    BY <1>1, <2>3, <2>4, <2>6, <2>7, <2>8 DEF Thread
<1>2. IInv => [Advance]_vars
  BY <1>1
<1> QED
  BY <1>2, Invariant, PTL

-----------------------------------------------------------------------------
(* The choice of a cluster. *)

LEMMA LeastOf ==
    ASSUME NEW S \in SUBSET Nat, S # {}
    PROVE  \E x \in S : \A y \in S : x <= y
<1>1. PICK x \in S : \A y \in S : <<y, x>> \notin OpToRel(<, Nat)
  BY NatLessThanWellFounded, WFMin
<1>2. \A y \in S : ~(y < x)
  BY <1>1 DEF OpToRel
<1> QED
  BY <1>2

LEMMA MinIs ==
    ASSUME NEW S \in SUBSET Nat, S # {}
    PROVE  Min(S) \in S /\ \A y \in S : Min(S) <= y
BY LeastOf DEF Min

LEMMA MaxIs ==
    ASSUME NEW n \in Nat, NEW S \in SUBSET (1..n), S # {}
    PROVE  Max(S) \in S /\ \A y \in S : Max(S) >= y
<1> DEFINE T == {n - i : i \in S}
<1>1. T \in SUBSET Nat /\ T # {}
  <2>1. \A i \in S : i \in Nat /\ i <= n /\ n - i \in Nat
    OBVIOUS
  <2> QED
    BY <2>1
<1>2. PICK x \in T : \A y \in T : x <= y
  BY <1>1, LeastOf
<1>3. PICK i \in S : x = n - i
  BY <1>2
<1>4. ASSUME NEW y \in S PROVE i >= y
  <2>1. n - y \in T /\ y \in Nat /\ i \in Nat
    <3>1. S \subseteq Nat
      OBVIOUS
    <3> QED
      BY <3>1
  <2>2. n - i <= n - y
    BY <1>2, <1>3, <2>1
  <2> QED
    BY <2>1, <2>2
<1> QED
  BY <1>4 DEF Max

(* PoolCluster and RestConfig choose what TsuruSnapshot allows. *)
LEMMA ClusterChoice ==
    ASSUME NEW list \in Seq(Clusters), NEW pool
    PROVE  \/ RestConfig(PoolCluster(list, pool)) = "error"
           \/ RestConfig(PoolCluster(list, pool))
                 \in Snapshot!ClusterOf(list, pool)
<1> DEFINE kubernetes == {i \in DOMAIN list : list[i].kubernetes}
           naming     == {i \in kubernetes : pool \in list[i].pools}
           defaults   == {i \in kubernetes : list[i].default}
<1>1. DOMAIN list = 1..Len(list) /\ Len(list) \in Nat
  OBVIOUS
<1>2. ASSUME NEW i \in DOMAIN list, PoolCluster(list, pool) = {list[i]},
             Snapshot!IsClusterOf(list, i, pool)
      PROVE  \/ RestConfig(PoolCluster(list, pool)) = "error"
             \/ RestConfig(PoolCluster(list, pool))
                   \in Snapshot!ClusterOf(list, pool)
  BY <1>2 DEF RestConfig, Snapshot!ClusterOf
<1>3. CASE naming # {}
  <2> DEFINE i == Min(naming)
  <2>1. naming \in SUBSET Nat
    BY <1>1
  <2>2. i \in naming /\ \A j \in naming : i <= j
    BY <1>3, <2>1, MinIs
  <2>3. PoolCluster(list, pool) = {list[i]}
    BY <1>3 DEF PoolCluster
  <2> HIDE DEF i
  <2>4. \A j \in 1..i - 1 : j \in DOMAIN list /\ j \notin naming
    BY <1>1, <2>2
  <2>5. Snapshot!IsClusterOf(list, i, pool)
    BY <2>2, <2>4 DEF Snapshot!IsClusterOf, Snapshot!Naming
  <2> QED
    BY <1>2, <2>2, <2>3, <2>5
<1>4. CASE naming = {} /\ defaults # {}
  <2> DEFINE i == Max(defaults)
  <2>1. defaults \in SUBSET (1..Len(list))
    BY <1>1
  <2>2. i \in defaults /\ \A j \in defaults : i >= j
    BY <1>1, <1>4, <2>1, MaxIs
  <2>3. PoolCluster(list, pool) = {list[i]}
    BY <1>4 DEF PoolCluster
  <2> HIDE DEF i
  <2>4. \A j \in i + 1..Len(list) : j \in DOMAIN list /\ j \notin defaults
    BY <1>1, <2>2
  <2>5. Snapshot!IsClusterOf(list, i, pool)
    BY <1>4, <2>2, <2>4
    DEF Snapshot!IsClusterOf, Snapshot!Naming, Snapshot!Default
  <2> QED
    BY <1>2, <2>2, <2>3, <2>5
<1>5. CASE naming = {} /\ defaults = {}
  <2>1. PoolCluster(list, pool) = {}
    BY <1>5 DEF PoolCluster
  <2> QED
    BY <2>1 DEF RestConfig
<1> QED
  BY <1>3, <1>4, <1>5

-----------------------------------------------------------------------------
(* TsuruClient implements TsuruSnapshot. *)

LEMMA AnswerRecord ==
    ASSUME IInv, NEW t \in Threads, NEW o, Answer(t, o)
    PROVE  /\ answer'[t].source = batch[next[t]]
           /\ answer'[t].outcome = o
           /\ answer' = [answer EXCEPT ![t] = answer'[t]]
<1>1. /\ answer'[t] = [source |-> batch[next[t]], outcome |-> o]
      /\ answer' = [answer EXCEPT ![t] = answer'[t]]
  <2>1. ClientType
    BY DEF IInv
  <2> QED
    BY <2>1, AnswerSteps
<1> QED
  BY <1>1

LEMMA SnapshotInit == Init => Snapshot!Init
BY DEF Init, Snapshot!Init, Unknown, Snapshot!Unknown, NoList, Snapshot!NoList,
       NoAnswer, Snapshot!NoAnswer

(* An error is an answer at any time. *)
LEMMA ErrorStep ==
    ASSUME IInv, NEW t \in Threads, Answer(t, "error"),
           Snapshot!Learn
    PROVE  Snapshot!Next
<1>1. /\ answer'[t].outcome = "error"
      /\ answer' = [answer EXCEPT ![t] = answer'[t]]
  BY AnswerRecord
<1>2. Snapshot!Answer(t)
  BY <1>1 DEF Snapshot!Answer, Snapshot!Sound
<1> QED
  BY <1>2 DEF Snapshot!Next

(* "Ignored" is an answer for a source in a pool that is known as no pool of
   kubernetes. *)
LEMMA IgnoredStep ==
    ASSUME IInv, NEW t \in Threads, Answer(t, "ignored"),
           NEW p \in PoolNames, Belongs(entries', batch[next[t]], p),
           entries'[<<"pool", p>>] = "other",
           Snapshot!Learn
    PROVE  Snapshot!Next
<1>1. /\ answer'[t].outcome = "ignored" /\ answer'[t].source = batch[next[t]]
      /\ answer' = [answer EXCEPT ![t] = answer'[t]]
  BY AnswerRecord
<1>2. Snapshot!Answer(t)
  BY <1>1 DEF Snapshot!Answer, Snapshot!Sound, Snapshot!InPool, Belongs
<1> QED
  BY <1>2 DEF Snapshot!Next

(* And so is the cluster of the pool, when the list is known. *)
LEMMA ClusterStep ==
    ASSUME IInv, NEW t \in Threads, NEW list \in Seq(Clusters),
           AnswerCluster(t, list), Way(t), pc[t] \in {"list", "asking list"},
           clusters'.known, clusters'.list = list, entries' = entries,
           Snapshot!Learn
    PROVE  Snapshot!Next
<1> DEFINE p == key[t][2]
           o == RestConfig(PoolCluster(list, p))
<1>1. Answer(t, o)
  BY DEF AnswerCluster
<1>2. /\ key[t] \in Keys /\ entries[key[t]] = "kubernetes"
  BY DEF Way
<1>3. key[t][1] = "pool"
  <2>1. "kubernetes" \in Contents(key[t])
    BY <1>2 DEF IInv, ClientType
  <2>2. "kubernetes" \notin PoolNames \cup {NoPool, Unknown, NotFound}
    BY PoolNamesAssumption DEF NoPool, Unknown, NotFound
  <2> QED
    BY <1>2, <2>1, <2>2, KeyParts
<1>4. p \in PoolNames /\ key[t] = <<"pool", p>> /\ Belongs(entries, batch[next[t]], p)
  BY <1>2, <1>3, KeyParts DEF Way
<1>5. CASE o = "error"
  BY <1>1, <1>5, ErrorStep
<1>6. CASE o \in Snapshot!ClusterOf(list, p)
  <2>1. /\ answer'[t].outcome = o /\ answer'[t].source = batch[next[t]]
        /\ answer' = [answer EXCEPT ![t] = answer'[t]]
    BY <1>1, AnswerRecord
  <2>2. Snapshot!Answer(t)
    BY <1>2, <1>4, <1>6, <2>1
    DEF Snapshot!Answer, Snapshot!Sound, Snapshot!InPool, Belongs
  <2> QED
    BY <2>2 DEF Snapshot!Next
<1> QED
  BY <1>5, <1>6, ClusterChoice

LEMMA HitStep ==
    ASSUME IInv, NEW t \in Threads, Hit(t)
    PROVE  Snapshot!Next \/ UNCHANGED Snapshot!vars
<1> DEFINE c == entries[key[t]]
<1>1. /\ Way(t) /\ key[t] \in Keys /\ c # Unknown
      /\ UNCHANGED <<entries, clusters>>
  BY DEF Hit, IInv, OnTheWay, Way
<1>2. c \in Contents(key[t]) /\ c \in AllContents \ {Unknown}
  BY <1>1 DEF IInv, ClientType
<1>3. Snapshot!Learn
  BY <1>1 DEF Snapshot!Learn
<1>4. CASE Answer(t, "error")
  BY <1>3, <1>4, ErrorStep
<1>5. CASE c = "other" /\ Answer(t, "ignored")
  <2>1. key[t][1] = "pool"
    <3>1. "other" \notin PoolNames \cup {NoPool, Unknown, NotFound}
      BY PoolNamesAssumption DEF NoPool, Unknown, NotFound
    <3> QED
      BY <1>1, <1>2, <1>5, <3>1, KeyParts
  <2>2. key[t][2] \in PoolNames /\ key[t] = <<"pool", key[t][2]>>
        /\ Belongs(entries, batch[next[t]], key[t][2])
    BY <1>1, <2>1, KeyParts DEF Way
  <2> QED
    BY <1>1, <1>3, <1>5, <2>2, IgnoredStep
<1>6. CASE \E s, k : GoTo(t, s, k)
  BY <1>1, <1>6 DEF GoTo, Snapshot!vars
<1> QED
  BY <1>2, <1>4, <1>5, <1>6, ProceedSteps DEF Hit

LEMMA ReplyStep ==
    ASSUME IInv, NEW t \in Threads, Reply(t)
    PROVE  Snapshot!Next \/ UNCHANGED Snapshot!vars
<1>1. PICK c \in Contents(key[t]) :
         /\ pc[t] = "asking" /\ Way(t) /\ entries[key[t]] = Unknown
         /\ entries' = [entries EXCEPT ![key[t]] = c]
         /\ UNCHANGED clusters
         /\ \/ Answer(t, "error")
            \/ c = "other" /\ Answer(t, "ignored")
            \/ c = "kubernetes" /\ GoTo(t, "list", key[t])
            \/ c \in PoolNames /\ GoTo(t, "lookup", <<"pool", c>>)
  BY ReplySteps
<1>2. key[t] \in Keys
  BY <1>1 DEF Way
<1>3. entries'[key[t]] = c /\ entries' = [entries EXCEPT ![key[t]] = entries'[key[t]]]
  BY <1>1, <1>2 DEF IInv, ClientType
<1>4. Snapshot!Learn
  BY <1>1, <1>2, <1>3 DEF Snapshot!Learn, Unknown, Snapshot!Unknown
<1>5. CASE Answer(t, "error")
  BY <1>4, <1>5, ErrorStep
<1>6. CASE c = "other" /\ Answer(t, "ignored")
  <2>1. key[t][1] = "pool"
    <3>1. "other" \notin PoolNames \cup {NoPool, Unknown, NotFound}
      BY PoolNamesAssumption DEF NoPool, Unknown, NotFound
    <3> QED
      BY <1>1, <1>2, <1>6, <3>1, KeyParts
  <2>2. key[t][2] \in PoolNames /\ key[t] = <<"pool", key[t][2]>>
        /\ Belongs(entries, batch[next[t]], key[t][2])
    BY <1>1, <1>2, <2>1, KeyParts DEF Way
  <2>3. batch[next[t]] \in Keys
    <3>1. next[t] \in Nat \ {0} /\ Len(batch) \in Nat
      BY BatchesAssumption DEF IInv, ClientType
    <3>2. next[t] <= Len(batch)
      BY <1>1 DEF Way
    <3> QED
      BY <3>1, <3>2, BatchKeys DEF IInv, ClientType
  <2>4. Belongs(entries', batch[next[t]], key[t][2])
    BY <1>1, <1>2, <1>3, <2>2, <2>3, BelongsStays DEF IInv, ClientType
  <2> QED
    BY <1>3, <1>4, <1>6, <2>2, <2>4, IgnoredStep
<1>7. CASE \E s, k : GoTo(t, s, k)
  <2>1. UNCHANGED answer
    BY <1>7 DEF GoTo
  <2> QED
    BY <1>4, <2>1 DEF Snapshot!Next
<1> QED
  BY <1>1, <1>5, <1>6, <1>7

LEMMA SnapshotNext ==
    IInv /\ [Next]_vars => [Snapshot!Next]_(Snapshot!vars)
<1> SUFFICES ASSUME IInv, [Next]_vars
             PROVE  Snapshot!Next \/ UNCHANGED Snapshot!vars
  OBVIOUS
<1>1. ASSUME NEW t \in Threads, Start(t) \/ Lookup(t) \/ Ask(t) \/ ListAsk(t)
      PROVE  UNCHANGED Snapshot!vars
  BY <1>1 DEF Start, Lookup, Ask, ListAsk, GoTo, Snapshot!vars
<1>2. ASSUME NEW t \in Threads, ListHit(t) PROVE Snapshot!Next
  <2>1. Snapshot!Learn
    BY <1>2 DEF ListHit, Snapshot!Learn
  <2>2. clusters.list \in Seq(Clusters) /\ Way(t)
    BY <1>2 DEF ListHit, IInv, ClientType, OnTheWay
  <2> QED
    BY <1>2, <2>1, <2>2, ClusterStep DEF ListHit, ListKnown
<1>3. ASSUME NEW t \in Threads, ListReply(t) PROVE Snapshot!Next
  <2>1. PICK list \in ClusterLists :
           clusters' = [known |-> TRUE, list |-> list] /\ AnswerCluster(t, list)
    BY <1>3 DEF ListReply
  <2>2. list \in Seq(Clusters) /\ Way(t) /\ ~clusters.known
        /\ clusters'.known /\ clusters'.list = list /\ entries' = entries
        /\ pc[t] = "asking list"
    BY <1>3, <2>1, ListsAssumption DEF ListReply, IInv, OnTheWay, ListAskedOnce
  <2>3. Snapshot!Learn
    BY <2>2 DEF Snapshot!Learn
  <2> QED
    BY <2>1, <2>2, <2>3, ClusterStep
<1>4. ASSUME NEW t \in Threads, ListFails(t) PROVE Snapshot!Next
  <2>1. Snapshot!Learn
    BY <1>4 DEF ListFails, Snapshot!Learn
  <2> QED
    BY <1>4, <2>1, ErrorStep DEF ListFails
<1>5. CASE NewCall
  BY <1>5
  DEF NewCall, Snapshot!Next, Snapshot!NewCall, Unknown, Snapshot!Unknown,
      NoList, Snapshot!NoList, NoAnswer, Snapshot!NoAnswer
<1>6. CASE UNCHANGED vars
  BY <1>6 DEF vars, Snapshot!vars
<1> QED
  BY <1>1, <1>2, <1>3, <1>4, <1>5, <1>6, HitStep, ReplyStep DEF Next, Thread

(* Whatever the threads do at the same time and whatever tsuru replies, a call
   sees one picture of tsuru (external/tsuru.go, rule/tsuru_app.go). *)
THEOREM SnapshotImplemented == Spec => ImplementsSnapshot
<1>1. Spec => Snapshot!Spec
  BY SnapshotInit, SnapshotNext, Invariant, PTL DEF Spec, Snapshot!Spec
<1> QED
  BY <1>1 DEF ImplementsSnapshot

-----------------------------------------------------------------------------
(* Typing, which follows from the invariant but for a few variables. *)
RestTyped ==
    /\ mutex \in BOOLEAN
    /\ locked \in SUBSET Keys
    /\ clusters.list \in ClusterLists \cup {<<>>}
    /\ \A t \in Threads :
          /\ next[t] <= Len(batch) + 1
          /\ answer[t] \in [source : Keys \cup {<<>>}, outcome : Outcomes]

LEMMA RestConfigType ==
    ASSUME NEW list \in Seq(Clusters), NEW pool
    PROVE  RestConfig(PoolCluster(list, pool)) \in Outcomes
<1>1. ASSUME NEW i \in DOMAIN list PROVE list[i].name \in Outcomes
  BY <1>1 DEF Outcomes
<1> QED
  BY <1>1, ClusterChoice DEF Outcomes, Snapshot!ClusterOf

LEMMA AnswerTyped ==
    ASSUME IInv, RestTyped, NEW t \in Threads, NEW o \in Outcomes, Answer(t, o),
           pc[t] # "start", batch' = batch
    PROVE  \A u \in Threads :
              /\ next'[u] <= Len(batch) + 1
              /\ answer'[u] \in [source : Keys \cup {<<>>}, outcome : Outcomes]
<1>1. next[t] <= Len(batch) /\ next[t] \in Nat \ {0} /\ Len(batch) \in Nat
  <2>1. Way(t)
    BY DEF IInv, OnTheWay
  <2>2. next[t] \in Nat \ {0} /\ Len(batch) \in Nat
    BY BatchesAssumption DEF IInv, ClientType
  <2> QED
    BY <2>1, <2>2 DEF Way
<1>2. batch[next[t]] \in Keys
  BY <1>1, BatchKeys DEF IInv, ClientType
<1>3. answer'[t] \in [source : Keys \cup {<<>>}, outcome : Outcomes]
  <2>1. answer'[t] = [source |-> batch[next[t]], outcome |-> o]
    BY AnswerSteps DEF IInv
  <2> QED
    BY <1>2, <2>1
<1>4. next'[t] = next[t] + 1 /\ \A u \in Threads \ {t} : next'[u] = next[u]
  BY DEF Answer, IInv, ClientType
<1>5. \A u \in Threads \ {t} : answer'[u] = answer[u]
  BY DEF Answer, IInv, ClientType
<1> QED
  BY <1>1, <1>3, <1>4, <1>5 DEF RestTyped

LEMMA TypedNext == IInv /\ RestTyped /\ [Next]_vars => RestTyped'
<1> SUFFICES ASSUME IInv, RestTyped, [Next]_vars PROVE RestTyped'
  OBVIOUS
<1>0. {"error", "ignored"} \subseteq Outcomes
  BY DEF Outcomes
<1>1. ASSUME NEW t \in Threads, Start(t) \/ Lookup(t) \/ Ask(t) \/ ListAsk(t)
      PROVE  RestTyped'
  <2>1. Ask(t) => key[t] \in Keys
    BY DEF Ask, IInv, OnTheWay, Way
  <2> QED
    BY <1>1, <2>1 DEF Start, Lookup, Ask, ListAsk, GoTo, RestTyped
<1>2. ASSUME NEW t \in Threads, NEW o \in {"error", "ignored"}, Answer(t, o),
             pc[t] # "start", locked' \in SUBSET locked, mutex' \in BOOLEAN,
             UNCHANGED <<batch, clusters>>
      PROVE  RestTyped'
  BY <1>0, <1>2, AnswerTyped DEF RestTyped
<1>3. ASSUME NEW t \in Threads, NEW s, NEW k, GoTo(t, s, k),
             locked' \in SUBSET locked, UNCHANGED <<batch, clusters, mutex>>
      PROVE  RestTyped'
  BY <1>3 DEF RestTyped, GoTo
<1>4. ASSUME NEW t \in Threads, Hit(t) PROVE RestTyped'
  <2>1. entries[key[t]] \in AllContents \ {Unknown}
    BY <1>4 DEF Hit, IInv, ClientType, OnTheWay, Way
  <2>2. /\ pc[t] # "start" /\ Proceed(t, entries[key[t]])
        /\ UNCHANGED <<batch, mutex, locked, clusters>>
    BY <1>4 DEF Hit
  <2>3. locked' \in SUBSET locked /\ mutex' \in BOOLEAN
    BY <2>2 DEF RestTyped
  <2> QED
    BY <1>2, <1>3, <2>1, <2>2, <2>3, ProceedSteps
<1>5. ASSUME NEW t \in Threads, Reply(t) PROVE RestTyped'
  <2>1. /\ pc[t] # "start"
        /\ locked' \in SUBSET locked
        /\ mutex' \in BOOLEAN
        /\ UNCHANGED <<batch, mutex, clusters>>
    BY <1>5 DEF Reply, RestTyped
  <2>2. \/ \E o \in {"error", "ignored"} : Answer(t, o)
        \/ \E s, k : GoTo(t, s, k)
    BY <1>5, ReplySteps
  <2> QED
    BY <1>2, <1>3, <2>1, <2>2
<1>6. ASSUME NEW t \in Threads, ListHit(t) \/ ListReply(t) PROVE RestTyped'
  <2>1. /\ clusters'.list \in ClusterLists \cup {<<>>}
        /\ AnswerCluster(t, clusters'.list)
        /\ UNCHANGED <<batch, locked>> /\ mutex' \in BOOLEAN /\ pc[t] # "start"
    <3>1. CASE ListHit(t)
      BY <3>1 DEF ListHit, RestTyped
    <3>2. CASE ListReply(t)
      <4>1. PICK list \in ClusterLists :
               clusters' = [known |-> TRUE, list |-> list] /\ AnswerCluster(t, list)
        BY <3>2 DEF ListReply
      <4>2. clusters'.list = list
        BY <4>1
      <4> QED
        BY <3>2, <4>1, <4>2 DEF ListReply
    <3> QED
      BY <1>6, <3>1, <3>2
  <2>2. clusters'.list \in Seq(Clusters)
    <3>1. <<>> \in Seq(Clusters)
      OBVIOUS
    <3> QED
      BY <2>1, <3>1, ListsAssumption
  <2>3. PICK o \in Outcomes : Answer(t, o)
    BY <2>1, <2>2, RestConfigType DEF AnswerCluster
  <2> QED
    BY <2>1, <2>3, AnswerTyped DEF RestTyped
<1>7. ASSUME NEW t \in Threads, ListFails(t) PROVE RestTyped'
  <2>1. locked' \in SUBSET locked /\ mutex' \in BOOLEAN /\ pc[t] # "start"
        /\ Answer(t, "error") /\ UNCHANGED <<batch, clusters>>
    BY <1>7 DEF ListFails
  <2> QED
    BY <1>2, <2>1
<1>8. CASE NewCall
  <2>1. \A t \in Threads : next'[t] = 1 /\ answer'[t] = NoAnswer
    BY <1>8 DEF NewCall
  <2>2. NoAnswer \in [source : Keys \cup {<<>>}, outcome : Outcomes]
    BY <1>0 DEF NoAnswer
  <2>3. Len(batch') \in Nat
    BY <1>8, BatchesAssumption DEF NewCall
  <2>4. clusters'.list = <<>> /\ UNCHANGED <<mutex, locked>>
    BY <1>8 DEF NewCall, NoList
  <2> QED
    BY <2>1, <2>2, <2>3, <2>4 DEF RestTyped
<1>9. CASE UNCHANGED vars
  BY <1>9 DEF vars, RestTyped
<1> QED
  BY <1>1, <1>4, <1>5, <1>6, <1>7, <1>8, <1>9 DEF Next, Thread

(* Every reachable state is well typed: an entry never remembers an error
   other than a 404 of an app or a job. *)
THEOREM ClientTypeCorrect == Spec => []TypeOK
<1>1. Init => RestTyped
  <2> SUFFICES ASSUME Init PROVE RestTyped
    OBVIOUS
  <2>1. Len(batch) \in Nat
    BY BatchesAssumption DEF Init
  <2>2. NoAnswer \in [source : Keys \cup {<<>>}, outcome : Outcomes]
    BY DEF NoAnswer, Outcomes
  <2>3. clusters.list = <<>> /\ mutex = FALSE /\ locked = {}
    BY DEF Init, NoList
  <2>4. \A t \in Threads : next[t] = 1 /\ answer[t] = NoAnswer
    BY DEF Init
  <2>5. mutex \in BOOLEAN /\ locked \in SUBSET Keys
    BY <2>3
  <2>6. \A t \in Threads :
          /\ next[t] <= Len(batch) + 1
          /\ answer[t] \in [source : Keys \cup {<<>>}, outcome : Outcomes]
    BY <2>1, <2>2, <2>4
  <2>7. clusters.list \in ClusterLists \cup {<<>>}
    BY <2>3
  <2> QED
    BY <2>5, <2>6, <2>7 DEF RestTyped
<1>2. IInv /\ RestTyped => TypeOK
  <2> SUFFICES ASSUME IInv, RestTyped PROVE TypeOK
    OBVIOUS
  <2>1. Len(batch) \in Nat
    BY BatchesAssumption DEF IInv, ClientType
  <2>2. next \in [Threads -> 1..Len(batch) + 1]
    BY <2>1 DEF IInv, ClientType, RestTyped
  <2>3. answer \in [Threads -> [source : Keys \cup {NoAnswer.source},
                                outcome : Outcomes]]
    BY DEF IInv, ClientType, RestTyped, NoAnswer
  <2>4. clusters \in [known : BOOLEAN, list : ClusterLists \cup {<<>>}]
    BY DEF IInv, ClientType, RestTyped
  <2> QED
    BY <2>2, <2>3, <2>4 DEF IInv, ClientType, RestTyped, TypeOK
<1> QED
  BY <1>1, <1>2, TypedNext, Invariant, PTL DEF Spec
=============================================================================
