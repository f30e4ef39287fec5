--------------------------- MODULE RulesAPIProofs ---------------------------
(***************************************************************************)
(* Proofs about RulesAPI and the connection in it, for any number of       *)
(* requests, names and ids.                                                *)
(***************************************************************************)
EXTENDS RulesAPI, TLAPS

-----------------------------------------------------------------------------
(* The connection.  Every step of the requests is one of these steps of the
   connection, or none.                                                    *)
ConnStep ==
    \/ \E t \in Threads :
          \/ Conn!Begin(t) \/ Conn!Lock(t) \/ Conn!Look(t) \/ Conn!Connect(t)
          \/ Conn!ConnectFails(t) \/ Conn!Unlock(t) \/ Conn!Return(t)
          \/ Conn!ReturnError(t)
    \/ Conn!Restart

LEMMA ConnSteps == [Next]_vars => [ConnStep]_connVars
<1> SUFFICES ASSUME [Next]_vars PROVE [ConnStep]_connVars
  OBVIOUS
<1>1. CASE Crash
  BY <1>1 DEF Crash, ConnStep
<1>2. ASSUME NEW t \in Threads, Request(t) PROVE [ConnStep]_connVars
  <2>1. CASE Call(t)
    BY <2>1 DEF Call, ConnStep
  <2>2. CASE Connecting(t)
    BY <2>2 DEF Connecting, ConnStep, Conn!InDo
  <2>3. CASE Connected(t) \/ Panic(t)
    BY <2>3 DEF Connected, Panic, ConnStep
  <2>4. CASE NotConnected(t)
    BY <2>4 DEF NotConnected, ConnStep
  <2>5. CASE EnsureIndex(t) \/ SyncRules(t)
    BY <2>5 DEF EnsureIndex, SyncRules
  <2>6. CASE Command(t)
    BY <2>6 DEF Command, Insert, InsertUnanswered, InsertRefused, Delete,
                Replace, ReplaceUnanswered, Find, FindNothing,
                CommandFails
  <2> QED
    BY <1>2, <2>1, <2>2, <2>3, <2>4, <2>5, <2>6 DEF Request
<1>3. CASE UNCHANGED vars
  BY <1>3 DEF vars, connVars
<1> QED
  BY <1>1, <1>2, <1>3 DEF Next

LEMMA ConnTypeInit == Conn!Init => Conn!TypeOK
<1> SUFFICES ASSUME Conn!Init PROVE Conn!TypeOK
  OBVIOUS
<1>1. once \in [done : BOOLEAN, locked : BOOLEAN]
  BY DEF Conn!Init, Conn!NewOnce
<1>2. /\ client \in Conn!ClientStates
      /\ at \in [Threads -> Conn!Places]
  BY DEF Conn!Init, Conn!ClientStates, Conn!Places
<1>3. /\ err \in [Threads -> BOOLEAN]
      /\ failed \in BOOLEAN
      /\ alone \in [Threads -> BOOLEAN]
  BY DEF Conn!Init
<1> QED
  BY <1>1, <1>2, <1>3 DEF Conn!TypeOK

LEMMA ConnTypeNext == Conn!TypeOK /\ [ConnStep]_connVars => Conn!TypeOK'
<1> SUFFICES ASSUME Conn!TypeOK, [ConnStep]_connVars PROVE Conn!TypeOK'
  OBVIOUS
<1> USE DEF Conn!TypeOK, Conn!NewOnce, Conn!ClientStates, Conn!Places,
            Conn!Move
<1>1. ASSUME NEW t \in Threads, Conn!Begin(t) PROVE Conn!TypeOK'
  BY <1>1 DEF Conn!Begin, Conn!Out
<1>2. ASSUME NEW t \in Threads, Conn!Lock(t) PROVE Conn!TypeOK'
  BY <1>2 DEF Conn!Lock
<1>3. ASSUME NEW t \in Threads, Conn!Look(t) PROVE Conn!TypeOK'
  BY <1>3 DEF Conn!Look
<1>4. ASSUME NEW t \in Threads, Conn!Connect(t) PROVE Conn!TypeOK'
  BY <1>4 DEF Conn!Connect
<1>5. ASSUME NEW t \in Threads, Conn!ConnectFails(t) PROVE Conn!TypeOK'
  BY <1>5 DEF Conn!ConnectFails
<1>6. ASSUME NEW t \in Threads, Conn!Unlock(t) PROVE Conn!TypeOK'
  BY <1>6 DEF Conn!Unlock
<1>7. ASSUME NEW t \in Threads, Conn!Return(t) PROVE Conn!TypeOK'
  BY <1>7 DEF Conn!Return
<1>8. ASSUME NEW t \in Threads, Conn!ReturnError(t) PROVE Conn!TypeOK'
  BY <1>8 DEF Conn!ReturnError
<1>9. CASE Conn!Restart
  BY <1>9 DEF Conn!Restart
<1>10. CASE UNCHANGED connVars
  BY <1>10 DEF connVars
<1> QED
  BY <1>1, <1>2, <1>3, <1>4, <1>5, <1>6, <1>7, <1>8, <1>9, <1>10 DEF ConnStep

(* Without a failure the sync.Once works: who is inside has its mutex, and is
   alone there, and the flag says that there is a client. *)
Inside(t) == at[t] \in {"locked", "connecting", "unlock"}

OnceWorks ==
    ~failed =>
        /\ \A t \in Threads : ~err[t]
        /\ once.done => client = "ready"
        /\ ~once.done => client = "none"
        /\ \A t \in Threads : Inside(t) => once.locked
        /\ \A t, u \in Threads : Inside(t) /\ Inside(u) => t = u
        /\ \A t \in Threads : at[t] = "connecting" => ~once.done
        /\ \A t \in Threads : at[t] \in {"unlock", "checking"} => once.done

LEMMA OnceWorksInit == Conn!Init => OnceWorks
BY DEF Conn!Init, OnceWorks, Inside, Conn!NewOnce

LEMMA OnceWorksNext ==
    Conn!TypeOK /\ OnceWorks /\ [ConnStep]_connVars => OnceWorks'
<1> SUFFICES ASSUME Conn!TypeOK, OnceWorks, [ConnStep]_connVars, ~failed'
             PROVE  OnceWorks'
  BY DEF OnceWorks
<1> USE DEF Conn!TypeOK, OnceWorks, Inside, Conn!Move
<1>1. ASSUME NEW t \in Threads, Conn!Begin(t) PROVE OnceWorks'
  BY <1>1 DEF Conn!Begin
<1>2. ASSUME NEW t \in Threads, Conn!Lock(t) PROVE OnceWorks'
  BY <1>2 DEF Conn!Lock
<1>3. ASSUME NEW t \in Threads, Conn!Look(t) PROVE OnceWorks'
  BY <1>3 DEF Conn!Look
<1>4. ASSUME NEW t \in Threads, Conn!Connect(t) PROVE OnceWorks'
  BY <1>4 DEF Conn!Connect
<1>5. ASSUME NEW t \in Threads, Conn!ConnectFails(t) PROVE OnceWorks'
  BY <1>5 DEF Conn!ConnectFails
<1>6. ASSUME NEW t \in Threads, Conn!Unlock(t) PROVE OnceWorks'
  BY <1>6 DEF Conn!Unlock
<1>7. ASSUME NEW t \in Threads, Conn!Return(t) PROVE OnceWorks'
  BY <1>7 DEF Conn!Return
<1>8. ASSUME NEW t \in Threads, Conn!ReturnError(t) PROVE OnceWorks'
  BY <1>8 DEF Conn!ReturnError
<1>9. CASE Conn!Restart
  BY <1>9 DEF Conn!Restart, Conn!NewOnce
<1>10. CASE UNCHANGED connVars
  BY <1>10 DEF connVars
<1> QED
  BY <1>1, <1>2, <1>3, <1>4, <1>5, <1>6, <1>7, <1>8, <1>9, <1>10 DEF ConnStep

(* Whatever failed: a flag that is set without a client will be cleared by a
   call that is still under way, and a call that is alone has no such company. *)
FailuresClear ==
    /\ once.done => client = "ready" \/ \E u \in Threads : err[u]
    /\ \A u \in Threads : err[u] => at[u] \in {"unlock", "checking"}
    /\ \A t \in Threads : alone[t] =>
          /\ ~Conn!Out(t)
          /\ \A u \in Threads \ {t} : Conn!Out(u)
          /\ at[t] \in {"unlock", "checking"} /\ ~err[t] => client = "ready"

LEMMA FailuresClearInit == Conn!Init => FailuresClear
BY DEF Conn!Init, FailuresClear, Conn!NewOnce

LEMMA FailuresClearNext ==
    Conn!TypeOK /\ FailuresClear /\ [ConnStep]_connVars => FailuresClear'
<1> SUFFICES ASSUME Conn!TypeOK, FailuresClear, [ConnStep]_connVars
             PROVE  FailuresClear'
  OBVIOUS
<1> USE DEF Conn!TypeOK, FailuresClear, Conn!Out, Conn!Move
<1>1. ASSUME NEW t \in Threads, Conn!Begin(t) PROVE FailuresClear'
  BY <1>1 DEF Conn!Begin
<1>2. ASSUME NEW t \in Threads, Conn!Lock(t) PROVE FailuresClear'
  BY <1>2 DEF Conn!Lock
<1>3. ASSUME NEW t \in Threads, Conn!Look(t) PROVE FailuresClear'
  BY <1>3 DEF Conn!Look
<1>4. ASSUME NEW t \in Threads, Conn!Connect(t) PROVE FailuresClear'
  BY <1>4 DEF Conn!Connect
<1>5. ASSUME NEW t \in Threads, Conn!ConnectFails(t) PROVE FailuresClear'
  BY <1>5 DEF Conn!ConnectFails
<1>6. ASSUME NEW t \in Threads, Conn!Unlock(t) PROVE FailuresClear'
  BY <1>6 DEF Conn!Unlock
<1>7. ASSUME NEW t \in Threads, Conn!Return(t) PROVE FailuresClear'
  BY <1>7 DEF Conn!Return
<1>8. ASSUME NEW t \in Threads, Conn!ReturnError(t) PROVE FailuresClear'
  BY <1>8 DEF Conn!ReturnError, Conn!NewOnce
<1>9. CASE Conn!Restart
  BY <1>9 DEF Conn!Restart, Conn!NewOnce
<1>10. CASE UNCHANGED connVars
  BY <1>10 DEF connVars
<1> QED
  BY <1>1, <1>2, <1>3, <1>4, <1>5, <1>6, <1>7, <1>8, <1>9, <1>10 DEF ConnStep

ConnInv == Conn!TypeOK /\ OnceWorks /\ FailuresClear

LEMMA ConnInvariant == Spec => []ConnInv
<1>1. Init => ConnInv
  BY ConnTypeInit, OnceWorksInit, FailuresClearInit DEF Init, ConnInv
<1>2. ConnInv /\ [Next]_vars => ConnInv'
  BY ConnSteps, ConnTypeNext, OnceWorksNext, FailuresClearNext DEF ConnInv
<1> QED
  BY <1>1, <1>2, PTL DEF Spec

(* A process connects once however many requests come first at the same time,
   as long as no attempt fails (base.go, createConn). *)
THEOREM ConnectedOnce == Spec => []OneClient
<1>1. ConnInv => OneClient
  BY DEF ConnInv, OnceWorks, Inside, OneClient, Conn!OneClient
<1> QED
  BY <1>1, ConnInvariant, PTL

(* A call of createConn that is alone gets a client or an error of its own,
   whatever failed before and in however many calls at once. *)
THEOREM AloneGetsAClient == Spec => []NoClientNeedsOverlap
<1>1. ConnInv => NoClientNeedsOverlap
  BY DEF ConnInv, FailuresClear, NoClientNeedsOverlap,
         Conn!NoClientNeedsOverlap
<1> QED
  BY <1>1, ConnInvariant, PTL

-----------------------------------------------------------------------------
(* The rules. *)
RuleTypeOK ==
    /\ docs \in [IDs -> Documents]
    /\ \A id \in IDs : docs[id].exists \/ docs[id] = NoDocument
    /\ indexed \in BOOLEAN
    /\ ruleOnce \in BOOLEAN
    /\ step \in [Threads -> Steps]
    /\ copy \in [Threads -> IDs \cup {NoID}]
    /\ \A t \in Threads : copy[t] # NoID <=> step[t] = "sync"
    /\ handed \in SUBSET RestIDs
    /\ owner \in [Names -> RestIDs \cup {NoID}]
    /\ lost \in SUBSET RestIDs
    /\ \A t \in Threads : at[t] # "out" <=> step[t] = "connect"

LEMMA NoIDIsNone == NoID \notin IDs
BY IDsAssumption DEF NoID, IDs

LEMMA DocumentType ==
    ASSUME NEW name \in Names \cup {NoName}, NEW removed \in BOOLEAN
    PROVE  /\ Document(name, removed) \in Documents
           /\ Document(name, removed).exists
           /\ Document(name, removed).name = name
BY DEF Document, Documents

LEMMA NoDocumentType ==
    /\ NoDocument \in Documents
    /\ ~NoDocument.exists
    /\ NoDocument.name = NoName
    /\ ~NoDocument.removed
BY DEF NoDocument, Documents

LEMMA RuleTypeInit == Init => RuleTypeOK
<1> SUFFICES ASSUME Init PROVE RuleTypeOK
  OBVIOUS
<1> USE DEF Init
<1>1. docs \in [IDs -> Documents] /\ \A id \in IDs : docs[id] = NoDocument
  BY NoDocumentType
<1>2. step \in [Threads -> Steps] /\ copy \in [Threads -> IDs \cup {NoID}]
  BY DEF Steps
<1>3. \A t \in Threads : copy[t] # NoID <=> step[t] = "sync"
  OBVIOUS
<1>4. \A t \in Threads : at[t] # "out" <=> step[t] = "connect"
  BY DEF Conn!Init
<1> QED
  BY <1>1, <1>2, <1>3, <1>4 DEF RuleTypeOK

LEMMA RuleTypeNext ==
    RuleTypeOK /\ Conn!TypeOK /\ [Next]_vars => RuleTypeOK'
<1> SUFFICES ASSUME RuleTypeOK, Conn!TypeOK, [Next]_vars PROVE RuleTypeOK'
  OBVIOUS
<1> USE NoIDIsNone DEF RuleTypeOK, GoTo, Return, ToSync, Steps, connVars
<1>1. ASSUME NEW t \in Threads, Call(t) PROVE RuleTypeOK'
  BY <1>1 DEF Call, Idle, Conn!Begin, Conn!Move, Conn!TypeOK
<1>2. ASSUME NEW t \in Threads, Connecting(t) PROVE RuleTypeOK'
  <2>1. at[t] # "out" /\ at'[t] # "out" /\ \A u \in Threads \ {t} : at'[u] = at[u]
    BY <1>2 DEF Connecting, Conn!InDo, Conn!Lock, Conn!Look, Conn!Connect,
                Conn!ConnectFails, Conn!Unlock, Conn!Move, Conn!TypeOK
  <2> QED
    BY <1>2, <2>1 DEF Connecting, ruleVars
<1>3. ASSUME NEW t \in Threads, Connected(t) PROVE RuleTypeOK'
  BY <1>3 DEF Connected, Conn!Return, Conn!Move, Conn!TypeOK
<1>4. ASSUME NEW t \in Threads, Panic(t) PROVE RuleTypeOK'
  BY <1>4 DEF Panic, Conn!Return, Conn!Move, Conn!TypeOK
<1>5. ASSUME NEW t \in Threads, NotConnected(t) PROVE RuleTypeOK'
  <2>1. PICK forgotten \in SUBSET {u \in Threads : at[u] = "lock"} :
           at' = [u \in Threads |-> IF u \in forgotten THEN "lost"
                                    ELSE IF u = t THEN "out" ELSE at[u]]
    BY <1>5 DEF NotConnected, Conn!ReturnError
  <2>2. at[t] = "checking"
    BY <1>5 DEF NotConnected, Conn!ReturnError
  <2>3. /\ at'[t] = "out"
        /\ \A u \in Threads \ {t} : at'[u] # "out" <=> at[u] # "out"
    BY <2>1, <2>2
  <2> QED
    BY <1>5, <2>2, <2>3 DEF NotConnected
<1>6. ASSUME NEW t \in Threads, EnsureIndex(t) PROVE RuleTypeOK'
  <2>1. indexed' \in BOOLEAN
    BY <1>6 DEF EnsureIndex
  <2> QED
    BY <1>6, <2>1 DEF EnsureIndex
<1>7. ASSUME NEW t \in Threads, Command(t) PROVE RuleTypeOK'
  <2>1. ASSUME NEW name \in Names \cup {NoName},
               Insert(t, name) \/ InsertUnanswered(t, name)
        PROVE  RuleTypeOK'
    <3>1. PICK id \in RestIDs, removed \in BOOLEAN :
             /\ docs' = [docs EXCEPT ![id] = Document(name, removed)]
             /\ \/ ToSync(t, id) /\ Owned(name, id) /\ lost' = lost
                \/ Return(t) /\ owner' = owner /\ lost' = lost \cup {id}
      BY <2>1 DEF Insert, InsertUnanswered
    <3>2. id \in IDs
      BY DEF IDs
    <3>3. /\ docs' \in [IDs -> Documents]
          /\ \A i \in IDs : docs'[i].exists \/ docs'[i] = NoDocument
      BY <3>1, <3>2, DocumentType
    <3>4. owner' \in [Names -> RestIDs \cup {NoID}]
      BY <3>1 DEF Owned
    <3>5. UNCHANGED <<indexed, ruleOnce, handed, at>> /\ step[t] = "command"
      BY <2>1 DEF Insert, InsertUnanswered
    <3>6. /\ step' \in [Threads -> Steps]
          /\ copy' \in [Threads -> IDs \cup {NoID}]
          /\ \A u \in Threads : copy'[u] # NoID <=> step'[u] = "sync"
          /\ \A u \in Threads : at'[u] # "out" <=> step'[u] = "connect"
      BY <3>1, <3>2, <3>5
    <3> QED
      BY <3>1, <3>3, <3>4, <3>5, <3>6
  <2>2. ASSUME NEW id \in IDs, Delete(t, id) PROVE RuleTypeOK'
    <3> DEFINE removed == [docs[id] EXCEPT !.removed = TRUE]
    <3>1. docs[id].exists => removed \in Documents /\ removed.exists
      BY DEF Documents
    <3>2. docs' = IF docs[id].exists THEN [docs EXCEPT ![id] = removed] ELSE docs
      BY <2>2 DEF Delete
    <3>3. /\ docs' \in [IDs -> Documents]
          /\ \A i \in IDs : docs'[i].exists \/ docs'[i] = NoDocument
      <4> HIDE DEF removed
      <4> QED
        BY <3>1, <3>2
    <3> QED
      BY <2>2, <3>3 DEF Delete
  <2>3. ASSUME NEW id \in ServiceIDs, Replace(t, id) \/ ReplaceUnanswered(t, id)
        PROVE  RuleTypeOK'
    <3> DEFINE new == Document(NoName, FALSE)
    <3>1. id \in IDs /\ new \in Documents /\ new.exists
      BY DocumentType DEF IDs
    <3>2. docs' = [docs EXCEPT ![id] = new]
      BY <2>3 DEF Replace, ReplaceUnanswered
    <3>3. /\ docs' \in [IDs -> Documents]
          /\ \A i \in IDs : docs'[i].exists \/ docs'[i] = NoDocument
      <4> HIDE DEF new
      <4> QED
        BY <3>1, <3>2
    <3>4. id \in IDs
      BY <3>1
    <3>5. /\ ToSync(t, id) \/ Return(t)
          /\ UNCHANGED <<indexed, ruleOnce, handed, owner, lost, at>>
          /\ UNCHANGED connVars
          /\ step[t] = "command"
      BY <2>3 DEF Replace, ReplaceUnanswered
    <3>6. /\ step' \in [Threads -> Steps]
          /\ copy' \in [Threads -> IDs \cup {NoID}]
          /\ \A u \in Threads : copy'[u] # NoID <=> step'[u] = "sync"
          /\ \A u \in Threads : at'[u] # "out" <=> step'[u] = "connect"
      BY <3>4, <3>5
    <3> HIDE DEF new
    <3> QED
      BY <3>3, <3>5, <3>6
  <2>4. ASSUME NEW x \in IDs \cup Names, Find(t, x) PROVE RuleTypeOK'
    <3>1. PICK id \in IDs : ToSync(t, id)
      BY <2>4 DEF Find, Matches
    <3> QED
      BY <2>4, <3>1 DEF Find
  <2>5. ASSUME /\ step[t] = "command"
               /\ Return(t)
               /\ UNCHANGED <<docs, indexed, ruleOnce, handed, owner, lost>>
               /\ UNCHANGED connVars
        PROVE  RuleTypeOK'
    BY <2>5
  <2> QED
    BY <1>7, <2>1, <2>2, <2>3, <2>4, <2>5
    DEF Command, InsertRefused, FindNothing, CommandFails
<1>8. ASSUME NEW t \in Threads, SyncRules(t) PROVE RuleTypeOK'
  BY <1>8 DEF SyncRules
<1>9. CASE Crash
  <2>1. at' = [t \in Threads |-> "out"]
    BY <1>9 DEF Crash, Conn!Restart
  <2> QED
    BY <1>9, <2>1 DEF Crash
<1>10. CASE UNCHANGED vars
  BY <1>10 DEF vars
<1> QED
  BY <1>1, <1>2, <1>3, <1>4, <1>5, <1>6, <1>7, <1>8, <1>9, <1>10
  DEF Next, Request

LEMMA TypeInvariant == Spec => [](RuleTypeOK /\ Conn!TypeOK)
<1>1. Init => RuleTypeOK /\ Conn!TypeOK
  BY RuleTypeInit, ConnTypeInit DEF Init
<1>2. RuleTypeOK /\ Conn!TypeOK /\ [Next]_vars => (RuleTypeOK /\ Conn!TypeOK)'
  BY RuleTypeNext, ConnSteps, ConnTypeNext
<1> QED
  BY <1>1, <1>2, PTL DEF Spec

(* Every reachable state is well typed. *)
THEOREM RulesTypeCorrect == Spec => []TypeOK
<1>1. RuleTypeOK /\ Conn!TypeOK => TypeOK
  BY DEF RuleTypeOK, TypeOK
<1> QED
  BY <1>1, TypeInvariant, PTL

-----------------------------------------------------------------------------
(* What a step can do to the documents: a request adds one with an id that is
   new, a removal marks one, an expansion replaces one of the service. *)
Adds(t, name, id) ==
    /\ step[t] = "command"
    /\ ~Refused(name)
    /\ ~docs[id].exists
    /\ \E removed \in BOOLEAN :
          docs' = [docs EXCEPT ![id] = Document(name, removed)]
    /\ \/ Owned(name, id) /\ ToSync(t, id) /\ lost' = lost
       \/ owner' = owner /\ Return(t) /\ lost' = lost \cup {id}
    /\ UNCHANGED <<indexed, ruleOnce, handed>>

Marks ==
    /\ \A id \in IDs : /\ docs'[id].exists = docs[id].exists
                       /\ docs'[id].name = docs[id].name
                       /\ docs[id].removed => docs'[id].removed
    /\ owner' = owner
    /\ indexed' => indexed \/ NamesDiffer

Replaces ==
    /\ \E id \in ServiceIDs :
          docs' = [docs EXCEPT ![id] = Document(NoName, FALSE)]
    /\ owner' = owner /\ indexed' = indexed

LEMMA DocumentSteps ==
    ASSUME RuleTypeOK, [Next]_vars
    PROVE  \/ \E t \in Threads, name \in Names \cup {NoName}, id \in RestIDs :
                 Adds(t, name, id)
           \/ Marks
           \/ Replaces
<1> USE DEF RuleTypeOK
<1>1. ASSUME UNCHANGED <<docs, owner>>, indexed' => indexed \/ NamesDiffer
      PROVE  Marks
  BY <1>1 DEF Marks
<1>2. ASSUME NEW t \in Threads, Command(t)
      PROVE  \/ \E name \in Names \cup {NoName}, id \in RestIDs : Adds(t, name, id)
             \/ Marks \/ Replaces
  <2>1. ASSUME NEW name \in Names \cup {NoName},
               Insert(t, name) \/ InsertUnanswered(t, name)
        PROVE  \E id \in RestIDs : Adds(t, name, id)
    BY <2>1 DEF Insert, InsertUnanswered, Adds
  <2>2. ASSUME NEW id \in IDs, Delete(t, id) PROVE Marks
    <3>1. docs[id] \in Documents
      OBVIOUS
    <3>2. \A i \in IDs : /\ docs'[i].exists = docs[i].exists
                         /\ docs'[i].name = docs[i].name
                         /\ docs[i].removed => docs'[i].removed
      <4>1. CASE docs[id].exists
        BY <2>2, <4>1 DEF Delete, Documents
      <4>2. CASE ~docs[id].exists
        BY <2>2, <4>2 DEF Delete
      <4> QED
        BY <4>1, <4>2
    <3> QED
      BY <2>2, <3>2 DEF Delete, Marks
  <2>3. ASSUME NEW id \in ServiceIDs, Replace(t, id) \/ ReplaceUnanswered(t, id)
        PROVE  Replaces
    BY <2>3 DEF Replace, ReplaceUnanswered, Replaces
  <2>4. ASSUME UNCHANGED <<docs, indexed, owner>> PROVE Marks
    BY <1>1, <2>4
  <2> QED
    BY <1>2, <2>1, <2>2, <2>3, <2>4
    DEF Command, InsertRefused, Find, FindNothing, CommandFails
<1>3. ASSUME NEW t \in Threads, Request(t), ~Command(t) PROVE Marks
  <2>1. CASE EnsureIndex(t)
    <3>1. UNCHANGED <<docs, owner>> /\ (indexed' => indexed \/ NamesDiffer)
      BY <2>1 DEF EnsureIndex
    <3> QED
      BY <1>1, <3>1
  <2>2. CASE ~EnsureIndex(t)
    <3>1. UNCHANGED <<docs, owner, indexed>>
      BY <1>3, <2>2
      DEF Request, Call, Connecting, ruleVars, Connected, Panic, NotConnected,
          SyncRules
    <3> QED
      BY <1>1, <3>1
  <2> QED
    BY <2>1, <2>2
<1>4. CASE Crash
  BY <1>1, <1>4 DEF Crash
<1>5. CASE UNCHANGED vars
  BY <1>1, <1>5 DEF vars
<1> QED
  BY <1>2, <1>3, <1>4, <1>5 DEF Next

(* The rule of a name has that name, and the index holds every document. *)
OwnersAreNamed == \A n \in Names : owner[n] # NoID => docs[owner[n]].name = n
IndexHolds == indexed => NamesDiffer

LEMMA NamesNext ==
    RuleTypeOK /\ OwnersAreNamed /\ IndexHolds /\ [Next]_vars
        => OwnersAreNamed' /\ IndexHolds'
<1> SUFFICES ASSUME RuleTypeOK, OwnersAreNamed, IndexHolds, [Next]_vars
             PROVE  OwnersAreNamed' /\ IndexHolds'
  OBVIOUS
<1> USE DEF RuleTypeOK
<1>0. /\ \A n \in Names : n # NoName
      /\ \A n \in Names : owner[n] # NoID => owner[n] \in IDs
      /\ NoName \in Names \cup {NoName}
  BY NamesAssumption DEF NoName, IDs
<1>1. ASSUME NEW t \in Threads, NEW name \in Names \cup {NoName},
             NEW id \in RestIDs, Adds(t, name, id)
      PROVE  OwnersAreNamed' /\ IndexHolds'
  <2>1. /\ id \in IDs /\ indexed' = indexed
        /\ docs'[id].name = name
        /\ \A j \in IDs \ {id} : docs'[j] = docs[j]
        /\ docs[id].name = NoName
    BY <1>1, DocumentType, NoDocumentType DEF Adds, IDs
  <2>2. OwnersAreNamed'
    <3> SUFFICES ASSUME NEW n \in Names, owner'[n] # NoID
                 PROVE  docs'[owner'[n]].name = n
      BY DEF OwnersAreNamed
    <3>1. owner'[n] = owner[n] \/ (owner'[n] = id /\ n = name)
      BY <1>1 DEF Adds, Owned
    <3>2. CASE owner'[n] = owner[n]
      BY <1>0, <2>1, <3>2 DEF OwnersAreNamed
    <3> QED
      BY <2>1, <3>1, <3>2
  <2>3. IndexHolds'
    <3> SUFFICES ASSUME indexed, NEW i \in IDs, NEW j \in IDs,
                        docs'[i].name = docs'[j].name, docs'[i].name # NoName
                 PROVE  i = j
      BY <2>1 DEF IndexHolds, NamesDiffer
    <3>1. name # NoName => \A k \in IDs : docs[k].name # name
      BY <1>1 DEF Adds, Refused, Taken
    <3> QED
      BY <2>1, <3>1 DEF IndexHolds, NamesDiffer
  <2> QED
    BY <2>2, <2>3
<1>2. CASE Marks
  BY <1>0, <1>2 DEF Marks, OwnersAreNamed, IndexHolds, NamesDiffer
<1>3. CASE Replaces
  <2>1. PICK id \in ServiceIDs :
           docs' = [docs EXCEPT ![id] = Document(NoName, FALSE)]
    BY <1>3 DEF Replaces
  <2>2. /\ id \in IDs /\ owner' = owner /\ indexed' = indexed
        /\ docs'[id].name = NoName
        /\ \A j \in IDs \ {id} : docs'[j] = docs[j]
    BY <1>0, <1>3, <2>1, DocumentType DEF Replaces, IDs
  <2>3. \A n \in Names : owner[n] # id
    BY <2>2, IDsAssumption, NoIDIsNone
  <2> QED
    BY <1>0, <2>2, <2>3 DEF OwnersAreNamed, IndexHolds, NamesDiffer
<1> QED
  BY <1>1, <1>2, <1>3, DocumentSteps

(* Once the index is there, a name that was given to a rule means that rule for
   ever, for any number of requests at once, over crashes, and also for names
   that were given while it was missing (rulestorage.go, getRulesColl). *)
THEOREM NamesAreKept == Spec => []NameKeepsItsRule
<1> DEFINE Inv == RuleTypeOK /\ Conn!TypeOK /\ OwnersAreNamed /\ IndexHolds
<1>1. Init => Inv
  <2> SUFFICES ASSUME Init PROVE Inv
    OBVIOUS
  <2>1. RuleTypeOK /\ Conn!TypeOK
    BY RuleTypeInit, ConnTypeInit DEF Init
  <2>2. OwnersAreNamed /\ IndexHolds
    BY DEF Init, OwnersAreNamed, IndexHolds
  <2> QED
    BY <2>1, <2>2
<1>2. Inv /\ [Next]_vars => Inv'
  BY RuleTypeNext, ConnSteps, ConnTypeNext, NamesNext
<1>3. Inv => NameKeepsItsRule
  <2> SUFFICES ASSUME Inv, indexed, NEW n \in Names, owner[n] # NoID,
                      NEW id \in IDs
               PROVE  docs[id].name = n <=> id = owner[n]
    BY DEF NameKeepsItsRule
  <2>1. docs[owner[n]].name = n /\ owner[n] \in IDs /\ n # NoName
    BY NamesAssumption DEF OwnersAreNamed, RuleTypeOK, IDs, NoName
  <2> QED
    BY <2>1 DEF IndexHolds, NamesDiffer
<1> QED
  BY <1>1, <1>2, <1>3, PTL DEF Spec

(* Only expansions put a removed rule in force again: one that a request added
   stays removed (rulestorage.go, Delete, Save). *)
THEOREM RemovalsLast == Spec => RemovedStaysRemoved
<1> DEFINE Stays == \A id \in RestIDs : docs[id].removed => docs'[id].removed
<1>1. ASSUME RuleTypeOK, [Next]_vars PROVE Stays
  <2> SUFFICES ASSUME NEW i \in RestIDs, docs[i].removed PROVE docs'[i].removed
    OBVIOUS
  <2> USE DEF RuleTypeOK
  <2>1. i \in IDs /\ i \notin ServiceIDs
    BY IDsAssumption DEF IDs
  <2>2. docs[i].exists
    <3>1. docs[i] # NoDocument
      <4>1. docs[i].removed
        OBVIOUS
      <4> QED
        BY <4>1, NoDocumentType
    <3> QED
      BY <1>1, <2>1, <3>1
  <2>3. ASSUME NEW t \in Threads, NEW name \in Names \cup {NoName},
               NEW id \in RestIDs, Adds(t, name, id)
        PROVE  docs'[i].removed
    <3>1. PICK removed \in BOOLEAN :
             docs' = [docs EXCEPT ![id] = Document(name, removed)]
      BY <2>3 DEF Adds
    <3>2. i # id
      BY <2>2, <2>3 DEF Adds
    <3>3. docs'[i] = docs[i]
      BY <1>1, <2>1, <3>1, <3>2
    <3>4. docs[i].removed
      OBVIOUS
    <3> QED
      BY <3>3, <3>4, Zenon
  <2>4. CASE Marks
    BY <2>1, <2>4 DEF Marks
  <2>5. CASE Replaces
    <3>1. docs'[i] = docs[i]
      BY <1>1, <2>1, <2>5 DEF Replaces
    <3>2. docs[i].removed
      OBVIOUS
    <3> QED
      BY <3>1, <3>2, Zenon
  <2> QED
    BY <1>1, <2>3, <2>4, <2>5, DocumentSteps
<1>2. (RuleTypeOK /\ Conn!TypeOK) /\ [Next]_vars => [Stays]_vars
  BY <1>1
<1> QED
  BY <1>2, TypeInvariant, PTL DEF Spec, RemovedStaysRemoved

LEMMA AddedNext == RuleTypeOK /\ AddedIsSynced /\ [Next]_vars => AddedIsSynced'
<1> SUFFICES ASSUME RuleTypeOK, AddedIsSynced, [Next]_vars,
                    NEW i \in RestIDs, docs'[i].exists
             PROVE  i \in handed' \cup lost' \cup InHands'
  BY DEF AddedIsSynced
<1> USE DEF RuleTypeOK, InHands
<1>1. i \in IDs /\ i # NoID
  BY NoIDIsNone DEF IDs
<1>2. ASSUME docs[i].exists
      PROVE  i \in handed \cup lost \cup InHands
  BY <1>2 DEF AddedIsSynced
<1>3. ASSUME NEW t \in Threads, NEW name \in Names \cup {NoName},
             NEW id \in RestIDs, Adds(t, name, id)
      PROVE  i \in handed' \cup lost' \cup InHands'
  <2>1. copy[t] = NoID /\ id \in IDs /\ handed' = handed /\ lost \subseteq lost'
    BY <1>3 DEF Adds, IDs
  <2>2. i # id => docs[i].exists
    BY <1>1, <1>3, <2>1 DEF Adds
  <2>3. CASE copy' = [copy EXCEPT ![t] = id]
    BY <1>1, <1>2, <2>1, <2>2, <2>3
  <2>4. CASE copy' = [copy EXCEPT ![t] = NoID] /\ lost' = lost \cup {id}
    BY <1>1, <1>2, <2>1, <2>2, <2>4
  <2> QED
    BY <1>3, <2>3, <2>4 DEF Adds, ToSync, Return
<1>4. ASSUME docs[i].exists, ~Crash, ~\E t \in Threads : SyncRules(t)
      PROVE  i \in handed' \cup lost' \cup InHands'
  <2> DEFINE Kept == /\ handed' = handed /\ lost \subseteq lost'
                     /\ \A t \in Threads : copy[t] = i => copy'[t] = i
  <2>1. ASSUME NEW u \in Threads, Command(u) PROVE Kept
    <3>1. handed' = handed /\ lost \subseteq lost' /\ step[u] = "command"
      BY <2>1 DEF Command, Insert, InsertUnanswered, InsertRefused, Delete,
                  Replace, ReplaceUnanswered, Find, FindNothing, CommandFails
    <3>2. \E c : copy' = [copy EXCEPT ![u] = c]
      BY <2>1 DEF Command, Insert, InsertUnanswered, InsertRefused, Delete,
                  Replace, ReplaceUnanswered, Find, FindNothing, CommandFails,
                  ToSync, Return
    <3> QED
      BY <1>1, <3>1, <3>2
  <2>2. ASSUME NEW u \in Threads, Request(u), ~Command(u) PROVE Kept
    <3>1. CASE Panic(u) \/ NotConnected(u)
      <4>1. at[u] # "out"
        BY <3>1 DEF Panic, NotConnected, Conn!Return, Conn!ReturnError
      <4>2. copy[u] = NoID
        BY <4>1
      <4> QED
        BY <1>1, <3>1, <4>2 DEF Panic, NotConnected, Return
    <3>2. CASE UNCHANGED <<handed, copy, lost>>
      BY <3>2
    <3> QED
      BY <1>4, <2>2, <3>1, <3>2
      DEF Request, Call, Connecting, ruleVars, Connected, EnsureIndex
  <2>3. Kept
    BY <1>4, <2>1, <2>2 DEF Next, vars
  <2> HIDE DEF Kept
  <2>4. i \in handed \cup lost \cup InHands
    BY <1>2, <1>4
  <2> QED
    BY <2>3, <2>4 DEF Kept
<1>5. ASSUME NEW t \in Threads, SyncRules(t)
      PROVE  i \in handed' \cup lost' \cup InHands'
  <2>1. docs[i].exists
    BY <1>5 DEF SyncRules
  <2> QED
    BY <1>2, <1>5, <2>1 DEF SyncRules, Return
<1>6. ASSUME Crash PROVE i \in handed' \cup lost' \cup InHands'
  <2>1. docs[i].exists
    BY <1>6 DEF Crash
  <2>2. lost' = lost \cup (InHands \cap RestIDs) /\ handed' = handed
    BY <1>6 DEF Crash
  <2> QED
    BY <1>2, <2>1, <2>2
<1>7. docs[i].exists \/ \E t \in Threads, name \in Names \cup {NoName},
                              id \in RestIDs : Adds(t, name, id)
  <2>1. CASE Marks
    BY <1>1, <2>1 DEF Marks
  <2>2. CASE Replaces
    BY <1>1, <2>2, IDsAssumption DEF Replaces
  <2> QED
    BY <2>1, <2>2, DocumentSteps
<1> QED
  BY <1>3, <1>4, <1>5, <1>6, <1>7

(* A rule that was added gets to SyncRules or is about to, but for those whose
   answer was lost and those that a crash found in hand (api/rule.go,
   addRule). *)
THEOREM AddedRulesAreSynced == Spec => []AddedIsSynced
<1> DEFINE Inv == RuleTypeOK /\ Conn!TypeOK /\ AddedIsSynced
<1>1. Init => Inv
  <2> SUFFICES ASSUME Init PROVE Inv
    OBVIOUS
  <2>1. RuleTypeOK /\ Conn!TypeOK
    BY RuleTypeInit, ConnTypeInit DEF Init
  <2>2. AddedIsSynced
    BY NoDocumentType DEF Init, AddedIsSynced, IDs
  <2> QED
    BY <2>1, <2>2
<1>2. Inv /\ [Next]_vars => Inv'
  BY RuleTypeNext, ConnSteps, ConnTypeNext, AddedNext
<1>3. Inv => AddedIsSynced
  OBVIOUS
<1> QED
  BY <1>1, <1>2, <1>3, PTL DEF Spec
=============================================================================
