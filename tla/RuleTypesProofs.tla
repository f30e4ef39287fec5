-------------------------- MODULE RuleTypesProofs --------------------------
(***************************************************************************)
(* Proofs about RuleTypes, for any destinations, port lists and number of  *)
(* base rules.                                                             *)
(***************************************************************************)
EXTENDS RuleTypes, FiniteSetTheorems, TLAPS

(* Callers ask for no jobs, which RuleType.Equals does not compare. *)
NoJobs == \A dest \in Destinations : dest.TsuruJob = Nil

(* What is stored came from a destination that Validate accepts. *)
StoredAreValid ==
    \A i \in DOMAIN baseRules : \E dest \in Destinations :
        Validate(dest) /\ baseRules[i].Destination = Stored(dest)

(* No base rule in force equals one that was added after it. *)
LaterDiffer ==
    \A i, j \in DOMAIN baseRules :
        i < j /\ ~baseRules[i].Removed =>
            ~Equals(baseRules[i].Destination, baseRules[j].Destination)

Typed ==
    /\ baseRules \in Seq(BaseRules) /\ Len(baseRules) <= MaxRules
    /\ answer \in Answers
    /\ answer.asked # Nil /\ answer.result # "invalid" => Validate(answer.asked)

IInv ==
    /\ Typed
    /\ StoredAreValid
    /\ LaterDiffer
    /\ AddedIsFound

-----------------------------------------------------------------------------
(* Destinations *)

LEMMA ListType ==
    ASSUME NEW ports \in PortLists \cup {Nil}
    PROVE  /\ List(ports) \in PortLists
           /\ List(List(ports)) = List(ports)
           /\ List(ports) # Nil
           /\ Len(List(ports)) \in Nat /\ DOMAIN List(ports) = 1..Len(List(ports))
           /\ \A i \in DOMAIN List(ports) :
                 /\ List(ports)[i].Protocol \in DOMAIN Lower
                 /\ List(ports)[i].Port \in Nat
<1>1. <<>> \in PortLists
  BY DEF PortLists
<1>2. List(ports) \in PortLists
  BY <1>1 DEF List
<1>3. List(ports) # Nil /\ List(List(ports)) = List(ports)
  BY <1>2, NilAssumption DEF List
<1>4. ASSUME NEW p \in PortLists
      PROVE  /\ Len(p) \in Nat /\ DOMAIN p = 1..Len(p)
             /\ \A i \in DOMAIN p : p[i].Protocol \in DOMAIN Lower /\ p[i].Port \in Nat
  <2> DEFINE Port == [Protocol : DOMAIN Lower, Port : Nat]
  <2>1. p \in Seq(Port)
    BY DEF PortLists
  <2>2. \A q \in Port : q.Protocol \in DOMAIN Lower /\ q.Port \in Nat
    OBVIOUS
  <2> HIDE DEF Port
  <2> QED
    BY <2>1, <2>2
<1> QED
  BY <1>2, <1>3, <1>4

(* A valid destination has exactly one kind. *)
LEMMA OneKind ==
    ASSUME NEW dest \in Destinations, Validate(dest)
    PROVE  \E k \in Kinds : dest[k] # Nil /\ \A other \in Kinds \ {k} : dest[other] = Nil
BY DEF Validate, CountSet

(* The storage changes nothing of a destination but a nil port list. *)
LEMMA StoredFields ==
    ASSUME NEW dest \in Destinations
    PROVE  /\ \A k \in Kinds : (Stored(dest)[k] = Nil) <=> (dest[k] = Nil)
           /\ \A k \in (Kinds \ External) \cup {"KubernetesService"} :
                 Stored(dest)[k] = dest[k]
           /\ \A k \in External : dest[k] # Nil =>
                 /\ dest[k].Ports \in PortLists \cup {Nil}
                 /\ Stored(dest)[k].Name = dest[k].Name
                 /\ Stored(dest)[k].SyncWholeNetwork = dest[k].SyncWholeNetwork
                 /\ Stored(dest)[k].Ports = List(dest[k].Ports)
           /\ CountSet(Stored(dest)) = CountSet(dest)
<1>1. DOMAIN dest = Kinds \cup {"KubernetesService"}
  BY DestinationsAssumption
<1>2. \A k \in (Kinds \ External) \cup {"KubernetesService"} :
          Stored(dest)[k] = dest[k]
  BY <1>1 DEF Stored, Kinds, External
<1>3. ASSUME NEW k \in External, dest[k] = Nil PROVE Stored(dest)[k] = Nil
  BY <1>1, <1>3 DEF Stored, Kinds, External
<1>4. ASSUME NEW k \in External, dest[k] # Nil
      PROVE  /\ Stored(dest)[k] # Nil
             /\ dest[k].Ports \in PortLists \cup {Nil}
             /\ Stored(dest)[k].Name = dest[k].Name
             /\ Stored(dest)[k].SyncWholeNetwork = dest[k].SyncWholeNetwork
             /\ Stored(dest)[k].Ports = List(dest[k].Ports)
  <2>1. dest[k] \in ExternalRules(dest[k].Name) /\ Nil \notin ExternalRules(dest[k].Name)
    BY <1>4, DestinationsAssumption
  <2>2. Stored(dest)[k] = [dest[k] EXCEPT !.Ports = List(@)]
    BY <1>1, <1>4 DEF Stored, Kinds, External
  <2>3. dest[k].Ports \in PortLists \cup {Nil}
    BY <2>1 DEF ExternalRules
  <2>4. List(dest[k].Ports) \in PortLists
    BY <2>3, ListType
  <2>5. Stored(dest)[k] \in ExternalRules(dest[k].Name)
    BY <2>1, <2>2, <2>4 DEF ExternalRules
  <2> QED
    BY <2>1, <2>2, <2>3, <2>5 DEF ExternalRules
<1>5. \A k \in Kinds : (Stored(dest)[k] = Nil) <=> (dest[k] = Nil)
  BY <1>2, <1>3, <1>4 DEF Kinds, External
<1>6. CountSet(Stored(dest)) = CountSet(dest)
  BY <1>5 DEF CountSet
<1> QED
  BY <1>2, <1>4, <1>5, <1>6

(* What AddRule stores is found by what was asked for. *)
LEMMA StoredIsFound ==
    ASSUME NEW dest \in Destinations, Validate(dest)
    PROVE  ruleTypeMatch(Stored(dest), dest)
<1>1. dest.KubernetesService = Nil
  BY DEF Validate
<1>2. \A k \in {"TsuruApp", "TsuruJob"} : Stored(dest)[k] = dest[k]
  BY StoredFields DEF Kinds, External
<1>3. ASSUME NEW k \in External, dest[k] # Nil
      PROVE  /\ Stored(dest)[k] # Nil
             /\ NameMatches(Stored(dest)[k].Name, dest[k].Name)
             /\ PortsMatch(Stored(dest)[k].Ports, dest[k].Ports)
  BY <1>3, StoredFields DEF Kinds, External, NameMatches, PortsMatch, List
<1> QED
  BY <1>1, <1>2, <1>3 DEF ruleTypeMatch, NameMatches

(* Equals does not see what the storage does to the other destination. *)
LEMMA EqualsStored ==
    ASSUME NEW d \in Destinations, NEW e \in Destinations
    PROVE  Equals(Stored(d), Stored(e)) <=> Equals(Stored(d), e)
<1>1. \A k \in {"TsuruApp", "KubernetesService", "RpaasInstance"} :
          Stored(e)[k] = e[k]
  BY StoredFields DEF Kinds, External
<1>2. ASSUME NEW k \in External
      PROVE  ExternalEquals(Stored(d)[k], Stored(e)[k])
                <=> ExternalEquals(Stored(d)[k], e[k])
  <2>1. CASE e[k] = Nil
    BY <2>1, StoredFields DEF ExternalEquals, Kinds, External
  <2>2. CASE e[k] # Nil
    <3>1. /\ Stored(e)[k].Name = e[k].Name /\ Stored(e)[k] # Nil
          /\ Stored(e)[k].SyncWholeNetwork = e[k].SyncWholeNetwork
          /\ Stored(e)[k].Ports = List(e[k].Ports)
          /\ e[k].Ports \in PortLists \cup {Nil}
      BY <2>2, StoredFields DEF Kinds, External
    <3>2. List(List(e[k].Ports)) = List(e[k].Ports)
      BY <3>1, ListType
    <3>3. PortsEqual(Stored(d)[k].Ports, Stored(e)[k].Ports)
             <=> PortsEqual(Stored(d)[k].Ports, e[k].Ports)
      <4>1. \A protocol \in {"tcp", "udp"} :
                PortsOf(List(e[k].Ports), protocol) = PortsOf(e[k].Ports, protocol)
        <5>1. ASSUME e[k].Ports = Nil, NEW protocol \in {"tcp", "udp"}
              PROVE  /\ PortsOf(List(e[k].Ports), protocol) = {}
                     /\ PortsOf(e[k].Ports, protocol) = {}
          BY <3>2, <5>1 DEF PortsOf, List
        <5>2. e[k].Ports # Nil => List(e[k].Ports) = e[k].Ports
          BY DEF List
        <5> QED
          BY <5>1, <5>2
      <4> QED
        BY <3>1, <3>2, <4>1 DEF PortsEqual
    <3> QED
      BY <2>2, <3>1, <3>3 DEF ExternalEquals
  <2> QED
    BY <2>1, <2>2
<1> QED
  BY <1>1, <1>2 DEF Equals

-----------------------------------------------------------------------------
(* Equals against the reference *)

(* The ports of a list that Validate accepts are those of its two protocols. *)
LEMMA AllPortsOf ==
    ASSUME NEW ports \in PortLists \cup {Nil}, validatePorts(ports)
    PROVE  AllPorts(ports) = {"tcp"} \X PortsOf(ports, "tcp")
                               \cup {"udp"} \X PortsOf(ports, "udp")
<1>1. CASE List(ports) = <<>>
  BY <1>1 DEF AllPorts, PortsOf
<1>2. CASE List(ports) # <<>>
  <2>1. List(ports) = ports
    BY <1>2 DEF List
  <2> QED
    BY <2>1 DEF AllPorts, PortsOf, validatePorts
<1> QED
  BY <1>1, <1>2

(* The storage keeps the ports of a list. *)
LEMMA SamePorts ==
    ASSUME NEW ports \in PortLists \cup {Nil}
    PROVE  /\ AllPorts(List(ports)) = AllPorts(ports)
           /\ NoPorts(List(ports)) = NoPorts(ports)
           /\ NoPorts(ports) <=> Len(List(ports)) = 0
           /\ \A protocol \in {"tcp", "udp"} :
                 PortsOf(List(ports), protocol) = PortsOf(ports, protocol)
<1>1. List(List(ports)) = List(ports) /\ List(ports) \in PortLists
  BY ListType
<1>2. NoPorts(ports) <=> Len(List(ports)) = 0
  BY <1>1 DEF NoPorts, PortLists
<1>3. CASE ports = Nil
  BY <1>1, <1>2, <1>3 DEF AllPorts, NoPorts, PortsOf, List
<1>4. CASE ports # Nil
  <2>1. List(ports) = ports
    BY <1>4 DEF List
  <2> QED
    BY <1>2, <2>1
<1> QED
  BY <1>3, <1>4

(* What Equals identifies is included, unless it is a job. *)
LEMMA EqualIsIncluded ==
    ASSUME NEW d \in Destinations, NEW e \in Destinations,
           Validate(d), Validate(e), d.TsuruJob = Nil,
           Equals(Stored(d), e)
    PROVE  Includes(Stored(d), e)
<1>1. PICK k \in Kinds :
         d[k] # Nil /\ \A other \in Kinds \ {k} : d[other] = Nil
  BY OneKind
<1>2. k # "TsuruJob" /\ Stored(d)[k] # Nil
  BY <1>1, StoredFields
<1>3. k \in External => ExternalEquals(Stored(d)[k], e[k])
  BY <1>2 DEF Equals
<1>4. k \notin External => Stored(d)[k] = e[k]
  BY <1>2 DEF Equals, Kinds, External
<1>5. e[k] # Nil
  BY <1>2, <1>3, <1>4 DEF ExternalEquals
<1>6. CountSet(d) = {k} /\ CountSet(e) = {k}
  BY <1>1, <1>5, OneKind DEF CountSet
<1>7. ASSUME k \in External
      PROVE  /\ Stored(d)[k].Name = e[k].Name
             /\ Stored(d)[k].SyncWholeNetwork = e[k].SyncWholeNetwork
             /\ \/ NoPorts(Stored(d)[k].Ports)
                \/ /\ ~NoPorts(e[k].Ports)
                   /\ AllPorts(e[k].Ports) \subseteq AllPorts(Stored(d)[k].Ports)
  <2> DEFINE p == d[k].Ports  q == e[k].Ports
  <2>1. p \in PortLists \cup {Nil} /\ q \in PortLists \cup {Nil}
    BY <1>1, <1>5, <1>7, StoredFields
  <2>2. Stored(d)[k].Ports = List(p) /\ List(p) # Nil
    BY <1>1, <1>7, <2>1, StoredFields, ListType
  <2>3. validatePorts(p) /\ validatePorts(q)
    BY <1>6, <1>7 DEF Validate
  <2>4. PortsEqual(List(p), q)
    BY <1>3, <1>7, <2>2 DEF ExternalEquals
  <2> HIDE DEF p, q
  <2>5. Len(List(p)) = Len(List(q)) /\ AllPorts(p) = AllPorts(q)
    <3>1. List(List(p)) = List(p)
      BY <2>1, ListType
    <3>2. \A protocol \in {"tcp", "udp"} : PortsOf(p, protocol) = PortsOf(q, protocol)
      BY <2>1, <2>4, SamePorts DEF PortsEqual
    <3>3. Len(List(p)) = Len(List(q))
      BY <2>4, <3>1 DEF PortsEqual
    <3> QED
      BY <2>1, <2>3, <3>2, <3>3, AllPortsOf
  <2>6. NoPorts(List(p)) \/ (~NoPorts(q) /\ AllPorts(q) \subseteq AllPorts(List(p)))
    BY <2>1, <2>5, SamePorts
  <2> QED
    BY <1>3, <1>7, <2>2, <2>6 DEF ExternalEquals, p, q
<1> QED
  BY <1>4, <1>6, <1>7, StoredFields DEF Includes

Key(p, i) == <<Lower[p[i].Protocol], p[i].Port>>

(* A list that has no port twice is not longer than one with all its ports. *)
LEMMA NoLonger ==
    ASSUME NEW p \in PortLists, NEW q \in PortLists,
           \A i, j \in DOMAIN p : Key(p, i) = Key(p, j) => i = j,
           AllPorts(p) \subseteq AllPorts(q)
    PROVE  Len(p) <= Len(q)
<1>1. /\ List(p) = p /\ DOMAIN p = 1..Len(p) /\ Len(p) \in Nat
      /\ List(q) = q /\ DOMAIN q = 1..Len(q) /\ Len(q) \in Nat
  BY NilAssumption DEF List, PortLists
<1> DEFINE m == Len(p)  n == Len(q)
           f == [i \in 1..m |-> CHOOSE j \in 1..n : Key(q, j) = Key(p, i)]
<1>2. ASSUME NEW i \in 1..m PROVE \E j \in 1..n : Key(q, j) = Key(p, i)
  <2>1. /\ AllPorts(p) = {Key(p, j) : j \in 1..m}
        /\ AllPorts(q) = {Key(q, j) : j \in 1..n}
    BY <1>1 DEF AllPorts, Key
  <2>2. Key(p, i) \in {Key(q, j) : j \in 1..n}
    BY <2>1
  <2> QED
    BY <2>2
<1>3. \A i \in 1..m : f[i] \in 1..n /\ Key(q, f[i]) = Key(p, i)
  BY <1>2
<1>4. f \in [1..m -> 1..n]
  BY <1>3
<1> HIDE DEF f
<1>5. \A i, j \in 1..m : f[i] = f[j] => i = j
  BY <1>1, <1>3
<1> SUFFICES ASSUME n < m PROVE FALSE
  BY <1>1
<1>6. /\ IsFiniteSet(1..m) /\ Cardinality(1..m) = m
      /\ IsFiniteSet(1..n) /\ Cardinality(1..n) = n
  <2>1. ASSUME NEW a \in Nat
        PROVE  IsFiniteSet(1..a) /\ Cardinality(1..a) = a
    <3>1. 1 \in Int /\ a \in Int
      OBVIOUS
    <3>2. /\ IsFiniteSet(1..a)
          /\ Cardinality(1..a) = IF 1 > a THEN 0 ELSE a - 1 + 1
      BY <3>1, FS_Interval, Zenon
    <3> QED
      BY <3>2
  <2> QED
    BY <1>1, <2>1
<1>7. \E i, j \in 1..m : i # j /\ f[i] = f[j]
  BY <1>1, <1>4, <1>6, FS_PigeonHole
<1> QED
  BY <1>5, <1>7

(* Lists with the same ports are equal, if they list a port once. *)
LEMMA SamePortsEqual ==
    ASSUME NEW p \in PortLists, NEW q \in PortLists,
           validatePorts(p), validatePorts(q),
           \A i, j \in DOMAIN p : Key(p, i) = Key(p, j) => i = j,
           \A i, j \in DOMAIN q : Key(q, i) = Key(q, j) => i = j,
           AllPorts(p) = AllPorts(q)
    PROVE  PortsEqual(p, q)
<1>1. List(p) = p /\ List(q) = q /\ Len(p) \in Nat /\ Len(q) \in Nat
  BY NilAssumption DEF List, PortLists
<1>2. Len(p) <= Len(q) /\ Len(q) <= Len(p)
  BY NoLonger
<1>3. \A protocol \in {"tcp", "udp"} : PortsOf(p, protocol) = PortsOf(q, protocol)
  <2>1. \A port : /\ port \in PortsOf(p, "tcp") <=> <<"tcp", port>> \in AllPorts(p)
                  /\ port \in PortsOf(p, "udp") <=> <<"udp", port>> \in AllPorts(p)
                  /\ port \in PortsOf(q, "tcp") <=> <<"tcp", port>> \in AllPorts(q)
                  /\ port \in PortsOf(q, "udp") <=> <<"udp", port>> \in AllPorts(q)
    BY AllPortsOf
  <2>2. PortsOf(p, "tcp") = PortsOf(q, "tcp") /\ PortsOf(p, "udp") = PortsOf(q, "udp")
    BY <2>1
  <2> QED
    BY <2>2
<1> QED
  BY <1>1, <1>2, <1>3 DEF PortsEqual

(* Two valid destinations that include each other are equal, when they list
   their ports once. *)
LEMMA SameIsEqual ==
    ASSUME NEW d \in Destinations, NEW e \in Destinations,
           Validate(d), Validate(e),
           ListedOnce(Stored(d)), ListedOnce(Stored(e)),
           Includes(Stored(d), Stored(e)), Includes(Stored(e), Stored(d))
    PROVE  Equals(Stored(d), Stored(e))
<1>1. \A k \in {"TsuruApp", "RpaasInstance"} :
          Stored(d)[k] # Nil => Stored(d)[k] = Stored(e)[k]
  BY DEF Includes, CountSet, Kinds, External
<1>2. Stored(d).KubernetesService = Nil
  BY StoredFields DEF Validate
<1>3. ASSUME NEW k \in External, Stored(d)[k] # Nil
      PROVE  ExternalEquals(Stored(d)[k], Stored(e)[k])
  <2> DEFINE p == Stored(d)[k].Ports  q == Stored(e)[k].Ports
  <2>1. /\ k \in CountSet(Stored(d)) /\ k \in CountSet(Stored(e))
        /\ k \in CountSet(d) /\ k \in CountSet(e)
        /\ d[k] # Nil /\ e[k] # Nil /\ Stored(e)[k] # Nil
    BY <1>3, StoredFields DEF Includes, CountSet, Kinds, External
  <2>2. /\ p = List(d[k].Ports) /\ d[k].Ports \in PortLists \cup {Nil}
        /\ q = List(e[k].Ports) /\ e[k].Ports \in PortLists \cup {Nil}
    BY <2>1, StoredFields
  <2>3. p \in PortLists /\ q \in PortLists /\ List(p) = p /\ List(q) = q
    BY <2>2, ListType
  <2>4. validatePorts(p) /\ validatePorts(q)
    <3>1. validatePorts(d[k].Ports) /\ validatePorts(e[k].Ports)
      BY <2>1 DEF Validate
    <3>2. ASSUME NEW ports \in PortLists \cup {Nil}, validatePorts(ports)
          PROVE  validatePorts(List(ports))
      BY <3>2, ListType DEF validatePorts, List
    <3> QED
      BY <2>2, <3>1, <3>2
  <2>5. \/ NoPorts(p) /\ NoPorts(q)
        \/ AllPorts(p) = AllPorts(q)
    BY <2>1 DEF Includes
  <2>6. /\ \A i, j \in DOMAIN p : Key(p, i) = Key(p, j) => i = j
        /\ \A i, j \in DOMAIN q : Key(q, i) = Key(q, j) => i = j
    BY <2>1, <2>3 DEF ListedOnce, Key
  <2>7. CASE AllPorts(p) = AllPorts(q)
    <3>1. PortsEqual(p, q)
      BY <2>3, <2>4, <2>6, <2>7, SamePortsEqual
    <3> QED
      BY <2>1, <3>1 DEF Includes, ExternalEquals
  <2>8. CASE NoPorts(p) /\ NoPorts(q)
    <3>1. p = <<>> /\ q = <<>>
      BY <2>3, <2>8 DEF NoPorts
    <3>2. PortsEqual(p, q)
      BY <3>1 DEF PortsEqual
    <3> QED
      BY <2>1, <3>2 DEF Includes, ExternalEquals
  <2> QED
    BY <2>5, <2>7, <2>8
<1> QED
  BY <1>1, <1>2, <1>3 DEF Equals

-----------------------------------------------------------------------------
(* The invariant *)

LEMMA ConcatAt ==
    ASSUME NEW S, NEW f \in Seq(S), NEW b \in Seq(S),
           NEW j \in 1..Len(f) + Len(b)
    PROVE  (f \o b)[j] = IF j <= Len(f) THEN f[j] ELSE b[j - Len(f)]
OBVIOUS

LEMMA RemoveAtFacts ==
    ASSUME NEW S, NEW s \in Seq(S), NEW i \in DOMAIN s
    PROVE  /\ RemoveAt(s, i) \in Seq(S)
           /\ Len(RemoveAt(s, i)) = Len(s) - 1
           /\ DOMAIN RemoveAt(s, i) = 1..Len(s) - 1
           /\ \A j \in 1..Len(s) - 1 :
                 RemoveAt(s, i)[j] = IF j < i THEN s[j] ELSE s[j + 1]
<1>1. i \in 1..Len(s) /\ Len(s) \in Nat
  OBVIOUS
<1> DEFINE front == SubSeq(s, 1, i - 1)  back == SubSeq(s, i + 1, Len(s))
<1>2. /\ front \in Seq(S) /\ Len(front) = i - 1
      /\ \A j \in 1..i - 1 : front[j] = s[j]
  BY <1>1
<1>3. /\ back \in Seq(S) /\ Len(back) = Len(s) - i
      /\ \A j \in 1..Len(s) - i : back[j] = s[i + j]
  BY <1>1
<1>4. RemoveAt(s, i) = front \o back
  BY DEF RemoveAt
<1> HIDE DEF front, back
<1>5. RemoveAt(s, i) \in Seq(S) /\ Len(RemoveAt(s, i)) = Len(s) - 1
  BY <1>1, <1>2, <1>3, <1>4
<1>6. ASSUME NEW j \in 1..Len(s) - 1
      PROVE  RemoveAt(s, i)[j] = IF j < i THEN s[j] ELSE s[j + 1]
  <2>1. CASE j < i
    BY <1>1, <1>2, <1>3, <1>4, <2>1
  <2>2. CASE ~(j < i)
    <3>1. j - (i - 1) \in 1..Len(s) - i
      BY <1>1, <2>2
    <3>2. RemoveAt(s, i)[j] = back[j - (i - 1)]
      <4>1. /\ j \in 1..Len(front) + Len(back)
            /\ ~(j <= Len(front))
            /\ j - Len(front) = j - (i - 1)
        BY <1>1, <1>2, <1>3, <2>2
      <4>2. (front \o back)[j] = back[j - Len(front)]
        BY <1>2, <1>3, <4>1, ConcatAt
      <4> QED
        BY <1>4, <4>1, <4>2
    <3> QED
      BY <1>1, <1>3, <2>2, <3>1, <3>2
  <2> QED
    BY <2>1, <2>2
<1> QED
  BY <1>5, <1>6

LEMMA InvInit == Init => IInv
BY BoundAssumption
DEF Init, IInv, Typed, Answers, StoredAreValid, LaterDiffer, AddedIsFound

LEMMA AnsweredNext ==
    ASSUME IInv, NEW dest \in Destinations,
           AddRuleInvalid(dest) \/ AddRuleExists(dest)
    PROVE  IInv'
BY DEF AddRuleInvalid, AddRuleExists, IInv, Typed, Answers, StoredAreValid,
   LaterDiffer, AddedIsFound

LEMMA AddRuleNext ==
    ASSUME IInv, NEW dest \in Destinations, NEW removed \in BOOLEAN,
           AddRule(dest, removed)
    PROVE  IInv'
<1> DEFINE new == [Destination |-> Stored(dest), Removed |-> removed]
           n == Len(baseRules) + 1
<1>1. /\ baseRules \in Seq(BaseRules) /\ new \in BaseRules
      /\ baseRules' = Append(baseRules, new) /\ n \in Nat
      /\ answer' = [result |-> "ok", asked |-> dest] /\ Validate(dest)
  BY DEF IInv, Typed, AddRule, BaseRules
<1> HIDE DEF new
<1>2. /\ DOMAIN baseRules = 1..n - 1 /\ DOMAIN baseRules' = 1..n
      /\ \A i \in 1..n - 1 : baseRules'[i] = baseRules[i]
      /\ baseRules'[n] = new
  BY <1>1
<1>3. new.Destination = Stored(dest) /\ new.Removed = removed
  BY DEF new
<1>4. Typed'
  <2>1. baseRules' \in Seq(BaseRules) /\ Len(baseRules') <= MaxRules
    BY <1>1, BoundAssumption DEF AddRule
  <2>2. answer' \in Answers
    BY <1>1 DEF Answers
  <2> QED
    BY <1>1, <2>1, <2>2 DEF Typed
<1>5. StoredAreValid'
  BY <1>1, <1>2, <1>3 DEF IInv, StoredAreValid
<1>6. LaterDiffer'
  <2> SUFFICES ASSUME NEW i \in 1..n, NEW j \in 1..n, i < j,
                      ~baseRules'[i].Removed
               PROVE  ~Equals(baseRules'[i].Destination, baseRules'[j].Destination)
    BY <1>2 DEF LaterDiffer
  <2>1. CASE j < n
    BY <1>1, <1>2, <2>1 DEF IInv, LaterDiffer
  <2>2. CASE j = n
    <3>1. i \in DOMAIN baseRules /\ baseRules'[i] = baseRules[i]
      BY <1>1, <1>2, <2>2
    <3>2. ~Equals(baseRules[i].Destination, dest)
      BY <3>1 DEF AddRule, AlreadyExists
    <3>3. PICK d \in Destinations : baseRules[i].Destination = Stored(d)
      BY <3>1 DEF IInv, StoredAreValid
    <3> QED
      BY <1>2, <1>3, <2>2, <3>1, <3>2, <3>3, EqualsStored
  <2> QED
    BY <1>1, <2>1, <2>2
<1>7. AddedIsFound'
  <2>1. ruleTypeMatch(baseRules'[n].Destination, dest)
    BY <1>1, <1>2, <1>3, StoredIsFound
  <2> QED
    BY <1>1, <1>2, <2>1 DEF AddedIsFound
<1> QED
  BY <1>4, <1>5, <1>6, <1>7 DEF IInv

LEMMA RemoveRuleNext ==
    ASSUME IInv, NEW i \in DOMAIN baseRules, RemoveRule(i)
    PROVE  IInv'
<1> DEFINE n == Len(baseRules)  From(j) == IF j < i THEN j ELSE j + 1
<1>1. baseRules \in Seq(BaseRules) /\ n \in Nat /\ i \in 1..n /\ n <= MaxRules
  BY DEF IInv, Typed
<1>2. /\ baseRules' \in Seq(BaseRules) /\ Len(baseRules') = n - 1
      /\ DOMAIN baseRules' = 1..n - 1
      /\ \A j \in 1..n - 1 :
            baseRules'[j] = IF j < i THEN baseRules[j] ELSE baseRules[j + 1]
  BY <1>1, RemoveAtFacts DEF RemoveRule
<1>3. \A j \in 1..n - 1 : From(j) \in DOMAIN baseRules
                          /\ baseRules'[j] = baseRules[From(j)]
  BY <1>1, <1>2
<1>4. \A j, k \in 1..n - 1 : j < k => From(j) < From(k)
  BY <1>1
<1> HIDE DEF From
<1>5. answer' = [result |-> "ok", asked |-> Nil]
  BY DEF RemoveRule
<1>6. Typed'
  BY <1>1, <1>2, <1>5, BoundAssumption DEF Typed, Answers
<1>7. StoredAreValid'
  BY <1>2, <1>3 DEF IInv, StoredAreValid
<1>8. LaterDiffer'
  BY <1>2, <1>3, <1>4 DEF IInv, LaterDiffer
<1>9. AddedIsFound'
  BY <1>5 DEF AddedIsFound
<1> QED
  BY <1>6, <1>7, <1>8, <1>9 DEF IInv

LEMMA InvNext == IInv /\ [Next]_vars => IInv'
<1> SUFFICES ASSUME IInv, [Next]_vars PROVE IInv'
  OBVIOUS
<1>1. CASE UNCHANGED vars
  BY <1>1 DEF vars, IInv, Typed, StoredAreValid, LaterDiffer, AddedIsFound
<1> QED
  BY <1>1, AnsweredNext, AddRuleNext, RemoveRuleNext DEF Next

THEOREM Invariant == Spec => []IInv
BY InvInit, InvNext, PTL DEF Spec

-----------------------------------------------------------------------------
(* The theorems *)

(* Every variable keeps its type, and what is stored has one destination. *)
THEOREM RuleTypesCorrect == Spec => []TypeOK
<1>1. ASSUME IInv PROVE TypeOK
  <2>1. ASSUME NEW i \in DOMAIN baseRules
        PROVE  \E k \in Kinds : \A other \in Kinds :
                  baseRules[i].Destination[other] # Nil <=> other = k
    <3>1. PICK d \in Destinations :
             Validate(d) /\ baseRules[i].Destination = Stored(d)
      BY <1>1 DEF IInv, StoredAreValid
    <3>2. PICK k \in Kinds : d[k] # Nil /\ \A other \in Kinds \ {k} : d[other] = Nil
      BY <3>1, OneKind
    <3> QED
      BY <3>1, <3>2, StoredFields
  <2> QED
    BY <1>1, <2>1 DEF IInv, Typed, TypeOK
<1> QED
  BY <1>1, Invariant, PTL

(* What AddRule has added is found by asking for it as it was asked for. *)
THEOREM AddedRulesAreFound == Spec => []AddedIsFound
<1>1. IInv => AddedIsFound
  BY DEF IInv
<1> QED
  BY <1>1, Invariant, PTL

(* Two base rules in force are never for the same traffic, for destinations
   of any kind. *)
THEOREM ActiveDiffer == Spec => []ActiveRulesDiffer
<1>1. ASSUME IInv PROVE ActiveRulesDiffer
  <2> SUFFICES ASSUME NEW i \in Active, NEW j \in Active, i # j,
                      ListedOnce(baseRules[i].Destination),
                      ListedOnce(baseRules[j].Destination),
                      Includes(baseRules[i].Destination, baseRules[j].Destination),
                      Includes(baseRules[j].Destination, baseRules[i].Destination)
               PROVE  FALSE
    BY DEF ActiveRulesDiffer
  <2>1. i \in DOMAIN baseRules /\ j \in DOMAIN baseRules /\ i \in Nat /\ j \in Nat
    BY <1>1 DEF Active, IInv, Typed
  <2>2. PICK d \in Destinations :
           Validate(d) /\ baseRules[i].Destination = Stored(d)
    BY <1>1, <2>1 DEF IInv, StoredAreValid
  <2>3. PICK e \in Destinations :
           Validate(e) /\ baseRules[j].Destination = Stored(e)
    BY <1>1, <2>1 DEF IInv, StoredAreValid
  <2>4. Equals(Stored(d), Stored(e)) /\ Equals(Stored(e), Stored(d))
    BY <2>2, <2>3, SameIsEqual
  <2> QED
    BY <1>1, <2>1, <2>2, <2>3, <2>4 DEF Active, IInv, LaterDiffer
<1> QED
  BY <1>1, Invariant, PTL

LEMMA RefusedNext ==
    NoJobs /\ IInv /\ RefusedIsIncluded /\ [Next]_vars => RefusedIsIncluded'
<1> SUFFICES ASSUME NoJobs, IInv, RefusedIsIncluded, [Next]_vars
             PROVE  RefusedIsIncluded'
  OBVIOUS
<1>1. ASSUME NEW dest \in Destinations, AddRuleExists(dest)
      PROVE  RefusedIsIncluded'
  <2>1. PICK i \in DOMAIN baseRules :
           ~baseRules[i].Removed /\ Equals(baseRules[i].Destination, dest)
    BY <1>1 DEF AddRuleExists, AlreadyExists
  <2>2. PICK d \in Destinations :
           Validate(d) /\ baseRules[i].Destination = Stored(d)
    BY DEF IInv, StoredAreValid
  <2>3. Includes(baseRules[i].Destination, dest)
    BY <1>1, <2>1, <2>2, EqualIsIncluded DEF AddRuleExists, NoJobs
  <2> QED
    BY <1>1, <2>1, <2>3 DEF AddRuleExists, RefusedIsIncluded, Active
<1>2. ASSUME NEW dest \in Destinations, NEW removed \in BOOLEAN,
             AddRuleInvalid(dest) \/ AddRule(dest, removed)
      PROVE  RefusedIsIncluded'
  <2>1. answer'.result # "exists"
    BY <1>2 DEF AddRuleInvalid, AddRule
  <2> QED
    BY <2>1 DEF RefusedIsIncluded
<1>3. ASSUME NEW i \in DOMAIN baseRules, RemoveRule(i) PROVE RefusedIsIncluded'
  BY <1>3 DEF RemoveRule, RefusedIsIncluded
<1>4. CASE UNCHANGED vars
  BY <1>4 DEF vars, RefusedIsIncluded, Active
<1> QED
  BY <1>1, <1>2, <1>3, <1>4 DEF Next

(* When no destination is a job, "rule already exists" is only said when a
   base rule in force includes all the traffic that was asked for. *)
THEOREM RefusalsAreRight == NoJobs => (Spec => []RefusedIsIncluded)
<1> SUFFICES ASSUME NoJobs PROVE Spec => []RefusedIsIncluded
  OBVIOUS
<1>1. Init => RefusedIsIncluded
  BY DEF Init, RefusedIsIncluded
<1>2. IInv /\ RefusedIsIncluded /\ [Next]_vars => RefusedIsIncluded'
  BY RefusedNext
<1> QED
  BY <1>1, <1>2, Invariant, PTL DEF Spec
=============================================================================
