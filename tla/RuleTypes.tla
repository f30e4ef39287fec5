----------------------------- MODULE RuleTypes -----------------------------
(***************************************************************************)
(* What a destination is (api/types/rule.go): which destinations are       *)
(* valid, when two are equal, and what that means for the base rules of a  *)
(* service instance, to which AddRule (service/service.go) adds a rule     *)
(* only when no rule in force equals it.                                   *)
(*                                                                         *)
(* A destination is a record with one field per kind, all but one of them  *)
(* Nil when it is valid.  A name is what Validate sees in it; the port     *)
(* list Nil is Go's nil, which a request keeps apart from an empty list    *)
(* and the storage does not.  Calls for one instance do not overlap here:  *)
(* ServiceInstances is about those.                                        *)
(***************************************************************************)
EXTENDS Integers, SequencesExt

CONSTANTS
    Nil,
    Empty,         \* the empty name
    Destinations,  \* the destinations that callers ask for
    MaxRules       \* bound: base rules of the instance

ASSUME BoundAssumption == MaxRules \in Nat

VARIABLES
    baseRules,  \* BaseRules of the instance
    answer      \* what the last call answered

vars == <<baseRules, answer>>

Lower == [TCP |-> "tcp", tcp |-> "tcp", UDP |-> "udp", udp |-> "udp",
          icmp |-> "icmp"]

Kinds == {"TsuruApp", "TsuruJob", "RpaasInstance", "ExternalDNS",
          "ExternalIP"}
External == {"ExternalDNS", "ExternalIP"}

PortLists == Seq([Protocol : DOMAIN Lower, Port : Nat])
ExternalRules(name) ==
    [Name : {name}, Ports : PortLists \cup {Nil}, SyncWholeNetwork : BOOLEAN]

(* The types of the Go structs, as far as they matter. *)
ASSUME NilAssumption == Nil \notin PortLists
ASSUME DestinationsAssumption ==
    \A dest \in Destinations :
        /\ DOMAIN dest = Kinds \cup {"KubernetesService"}
        /\ \A k \in External :
               dest[k] # Nil =>
                  /\ dest[k] \in ExternalRules(dest[k].Name)
                  /\ Nil \notin ExternalRules(dest[k].Name)

-----------------------------------------------------------------------------
(* Validate *)

(* To len and range, nil is an empty list. *)
List(ports) == IF ports = Nil THEN <<>> ELSE ports
NoPorts(ports) == List(ports) = <<>>

validatePorts(ports) ==
    \A i \in DOMAIN List(ports) :
        ports[i].Port # 0 /\ Lower[ports[i].Protocol] \in {"tcp", "udp"}

(* Either an application or a pool. *)
ValidApp(app) ==
    /\ app.AppName = Empty \/ app.PoolName = Empty
    /\ app.AppName # Empty \/ app.PoolName # Empty
    /\ app.AppName # "Invalid"

ValidDNS(dns) == dns.Name \notin {Empty, "Invalid", "svc.cluster.local"}

(* IPv4 only, and a network wider than /22 needs ports. *)
ValidIP(ip) ==
    /\ ip.Name # Empty
    /\ ip.Name.bits = 32
    /\ ip.Name.ones >= 22 \/ ~NoPorts(ip.Ports)

CountSet(r) == {k \in Kinds : r[k] # Nil}

(* A validation that stops at the first kind that is set. *)
ValidateMutantFirst(r) ==
    /\ r.KubernetesService = Nil
    /\ CountSet(r) # {}
    /\ r.TsuruApp # Nil => ValidApp(r.TsuruApp)
    /\ \A k \in External \cap CountSet(r) : validatePorts(r[k].Ports)

Validate(r) ==
    /\ r.TsuruApp # Nil => ValidApp(r.TsuruApp)
    /\ r.TsuruJob # Nil => r.TsuruJob.JobName \notin {Empty, "Invalid"}
    /\ r.RpaasInstance # Nil => r.RpaasInstance.Instance \notin {Empty, "Invalid"}
    /\ r.ExternalDNS # Nil => ValidDNS(r.ExternalDNS)
    /\ r.ExternalIP # Nil => ValidIP(r.ExternalIP)
    /\ r.KubernetesService = Nil
    /\ \E k \in Kinds : CountSet(r) = {k}
    /\ \A k \in External \cap CountSet(r) : validatePorts(r[k].Ports)

-----------------------------------------------------------------------------
(* Equals *)

PortsOf(ports, protocol) ==
    {ports[i].Port : i \in {j \in DOMAIN List(ports) :
                              Lower[ports[j].Protocol] = protocol}}

(* A comparison of lists in which order and case matter. *)
PortsEqualMutantList(p, other) == p = other

(* ProtoPorts.Equals *)
PortsEqual(p, other) ==
    /\ Len(List(p)) = Len(List(other))
    /\ \A protocol \in {"tcp", "udp"} :
           PortsOf(p, protocol) = PortsOf(other, protocol)

(* ExternalDNSRule.Equals and ExternalIPRule.Equals.  A receiver with nil
   ports does not look at the ports of the other. *)
ExternalEquals(t, other) ==
    /\ other # Nil
    /\ t.Name = other.Name
    /\ t.SyncWholeNetwork = other.SyncWholeNetwork
    /\ t.Ports # Nil => PortsEqual(t.Ports, other.Ports)

(* RuleType.Equals has no case for TsuruJob. *)
Equals(r, other) ==
    /\ \A k \in {"TsuruApp", "KubernetesService", "RpaasInstance"} :
           r[k] # Nil => r[k] = other[k]
    /\ \A k \in External : r[k] # Nil => ExternalEquals(r[k], other[k])

-----------------------------------------------------------------------------
(* FindByRule *)

(* A comparison of the port lists that are there with those asked for. *)
PortsMatchMutantNil(ports, filter) == ports = filter

(* reflect.DeepEqual, unless nothing was asked for. *)
PortsMatch(ports, filter) == filter = Nil \/ ports = filter

NameMatches(name, filter) == filter \in {Empty, name}

(* What is empty in a filter matches everything, and so does a filter with an
   rpaas instance, for which there is no case. *)
ruleTypeMatch(ruleType, filter) ==
    /\ \A k \in {"TsuruApp", "TsuruJob", "KubernetesService"} \cup External :
           filter[k] # Nil => ruleType[k] # Nil
    /\ filter.TsuruApp # Nil =>
           /\ NameMatches(ruleType.TsuruApp.AppName, filter.TsuruApp.AppName)
           /\ NameMatches(ruleType.TsuruApp.PoolName, filter.TsuruApp.PoolName)
    /\ filter.TsuruJob # Nil =>
           NameMatches(ruleType.TsuruJob.JobName, filter.TsuruJob.JobName)
    /\ filter.KubernetesService # Nil =>
           \A field \in {"Namespace", "ServiceName"} :
               NameMatches(ruleType.KubernetesService[field],
                           filter.KubernetesService[field])
    /\ \A k \in External : filter[k] # Nil =>
           /\ NameMatches(ruleType[k].Name, filter[k].Name)
           /\ PortsMatch(ruleType[k].Ports, filter[k].Ports)

-----------------------------------------------------------------------------
(* The base rules of an instance.  Removed is what the caller sent. *)

(* The bson registry of the storage encodes nil slices as empty ones. *)
Stored(dest) ==
    [k \in DOMAIN dest |->
       IF k \in External /\ dest[k] # Nil
         THEN [dest[k] EXCEPT !.Ports = List(@)] ELSE dest[k]]

BaseRules == [Destination : {Stored(dest) : dest \in Destinations},
              Removed : BOOLEAN]
Answers == [result : {"ok", "invalid", "exists"},
            asked : Destinations \cup {Nil}]

Init ==
    /\ baseRules = <<>>
    /\ answer = [result |-> "ok", asked |-> Nil]

(* A loop that does not pass over the removed rules. *)
AlreadyExistsMutantRemoved(dest) ==
    \E i \in DOMAIN baseRules : Equals(baseRules[i].Destination, dest)

AlreadyExists(dest) ==
    \E i \in DOMAIN baseRules :
        ~baseRules[i].Removed /\ Equals(baseRules[i].Destination, dest)

AddRule(dest, removed) ==
    /\ Validate(dest) /\ ~AlreadyExists(dest)
    /\ Len(baseRules) < MaxRules
    /\ baseRules' = Append(baseRules,
                           [Destination |-> Stored(dest), Removed |-> removed])
    /\ answer' = [result |-> "ok", asked |-> dest]

AddRuleInvalid(dest) ==
    /\ ~Validate(dest)
    /\ answer' = [result |-> "invalid", asked |-> dest]
    /\ UNCHANGED baseRules

AddRuleExists(dest) ==
    /\ Validate(dest) /\ AlreadyExists(dest)
    /\ answer' = [result |-> "exists", asked |-> dest]
    /\ UNCHANGED baseRules

(* $pull *)
RemoveRule(i) ==
    /\ baseRules' = RemoveAt(baseRules, i)
    /\ answer' = [result |-> "ok", asked |-> Nil]

Next ==
    \/ \E dest \in Destinations :
           \/ \E removed \in BOOLEAN : AddRule(dest, removed)
           \/ AddRuleInvalid(dest)
           \/ AddRuleExists(dest)
    \/ \E i \in DOMAIN baseRules : RemoveRule(i)

Spec == Init /\ [][Next]_vars

-----------------------------------------------------------------------------
(* Every variable has its type, and a stored base rule has one destination. *)
TypeOK ==
    /\ baseRules \in Seq(BaseRules) /\ Len(baseRules) <= MaxRules
    /\ answer \in Answers
    /\ \A i \in DOMAIN baseRules :
           \E k \in Kinds : \A other \in Kinds :
               baseRules[i].Destination[other] # Nil <=> other = k

(* The reference: the traffic of one destination includes that of another.
   No ports stand for all of them. *)
AllPorts(ports) ==
    {<<Lower[ports[i].Protocol], ports[i].Port>> : i \in DOMAIN List(ports)}

Includes(r, other) ==
    /\ CountSet(r) = CountSet(other)
    /\ \A k \in CountSet(r) \ External : r[k] = other[k]
    /\ \A k \in External \cap CountSet(r) :
           /\ r[k].Name = other[k].Name
           /\ r[k].SyncWholeNetwork = other[k].SyncWholeNetwork
           /\ \/ NoPorts(r[k].Ports)
              \/ /\ ~NoPorts(other[k].Ports)
                 /\ AllPorts(other[k].Ports) \subseteq AllPorts(r[k].Ports)

Active == {i \in DOMAIN baseRules : ~baseRules[i].Removed}

(* When AddRule (service.go:97) answers "rule already exists", the base rules
   in force include all the traffic that was asked for. *)
RefusedIsIncluded ==
    answer.result = "exists" =>
        \E i \in Active : Includes(baseRules[i].Destination, answer.asked)

ListedOnce(dest) ==
    \A k \in External \cap CountSet(dest) :
        \A i, j \in DOMAIN List(dest[k].Ports) :
            LET p == dest[k].Ports[i]  q == dest[k].Ports[j]
            IN Lower[p.Protocol] = Lower[q.Protocol] /\ p.Port = q.Port => i = j

(* Two base rules in force are never for the same traffic, however callers
   order and spell the ports, as long as they list a port once. *)
ActiveRulesDiffer ==
    \A i, j \in Active :
        LET r == baseRules[i].Destination  s == baseRules[j].Destination
        IN i # j /\ ListedOnce(r) /\ ListedOnce(s) =>
               ~(Includes(r, s) /\ Includes(s, r))

(* What was added is found by asking for it as it was asked for (ruleTypeMatch
   in rule/service.go; rules that are expanded from a base rule have its
   destination): the storage turns a nil port list into an empty one, and the
   search tells the two apart. *)
AddedIsFound ==
    answer.result = "ok" /\ answer.asked # Nil =>
        \E i \in DOMAIN baseRules :
            ruleTypeMatch(baseRules[i].Destination, answer.asked)
=============================================================================
