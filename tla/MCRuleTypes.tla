---------------------------- MODULE MCRuleTypes ----------------------------
(* Instances of RuleTypes for TLC. *)
EXTENDS RuleTypes

None == [k \in Kinds \cup {"KubernetesService"} |-> Nil]

App(app, pool) ==
    [None EXCEPT !.TsuruApp = [AppName |-> app, PoolName |-> pool]]
Job(name) == [None EXCEPT !.TsuruJob = [JobName |-> name]]
Rpaas(name) == [None EXCEPT !.RpaasInstance = [Instance |-> name]]

At(name, ports, whole) ==
    [Name |-> name, Ports |-> ports, SyncWholeNetwork |-> whole]
DNS(name, ports, whole) ==
    [None EXCEPT !.ExternalDNS = At(name, ports, whole)]
IP(ones, bits, ports) ==
    [None EXCEPT !.ExternalIP = At([ones |-> ones, bits |-> bits], ports, FALSE)]

P(protocol, port) == [Protocol |-> protocol, Port |-> port]

(* Nil and empty port lists, two orders and two spellings of one list, and
   the lists that Validate refuses. *)
SomePorts ==
    {Nil, <<>>, <<P("TCP", 80)>>, <<P("tcp", 80)>>,
     <<P("TCP", 80), P("UDP", 80)>>, <<P("udp", 80), P("tcp", 80)>>,
     <<P("TCP", 80), P("UDP", 53)>>, <<P("TCP", 80), P("tcp", 80)>>,
     <<P("icmp", 80)>>, <<P("TCP", 0)>>}

NoJobs ==
    {None, [None EXCEPT !.KubernetesService =
                                [Namespace |-> "ns", ServiceName |-> "svc"]],
     [App("app1", Empty) EXCEPT !.ExternalDNS = At("host", Nil, FALSE)]}
    \cup {App(a, p) : a \in {Empty, "app1", "Invalid"}, p \in {Empty, "pool1"}}
    \cup {Rpaas(n) : n \in {Empty, "rpaas1"}}
    \cup {DNS("host", ports, FALSE) : ports \in SomePorts}
    \cup {DNS("host", Nil, TRUE), DNS(".host", Nil, FALSE),
          DNS("svc.cluster.local", Nil, FALSE)}
    \cup {IP(ones, 32, ports) : ones \in {21, 22},
                                ports \in {Nil, <<P("UDP", 53)>>}}
    \cup {IP(128, 128, Nil),
          [None EXCEPT !.ExternalIP = At(Empty, Nil, FALSE)]}

WithJobs == {Job("job1"), Job("Invalid"), App("app1", Empty)}
=============================================================================
