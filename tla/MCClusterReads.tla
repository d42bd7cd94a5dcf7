---------------------------- MODULE MCClusterReads ----------------------------
(* Clusters to look at: a pod of each kind by itself, a node with two, a service with two,   *)
(* a deployment, nodes that are measured, a table, a log, an autoscaler, a claim, a service      *)
(* account, a namespace.                                                                           *)
EXTENDS ClusterReads

Q(digits, suffix) == [digits |-> digits, places |-> 0, suffix |-> suffix, exponent |-> 0]
Cpu(q) == [cpu |-> q]
Both(q, m) == [cpu |-> q, memory |-> m]

C(name, requests) == [name |-> name, sidecar |-> FALSE, requests |-> requests, limits |-> NoAmounts, ports |-> <<>>]
Sidecar(name, requests) == [C(name, requests) EXCEPT !.sidecar = TRUE]
Template(init, main, never) ==
    [init |-> init, main |-> main, never |-> never, level |-> [requests |-> NoAmounts, limits |-> NoAmounts],
     overhead |-> NoAmounts, owner |-> "rs", labels |-> [app |-> "web"]]

\* An init container that asks for more than all that follows, with a sidecar before it; one with
\* a sidecar after it; two main containers; a job's pod; a pod with a budget and an overhead.
Templates ==
    {Template(<<Sidecar("proxy", Cpu(Q(300, "m"))), C("setup", Cpu(Q(1, "")))>>, <<C("web", Both(Q(500, "m"), Q(1, "Ki")))>>, FALSE),
     Template(<<C("setup", Both(Q(1, ""), Q(500, ""))), Sidecar("proxy", Cpu(Q(300, "m")))>>, <<C("web", Cpu(Q(800, "m")))>>, FALSE),
     Template(<<>>, <<C("web", Cpu(Q(500, "m"))), C("aux", Both([Q(5, "") EXCEPT !.places = 1], Q(1, "k")))>>, FALSE),
     [Template(<<C("setup", Cpu(Q(1500, "u")))>>, <<C("job", Cpu([Q(1, "e") EXCEPT !.exponent = -1]))>>, TRUE)
        EXCEPT !.overhead = Both(Q(10, "m"), Q(1, "Ki"))],
     [Template(<<C("setup", Cpu(Q(2, "")))>>, <<C("web", Cpu(Q(500, "m")))>>, FALSE)
        EXCEPT !.level = [requests |-> Both(Q(3, ""), Q(2, "Ki")), limits |-> Cpu(Q(4, ""))], !.overhead = Cpu(Q(50, "m"))]}

Nothing ==
    [nodes |-> NoAmounts, service |-> [ports |-> <<>>], synced |-> [ports |-> <<>>], subsets |-> <<>>, dep |-> None,
     sets |-> <<>>, usage |-> [is |-> "absent"], table |-> [columns |-> <<>>, rows |-> <<>>], hpa |-> None,
     claim |-> None, users |-> <<>>, account |-> None, secrets |-> <<>>, quotas |-> <<>>, ranges |-> <<>>, events |-> <<>>]

Quiet ==
    [pods |-> NoAmounts, templates |-> NoAmounts, node |-> "n1", resizes |-> {}, cluster |-> Nothing, changes |-> 0,
     services |-> {}, rollouts |-> {}, churn |-> FALSE, joins |-> None, usages |-> {}, objects |-> {}, reads |-> {},
     hpas |-> {}, users |-> {}, secrets |-> {}, quotas |-> {}, ranges |-> {}, emits |-> {},
     faults |-> 0, lives |-> {"p"}, readies |-> {}, lines |-> 0, log |-> None]

Pods == {[Quiet EXCEPT !.templates = ("p" :> t), 
                               !.resizes = {Cpu(Q(1200, "m"))} \cup IF t.never \/ Len(t.init) = 2 THEN {} ELSE {Cpu(Q(500, "m"))}] : t \in Templates}

Node(cpu) == [allocatable |-> Both(Q(cpu, ""), Q(1, "Mi")), capacity |-> NoAmounts]
Simple(requests) == Template(<<>>, <<C("web", requests)>>, TRUE)

\* Two pods with another number for the port "http".
Number(n) == [number |-> TRUE, is |-> n]
Name(n) == [number |-> FALSE, is |-> n]
Port(name, n) == [name |-> name, port |-> n]
Up(name, ports) ==
    [name |-> name, phase |-> "Running", reason |-> None, deleting |-> FALSE, infeasible |-> FALSE, node |-> "n1",
     statuses |-> [c \in {"web"} |-> [NotStarted(None) EXCEPT !.state = "running", !.ready = TRUE]]]
    @@ Template(<<>>, <<[C("web", NoAmounts) EXCEPT !.ports = ports]>>, FALSE)
OnNode ==
    [Quiet EXCEPT
        !.templates = ("p" :> Simple(Both(Q(500, "m"), Q(1, "Ki")))),
        !.pods = "q" :> [Up("q", <<>>) EXCEPT !.main[1].requests = Cpu(Q(3, "")), !.owner = "other",
                                              !.statuses["web"].allocated = Cpu(Q(3, "")), !.statuses["web"].actual = Cpu(Q(3, ""))]
                   @@ "r" :> Up("r", <<>>),
        !.cluster.nodes = ("n1" :> Node(2)), !.faults = 1,
        !.reads = {[ask |-> "Node", name |-> "n1"], [ask |-> "ReplicaSet"], [ask |-> "WorkloadPods"],
                   [ask |-> "Containers", name |-> "p"]}]

\* One that is started by "setup", which has a port as well, and has a sidecar.
Started ==
    [Up("r", <<Port(None, "9000"), Port("sctp", "9000")>>) EXCEPT
        !.init = <<[C("setup", NoAmounts) EXCEPT !.ports = <<Port("once", "7000")>>],
                   [Sidecar("proxy", NoAmounts) EXCEPT !.ports = <<Port("mesh", "15000"), Port("adm", "9000")>>]>>,
        !.statuses = "setup" :> [NotStarted("Completed") EXCEPT !.state = "terminated"]
                       @@ "proxy" :> [NotStarted(None) EXCEPT !.state = "running"] @@ @]
Web(ports) == [ports |-> ports]
http == [port |-> "80", name |-> "web", target |-> Name("http")]
admin == [port |-> "81", name |-> "admin", target |-> Number("9000")]

AService ==
    [Quiet EXCEPT
        !.pods = "p" :> Up("p", <<Port("http", "8080"), Port("adm", "9000")>>) @@ "q" :> Up("q", <<Port("http", "8081")>>)
                   @@ "r" :> Started,
        !.cluster.service = Web(<<http>>), !.lives = {}, !.readies = {"p", "q"}, !.changes = 3, !.faults = 1,
        !.services = {Web(<<http, admin>>), Web(<<[http EXCEPT !.target = Name("adm")]>>)},
        !.reads = {[ask |-> "ServiceEndpoint", port |-> "80"], [ask |-> "ServiceEndpoint", port |-> "81"],
                   [ask |-> "Service"], [ask |-> "ServicePorts"],
                   [ask |-> "ForwardPorts", name |-> "r"]}]

Set(owner, template, revision) ==
    [name |-> <<owner, template>>, owner |-> owner, template |-> template, revision |-> revision, born |-> -100]

ADeployment ==
    [Quiet EXCEPT
        !.cluster.dep = [uid |-> 100, template |-> "v2", revision |-> 2, marked |-> "v2"],
        !.cluster.sets = <<Set(100, "v1", 1), Set(100, "v2", 2), Set(100, "v0", None), Set(Other, "v1", 7)>>,
        !.changes = 5, !.faults = 1, !.rollouts = {"v1", "v2", "v3"},
        !.reads = {[ask |-> "RolloutHistory"], [ask |-> "Deployment"]}]

Uses(rows) == [is |-> "there", rows |-> rows]
Used(name, cpu) == [name |-> name, cpu |-> Q(cpu, "m"), memory |-> Q(600, "Ki")]

Measured ==
    [Quiet EXCEPT
        !.cluster.nodes = ("n1" :> Node(2) @@ "n2" :> Node(1)), !.cluster.usage = Uses(<<Used("n1", 1610), Used("n2", 300)>>),
        !.changes = 3, !.faults = 1, !.churn = TRUE, !.joins = Node(1),
        !.usages = {[is |-> "absent"], [is |-> "failing"], Uses(<<>>), Uses(<<Used("n1", 2100)>>), Uses(<<Used("n1", 1004)>>)},
        !.reads = {[ask |-> "NodeMetrics"]}]

Row(key, cells) == [key |-> key, cells |-> cells]
Column(name, priority) == [name |-> name, priority |-> priority]

ATable ==
    [Quiet EXCEPT
        !.cluster.table = [columns |-> <<Column("Name", 0), Column("Age", 0), Column("Images", 1), Column("Ready", 0)>>,
                           rows |-> <<Row("a", <<"a", "1d", "x", "1/1">>), Row("b", <<"b", "1d">>), Row("c", <<"c">>)>>],
        !.changes = 3, !.faults = 1, !.objects = {Row("d", <<"d", "1m", "y", "0/1">>), Row("e", <<"e">>)},
        !.reads = {[ask |-> "Table"]}]

ALog == [Quiet EXCEPT !.lines = 5, !.log = [written |-> 0, taken |-> 0, batch |-> <<>>, sent |-> <<>>, ended |-> None]]

\* An autoscaler whose metrics are edited: two of one type change places, one is put in front.
Metric(type, on, by, is) == [type |-> type, on |-> on, target |-> [by |-> by, is |-> is]]
cpu == Metric("Resource", "cpu", "Utilization", "70%")
memory == Metric("Resource", "memory", "AverageValue", "1Gi")
queue == Metric("External", "queue", "Value", "30")
strange == Metric("Mystery", "what", "Value", "1")
AnHpa ==
    [Quiet EXCEPT
        !.cluster.hpa = [metrics |-> <<cpu, memory>>, status |-> None], !.changes = 3, !.faults = 1, !.emits = {"Hpa"},
        !.hpas = {<<memory, cpu>>, <<queue, cpu>>, <<strange, memory, cpu>>, <<>>},
        !.reads = {[ask |-> "Hpa"]}]

AClaim ==
    [Quiet EXCEPT
        !.cluster.claim = NewClaim({-1}),
        !.cluster.users = <<[name |-> "p", uid |-> -1, claims |-> {}, own |-> TRUE],
                            [name |-> "q", uid |-> -2, claims |-> {"data", "other"}, own |-> FALSE]>>,
        !.users = {[name |-> "p", claims |-> {}, own |-> TRUE], [name |-> "q", claims |-> {"other"}, own |-> FALSE]},
        !.changes = 4, !.faults = 1, !.reads = {[ask |-> "Claim"]}]

AnAccount ==
    [Quiet EXCEPT
        !.cluster.account = [name |-> "builder", uid |-> 100, pull |-> <<"registry">>, mounts |-> <<"token", "key">>],
        !.cluster.secrets = <<[name |-> "token", account |-> "builder", uid |-> 100], [name |-> "key", account |-> None, uid |-> None],
                              [name |-> "theirs", account |-> "viewer", uid |-> 101]>>,
        !.secrets = {"registry", "token"}, !.changes = 3, !.faults = 1, !.emits = {"Account", "Node"},
        !.reads = {[ask |-> "Account"]}]

Limit1(of) == <<[type |-> "Container", of |-> of], [type |-> "Pod", of |-> [max |-> [memory |-> 9]]]>>
ANamespace ==
    [Quiet EXCEPT
        !.cluster.quotas = <<[rank |-> 2, hard |-> [pods |-> 10], used |-> NoAmounts]>>,
        !.cluster.ranges = <<Limit1([min |-> [cpu |-> 1], default |-> [cpu |-> 2, memory |-> 3]])>>,
        !.quotas = {[rank |-> 1, hard |-> [pods |-> 5, cpu |-> 2], used |-> [pods |-> 1]], [rank |-> 3, hard |-> NoAmounts, used |-> NoAmounts]},
        !.ranges = {<<>>, <<Limit1([ratio |-> [memory |-> 4]]), Limit1(NoAmounts)>>},
        !.changes = 4, !.faults = 1, !.reads = {[ask |-> "Namespace"]}]

MCScenes == Pods \cup {OnNode, AService, ADeployment, Measured, ATable, ALog, AnHpa, AClaim, AnAccount, ANamespace}
=============================================================================
