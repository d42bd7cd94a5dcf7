------------------------------- MODULE Answers -------------------------------
(***************************************************************************)
(* What kxs makes of the replies to one question about a cluster: workloads.rs, *)
(* metrics.rs, resources.rs and the describers of Services, Deployments and     *)
(* Nodes.  A reply is what the cluster had when it was asked: the questions that *)
(* take two requests see two moments.                                             *)
(***************************************************************************)
EXTENDS PodViews

Failed(why) == [failed |-> why]
IsFailure(answer) == "failed" \in DOMAIN answer

-----------------------------------------------------------------------------
(* Services: ports are [port, name, target], a target being a number or a name *)
(* ([number, is]); endpoints are a sequence of subsets [ports, ready], the pods of a *)
(* subset having the same numbers for its ports.                                     *)

\* service_port_list
ServicePortList(service) ==
    [i \in DOMAIN service.ports |->
        LET p == service.ports[i] IN [port |-> p.port, label |-> IF p.name # None THEN p.name ELSE p.target.is]]

HasPort(service, port) == \E p \in Range(service.ports) : p.port = port

Named(ports, name) == SelectSeq(ports, LAMBDA p : p.name = name)

\* Faulty: the number of the port is taken from the first subset.
FirstSubset(service, subsets, port) ==
    LET asked == SelectSeq(service.ports, LAMBDA p : p.port = port)
        able == SelectSeq(subsets, LAMBDA s : s.ready # <<>>)
    IN  IF able = <<>> \/ Named(subsets[1].ports, asked[1].name) = <<>> THEN Failed("no endpoint")
        ELSE [pod |-> able[1].ready[1], port |-> Named(subsets[1].ports, asked[1].name)[1].port]

\* resolve_service_endpoint: the first subset that has the port and a ready pod, if the
\* service has the port at all
ResolveEndpoint(service, subsets, port) ==
    LET asked == SelectSeq(service.ports, LAMBDA p : p.port = port)
        able == SelectSeq(subsets, LAMBDA s : Named(s.ports, asked[1].name) # <<>> /\ s.ready # <<>>)
    IN  IF able = <<>> THEN Failed("no endpoint")
        ELSE [pod |-> able[1].ready[1], port |-> Named(able[1].ports, asked[1].name)[1].port]

Shown == 3   \* endpoints on a line of "describe"

\* format_endpoints: an unnamed port stands for the name "".
FormatEndpoints(subsets, name) ==
    LET of(s) == LET one(p) == [i \in DOMAIN s.ready |-> [pod |-> s.ready[i], port |-> p.port]]
                     bare == [i \in DOMAIN s.ready |-> [pod |-> s.ready[i], port |-> None]]
                 IN  IF s.ports = <<>> THEN bare
                     ELSE FoldLeft(LAMBDA out, p : IF p.name = name THEN out \o one(p) ELSE out, <<>>, s.ports)
        all == IF subsets = None THEN <<>> ELSE FoldLeft(LAMBDA out, s : out \o of(s), <<>>, subsets)
        n == IF Len(all) < Shown THEN Len(all) ELSE Shown
    IN  [shown |-> SubSeq(all, 1, n), more |-> Len(all) - n]

\* write_service, the lines of its ports
WriteService(service, subsets) ==
    [i \in DOMAIN service.ports |-> service.ports[i] @@ [endpoints |-> FormatEndpoints(subsets, service.ports[i].name)]]

-----------------------------------------------------------------------------
(* Deployments: a replica set is [name, owner, template, revision, born]            *)

\* owned_by; deployment_replicasets leaves out those that have no revision yet.
Owned(dep, sets) == SelectSeq(sets, LAMBDA s : s.owner = dep.uid)

\* rollout_history, newest first
RolloutHistory(dep, sets) ==
    LET numbered == SelectSeq(Owned(dep, sets), LAMBDA s : s.revision # None)
        row(s) == [revision |-> s.revision, name |-> s.name, images |-> s.template, current |-> s.revision = dep.revision]
    IN  SortSeq([i \in DOMAIN numbered |-> row(numbered[i])], LAMBDA a, b : a.revision > b.revision)

\* write_deployment: the oldest set that has the deployment's template is the new one.
WriteDeployment(dep, sets) ==
    LET owned == SortSeq(Owned(dep, sets), LAMBDA a, b : a.born < b.born)
        same == SelectSeq(owned, LAMBDA s : s.template = dep.template)
        new == IF same = <<>> THEN None ELSE same[1].name
        old == SelectSeq(owned, LAMBDA s : s.name # new)
    IN  [new |-> new, old |-> [i \in DOMAIN old |-> old[i].name]]

\* pods_status: of the pods its controller owns, by phase
PodsStatus(owned, uid) ==
    [phase \in {"Running", "Pending", "Succeeded", "Failed"} |->
        Len(SelectSeq(owned, LAMBDA p : p.owner = uid /\ p.phase = phase))]

-----------------------------------------------------------------------------
(* Selectors: [match, bare], labels or None each; bare is a Service's               *)

\* selector_from_spec: None when there is nothing to select by
Selector(spec) ==
    LET labels == IF spec.match # None THEN spec.match ELSE spec.bare
    IN  IF labels \in {None, NoAmounts} THEN None ELSE labels

\* cronjob_pod_labels: those of the pods, or of the jobs
CronJobLabels(job) == Selector([match |-> IF job.pod = NoAmounts THEN None ELSE job.pod, bare |-> job.own])

\* workload_pods and workload_selector, as far as the cluster is not asked again
Selects(labels, pod) == \A l \in DOMAIN labels : l \in DOMAIN pod.labels /\ pod.labels[l] = labels[l]

-----------------------------------------------------------------------------
(* Metrics, tables, values *)

\* percent and util_class of utilization.rs: rounded, None without a total
Usage(used, total) ==
    LET percent == IF total \in {None, 0} THEN None ELSE Nearest(used * 100, total)
    IN  [used |-> used, percent |-> percent,
         class |-> CASE percent = None -> "" [] percent # None /\ percent > 100 -> "st-bad"
                     [] OTHER -> IF percent > 80 THEN "st-warn" ELSE ""]

\* node_metrics: what each node uses, of what it can give if that is known
NodeMetrics(measured, nodes) ==
    LET total(n, r, Of(_)) == IF n \notin DOMAIN nodes \/ r \notin DOMAIN nodes[n].allocatable THEN None
                              ELSE Of(nodes[n].allocatable[r])
        row(m) == [name |-> m.name,
                   cpu |-> Usage(CpuMillis(m.cpu), total(m.name, "cpu", CpuMillis)),
                   memory |-> Usage(MemMib(m.memory), total(m.name, "memory", MemMib))]
    IN  [i \in DOMAIN measured |-> row(measured[i])]

\* map_table: the columns of priority 0, age apart, and their cells; "" where one is missing
MapTable(raw) ==
    LET visible == SelectSeq([i \in DOMAIN raw.columns |-> i],
                             LAMBDA i : raw.columns[i].priority = 0 /\ raw.columns[i].name # "Age")
        cells(row) == [i \in DOMAIN visible |->
                          IF visible[i] \in DOMAIN row.cells THEN row.cells[visible[i]] ELSE ""]
    IN  [columns |-> [i \in DOMAIN visible |-> raw.columns[visible[i]].name] \o <<"Age">>,
         rows |-> [i \in DOMAIN raw.rows |-> [key |-> raw.rows[i].key, cells |-> cells(raw.rows[i])]]]
=============================================================================
