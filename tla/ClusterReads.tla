----------------------------- MODULE ClusterReads -----------------------------
(***************************************************************************)
(* One question about a cluster, asked request by request while the cluster     *)
(* goes on changing (fetch in runtime.rs, describe and gather in describe/mod.rs, *)
(* list_table, the metrics and workload queries), and a log that is read line by   *)
(* line (logs.rs).  Any request may fail; a list that comes in pages is that of    *)
(* the moment its first page was read.                                              *)
(***************************************************************************)
EXTENDS ClusterWorld

CONSTANTS
    Chunk,           \* pods in a page of a describer
    Limit,           \* rows in a page of a table
    MaxTablePages,   \* pages of a table that are read
    LogBatch         \* lines of a log that are sent together

VARIABLES
    scene,     \* what can happen
    read,      \* None, or [what, got, whole, page]: the replies so far, page the one under way
    answer,    \* None, or [what, got, whole, is]
    faults,    \* requests that may still fail
    log        \* None, or [written, taken, batch, sent, ended]

vars == <<scene, pods, cluster, changes, read, answer, faults, log>>
world == <<pods, cluster, changes>>

-----------------------------------------------------------------------------
(* Requests *)

R(of, mode) == [of |-> of, mode |-> mode]

\* What is asked for, in turn.  "must": without it there is no answer; "best": None does;
\* "chunks": as many as can be had; "pages": no more than so many; "metrics": none where
\* there is no metrics server; "pair": two that are of use together only.
Requests(what) ==
    CASE what.ask = "Node" -> <<R("node", "must"), R("lease", "best"), R("podsOnNode", "chunks"), R("events", "best")>>
      [] what.ask = "Service" -> <<R("service", "must"), R("endpoints", "best"), R("events", "best")>>
      [] what.ask = "Deployment" -> <<R("dep", "must"), R("sets", "best"), R("events", "best")>>
      [] what.ask = "ReplicaSet" -> <<R("workload", "must"), R("podsOfWorkload", "chunks"), R("events", "best")>>
      [] what.ask = "Hpa" -> <<R("hpa", "must"), R("events", "best")>>
      [] what.ask = "Claim" -> <<R("claim", "must"), R("users", "chunks"), R("events", "best")>>
      [] what.ask = "Account" -> <<R("account", "must"), R("secretNames", "pair"), R("tokens", "pair"), R("events", "best")>>
      [] what.ask = "Namespace" -> <<R("namespace", "must"), R("quotas", "best"), R("ranges", "best"), R("events", "best")>>
      [] what.ask = "RolloutHistory" -> <<R("dep", "must"), R("sets", "must")>>
      [] what.ask = "ServiceEndpoint" -> <<R("service", "must"), R("endpoints", "must")>>
      [] what.ask = "ServicePorts" -> <<R("service", "must")>>
      [] what.ask = "WorkloadPods" -> <<R("workload", "must"), R("podsOfWorkload", "must")>>
      [] what.ask \in {"Containers", "ForwardPorts"} -> <<R("pod", "must")>>
      [] what.ask = "NodeMetrics" -> <<R("usage", "metrics"), R("nodes", "best")>>
      [] what.ask = "Table" -> <<R("table", "pages")>>

InOrder(names) == LET all == SetToSeq(names) IN [i \in DOMAIN all |-> pods[all[i]]]

\* What the cluster has of it now, None when it is not there
Content(of, what) ==
    CASE of = "node" -> IF what.name \in DOMAIN cluster.nodes THEN cluster.nodes[what.name] ELSE None
      [] of = "podsOnNode" -> InOrder({p \in DOMAIN pods : pods[p].node = what.name /\ ~Ended(pods[p])})
      [] of = "pod" -> IF what.name \in DOMAIN pods THEN pods[what.name] ELSE None
      [] of = "workload" -> [uid |-> "rs", match |-> [app |-> "web"], bare |-> None]
      [] of = "podsOfWorkload" -> InOrder({p \in DOMAIN pods : Selects([app |-> "web"], pods[p])})
      [] of = "service" -> cluster.service
      [] of = "endpoints" -> cluster.subsets
      [] of = "dep" -> cluster.dep
      [] of = "sets" -> cluster.sets
      [] of = "nodes" -> cluster.nodes
      [] of = "table" -> cluster.table.rows
      [] of = "hpa" -> cluster.hpa
      [] of = "claim" -> cluster.claim
      [] of = "users" -> cluster.users
      [] of = "account" -> cluster.account
      [] of = "secretNames" -> {s.name : s \in Range(cluster.secrets)}
      [] of = "tokens" -> SelectSeq(cluster.secrets, LAMBDA s : s.account # None)
      [] of = "namespace" -> "there"
      [] of = "quotas" -> cluster.quotas
      [] of = "ranges" -> cluster.ranges
      [] of = "events" -> SelectSeq(cluster.events, LAMBDA e : e.about = what.ask)
      [] OTHER -> None

\* describe_value: every describer but the namespaces' ends with the events.
Describes == {"Node", "Service", "Deployment", "ReplicaSet", "Hpa", "Claim", "Account"}

\* What is shown of the replies
Report(what, got) ==
    CASE what.ask = "Node" -> NodeReport(got[1], got[3])
      [] what.ask = "Service" -> [lines |-> WriteService(got[1], got[2])]
      [] what.ask = "Deployment" -> WriteDeployment(got[1], IF got[2] = None THEN <<>> ELSE got[2])
      [] what.ask = "ReplicaSet" -> PodsStatus(got[2], got[1].uid)
      [] what.ask = "Hpa" -> WriteHpa(got[1])
      [] what.ask = "Claim" -> WritePvc(got[1], got[2])
      [] what.ask = "Account" -> WriteAccount(got[1], SecretLookup(got[2], got[3]))
      [] what.ask = "Namespace" -> WriteNamespace(got[2], got[3])
      [] what.ask = "RolloutHistory" -> [rows |-> RolloutHistory(got[1], got[2])]
      [] what.ask = "ServiceEndpoint" -> IF HasPort(got[1], what.port) THEN ResolveEndpoint(got[1], got[2], what.port)
                                           ELSE Failed("no port")
      [] what.ask = "ServicePorts" -> [ports |-> ServicePortList(got[1])]
      [] what.ask = "WorkloadPods" -> IF Selector(got[1]) = None THEN Failed("no selector")
                                      ELSE [names |-> {got[2][i].name : i \in DOMAIN got[2]}]
      [] what.ask = "Containers" -> [infos |-> ContainerInfos(got[1]), exec |-> ExecContainers(ContainerInfos(got[1]))]
      [] what.ask = "ForwardPorts" -> [choices |-> PortChoices(ContainerInfos(got[1]))]
      [] what.ask = "NodeMetrics" -> [rows |-> IF got[1] = <<>> THEN <<>>
                                               ELSE NodeMetrics(got[1], IF got[2] = None THEN NoAmounts ELSE got[2])]
      [] what.ask = "Table" -> MapTable([columns |-> cluster.table.columns, rows |-> got[1]])

Answer(what, got) ==
    IF what.ask \in Describes THEN Report(what, got) @@ [events |-> WriteEvents(Last(got))] ELSE Report(what, got)

-----------------------------------------------------------------------------
(* The question *)

Ask(what) ==
    /\ read = None /\ answer = None
    /\ read' = [what |-> what, got |-> <<>>, whole |-> <<>>, page |-> None]
    /\ UNCHANGED <<world, faults, answer>>

NextRequest == Requests(read.what)[Len(read.got) + 1]

\* All is read; nothing else is asked when no node is measured, or the service has no such port.
Complete == \/ Len(read.got) = Len(Requests(read.what))
            \/ read.what.ask = "NodeMetrics" /\ read.got = <<<<>>>>
            \/ read.what.ask = "ServiceEndpoint" /\ Len(read.got) = 1 /\ ~HasPort(read.got[1], read.what.port)

Asking(mode) == read # None /\ ~Complete /\ NextRequest.mode = mode

GiveUp(why) ==
    /\ answer' = [what |-> read.what, got |-> read.got, whole |-> read.whole, is |-> Failed(why)]
    /\ read' = None

\* "whole" is what there was of it, whatever was read.
Got(reply, whole) ==
    /\ read' = [read EXCEPT !.got = Append(@, reply), !.whole = Append(@, whole), !.page = None]
    /\ UNCHANGED answer

Must ==
    LET reply == Content(NextRequest.of, read.what) IN
    /\ Asking("must")
    /\ IF reply = None THEN GiveUp("not found") ELSE Got(reply, reply)
    /\ UNCHANGED <<world, faults>>

Best ==
    /\ Asking("best") \/ Asking("pair")
    /\ LET reply == Content(NextRequest.of, read.what) IN Got(reply, reply)
    /\ UNCHANGED <<world, faults>>

\* empty_if_metrics_absent
Metrics ==
    LET usage == cluster.usage IN
    /\ Asking("metrics")
    /\ IF usage.is = "failing" THEN GiveUp("metrics")
       ELSE LET rows == IF usage.is = "absent" THEN <<>> ELSE usage.rows IN Got(rows, rows)
    /\ UNCHANGED <<world, faults>>

PageSize == IF NextRequest.mode = "chunks" THEN Chunk ELSE Limit
Min2(m, n) == IF m < n THEN m ELSE n
ReadSoFar(page) == SubSeq(page.list, 1, Min2(page.have, Len(page.list)))

\* One page of what was there when the first was read; list_table stops at so many.
Page ==
    LET page == IF read.page = None THEN [list |-> Content(NextRequest.of, read.what), have |-> PageSize]
                ELSE [read.page EXCEPT !.have = @ + PageSize]
        last == \/ page.have >= Len(page.list)
                \/ NextRequest.mode = "pages" /\ page.have = PageSize * MaxTablePages
    IN  /\ Asking("chunks") \/ Asking("pages")
        /\ IF last THEN Got(ReadSoFar(page), page.list) ELSE read' = [read EXCEPT !.page = page] /\ UNCHANGED answer
        /\ UNCHANGED <<world, faults>>

\* One of two fails: what is left of them is not asked for (service_account_secret_lookup).
LeavePair ==
    LET left == SelectSeq(SubSeq(Requests(read.what), Len(read.got) + 1, Len(Requests(read.what))), LAMBDA r : r.mode = "pair")
        none == [i \in DOMAIN left |-> None]
    IN  read' = [read EXCEPT !.got = @ \o none, !.whole = @ \o none] /\ UNCHANGED answer

\* The request fails: best_effort_get, list_or_empty and list_in_chunks make do, the others do not.
Fail ==
    /\ read # None /\ ~Complete /\ faults > 0
    /\ faults' = faults - 1
    /\ CASE NextRequest.mode = "best" -> Got(None, None)
         [] NextRequest.mode = "chunks" -> IF read.page = None THEN Got(<<>>, None) ELSE Got(ReadSoFar(read.page), read.page.list)
         [] NextRequest.mode = "pair" -> LeavePair
         [] OTHER -> GiveUp("failed")
    /\ UNCHANGED world

Finish ==
    /\ read # None /\ Complete
    /\ answer' = [what |-> read.what, got |-> read.got, whole |-> read.whole, is |-> Answer(read.what, read.got)]
    /\ read' = None
    /\ UNCHANGED <<world, faults>>

-----------------------------------------------------------------------------
(* A log: written by the container, taken off the connection, sent in batches *)

LogOpen == log # None /\ log.ended = None
Sent(batch) == IF batch = <<>> THEN <<>> ELSE <<batch>>

Writes == LogOpen /\ log.written < scene.lines /\ log' = [log EXCEPT !.written = @ + 1]

\* run_log_stream: a line is batched, and a full batch sent
TakeLine ==
    LET batch == Append(log.batch, log.taken + 1) IN
    /\ LogOpen /\ log.taken < log.written
    /\ log' = [log EXCEPT !.taken = @ + 1,
                          !.batch = IF Len(batch) >= LogBatch THEN <<>> ELSE batch,
                          !.sent = IF Len(batch) >= LogBatch THEN Append(@, batch) ELSE @]

\* Every 100 ms what there is is sent.
Tick == LogOpen /\ log.batch # <<>> /\ log' = [log EXCEPT !.sent = Append(@, log.batch), !.batch = <<>>]

\* The end of the log, or the connection breaks: what is batched goes first.
LogEnds(how) ==
    /\ LogOpen /\ (how = "eof" => log.taken = log.written)
    /\ log' = [log EXCEPT !.sent = @ \o Sent(log.batch), !.batch = <<>>, !.ended = how]

\* The view is left: what is batched is dropped.
StopLog == LogOpen /\ log' = [log EXCEPT !.ended = "stopped"]

Log == (Writes \/ TakeLine \/ Tick \/ LogEnds("eof") \/ LogEnds("error") \/ StopLog)
       /\ UNCHANGED <<world, read, answer, faults>>

-----------------------------------------------------------------------------
CONSTANT Scenes

Init ==
    /\ scene \in Scenes
    /\ pods = scene.pods /\ cluster = scene.cluster /\ changes = scene.changes
    /\ read = None /\ answer = None /\ faults = scene.faults /\ log = scene.log

\* The cluster moves until the question is answered: its pods, and the rest of it.
PodsMove ==
    /\ answer = None
    /\ \/ \E p \in DOMAIN scene.templates : Create(p, scene.templates[p])
       \/ \E p \in DOMAIN pods \cap scene.lives : Lives(p, scene.node, scene.resizes)
       \/ \E p \in scene.readies : Ready(p, 1)
    /\ UNCHANGED <<cluster, changes, read, answer, faults, log>>

ClusterMoves ==
    /\ answer = None
    /\ \/ SyncEndpoints \/ EditService(scene.services)
       \/ Rollout(scene.rollouts) \/ SyncSets \/ MarkRevision \/ CollectSet \/ Recreate(scene.rollouts)
       \/ scene.churn /\ (NodeLeaves \/ NodeJoins(scene.node, scene.joins))
       \/ Measures(scene.usages) \/ ObjectComes(scene.objects)
       \/ scene.objects # {} /\ ObjectGoes
       \/ SyncHpa \/ EditHpa(scene.hpas)
       \/ PodComes(scene.users) \/ PodEnds \/ ClaimMoves
       \/ AccountMoves(scene.secrets) \/ QuotasMove(scene.quotas, scene.ranges) \/ Emits(scene.emits)
    /\ UNCHANGED <<read, answer, faults, log>>

Reads == (\E what \in scene.reads : Ask(what)) \/ Must \/ Best \/ Metrics \/ Page \/ Fail \/ Finish

Next ==
    /\ \/ PodsMove \/ ClusterMoves
       \/ Reads /\ UNCHANGED log
       \/ Log
    /\ UNCHANGED scene

Spec == Init /\ [][Next]_vars

-----------------------------------------------------------------------------
(* Properties *)

\* Nothing of a pod is being resized: what runs has what is asked for.
Steady(pod) ==
    \A c \in Range(Containers(pod)) :
        /\ Status(pod, c).allocated = c.requests
        /\ Running(pod, c) => Status(pod, c).actual = c.requests

\* What "describe node" counts for a pod is never less than what its containers have been
\* given, also while they start one after the other, are resized or may not be; when nothing
\* is under way it is the most they ask for at once, as the scheduler counts it.  What is
\* printed is the amount it stands for (pod_resource_amounts, canonical).
LoadCoversUse ==
    LET peak(pod, r) == IF r \in DOMAIN pod.level.requests THEN AmountOf(pod.level.requests, r) ELSE Peak(pod, r)
        fits(pod, r, asked, overhead) ==
            /\ asked.n >= InUse(pod, r) + overhead
            /\ Steady(pod) /\ ~pod.infeasible => asked.n = peak(pod, r) + overhead
            /\ Parse(Canonical(asked)).n = asked.n
    IN  \A p \in {q \in DOMAIN pods : pods[q].node # None /\ ~Ended(pods[q])}, r \in {"cpu", "memory"} :
            fits(pods[p], r, ValueOf(PodAmounts(pods[p], TRUE).requests, r), AmountOf(pods[p].overhead, r))

\* The fault filter of the pod table shows every pod that something is wrong with, and no
\* pod that is well: a row passes as faultless only if all that the pod is made of runs, is
\* ready and was never restarted (is_faulty on what pod_row makes of the pod).  A running
\* sidecar makes a pod's status "Init:...": such a pod is shown too, and one whose sidecar
\* has just ended without an error is not.
FaultsAreShown ==
    \A p \in DOMAIN pods :
        LET pod == pods[p]
            sidecars == {c \in Range(pod.init) : c.sidecar}
            gone(c) == c.name \in DOMAIN pod.statuses /\ Finished(pod, c)
        IN  IF IsFaulty(PodRow(pod)) THEN ~Healthy(pod) \/ sidecars # {}
            ELSE Healthy(pod) \/ \E c \in sidecars : gone(c)

\* A port of a service is forwarded to a pod that was ready, at the number that the port
\* has in that very pod, and refused only when no ready pod has it, as long as the service
\* read is the one its endpoints are of.
EndpointFits(port, service, subsets, is) ==
    LET ready == UNION {Range(subsets[i].ready) : i \in DOMAIN subsets}
        target == Named(service.ports, SelectSeq(service.ports, LAMBDA p : p.port = port)[1].name)[1].target
        number(p) == NumberOf(scene.pods[p], target)
    IN  \/ \E i \in DOMAIN subsets : subsets[i].service # service
        \/ is = Failed("no endpoint") /\ \A p \in ready : number(p) = None
        \/ ~IsFailure(is) /\ is.pod \in ready /\ is.port = number(is.pod)

\* "describe" counts every ready pod of each port, whether shown or not.
EndpointsCounted(service, subsets, lines) ==
    \/ \E i \in DOMAIN subsets : subsets[i].service # service
    \/ \A l \in DOMAIN lines :
           LET ready == UNION {Range(subsets[i].ready) : i \in DOMAIN subsets}
               having == {p \in ready : NumberOf(scene.pods[p], lines[l].target) # None}
           IN  Len(lines[l].endpoints.shown) + lines[l].endpoints.more = Cardinality(having)

\* The history goes back from the newest revision, all of it this deployment's, and the one
\* that is marked current is that of the template its controller last noted.
HistoryHolds(dep, sets, rows) ==
    /\ \A i, j \in DOMAIN rows : i < j => rows[i].revision > rows[j].revision
    /\ \A i \in DOMAIN rows :
           /\ \E s \in Range(sets) : s.name = rows[i].name /\ s.owner = dep.uid
           /\ rows[i].current => rows[i].images = dep.marked

\* The set shown as the new one is, once the controller has caught up, that of the revision noted.
NewSetHolds(dep, sets, is) ==
    \A s \in Range(sets) :
        dep.marked = dep.template /\ s.name = is.new => s.owner = dep.uid /\ s.revision >= dep.revision

\* A node's report is about the pods that were bound to it at one moment: all of them, unless
\* a request failed, and the totals are what they add up to and cover what they use.
NodeHolds(node, list, is) ==
    LET total(r) == Total(LAMBDA p : ValueOf(PodAmounts(p, TRUE).requests, r).n, list)
        fits(r, shown, n) ==
            /\ Parse(shown.shown).n = n /\ n >= Total(LAMBDA p : InUse(p, r), list)
            /\ shown.percent > 100 => n > AmountOf(node.allocatable, r)
    IN  faults = scene.faults =>
            /\ [i \in DOMAIN is.rows |-> is.rows[i].pod] = [i \in DOMAIN list |-> list[i].name]
            /\ \A r \in {"cpu", "memory"} : fits(r, is.cells[r].requests, total(r))

\* A table is the first rows of one moment, as far as it is read, with a cell for each column but the age.
TableHolds(whole, is) ==
    /\ [i \in DOMAIN is.rows |-> is.rows[i].key]
         = [i \in 1 .. Min2(Len(whole), Limit * MaxTablePages) |-> whole[i].key]
    /\ \A i \in DOMAIN is.rows : Len(is.rows[i].cells) + 1 = Len(is.columns)

\* A node is never shown as overloaded that is not, nor as free when it is.
UsageHolds(measured, nodes, rows) ==
    \A i \in DOMAIN rows :
        LET m == measured[i]
            total == CpuMillis(nodes[m.name].allocatable["cpu"])
        IN  /\ rows[i].cpu.percent # None => nodes # None /\ m.name \in DOMAIN nodes
            /\ rows[i].cpu.class = "st-bad" => CpuMillis(m.cpu) > total
            /\ rows[i].cpu.class = "" /\ rows[i].cpu.percent # None => CpuMillis(m.cpu) <= total

\* What is shown as a metric's current value was measured for that metric, and is missing only
\* if it could not be, as long as the autoscaler's controller has seen the metrics there are;
\* with metrics it has not seen, it is at least of a metric of the same type.
HpaHolds(hpa, rows) ==
    hpa.status # None =>
        \A i \in DOMAIN rows :
            IF hpa.status.of = hpa.metrics
            THEN rows[i].current = IF i \in hpa.status.able THEN hpa.metrics[i].on ELSE None
            ELSE rows[i].current # None =>
                     \E m \in Range(hpa.status.of) : m.on = rows[i].current /\ m.type = hpa.metrics[i].type

\* A claim is used by the pods that have it: those that name it, and of the pods that have a
\* claim made for them the one it was made for, not another that took its name since.
ClaimHolds(claim, list, is) ==
    LET has(u) == claim.name \in u.claims \/ (u.own /\ claim.owners = {u.uid})
        users == {u \in Range(list) : has(u)}
    IN  /\ is.status = "Bound" => is.capacity # None
        /\ \A uid \in DOMAIN is.users : \E u \in users : u.uid = uid /\ u.name = is.users[uid]
        /\ faults = scene.faults => DOMAIN is.users = {u.uid : u \in users}

\* A secret is said to be missing only if it was when the names were read, and a token is one
\* of this very account; a token said to be missing as well came between the two lists.
AccountHolds(account, names, tokens, is) ==
    LET said == Range(is.pull \o is.mounts)
        missing == {s.name : s \in {x \in said : x.missing}}
    IN  IF names = None \/ tokens = None THEN missing = {} /\ is.tokens = <<>>
        ELSE /\ missing = {s.name : s \in said} \ names
             /\ Range(is.tokens) = {t.name : t \in {x \in Range(tokens) : x.uid = account.uid}}
             /\ Range(is.tokens) \cap missing # {} => ~({t.name : t \in Range(tokens)} \subseteq names)

\* Every quota and every limit that there was is shown, as it was, and once.
NamespaceHolds(quotas, ranges, is) ==
    LET limits == UNION {Range(r) : r \in Range(ranges)}
        put(l) == UNION {{<<l.type, kind, r, l.of[kind][r]>> : r \in DOMAIN l.of[kind]} : kind \in DOMAIN l.of}
        cells(l) == UNION {{<<l.type, kind, r, l.rows[r][kind]>> : kind \in DOMAIN l.rows[r]} : r \in DOMAIN l.rows}
        shown(l) == {c \in cells(l) : c[4] # None}
    IN  /\ quotas # None =>
               /\ \A i, j \in DOMAIN is.quotas : i < j => is.quotas[i].rank < is.quotas[j].rank
               /\ {q.rank : q \in Range(is.quotas)} = {q.rank : q \in Range(quotas)}
               /\ \A i \in DOMAIN is.quotas, q \in Range(quotas) : q.rank = is.quotas[i].rank =>
                      \A r \in DOMAIN q.hard : is.quotas[i].rows[r].hard = q.hard[r]
        /\ ranges # None => UNION {shown(l) : l \in Range(is.limits)} = UNION {put(l) : l \in limits}

\* The events are those about it, from the first to the last, those without a time at the end.
EventsHold(about, list, shown) ==
    /\ Len(shown) = Len(list) /\ \A i \in DOMAIN shown : shown[i].about = about
    /\ \A i, j \in DOMAIN shown : i < j =>
           \/ shown[j].last = None
           \/ shown[i].last # None /\ shown[i].last < shown[j].last
    /\ {<<e.last, e.count>> : e \in Range(shown)} = {<<e.last, e.count>> : e \in Range(list)}

\* Every port of the containers that run along is offered once.
PortsHold(pod, choices) ==
    LET along == SelectSeq(pod.init, LAMBDA c : c.sidecar) \o pod.main IN
    /\ IsInjective([i \in DOMAIN choices |-> choices[i].port])
    /\ {choices[i].port : i \in DOMAIN choices}
         = UNION {{c.ports[k].port : k \in DOMAIN c.ports} : c \in Range(along)}

\* A log that ends by itself, or breaks, has been sent as far as it was read, and one that
\* ends well as far as it was written: in order, in batches that are never too long.
LogIsSent ==
    log # None =>
        LET lines == FlattenSeq(log.sent) \o log.batch IN
        /\ lines = [i \in 1 .. log.taken |-> i] \/ log.ended = "stopped"
        /\ log.ended \in {"eof", "error"} => log.batch = <<>> /\ Len(FlattenSeq(log.sent)) = log.taken
        /\ log.ended = "eof" => log.taken = log.written
        /\ \A b \in Range(log.sent) : b # <<>> /\ Len(b) <= LogBatch

\* What is told of a cluster holds together, although the requests that it takes see the
\* cluster at different moments and may fail one by one; and a log has been sent as it was read.
AnswersHoldTogether ==
    /\ LogIsSent
    /\ answer # None /\ (IsFailure(answer.is) => answer.what.ask = "ServiceEndpoint" /\ Len(answer.got) = 2) =>
           LET got == answer.got
               is == answer.is
               ask == answer.what.ask
           IN  /\ ask = "ServiceEndpoint" => EndpointFits(answer.what.port, got[1], got[2], is)
               /\ ask = "Service" /\ got[2] # None => EndpointsCounted(got[1], got[2], is.lines)
               /\ ask = "RolloutHistory" => HistoryHolds(got[1], got[2], is.rows)
               /\ ask = "Deployment" /\ got[2] # None => NewSetHolds(got[1], got[2], is)
               /\ ask = "Node" => NodeHolds(got[1], answer.whole[3], is)
               /\ ask = "ReplicaSet" /\ faults = scene.faults =>
                      Total(LAMBDA n : n, <<is["Running"], is["Pending"], is["Succeeded"], is["Failed"]>>)
                        = Len(SelectSeq(answer.whole[2], LAMBDA p : p.owner = "rs"))
               /\ ask = "Hpa" => HpaHolds(got[1], is.metrics)
               /\ ask = "Claim" => ClaimHolds(got[1], answer.whole[2], is)
               /\ ask = "Account" => AccountHolds(got[1], got[2], got[3], is)
               /\ ask = "Namespace" => NamespaceHolds(got[2], got[3], is)
               /\ ask \in Describes /\ Last(got) # None => EventsHold(ask, Last(got), is.events)
               /\ ask = "NodeMetrics" /\ got[1] # <<>> => UsageHolds(got[1], got[2], is.rows)
               /\ ask = "Table" => TableHolds(answer.whole[1], is)
               /\ ask = "ForwardPorts" => PortsHold(got[1], is.choices)
=============================================================================
