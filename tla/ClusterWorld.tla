----------------------------- MODULE ClusterWorld -----------------------------
(***************************************************************************)
(* What goes on in a cluster while kxs reads it, external: the controllers of   *)
(* Endpoints, Deployments, autoscalers, claims, tokens and quotas, people who edit  *)
(* what these act on, nodes that join and leave, the metrics server, events, and      *)
(* objects of some kind that come and go.                                               *)
(***************************************************************************)
EXTENDS Related, Kubelet

VARIABLES
    cluster,   \* [nodes, service, synced, subsets, dep, sets, usage, table, hpa, claim, users, account,
               \*  secrets, quotas, ranges, events]
    changes    \* how often it may still change, pods apart

Changed(new) ==
    /\ changes > 0 /\ new # cluster
    /\ cluster' = new /\ changes' = changes - 1 /\ UNCHANGED pods

-----------------------------------------------------------------------------
(* A service's endpoints *)

ContainerPorts(pod) == FoldLeft(LAMBDA all, c : all \o c.ports, <<>>, pod.main)

\* The number that a target stands for in a pod: a name has one where a port is so named.
NumberOf(pod, target) ==
    LET named == Named(ContainerPorts(pod), target.is)
    IN  IF named # <<>> THEN named[1].port ELSE IF target.number THEN target.is ELSE None

PortsIn(pod, service) ==
    LET known == SelectSeq(service.ports, LAMBDA p : NumberOf(pod, p.target) # None)
    IN  [i \in DOMAIN known |-> [name |-> known[i].name, port |-> NumberOf(pod, known[i].target)]]

IsReady(pod) == ~pod.deleting /\ \A c \in Range(pod.main) : Running(pod, c) /\ Status(pod, c).ready

Backing(service) == {p \in DOMAIN pods : ~pods[p].deleting /\ ~Ended(pods[p]) /\ PortsIn(pods[p], service) # <<>>}

\* The controller writes the endpoints: pods with the same ports together, the groups in any order.
\* "service" is what the controller saw of it.
SyncEndpoints ==
    LET service == cluster.service
        groups == {PortsIn(pods[p], service) : p \in Backing(service)}
        subset(ports) == [ports |-> ports, service |-> service,
                          ready |-> SetToSeq({p \in Backing(service) : PortsIn(pods[p], service) = ports /\ IsReady(pods[p])})]
    IN  \E order \in SetToSeqs(groups) :
            Changed([cluster EXCEPT !.synced = service, !.subsets = [i \in DOMAIN order |-> subset(order[i])]])

EditService(services) == \E s \in services : Changed([cluster EXCEPT !.service = s])

-----------------------------------------------------------------------------
(* A deployment and its replica sets; the sets of another are in the namespace too. *)

Other == 0

Mine == {s \in Range(cluster.sets) : cluster.dep # None /\ s.owner = cluster.dep.uid}
Current == {s \in Mine : s.template = cluster.dep.template}
LastRevision == Max({0} \cup {s.revision : s \in {x \in Mine : x.revision # None}})

Rollout(templates) ==
    /\ cluster.dep # None
    /\ \E t \in templates : Changed([cluster EXCEPT !.dep.template = t])

\* The controller gives the set of the template the highest revision, and makes it if need be ...
SyncSets ==
    /\ cluster.dep # None
    /\ \/ /\ Current = {}
          /\ Changed([cluster EXCEPT !.sets = Append(@,
                 [name |-> <<cluster.dep.uid, cluster.dep.template>>, owner |-> cluster.dep.uid,
                  template |-> cluster.dep.template, revision |-> LastRevision + 1, born |-> -changes])])
       \/ \E s \in Current :
              /\ s.revision # LastRevision
              /\ Changed([cluster EXCEPT !.sets =
                     [i \in DOMAIN @ |-> IF @[i] = s THEN [s EXCEPT !.revision = LastRevision + 1] ELSE @[i]]])

\* ... and then notes it on the deployment ("marked" is the template it was for).
MarkRevision ==
    \E s \in Current :
        /\ s.revision = LastRevision
        /\ Changed([cluster EXCEPT !.dep.revision = s.revision, !.dep.marked = s.template])

\* An old set is over the limit, or its deployment is gone.
CollectSet ==
    \E s \in Range(cluster.sets) \ Current :
        /\ s.owner # Other
        /\ s \in Mine => \E c \in Current : c.revision = LastRevision
        /\ Changed([cluster EXCEPT !.sets = SelectSeq(@, LAMBDA x : x # s)])

Recreate(templates) ==
    \/ cluster.dep # None /\ Changed([cluster EXCEPT !.dep = None])
    \/ /\ cluster.dep = None
       /\ \E t \in templates : Changed([cluster EXCEPT !.dep = [uid |-> changes, template |-> t, revision |-> None, marked |-> None]])

-----------------------------------------------------------------------------
(* Nodes, the metrics server, objects *)

NodeLeaves == \E n \in DOMAIN cluster.nodes : Changed([cluster EXCEPT !.nodes = [m \in DOMAIN @ \ {n} |-> @[m]]])
NodeJoins(n, node) == n \notin DOMAIN cluster.nodes /\ Changed([cluster EXCEPT !.nodes = (n :> node) @@ @])
Measures(usages) == \E u \in usages : Changed([cluster EXCEPT !.usage = u])
ObjectComes(rows) == \E r \in rows : Changed([cluster EXCEPT !.table.rows = Append(@, r)])
ObjectGoes == \E i \in DOMAIN cluster.table.rows : Changed([cluster EXCEPT !.table.rows = RemoveAt(@, i)])

-----------------------------------------------------------------------------
(* An autoscaler: its controller measures each metric of the spec it saw, or cannot.  *)
(* What is measured of a metric stands for itself by the metric's name.                 *)

MeasuredOf(metric) ==
    [type |-> metric.type,
     current |-> [averageValue |-> IF metric.target.by # "Value" THEN metric.on ELSE None,
                  averageUtilization |-> IF metric.target.by = "Utilization" THEN metric.on ELSE None,
                  value |-> IF metric.target.by = "Value" THEN metric.on ELSE None]]

NotMeasured == [type |-> "", current |-> Unmeasured]

SyncHpa ==
    /\ cluster.hpa # None
    /\ \E able \in SUBSET {i \in DOMAIN cluster.hpa.metrics : cluster.hpa.metrics[i].type \in Typed} :
           Changed([cluster EXCEPT !.hpa.status =
               [of |-> cluster.hpa.metrics, able |-> able,
                metrics |-> [i \in DOMAIN cluster.hpa.metrics |->
                                IF i \in able THEN MeasuredOf(cluster.hpa.metrics[i]) ELSE NotMeasured]]])

EditHpa(lists) == cluster.hpa # None /\ \E l \in lists : Changed([cluster EXCEPT !.hpa.metrics = l])

-----------------------------------------------------------------------------
(* A claim and its pods: "users" is a sequence of [name, uid, claims, own], "own" for a pod   *)
(* that has the claim made for it.  A pod of the same name may follow: its uid is another.      *)

PodComes(templates) ==
    \E t \in templates :
        /\ ~\E u \in Range(cluster.users) : u.name = t.name
        /\ Changed([cluster EXCEPT !.users = Append(@, t @@ [uid |-> changes])])

PodEnds == \E i \in DOMAIN cluster.users : Changed([cluster EXCEPT !.users = RemoveAt(@, i)])

NewClaim(owners) ==
    [name |-> "data", owners |-> owners, class |-> "fast", legacy |-> None, volume |-> None, capacity |-> None,
     phase |-> "Pending", deleting |-> FALSE]

\* Made for a pod, bound to a volume, its status written after that, deleted, and gone when unused.
ClaimMoves ==
    \/ /\ cluster.claim = None
       /\ \E u \in Range(cluster.users) : u.own /\ Changed([cluster EXCEPT !.claim = NewClaim({u.uid})])
    \/ /\ cluster.claim # None
       /\ \/ cluster.claim.volume = None /\ Changed([cluster EXCEPT !.claim.volume = "pv"])
          \/ /\ cluster.claim.volume # None
             /\ Changed([cluster EXCEPT !.claim.phase = "Bound", !.claim.capacity = "1Gi"])
          \/ Changed([cluster EXCEPT !.claim.deleting = TRUE])
          \/ /\ cluster.claim.deleting /\ DOMAIN PvcUsers(cluster.claim, cluster.users) = {}
             /\ Changed([cluster EXCEPT !.claim = None])

-----------------------------------------------------------------------------
(* A service account: made again under its name it has another uid, and the tokens of  *)
(* the last one stay for a while.  A secret is [name, account, uid], no account when it   *)
(* is not a token.                                                                          *)

AccountMoves(named) ==
    \/ cluster.account # None /\ Changed([cluster EXCEPT !.account.uid = changes])
    \/ /\ cluster.account # None
       /\ \E s \in named :
              /\ ~\E x \in Range(cluster.secrets) : x.name = s
              /\ \/ Changed([cluster EXCEPT !.secrets = Append(@, [name |-> s, account |-> None, uid |-> None])])
                 \/ Changed([cluster EXCEPT !.secrets =
                        Append(@, [name |-> s, account |-> cluster.account.name, uid |-> cluster.account.uid])])
    \/ \E i \in DOMAIN cluster.secrets : Changed([cluster EXCEPT !.secrets = RemoveAt(@, i)])

-----------------------------------------------------------------------------
(* Quotas, limits and events *)

\* A quota is counted anew, added, or taken away; the limits are replaced.
QuotasMove(quotas, ranges) ==
    \/ \E q \in quotas :
           /\ ~\E x \in Range(cluster.quotas) : x.rank = q.rank
           /\ Changed([cluster EXCEPT !.quotas = Append(@, q)])
    \/ \E i \in DOMAIN cluster.quotas :
           \/ Changed([cluster EXCEPT !.quotas = RemoveAt(@, i)])
           \/ Changed([cluster EXCEPT !.quotas[i].used = [r \in DOMAIN cluster.quotas[i].hard |-> 1]])
    \/ \E r \in ranges : Changed([cluster EXCEPT !.ranges = r])

\* An event is new, with a time or not, or happens again.
Emits(abouts) ==
    \/ \E about \in abouts, last \in {None, -changes} :
           Changed([cluster EXCEPT !.events = Append(@, [about |-> about, first |-> last, last |-> last, count |-> 1])])
    \/ \E i \in DOMAIN cluster.events :
           /\ cluster.events[i].about \in abouts
           /\ Changed([cluster EXCEPT !.events[i].count = @ + 1, !.events[i].last = -changes])
=============================================================================
