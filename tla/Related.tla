------------------------------- MODULE Related -------------------------------
(***************************************************************************)
(* The describers that set two readings side by side: an autoscaler's metrics *)
(* and what was last measured of them, a claim and the pods that may use it, a   *)
(* service account and the secrets there are, a namespace's quotas and limits,     *)
(* and the events that follow each of them (describe/hpa.rs, storage.rs,             *)
(* serviceaccount.rs, namespace.rs, events.rs).                                        *)
(***************************************************************************)
EXTENDS Answers

-----------------------------------------------------------------------------
(* Autoscalers: a metric is [type, on, target], the target [by, is]; a status is one  *)
(* [type, current] per metric, "current" having what was measured, None where nothing. *)

Typed == {"Resource", "Pods", "External", "Object", "ContainerResource"}
Unmeasured == [averageValue |-> None, averageUtilization |-> None, value |-> None]

\* current_average, current_value, current_utilization: a percentage needs its amount too.
CurrentBy(by, current) ==
    CASE by = "AverageValue" -> current.averageValue
      [] by = "Value" -> current.value
      [] by = "Utilization" -> IF current.averageUtilization = None \/ current.averageValue = None THEN None
                               ELSE current.averageValue

\* write_metric: a status of another type has nothing for it.
WriteMetric(metric, status) ==
    IF metric.type \notin Typed THEN [on |-> None, current |-> None, target |-> None]
    ELSE [on |-> metric.on, target |-> metric.target,
          current |-> CurrentBy(metric.target.by, IF status # None /\ status.type = metric.type THEN status.current ELSE Unmeasured)]

\* write of hpa.rs: the metrics and the statuses are paired by their place.
WriteHpa(hpa) ==
    LET measured == IF hpa.status = None THEN <<>> ELSE hpa.status.metrics
        at(i) == IF i \in DOMAIN measured THEN measured[i] ELSE None
    IN  [metrics |-> [i \in DOMAIN hpa.metrics |-> WriteMetric(hpa.metrics[i], at(i))]]

-----------------------------------------------------------------------------
(* Claims: [name, owners, volume, capacity, phase, deleting, class, legacy]          *)

\* pvc_users: the pods that mount it by its name, and the one that it was made for
PvcUsers(claim, pods) ==
    LET mine == {p \in Range(pods) : claim.name \in p.claims \/ p.uid \in claim.owners}
    IN  [uid \in {p.uid : p \in mine} |-> (CHOOSE p \in mine : p.uid = uid).name]

\* write_pvc: what is bound is what has a volume; the old annotation goes before the class.
WritePvc(claim, pods) ==
    [class |-> IF claim.legacy # None THEN claim.legacy ELSE claim.class,
     status |-> IF claim.deleting THEN "Terminating" ELSE claim.phase,
     capacity |-> IF claim.volume = None THEN None ELSE claim.capacity,
     users |-> PvcUsers(claim, pods)]

-----------------------------------------------------------------------------
(* Service accounts: [name, uid, pull, mounts]; "lookup" is None, or [names, tokens]: *)
(* tokens are [name, account, uid].                                                     *)

\* service_account_secret_lookup: nothing unless both lists are there
SecretLookup(names, tokens) ==
    IF names = None \/ tokens = None THEN None ELSE [names |-> names, tokens |-> tokens]

ReferencedName(name, lookup) == [name |-> name, missing |-> lookup # None /\ name \notin lookup.names]

TokenNames(account, lookup) ==
    LET own == SelectSeq(lookup.tokens, LAMBDA t : t.account = account.name /\ t.uid = account.uid)
    IN  IF lookup = None THEN <<>> ELSE [i \in DOMAIN own |-> own[i].name]

WriteAccount(account, lookup) ==
    LET marked(names) == [i \in DOMAIN names |-> ReferencedName(names[i], lookup)]
    IN  [pull |-> marked(account.pull), mounts |-> marked(account.mounts), tokens |-> TokenNames(account, lookup)]

-----------------------------------------------------------------------------
(* Namespaces: a quota is [rank, hard, used], "rank" its name's place in the order of     *)
(* names; a limit is [type, of], "of" having amounts by kind ("min", "max", "default",      *)
(* "defaultRequest", "ratio") and resource.                                                    *)

\* write_quotas: what has a hard limit, used or not
WriteQuotas(quotas) ==
    LET rows(q) == [r \in DOMAIN q.hard |-> [used |-> IF r \in DOMAIN q.used THEN q.used[r] ELSE 0, hard |-> q.hard[r]]]
        sorted == SortSeq(quotas, LAMBDA a, b : a.rank < b.rank)
    IN  [i \in DOMAIN sorted |-> [rank |-> sorted[i].rank, rows |-> rows(sorted[i])]]

\* write_limit_ranges: a row for each resource that any of the five speaks of
WriteLimitRanges(ranges) ==
    LET limits == FoldLeft(LAMBDA all, r : all \o r, <<>>, ranges)
        dash(of, kind, r) == IF kind \in DOMAIN of /\ r \in DOMAIN of[kind] THEN of[kind][r] ELSE None
        resources(l) == UNION {DOMAIN l.of[kind] : kind \in DOMAIN l.of}
        row(l, r) == [kind \in {"min", "max", "default", "defaultRequest", "ratio"} |-> dash(l.of, kind, r)]
    IN  [i \in DOMAIN limits |-> [type |-> limits[i].type, rows |-> [r \in resources(limits[i]) |-> row(limits[i], r)]]]

WriteNamespace(quotas, ranges) ==
    LET had(list) == IF list = None THEN <<>> ELSE list
    IN  [quotas |-> WriteQuotas(had(quotas)), limits |-> WriteLimitRanges(had(ranges))]

-----------------------------------------------------------------------------
(* Events: [about, first, last, count], moments, or None where there is none            *)

EventAge(e) ==
    IF e.count > 1 THEN [last |-> e.last, count |-> e.count, over |-> IF e.first # None THEN e.first ELSE e.last]
    ELSE [last |-> e.last, count |-> 1, over |-> None]

\* write_events: the oldest first, those without a time last
WriteEvents(events) ==
    LET dated == SortSeq(SelectSeq(events, LAMBDA e : e.last # None), LAMBDA a, b : a.last < b.last)
        sorted == dated \o SelectSeq(events, LAMBDA e : e.last = None)
    IN  IF events = None THEN <<>> ELSE [i \in DOMAIN sorted |-> EventAge(sorted[i]) @@ [about |-> sorted[i].about]]
=============================================================================
