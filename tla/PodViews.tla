------------------------------ MODULE PodViews ------------------------------
(***************************************************************************)
(* What kxs makes of a pod: the row of the table (pods.rs), whether it is a    *)
(* fault (views/pods.rs), its containers and ports (containers.rs), and what     *)
(* it takes of its node (describe/node.rs).                                       *)
(*                                                                         *)
(* A pod is [init, main, never, level, overhead, phase, reason, deleting,      *)
(* infeasible, node, statuses].  A container is [name, sidecar, requests,       *)
(* limits, ports]; statuses has a record for each container the kubelet has       *)
(* reported on: [state, reason, code, ready, restarts, actual, allocated].         *)
(***************************************************************************)
EXTENDS Amounts, SequencesExt, FiniteSetsExt

CONSTANT None

Names(containers) == {containers[i].name : i \in DOMAIN containers}
Reported(pod, containers) == SelectSeq(containers, LAMBDA c : c.name \in DOMAIN pod.statuses)
StatusesOf(pod, containers) ==
    LET known == Reported(pod, containers) IN [i \in DOMAIN known |-> pod.statuses[known[i].name]]

Total(n(_), all) == FoldLeft(LAMBDA sum, x : sum + n(x), 0, all)

-----------------------------------------------------------------------------
(* The row of the pod table *)

\* The first container that is not done says how the init containers are getting on.
InitDisplay(statuses, total) ==
    LET done(s) == s.state = "terminated" /\ s.code = 0
        open == {i \in DOMAIN statuses : ~done(statuses[i])}
        first == CHOOSE i \in open : \A j \in open : i <= j
        s == statuses[first]
    IN  CASE open = {} -> IF Len(statuses) < total THEN <<"Init", Len(statuses)>> ELSE None
          [] open # {} /\ s.state = "terminated" -> <<"Init", s.reason>>
          [] open # {} /\ s.state = "waiting" /\ s.reason \notin {None, "PodInitializing"} -> <<"Init", s.reason>>
          [] OTHER -> <<"Init", first - 1>>

WaitingReason(statuses) ==
    LET why == SelectSeq(statuses, LAMBDA s : s.state = "waiting" /\ s.reason # None)
    IN  IF why = <<>> THEN None ELSE why[1].reason

\* The status of pod_row, as the words it is made of
Display(pod) ==
    LET init == IF Reported(pod, pod.init) = <<>> THEN None
                ELSE InitDisplay(StatusesOf(pod, pod.init), Len(pod.init))
        why == WaitingReason(StatusesOf(pod, pod.main))
    IN  CASE pod.deleting -> <<"Terminating">>
          [] ~pod.deleting /\ init # None -> init
          [] ~pod.deleting /\ init = None /\ why # None -> <<why>>
          [] OTHER -> IF pod.reason # None THEN <<pod.reason>>
                      ELSE IF pod.phase = "Succeeded" THEN <<"Completed">> ELSE <<pod.phase>>

\* sum_requests: None when no container asks for any
SumRequests(pod, resource) ==
    LET asking == SelectSeq(pod.main, LAMBDA c : resource \in DOMAIN c.requests)
        amount(q) == IF resource = "cpu" THEN CpuMillis(q) ELSE MemMib(q)
    IN  IF asking = <<>> THEN None ELSE Total(LAMBDA c : amount(c.requests[resource]), asking)

\* pod_row
PodRow(pod) ==
    LET reported == StatusesOf(pod, pod.main) IN
    [ready |-> Len(SelectSeq(reported, LAMBDA s : s.ready)), of |-> Len(pod.main),
     status |-> Display(pod), restarts |-> Total(LAMBDA s : s.restarts, reported),
     cpu |-> SumRequests(pod, "cpu"), memory |-> SumRequests(pod, "memory")]

\* Faulty: the status alone decides.
FaultyByStatus(row) == row.restarts > 0 \/ row.status \notin {<<"Running">>, <<"Succeeded">>, <<"Completed">>}

\* is_faulty and ready_matches
IsFaulty(row) ==
    \/ row.restarts > 0
    \/ row.status \notin {<<"Running">>, <<"Succeeded">>, <<"Completed">>}
    \/ row.ready # row.of

-----------------------------------------------------------------------------
(* Its containers *)

\* container_infos: init containers first
ContainerInfos(pod) ==
    LET info(c, init) ==
            LET known == c.name \in DOMAIN pod.statuses
                s == pod.statuses[c.name]
            IN  [name |-> c.name, ports |-> c.ports, init |-> init, sidecar |-> c.sidecar,
                 state |-> IF known THEN s.state ELSE None, ready |-> known /\ s.ready,
                 restarts |-> IF known THEN s.restarts ELSE 0]
    IN  [i \in DOMAIN pod.init |-> info(pod.init[i], TRUE)] \o [i \in DOMAIN pod.main |-> info(pod.main[i], FALSE)]

\* exec_containers
ExecContainers(infos) == SelectSeq(infos, LAMBDA c : ~c.init \/ c.sidecar)

\* port_choices: a port is offered once, for the first container that has it.
PortChoices(infos) ==
    LET running == ExecContainers(infos)
        offered == FlattenSeq([i \in DOMAIN running |->
                       [k \in DOMAIN running[i].ports |-> [container |-> running[i].name] @@ running[i].ports[k]]])
    IN  FoldLeft(LAMBDA choices, p : IF \E i \in DOMAIN choices : choices[i].port = p.port THEN choices
                                     ELSE Append(choices, p), <<>>, offered)

-----------------------------------------------------------------------------
(* What it takes of its node *)

\* max_lists
MaxLists(lists) == FoldLeft(LAMBDA most, quantities : Greater(most, Amounts(quantities)), NoAmounts, lists)

\* container_amounts: what was asked for, unless the kubelet gives it something else.
ContainerAmounts(pod, c, requests, useStatus) ==
    LET given(s) == <<s.actual, s.allocated>>
    IN  MaxLists(CASE ~requests -> <<c.limits>>
                   [] requests /\ ~useStatus -> <<c.requests>>
                   [] OTHER -> (IF pod.infeasible THEN <<>> ELSE <<c.requests>>)
                                 \o (IF c.name \in DOMAIN pod.statuses THEN given(pod.statuses[c.name]) ELSE <<>>))

NoLoad == [all |-> NoAmounts, sidecars |-> NoAmounts, peak |-> NoAmounts]

\* Faulty: the sidecars are not there while the init containers after them run.
WithApart(load, c, main, amounts) ==
    IF main \/ c.sidecar THEN [load EXCEPT !.all = Add(@, amounts)] ELSE [load EXCEPT !.peak = Greater(@, amounts)]

\* A container more: they run together, but for plain init containers, which run one by one
\* with the sidecars before them.
With(load, c, main, amounts) ==
    CASE main -> [load EXCEPT !.all = Add(@, amounts)]
      [] ~main /\ c.sidecar -> [all |-> Add(load.all, amounts), sidecars |-> Add(load.sidecars, amounts),
                                peak |-> Greater(load.peak, Add(load.sidecars, amounts))]
      [] ~main /\ ~c.sidecar -> [load EXCEPT !.peak = Greater(@, Add(amounts, load.sidecars))]

\* aggregate_containers: all that run together, or the most that the init containers take
Aggregate(pod, requests, useStatus) ==
    LET all == pod.main \o pod.init
        step(load, i) ==
            With(load, all[i], i <= Len(pod.main),
                 ContainerAmounts(pod, all[i], requests, useStatus /\ (i <= Len(pod.main) \/ all[i].sidecar)))
        most(load) == Greater(load.all, load.peak)
    IN  most(FoldLeft(step, NoLoad, [i \in DOMAIN all |-> i]))

\* What is set for the pod as a whole takes the place of the sum.
Overridden(amounts, level) ==
    LET over(set) == [r \in DOMAIN amounts \cup DOMAIN set |-> IF r \in DOMAIN set THEN set[r] ELSE amounts[r]]
    IN  over([r \in DOMAIN level \cap {"cpu", "memory"} |-> Parse(level[r])])

\* pod_resource_amounts: the overhead goes to limits that there are.
PodAmounts(pod, useStatus) ==
    LET overhead == Amounts(pod.overhead)
        over(limits) == [r \in DOMAIN limits |-> IF r \in DOMAIN overhead /\ limits[r].n # 0
                                                 THEN [limits[r] EXCEPT !.n = @ + overhead[r].n] ELSE limits[r]]
    IN  [requests |-> Add(Overridden(Aggregate(pod, TRUE, useStatus), pod.level.requests), overhead),
         limits |-> over(Overridden(Aggregate(pod, FALSE, useStatus), pod.level.limits))]

Ended(pod) == pod.phase \in {"Succeeded", "Failed"}

\* resource_cell: CPU in parts, the rest in units
Cell(amount, total, r) == [shown |-> Canonical(amount), percent |-> Percent(amount, total, IF r = "cpu" THEN 1 ELSE Scale)]

Cells(requests, limits, allocatable) ==
    [r \in {"cpu", "memory"} |-> [requests |-> Cell(ValueOf(requests, r), ValueOf(allocatable, r), r),
                                  limits |-> Cell(ValueOf(limits, r), ValueOf(allocatable, r), r)]]

\* write: a row for each pod that has not ended, and the totals, with percentages of
\* what the node can give
NodeReport(node, pods) ==
    LET live == SelectSeq(pods, LAMBDA p : ~Ended(p))
        sum(Of(_), rows) == FoldLeft(LAMBDA all, row : Add(all, Of(row)), NoAmounts, rows)
        report(rows) == [rows |-> rows,
                         cells |-> Cells(sum(LAMBDA row : row.requests, rows), sum(LAMBDA row : row.limits, rows),
                                         Amounts(IF node.allocatable = NoAmounts THEN node.capacity ELSE node.allocatable))]
    IN  report([i \in DOMAIN live |-> [pod |-> live[i].name] @@ PodAmounts(live[i], TRUE)])
=============================================================================
