------------------------------- MODULE Kubelet -------------------------------
(***************************************************************************)
(* What happens to pods while kxs looks on: external, as far as the statuses  *)
(* that pods.rs and describe/node.rs read are concerned.  Init containers run   *)
(* one after the other, sidecars among them go on running beside what follows;  *)
(* containers crash and are restarted, are resized while they run, and pods end, *)
(* are evicted or deleted.                                                        *)
(***************************************************************************)
EXTENDS PodViews

CONSTANTS MaxRestarts   \* of a container

VARIABLE pods           \* by name

NotStarted(reason) ==
    [state |-> "waiting", reason |-> reason, code |-> 0, ready |-> FALSE, restarts |-> 0,
     actual |-> NoAmounts, allocated |-> NoAmounts]

Containers(pod) == pod.init \o pod.main
Status(pod, c) == pod.statuses[c.name]
Running(pod, c) == c.name \in DOMAIN pod.statuses /\ Status(pod, c).state = "running"
Finished(pod, c) == Status(pod, c).state = "terminated" /\ Status(pod, c).code = 0
ForGood(pod, c) == c \in Range(pod.main) /\ pod.never

\* The init containers before the i-th of all have done their part.
Reached(pod, i) ==
    \A j \in DOMAIN pod.init : j < i =>
        LET c == pod.init[j] IN IF c.sidecar THEN Running(pod, c) ELSE Finished(pod, c)

PhaseOf(pod) ==
    LET main == [i \in DOMAIN pod.main |-> Status(pod, pod.main[i])]
        stopped(s) == s.state = "terminated"
    IN  CASE Ended(pod) -> pod.phase
          [] ~Ended(pod) /\ (~Reached(pod, Len(pod.init) + 1)
                               \/ \E i \in DOMAIN main : main[i].state = "waiting" /\ main[i].restarts = 0
                                                           /\ main[i].reason # "CrashLoopBackOff") ->
                IF pod.phase = "Running" THEN "Running" ELSE "Pending"
          [] OTHER -> IF pod.never /\ \A i \in DOMAIN main : stopped(main[i])
                      THEN IF \A i \in DOMAIN main : main[i].code = 0 THEN "Succeeded" ELSE "Failed"
                      ELSE "Running"

Becomes(p, pod) == pods' = (p :> [pod EXCEPT !.phase = PhaseOf(pod)]) @@ pods

Create(p, template) ==
    /\ p \notin DOMAIN pods
    /\ pods' = (p :> ([name |-> p, phase |-> "Pending", reason |-> None, deleting |-> FALSE, infeasible |-> FALSE,
                      node |-> None, statuses |-> NoAmounts] @@ template)) @@ pods

Bind(p, node) ==
    LET pod == pods[p] IN
    /\ pod.node = None /\ ~pod.deleting
    /\ LET first(c) == NotStarted(IF pod.init = <<>> THEN "ContainerCreating" ELSE "PodInitializing")
           all == Range(Containers(pod))
       IN  Becomes(p, [pod EXCEPT !.node = node,
               !.statuses = [n \in {c.name : c \in all} |->
                   LET c == CHOOSE x \in all : x.name = n IN [first(c) EXCEPT !.allocated = c.requests]]])

\* A container is started, again if it has run before; of a pod that is being deleted none is.
Start(p, i) ==
    LET pod == pods[p]
        c == Containers(pod)[i]
        s == Status(pod, c)
        again == s.state = "terminated" \/ s.reason = "CrashLoopBackOff"
    IN  /\ ~pod.deleting /\ ~Ended(pod) /\ ~Running(pod, c) /\ Reached(pod, i)
        /\ s.state = "terminated" => ~ForGood(pod, c) /\ (s.code # 0 \/ c.sidecar \/ i > Len(pod.init))
        /\ again => s.restarts < MaxRestarts
        /\ Becomes(p, [pod EXCEPT !.statuses[c.name] =
               [@ EXCEPT !.state = "running", !.reason = None, !.code = 0, !.actual = s.allocated,
                         !.restarts = IF again THEN @ + 1 ELSE @]])

Ready(p, i) ==
    LET c == Containers(pods[p])[i] IN
    /\ Running(pods[p], c)
    /\ Becomes(p, [pods[p] EXCEPT !.statuses[c.name].ready = ~@])

Exit(p, i, code) ==
    LET c == Containers(pods[p])[i] IN
    /\ Running(pods[p], c)
    /\ Becomes(p, [pods[p] EXCEPT !.statuses[c.name] =
           [@ EXCEPT !.state = "terminated", !.reason = IF code = 0 THEN "Completed" ELSE "Error", !.code = code,
                     !.ready = FALSE, !.actual = NoAmounts]])

BackOff(p, i) ==
    LET pod == pods[p]
        c == Containers(pod)[i] IN
    /\ ~Ended(pod) /\ Status(pod, c).state = "terminated" /\ ~ForGood(pod, c)
    /\ Status(pod, c).code # 0 \/ c.sidecar \/ i > Len(pod.init)
    /\ Becomes(p, [pod EXCEPT !.statuses[c.name] = [@ EXCEPT !.state = "waiting", !.reason = "CrashLoopBackOff", !.code = 0]])

\* The image cannot be had.
PullFails(p, i) ==
    LET c == Containers(pods[p])[i] IN
    /\ ~pods[p].deleting /\ Reached(pods[p], i) /\ Status(pods[p], c).reason \in {"PodInitializing", "ContainerCreating"}
    /\ Becomes(p, [pods[p] EXCEPT !.statuses[c.name].reason = "ImagePullBackOff"])

\* A running container is to have other requests; the kubelet allocates them or says it
\* cannot, and then sets them on the container.
Resize(p, i, requests) ==
    LET pod == pods[p]
        c == Containers(pod)[i]
        n == Len(pod.init)
    IN  /\ Running(pod, c) /\ ~pod.deleting /\ (i <= n => c.sidecar) /\ c.requests # requests
        /\ Becomes(p, IF i <= n THEN [pod EXCEPT !.init[i].requests = requests]
                      ELSE [pod EXCEPT !.main[i - n].requests = requests])

Pending(pod) == {i \in DOMAIN Containers(pod) :
                    LET c == Containers(pod)[i] IN c.requests # Status(pod, c).allocated}

Allocate(p) ==
    /\ Pending(pods[p]) # {}
    /\ Becomes(p, [pods[p] EXCEPT !.infeasible = FALSE,
           !.statuses = [n \in DOMAIN @ |->
               LET c == CHOOSE x \in Range(Containers(pods[p])) : x.name = n IN [@[n] EXCEPT !.allocated = c.requests]]])

CannotAllocate(p) ==
    /\ Pending(pods[p]) # {} /\ ~pods[p].infeasible
    /\ Becomes(p, [pods[p] EXCEPT !.infeasible = TRUE])

Actuate(p, i) ==
    LET c == Containers(pods[p])[i] IN
    /\ Running(pods[p], c) /\ Status(pods[p], c).actual # Status(pods[p], c).allocated
    /\ Becomes(p, [pods[p] EXCEPT !.statuses[c.name].actual = Status(pods[p], c).allocated])

Evict(p) ==
    /\ pods[p].node # None /\ ~Ended(pods[p])
    /\ pods' = [pods EXCEPT ![p] =
           [@ EXCEPT !.phase = "Failed", !.reason = "Evicted",
                     !.statuses = [n \in DOMAIN @ |-> [@[n] EXCEPT !.state = "terminated", !.reason = "Error", !.code = 137,
                                                                   !.ready = FALSE, !.actual = NoAmounts]]]]

Delete(p) == ~pods[p].deleting /\ pods' = [pods EXCEPT ![p].deleting = TRUE]

Gone(p) ==
    /\ pods[p].deleting /\ \A c \in Range(Containers(pods[p])) : ~Running(pods[p], c)
    /\ pods' = [q \in DOMAIN pods \ {p} |-> pods[q]]

Steps(p, i, requests) ==
    \/ Start(p, i) \/ Ready(p, i) \/ Exit(p, i, 0) \/ Exit(p, i, 1) \/ BackOff(p, i) \/ PullFails(p, i)
    \/ Actuate(p, i) \/ \E r \in requests : Resize(p, i, r)

Lives(p, node, requests) ==
    \/ Bind(p, node)
    \/ pods[p].node # None /\ (Allocate(p) \/ CannotAllocate(p) \/ Evict(p) \/ \E i \in DOMAIN Containers(pods[p]) : Steps(p, i, requests))
    \/ Delete(p) \/ Gone(p)

-----------------------------------------------------------------------------
(* What is true of a pod, whatever kxs makes of it *)

\* All of it runs, and nothing has gone wrong.
Healthy(pod) ==
    /\ pod.node # None /\ ~pod.deleting /\ ~Ended(pod)
    /\ \A c \in Range(pod.init) : IF c.sidecar THEN Running(pod, c) ELSE Finished(pod, c)
    /\ \A c \in Range(pod.main) : Running(pod, c) /\ Status(pod, c).ready /\ Status(pod, c).restarts = 0

AmountOf(quantities, r) == IF r \in DOMAIN quantities THEN Parse(quantities[r]).n ELSE 0

\* What its running containers have of a resource
InUse(pod, r) ==
    Total(LAMBDA c : IF Running(pod, c) THEN AmountOf(Status(pod, c).actual, r) ELSE 0, Containers(pod))

\* The most that its containers ask for at once, from the first init container to the end
Peak(pod, r) ==
    LET ask(all) == Total(LAMBDA c : AmountOf(c.requests, r), all)
        sidecars(n) == SelectSeq(SubSeq(pod.init, 1, n), LAMBDA c : c.sidecar)
    IN  Max({ask(sidecars(Len(pod.init)) \o pod.main)}
              \cup {ask(sidecars(i - 1) \o <<pod.init[i]>>) : i \in DOMAIN pod.init})
=============================================================================
