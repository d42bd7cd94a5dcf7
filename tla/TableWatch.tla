----------------------------- MODULE TableWatch -----------------------------
(***************************************************************************)
(* drive_table_events: every table other than the pods is fetched whole,     *)
(* once at the start and then 300ms after the first change a metadata watch   *)
(* reports, and every 30s for what the watch may have missed.  While it       *)
(* fetches, the driver polls neither the watch nor the stop handle.           *)
(* What the apiserver holds is a version, counted up by every change.         *)
(***************************************************************************)
EXTENDS Naturals, Sequences

CONSTANTS
    None, Failure,
    MaxChanges,  \* bound on the changes in the cluster
    MaxErrors    \* bound on failing fetches and on broken watches

ASSUME TableWatchAssumption == {None, Failure} \cap Nat = {} /\ MaxChanges \in Nat /\ MaxErrors \in Nat

Errors == {"fetch", "watch"}

VARIABLES
    server,    \* version of what the cluster holds
    watch,     \* kube's watcher: [at, seen], the version it has reported
    items,     \* what the stream of the watcher yields next
    driver,    \* [at, got]: "fetching", "select" or "ended", and the answer
    first,     \* first_relist
    deadline,  \* whether a deadline is set
    table,     \* version of the table sent last, or None
    failed,    \* whether the last fetch failed
    leaving,   \* "no", "stop": the stop handle fired, "gone": the receiver went
    errors,    \* errors so far
    listed     \* version the first list of the watcher found, or None

vars == <<server, watch, items, driver, first, deadline, table, failed, leaving, errors, listed>>

Init ==
    /\ server = 0 /\ watch = [at |-> "listing", seen |-> 0] /\ items = <<>>
    /\ driver = [at |-> "fetching", got |-> None] /\ first = TRUE /\ deadline = FALSE
    /\ table = None /\ failed = FALSE /\ leaving = "no" /\ errors = [e \in Errors |-> 0]
    /\ listed = None

MayFail(e) == errors[e] < MaxErrors /\ errors' = [errors EXCEPT ![e] = @ + 1]

-----------------------------------------------------------------------------
(* The cluster and kube's watcher *)

Change ==
    /\ server < MaxChanges
    /\ server' = server + 1
    /\ UNCHANGED <<watch, items, driver, first, deadline, table, failed, leaving, errors, listed>>

Yields(item, w) ==
    /\ watch' = w /\ items' = Append(items, item)
    /\ UNCHANGED <<server, driver, first, deadline, table, failed, leaving>>

\* The watcher lists when its stream is polled, at the start and after a 410.
WatchLists ==
    /\ watch.at = "listing" /\ driver.at = "select"
    /\ Yields("InitDone", [at |-> "watching", seen |-> server])
    /\ listed' = IF listed = None THEN server ELSE listed
    /\ UNCHANGED errors

WatchReports ==
    /\ watch.at = "watching" /\ watch.seen < server
    /\ Yields("Change", [watch EXCEPT !.seen = @ + 1])
    /\ UNCHANGED <<errors, listed>>

\* It goes on from the version it saw, or lists again.
WatchBreaks ==
    /\ MayFail("watch") /\ UNCHANGED listed
    /\ \/ watch.at = "watching" /\ \E at \in {"watching", "listing"} :
              Yields("Err", [watch EXCEPT !.at = at])
       \/ watch.at = "listing" /\ driver.at = "select" /\ Yields("Err", watch)

-----------------------------------------------------------------------------
(* The driver *)

\* Faulty: an answer of the apiserver's cache will do.
AnswersCached == 0..server

\* list_table answers with what the cluster holds at some moment of the call.
Answers == {server}

FetchReads ==
    /\ driver.at = "fetching" /\ driver.got = None
    /\ \/ \E v \in Answers : driver' = [driver EXCEPT !.got = v] /\ UNCHANGED errors
       \/ driver' = [driver EXCEPT !.got = Failure] /\ MayFail("fetch")
    /\ UNCHANGED <<server, watch, items, first, deadline, table, failed, leaving, listed>>

\* Faulty: the answer is kept.
SentKept(next) == driver' = [driver EXCEPT !.at = IF leaving = "gone" THEN "ended" ELSE next]

\* A send to a receiver that is gone ends the driver.
Sent(next) == driver' = [at |-> IF leaving = "gone" THEN "ended" ELSE next, got |-> None]

FetchSends ==
    /\ driver.at = "fetching" /\ driver.got # None
    /\ Sent("select")
    /\ failed' = (driver.got = Failure)
    /\ table' = IF driver.got = Failure \/ leaving = "gone" THEN table ELSE driver.got
    /\ UNCHANGED <<server, watch, items, first, deadline, leaving, errors, listed>>

Due ==
    /\ driver.at = "select" /\ deadline
    /\ deadline' = FALSE /\ driver' = [at |-> "fetching", got |-> None]
    /\ UNCHANGED <<server, watch, items, first, table, failed, leaving, errors, listed>>

\* The clock asks for a fetch.
ResyncSets == TRUE

Resync ==
    /\ driver.at = "select"
    /\ deadline' = ResyncSets
    /\ UNCHANGED <<server, watch, items, driver, first, table, failed, leaving, errors, listed>>

\* Faulty: a relist is never followed by a fetch.
RelistCovered == deadline

\* Every relist but the first asks for a fetch.
RelistSets == deadline \/ ~first

\* A relist and an error also tell the receiver the state of the watch.
TakeItem ==
    /\ driver.at = "select" /\ items # <<>>
    /\ items' = Tail(items)
    /\ CASE Head(items) = "InitDone" -> deadline' = RelistSets /\ first' = FALSE /\ Sent("select")
         [] Head(items) = "Change" -> deadline' = TRUE /\ UNCHANGED <<driver, first>>
         [] Head(items) = "Err" -> Sent("select") /\ UNCHANGED <<deadline, first>>
    /\ UNCHANGED <<server, watch, table, failed, leaving, errors, listed>>

\* The view goes: its handle fires, or the whole receiver goes.
Leave ==
    /\ leaving = "no" /\ leaving' \in {"stop", "gone"}
    /\ UNCHANGED <<server, watch, items, driver, first, deadline, table, failed, errors, listed>>

\* Faulty: the stop is seen only when a change is due.
StopSeenLate == leaving = "stop" /\ deadline /\ items # <<>>

StopSeen == leaving = "stop"

Stops ==
    /\ driver.at = "select" /\ StopSeen
    /\ driver' = [driver EXCEPT !.at = "ended"]
    /\ UNCHANGED <<server, watch, items, first, deadline, table, failed, leaving, errors, listed>>

Driver == FetchReads \/ FetchSends \/ Due \/ TakeItem \/ Stops

Next == Change \/ WatchLists \/ WatchReports \/ WatchBreaks \/ Driver \/ Resync \/ Leave

Spec == Init /\ [][Next]_vars

\* The driver and its clock run, and the apiserver answers it.  Nothing is asked
\* of the watch, which some kinds do not have.
FairSpec ==
    /\ Spec /\ WF_vars(FetchReads) /\ WF_vars(FetchSends) /\ SF_vars(Due)
    /\ SF_vars(TakeItem) /\ SF_vars(Stops) /\ WF_vars(Resync)

-----------------------------------------------------------------------------

Versions == 0..MaxChanges

\* A table and an answer are versions the cluster had.
TypeOK ==
    /\ server \in Versions
    /\ watch \in [at : {"listing", "watching"}, seen : 0..server]
    /\ items \in Seq({"InitDone", "Change", "Err"})
    /\ driver \in [at : {"fetching", "select", "ended"}, got : 0..server \cup {None, Failure}]
    /\ driver.at # "fetching" => driver.got = None
    /\ first \in BOOLEAN /\ deadline \in BOOLEAN /\ failed \in BOOLEAN
    /\ table \in 0..server \cup {None} /\ listed \in 0..server \cup {None}

\* When the driver has nothing to do but wait for the resync ...
Idle == driver.at = "select" /\ ~deadline /\ items = <<>> /\ ~failed
            /\ watch.at = "watching" /\ watch.seen = server /\ ~first

\* "the very first one is covered above" (resources.rs): a driver that waits has
\* sent the table as it is now.
IdleIsCurrent == Idle => table = server

\* Once a table was sent that is as new as what the watcher's first list found,
\* no change is left to the resync: not one made while a fetch was under way, not
\* one reported while a deadline was set, and not one made while the watch was down.
CaughtUp ==
    Idle /\ listed # None /\ table # None /\ table >= listed => table = server

Abstract == INSTANCE Mirror WITH source <- server, shown <- table, left <- leaving # "no"

\* Fetches, the watch, the deadline and the resync together make a mirror of the
\* cluster: tables show what it held, never go back whatever fetches failed in
\* between, and once it rests a view that stays gets the table as it is, with or
\* without a watch.
MirrorsCluster == Abstract!Spec

\* A driver whose view went away ends.
LeftEnds == leaving # "no" ~> driver.at = "ended"
=============================================================================
