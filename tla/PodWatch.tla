------------------------------- MODULE PodWatch -------------------------------
(***************************************************************************)
(* The live pods table of kxs: kube's watcher lists and watches the pods,   *)
(* drive_pod_events batches what it reports between two ticks and sends     *)
(* events through a channel, and the table (PodsView of the TUI, PodTable   *)
(* of the window) applies them.  The watcher and the cluster are external.  *)
(***************************************************************************)
EXTENDS Integers, FiniteSetsExt, SequencesExt

CONSTANTS Keys, MaxChanges,
          MaxErrors  \* bound on the errors of the watch

ASSUME PodWatchAssumption == Keys # {} /\ MaxChanges \in Nat /\ MaxErrors \in Nat

VARIABLES
    log,       \* the cluster: the changes of its pods, in order
    mode,      \* the watcher: "empty", "init" (listing), "pages" (reporting what it
               \* listed) or "live"
    at,        \* the watcher: up to which change it has reported
    listed,    \* the watcher: the pods listed and not yet reported
    upserts, deletes,  \* Batcher: pod -> the version to send, or Absent
    buffering, buffer, \* init_buffer: whether it is Some, pod -> the listed version
    channel,   \* the events sent and not yet applied
    view,      \* the table: pod -> the version of its row, or Absent
    upto,      \* pod -> the moment of its history the table has reached (ghost)
    status,    \* the state the table shows: "starting", "live" or "reconnecting"
    running,   \* the stream has not been stopped
    errors     \* errors of the watch so far

watcher == <<mode, at, listed>>
driver  == <<upserts, deletes, buffering, buffer>>
table   == <<view, upto, status>>
vars == <<log, mode, at, listed, upserts, deletes, buffering, buffer, channel,
          view, upto, status, running, errors>>

Feed == INSTANCE PodFeed WITH left <- ~running

Absent == Feed!Absent
RowAt(k, i) == Feed!RowAt(k, i)
Now == Feed!Now
NoRows == [k \in Keys |-> Absent]
Some(rows) == {k \in Keys : rows[k] # Absent}

-----------------------------------------------------------------------------
(* Batcher.  A batched delete carries the version of the deletion, which    *)
(* only the ghost upto uses.                                                 *)

\* Faulty: a batched delete of the pod stays.
BatchUpsertKeepingDelete(k, v) ==
    upserts' = [upserts EXCEPT ![k] = v] /\ UNCHANGED deletes

BatchUpsert(k, v) ==
    /\ upserts' = [upserts EXCEPT ![k] = v]
    /\ deletes' = [deletes EXCEPT ![k] = Absent]

BatchDelete(k, v) ==
    /\ upserts' = [upserts EXCEPT ![k] = Absent]
    /\ deletes' = [deletes EXCEPT ![k] = v]

Upsert(rows) == [type |-> "upsert", rows |-> rows]
Delete(keys) == [type |-> "delete", keys |-> keys]
Snapshot(rows, i) == [type |-> "snapshot", rows |-> rows, at |-> i]
Status(state) == [type |-> "status", state |-> state]

Flushed == (IF Some(upserts) = {} THEN <<>> ELSE <<Upsert(upserts)>>)
           \o (IF Some(deletes) = {} THEN <<>> ELSE <<Delete(deletes)>>)

Send(events) == channel' = channel \o events

-----------------------------------------------------------------------------
Init ==
    /\ log = <<>>
    /\ mode = "empty" /\ at = 0 /\ listed = {}
    /\ upserts = NoRows /\ deletes = NoRows
    /\ buffering = FALSE /\ buffer = NoRows
    /\ channel = <<>>
    /\ view = NoRows /\ upto = [k \in Keys |-> 0] /\ status = "starting"
    /\ running = TRUE /\ errors = 0

Change(k, alive) ==
    /\ Feed!Change(k, alive)
    /\ UNCHANGED <<watcher, driver, channel, table, running, errors>>

-----------------------------------------------------------------------------
(* drive_pod_events: one arm of its select per action. *)

Tick ==
    /\ running /\ Some(upserts) \cup Some(deletes) # {}
    /\ Send(Flushed)
    /\ upserts' = NoRows /\ deletes' = NoRows
    /\ UNCHANGED <<log, watcher, buffering, buffer, table, running, errors>>

\* Faulty: what was batched before a relist stays.
ClearNothing == UNCHANGED <<upserts, deletes>>

\* What was batched before the relist is dropped: the snapshot is authoritative.
ClearBatch == upserts' = NoRows /\ deletes' = NoRows

\* Faulty: a relist after one that broke off continues with its buffer.
BufferKept == buffer

FreshBuffer == NoRows

\* Event::Init: the watcher starts a list.
ListStarts ==
    /\ running /\ mode = "empty"
    /\ mode' = "init"
    /\ buffering' = TRUE /\ buffer' = FreshBuffer
    /\ ClearBatch
    /\ UNCHANGED <<log, at, listed, channel, table, running, errors>>

\* The list arrives; the watcher reports nothing yet.
ListArrives ==
    /\ running /\ mode = "init"
    /\ mode' = "pages" /\ at' = Now
    /\ listed' = {k \in Keys : RowAt(k, Now) # Absent}
    /\ UNCHANGED <<log, driver, channel, table, running, errors>>

\* Event::InitApply
ListedPod(k) ==
    /\ running /\ mode = "pages" /\ k \in listed
    /\ listed' = listed \ {k}
    /\ buffer' = IF buffering THEN [buffer EXCEPT ![k] = RowAt(k, at)] ELSE buffer
    /\ UNCHANGED <<log, mode, at, upserts, deletes, buffering, channel, table, running, errors>>

\* Event::InitDone
ListEnds ==
    /\ running /\ mode = "pages" /\ listed = {}
    /\ mode' = "live"
    /\ Send(<<Snapshot(IF buffering THEN buffer ELSE NoRows, at), Status("live")>>)
    /\ buffering' = FALSE /\ buffer' = NoRows
    /\ UNCHANGED <<log, at, listed, upserts, deletes, table, running, errors>>

\* Event::Apply and Event::Delete
Reported ==
    /\ running /\ mode = "live" /\ at < Now
    /\ at' = at + 1
    /\ LET c == log[at + 1]
       IN  IF c.alive THEN BatchUpsert(c.key, at + 1) ELSE BatchDelete(c.key, at + 1)
    /\ UNCHANGED <<log, mode, listed, buffering, buffer, channel, table, running, errors>>

\* An error item: the list or one of its later pages fails, or the history the
\* watch needs is gone (410), and the watcher starts over; any other failure
\* of the watch leaves it where it was and it reconnects without a word.
Fails(next) ==
    /\ running /\ errors < MaxErrors
    /\ \/ next = "empty" /\ (mode \in {"init", "live"} \/ (mode = "pages" /\ listed # {}))
       \/ next = "live" /\ mode = "live"
    /\ mode' = next /\ listed' = {} /\ errors' = errors + 1
    /\ Send(<<Status("reconnecting")>>)
    /\ UNCHANGED <<log, at, driver, table, running>>

\* The stop handle fires or the receiver is gone.
Stop ==
    /\ running /\ running' = FALSE
    /\ UNCHANGED <<log, watcher, driver, channel, table, errors>>

-----------------------------------------------------------------------------
(* The table: PodsView.on_msg and PodTable.apply. *)

SnapshotRows(rows) == rows

Apply(ev) ==
    CASE ev.type = "snapshot" ->
            /\ view' = SnapshotRows(ev.rows)
            /\ upto' = [k \in Keys |-> ev.at] /\ UNCHANGED status
      [] ev.type = "upsert" ->
            /\ view' = [k \in Keys |-> IF ev.rows[k] # Absent THEN ev.rows[k] ELSE view[k]]
            /\ upto' = [k \in Keys |-> IF ev.rows[k] # Absent THEN ev.rows[k] ELSE upto[k]]
            /\ UNCHANGED status
      [] ev.type = "delete" ->
            /\ view' = [k \in Keys |-> IF ev.keys[k] # Absent THEN Absent ELSE view[k]]
            /\ upto' = [k \in Keys |-> IF ev.keys[k] # Absent THEN ev.keys[k] ELSE upto[k]]
            /\ UNCHANGED status
      [] ev.type = "status" -> status' = ev.state /\ UNCHANGED <<view, upto>>

Receive ==
    /\ channel # <<>>
    /\ channel' = Tail(channel)
    /\ Apply(Head(channel))
    /\ UNCHANGED <<log, watcher, driver, running, errors>>

-----------------------------------------------------------------------------
Watching == ListStarts \/ ListArrives \/ (\E k \in Keys : ListedPod(k)) \/ ListEnds \/ Reported

Next ==
    \/ \E k \in Keys, alive \in BOOLEAN : Change(k, alive)
    \/ Tick
    \/ ListStarts
    \/ ListArrives
    \/ \E k \in Keys : ListedPod(k)
    \/ ListEnds
    \/ Reported
    \/ \E next \in {"empty", "live"} : Fails(next)
    \/ Stop
    \/ Receive

Spec == Init /\ [][Next]_vars

\* The watcher's task, its timer and the receiver's loop are scheduled.
FairSpec == Spec /\ WF_vars(Watching) /\ WF_vars(Tick) /\ WF_vars(Receive)
-----------------------------------------------------------------------------
(* Properties *)

Rows == [Keys -> 0..Len(log)]

Sent ==
    [type : {"upsert"}, rows : Rows] \cup [type : {"delete"}, keys : Rows]
    \cup [type : {"snapshot"}, rows : Rows, at : 0..Len(log)]
    \cup [type : {"status"}, state : {"live", "reconnecting"}]

\* A pod is batched as changed or as deleted, never as both: flush sends the two
\* in one order and the table applies them in that order.
BatchOK == \A k \in Keys : Absent \in {upserts[k], deletes[k]}

\* Versions never run ahead of the cluster, pages come between Init and InitDone.
TypeOK ==
    /\ log \in Seq([key : Keys, alive : BOOLEAN])
    /\ mode \in {"empty", "init", "pages", "live"}
    /\ at \in 0..Len(log) /\ listed \subseteq Keys
    /\ upserts \in Rows /\ deletes \in Rows /\ BatchOK
    /\ buffer \in Rows /\ buffering \in BOOLEAN /\ (mode \in {"init", "pages"} => buffering)
    /\ channel \in Seq(Sent)
    /\ view \in Rows /\ upto \in Rows
    /\ status \in {"starting", "live", "reconnecting"} /\ running \in BOOLEAN
    /\ errors \in 0..MaxErrors

\* An event that says something of pod k, and the row it gives it.
Touches(ev, k) ==
    \/ ev.type = "snapshot"
    \/ ev.type = "upsert" /\ ev.rows[k] # Absent
    \/ ev.type = "delete" /\ ev.keys[k] # Absent

RowOf(ev, k) == IF ev.type = "delete" THEN Absent ELSE ev.rows[k]

\* What the table will show of pod k once the events in flight and the batch are
\* applied: the last of them that says something of it decides.
Outcome(k) ==
    LET pending == channel \o Flushed
        about   == {i \in DOMAIN pending : Touches(pending[i], k)}
    IN  IF about = {} THEN view[k] ELSE RowOf(pending[Max(about)], k)

\* Nothing the live watcher has reported is lost or overtaken on the way: the
\* table, the events in flight and the batch together make up exactly the pods
\* as of the last change reported.
NothingLost == mode = "live" => \A k \in Keys : Outcome(k) = RowAt(k, at)

\* The watcher, the batches and the events in flight implement the feed: rows show
\* their pod as it was at one moment and only move forward in its history - a row
\* that a relist or a later delta has replaced never comes back - and once the
\* cluster rests the table shows what it holds, no pod that is gone and no row that
\* is stale.
FeedsTable == Feed!Spec

\* A table that says it is reconnecting says so no longer once it is connected.
StatusRecovers == status = "reconnecting" ~> (status = "live" \/ ~running)
=============================================================================
