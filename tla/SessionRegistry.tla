--------------------------- MODULE SessionRegistry ---------------------------
(***************************************************************************)
(* The window's backend: one SessionHandle per tab in a map behind a mutex, *)
(* with the stop handles of the streams that tab runs.  The commands of a   *)
(* tab run concurrently and in any order; each takes the mutex once or      *)
(* twice and awaits the cluster in between.  A stream is a pods watch       *)
(* ("pods"), a log stream or a table watch ("logs": both are kept in maps    *)
(* with process-global ids and prune themselves), or an exec or a port-      *)
(* forward ("exec": both are kept under ids counted per handle).            *)
(***************************************************************************)
EXTENDS Naturals, SequencesExt, FiniteSets

CONSTANTS Tabs, None,
          MaxOpens, MaxStreams,  \* bounds on the sessions opened and streams asked for
          MaxReloads             \* bound on reloads of the page

\* Why a stream was stopped: its view or tab stopped it, another session or stream took
\* its place, or the stop was meant for another.
Causes == {"own", "session", "replaced", "other"}

ASSUME SessionRegistryAssumption ==
    /\ None \notin Nat /\ None \notin Causes
    /\ MaxOpens \in Nat /\ MaxStreams \in Nat /\ MaxReloads \in Nat

VARIABLES
    handles,  \* Sessions: tab -> its SessionHandle, or None
    nextId,   \* NEXT_LOG_ID, NEXT_TABLE_ID
    opens,    \* the open_session commands, in the order they were invoked
    streams,  \* the streams asked for, in order
    stops,    \* the streams a stop command is under way for
    closes,   \* the tabs a close_session command is under way for
    front,    \* the component of each tab: "none", "connecting", "ready", "error", "gone"
    page      \* how often the page was reloaded

vars == <<handles, nextId, opens, streams, stops, closes, front, page>>

NoEntries == <<>>

\* A SessionHandle of the open_session command number i.
NewHandle(i) == [session |-> i, pods |-> None, logs |-> NoEntries, execs |-> NoEntries, nextExec |-> 0]

Entries(map) == {map[id] : id \in DOMAIN map}

\* The streams whose stop handle h keeps.
Held(h) == Entries(h.logs) \cup Entries(h.execs) \cup ({h.pods} \ {None})
Kept(h) == IF h = None THEN {} ELSE Held(h)

\* Faulty: the stop handle is kept under the stream's place and names its id.
InsertSwapped(map, id, i) == [x \in DOMAIN map \cup {i} |-> IF x = i THEN id ELSE map[x]]

Insert(map, id, i) == [x \in DOMAIN map \cup {id} |-> IF x = id THEN i ELSE map[x]]
WithoutId(map, id) == Restrict(map, DOMAIN map \ {id})

\* Sending on a stop handle and dropping it both stop the stream; cause says why.
Fire(ss, hit, cause) ==
    [i \in DOMAIN ss |-> IF i \in hit /\ ss[i].stopped = None
                         THEN [ss[i] EXCEPT !.stopped = cause] ELSE ss[i]]

Init ==
    /\ handles = [t \in Tabs |-> None] /\ nextId = 0
    /\ opens = <<>> /\ streams = <<>> /\ stops = {} /\ closes = {}
    /\ front = [t \in Tabs |-> "none"] /\ page = 0

-----------------------------------------------------------------------------
(* Sessions *)

\* ClusterTab.connect, when the tab opens and on Retry.
Connect(t) ==
    /\ front[t] \in {"none", "error"} /\ Len(opens) < MaxOpens
    /\ front' = [front EXCEPT ![t] = "connecting"]
    /\ opens' = Append(opens, [tab |-> t, page |-> page, state |-> "connecting"])
    /\ UNCHANGED <<handles, nextId, streams, stops, closes, page>>

\* Faulty: a new session takes over the streams of the one it replaces.
OpenedOver(old, i) == IF old = None THEN NewHandle(i) ELSE [old EXCEPT !.session = i]

Opened(old, i) == NewHandle(i)

\* open_session: connect and ping answered; the handle replaces an older one,
\* whose streams all stop.
OpenSession(i) ==
    /\ opens[i].state = "connecting"
    /\ opens' = [opens EXCEPT ![i].state = "open"]
    /\ LET old == handles[opens[i].tab]
           new == Opened(old, i)
       IN  /\ handles' = [handles EXCEPT ![opens[i].tab] = new]
           /\ streams' = Fire(streams, Kept(old) \ Held(new), "session")
    /\ UNCHANGED <<nextId, stops, closes, front, page>>

OpenFails(i) ==
    /\ opens[i].state = "connecting"
    /\ opens' = [opens EXCEPT ![i].state = "failed"]
    /\ UNCHANGED <<handles, nextId, streams, stops, closes, front, page>>

\* Faulty: a tab closed while it was connecting forgets its session.
LateOpenForgotten(t) == closes

\* A tab destroyed while it was connecting closes the session it got after all.
LateOpenCloses(t) == IF front[t] = "gone" THEN closes \cup {t} ELSE closes

\* connect goes on in the page that invoked it, if that is still there.
OpenReturns(i) ==
    /\ opens[i].state \in {"open", "failed"}
    /\ opens' = [opens EXCEPT ![i].state = "done"]
    /\ LET t == opens[i].tab IN
       IF opens[i].page # page THEN UNCHANGED <<front, closes>>
       ELSE /\ front' = IF front[t] = "gone" THEN front
                        ELSE [front EXCEPT ![t] = IF opens[i].state = "open" THEN "ready" ELSE "error"]
            /\ closes' = IF opens[i].state = "open" THEN LateOpenCloses(t) ELSE closes
    /\ UNCHANGED <<handles, nextId, streams, stops, page>>

\* ClusterTab's onDestroy.
CloseTab(t) ==
    /\ front[t] \in {"connecting", "ready", "error"}
    /\ front' = [front EXCEPT ![t] = "gone"]
    /\ closes' = closes \cup {t}
    /\ UNCHANGED <<handles, nextId, opens, streams, stops, page>>

CloseSession(t) ==
    /\ t \in closes
    /\ closes' = closes \ {t}
    /\ handles' = [handles EXCEPT ![t] = None]
    /\ streams' = Fire(streams, Kept(handles[t]), "session")
    /\ UNCHANGED <<nextId, opens, stops, front, page>>

-----------------------------------------------------------------------------
(* Streams *)

Ask(t, kind) ==
    /\ front[t] = "ready" /\ Len(streams) < MaxStreams
    /\ streams' = Append(streams, [kind |-> kind, tab |-> t, page |-> page, state |-> "asked",
                                   session |-> None, id |-> None, stopped |-> None,
                                   view |-> "waiting"])
    /\ UNCHANGED <<handles, nextId, opens, stops, closes, front, page>>

Refuse(i) ==
    /\ streams' = [streams EXCEPT ![i].state = "refused"]
    /\ UNCHANGED <<handles, nextId>>

Start(i, h, id, id2) ==
    streams' = [Fire(streams, Kept(handles[streams[i].tab]) \ Held(h), "replaced")
                   EXCEPT ![i].state = "running", ![i].session = h.session, ![i].id = id]
    /\ handles' = [handles EXCEPT ![streams[i].tab] = h]
    /\ nextId' = id2

\* watch_pods: the older pods watch of the tab stops.  Without a session it
\* fails, and startWatch puts the tab's component into the error state.
WatchPods(i) ==
    /\ streams[i].kind = "pods" /\ streams[i].state = "asked"
    /\ LET t == streams[i].tab
           h == handles[t]
       IN  \/ /\ h # None
              /\ Start(i, [h EXCEPT !.pods = i], None, nextId)
              /\ UNCHANGED front
           \/ /\ h = None
              /\ Refuse(i)
              /\ front' = IF streams[i].page = page /\ front[t] # "gone"
                          THEN [front EXCEPT ![t] = "error"] ELSE front
    /\ UNCHANGED <<opens, stops, closes, page>>

\* Faulty: ids are counted per handle.
LogIdPerHandle(h) == Cardinality(DOMAIN h.logs)

LogId(h) == nextId

\* stream_logs, watch_resource_table
StreamLogs(i) ==
    /\ streams[i].kind = "logs" /\ streams[i].state = "asked"
    /\ LET h == handles[streams[i].tab]
       IN  IF h = None THEN Refuse(i)
           ELSE Start(i, [h EXCEPT !.logs = Insert(@, LogId(h), i)], LogId(h), nextId + 1)
    /\ UNCHANGED <<opens, stops, closes, front, page>>

\* start_exec, start_forward: session_of, then the cluster is awaited without
\* the mutex.
ExecStarts(i) ==
    /\ streams[i].kind = "exec" /\ streams[i].state = "asked"
    /\ LET h == handles[streams[i].tab]
       IN  IF h = None THEN Refuse(i)
           ELSE /\ streams' = [streams EXCEPT ![i].state = "starting", ![i].session = h.session]
                /\ UNCHANGED <<handles, nextId>>
    /\ UNCHANGED <<opens, stops, closes, front, page>>

\* Faulty: the ids are the places of the map.
ExecIdByCount(h) == Cardinality(DOMAIN h.execs)

ExecId(h) == h.nextExec

\* The exec runs and is entered under whatever session the tab has by now;
\* without one its handle is dropped, which stops it.
ExecEntered(i) ==
    /\ streams[i].kind = "exec" /\ streams[i].state = "starting"
    /\ LET h == handles[streams[i].tab]
       IN  IF h = None
           THEN /\ streams' = [streams EXCEPT ![i].state = "running", ![i].stopped = "session"]
                /\ UNCHANGED handles
           ELSE LET id  == ExecId(h)
                    new == [h EXCEPT !.execs = Insert(@, id, i), !.nextExec = @ + 1]
                IN  /\ streams' = [Fire(streams, Held(h) \ Held(new), "replaced")
                                      EXCEPT ![i].state = "running", ![i].id = id]
                    /\ handles' = [handles EXCEPT ![streams[i].tab] = new]
    /\ UNCHANGED <<nextId, opens, stops, closes, front, page>>

ExecFails(i) ==
    /\ streams[i].kind = "exec" /\ streams[i].state = "starting"
    /\ Refuse(i)
    /\ UNCHANGED <<opens, stops, closes, front, page>>

\* The stream's loop ends: stopped, or by itself (end of log, remote exit).
Ends(i) ==
    /\ streams[i].state = "running"
    /\ streams' = [streams EXCEPT ![i].state = IF streams[i].kind = "logs" THEN "ended" ELSE "done"]
    /\ UNCHANGED <<handles, nextId, opens, stops, closes, front, page>>

\* Faulty: an ended stream leaves its entry.
PruneNothing(h, id) == h

Pruned(h, id) == [h EXCEPT !.logs = WithoutId(@, id)]

\* A log or table task prunes its entry from whatever session the tab has by
\* now; the entry removed drops its stop handle.
Prune(i) ==
    /\ streams[i].kind = "logs" /\ streams[i].state = "ended"
    /\ LET t == streams[i].tab
           h == handles[t]
           new == Pruned(h, streams[i].id)
       IN  IF h = None THEN streams' = [streams EXCEPT ![i].state = "done"] /\ UNCHANGED handles
           ELSE /\ handles' = [handles EXCEPT ![t] = new]
                /\ streams' = [Fire(streams, Held(h) \ (Held(new) \cup {i}), "other")
                                  EXCEPT ![i].state = "done"]
    /\ UNCHANGED <<nextId, opens, stops, closes, front, page>>

\* A reply that comes after the view started again (or, of an exec, left): the
\* view stops the orphan.
OrphanStopped(i) == IF streams[i].view = "superseded" THEN stops \cup {i} ELSE stops

\* The command's reply tells the view the id of its stream.
Reply(i) ==
    /\ streams[i].view \in {"waiting", "superseded"} /\ streams[i].id # None
    /\ streams[i].page = page
    /\ streams' = [streams EXCEPT ![i].view = IF @ = "waiting" THEN "knows" ELSE "left"]
    /\ stops' = OrphanStopped(i)
    /\ UNCHANGED <<handles, nextId, opens, closes, front, page>>

\* The view gives up its stream, which it stops if it knows the id.
GiveUp(i, view) ==
    /\ streams[i].page = page
    /\ \/ /\ streams[i].view = "waiting"
          /\ streams' = [streams EXCEPT ![i].view = view]
          /\ UNCHANGED stops
       \/ /\ streams[i].view = "knows"
          /\ streams' = [streams EXCEPT ![i].view = "left"]
          /\ stops' = stops \cup {i}
    /\ UNCHANGED <<handles, nextId, opens, closes, front, page>>

\* A log or table view starts another stream: namespace, selector or option changed.
StartAgain(i) == streams[i].kind = "logs" /\ GiveUp(i, "superseded")

\* A view is destroyed.  A terminal still reaps the exec it was waiting for; a
\* log or table view takes the late id down and stops nothing.
ViewLeaves(i) ==
    \/ streams[i].kind = "logs" /\ GiveUp(i, "left")
    \/ streams[i].kind = "exec" /\ GiveUp(i, "superseded")

\* stop_logs, stop_resource_table, stop_exec, stop_forward: the stream that has
\* the id in the session of the tab as it is now.
StopStream(i) ==
    /\ i \in stops
    /\ stops' = stops \ {i}
    /\ LET t == streams[i].tab
           h == handles[t]
           new == IF streams[i].kind = "logs" THEN [h EXCEPT !.logs = WithoutId(@, streams[i].id)]
                  ELSE [h EXCEPT !.execs = WithoutId(@, streams[i].id)]
           hit == Held(h) \ Held(new)
       IN  IF h = None THEN UNCHANGED <<handles, streams>>
           ELSE /\ handles' = [handles EXCEPT ![t] = new]
                /\ streams' = Fire(streams, hit, IF hit = {i} THEN "own" ELSE "other")
    /\ UNCHANGED <<nextId, opens, closes, front, page>>

\* The page is reloaded: its components vanish without a word, and the new one
\* numbers its tabs from the start.  Commands under way carry on.
Reload ==
    /\ page < MaxReloads
    /\ page' = page + 1
    /\ front' = [t \in Tabs |-> "none"]
    /\ UNCHANGED <<handles, nextId, opens, streams, stops, closes>>

-----------------------------------------------------------------------------
SessionCommands ==
    \/ \E i \in DOMAIN opens : OpenSession(i) \/ OpenFails(i) \/ OpenReturns(i)
    \/ \E t \in Tabs : CloseSession(t)

StreamCommands ==
    \E i \in DOMAIN streams : \/ WatchPods(i) \/ StreamLogs(i) \/ ExecStarts(i)
                              \/ ExecEntered(i) \/ ExecFails(i) \/ Prune(i) \/ Reply(i)

StopCommands == \E i \in stops : StopStream(i)

\* A stopped stream ends.
StoppedEnds == \E i \in DOMAIN streams : streams[i].stopped # None /\ Ends(i)

Next ==
    \/ \E t \in Tabs : Connect(t)
    \/ \E i \in DOMAIN opens : OpenSession(i)
    \/ \E i \in DOMAIN opens : OpenFails(i)
    \/ \E i \in DOMAIN opens : OpenReturns(i)
    \/ \E t \in Tabs : CloseTab(t)
    \/ \E t \in Tabs : CloseSession(t)
    \/ \E t \in Tabs, kind \in {"pods", "logs", "exec"} : Ask(t, kind)
    \/ \E i \in DOMAIN streams : WatchPods(i)
    \/ \E i \in DOMAIN streams : StreamLogs(i)
    \/ \E i \in DOMAIN streams : ExecStarts(i)
    \/ \E i \in DOMAIN streams : ExecEntered(i)
    \/ \E i \in DOMAIN streams : ExecFails(i)
    \/ \E i \in DOMAIN streams : Ends(i)
    \/ \E i \in DOMAIN streams : Prune(i)
    \/ \E i \in DOMAIN streams : Reply(i)
    \/ \E i \in DOMAIN streams : StartAgain(i)
    \/ \E i \in DOMAIN streams : ViewLeaves(i)
    \/ \E i \in stops : StopStream(i)
    \/ Reload

Spec == Init /\ [][Next]_vars

\* Every command under way is polled to its end, and so is a stream that was stopped.
FairSpec == Spec /\ WF_vars(SessionCommands \/ StreamCommands \/ StopCommands \/ StoppedEnds)
-----------------------------------------------------------------------------
(* Properties *)

HandleOK(h) ==
    /\ h.session \in DOMAIN opens /\ h.nextExec \in Nat
    /\ h.pods \in {None} \cup DOMAIN streams
    /\ Entries(h.logs) \cup Entries(h.execs) \subseteq DOMAIN streams
    /\ DOMAIN h.logs \subseteq 0..(nextId - 1) /\ DOMAIN h.execs \subseteq 0..(h.nextExec - 1)

\* Every map entry names a stream, under an id already handed out.
TypeOK ==
    /\ \A t \in Tabs : handles[t] = None \/ HandleOK(handles[t])
    /\ nextId \in Nat /\ page \in 0..MaxReloads
    /\ \A i \in DOMAIN opens : opens[i].state \in {"connecting", "open", "failed", "done"}
    /\ \A i \in DOMAIN streams : streams[i].state \in
          {"asked", "refused", "starting", "running", "ended", "done"}
    /\ \A i \in DOMAIN streams : streams[i].view \in {"waiting", "knows", "superseded", "left"}
    /\ stops \subseteq DOMAIN streams /\ closes \subseteq Tabs
    /\ front \in [Tabs -> {"none", "connecting", "ready", "error", "gone"}]

\* Why log and table ids are global to the process, and exec ids never reused:
\* a stream that outlives its session, or a stop that arrives late, never stops
\* a stream of the session that replaced it, and starting a stream stops no
\* other but the tab's pods watch.
NeverStoppedForAnother ==
    \A i \in DOMAIN streams :
        /\ streams[i].kind # "exec" => streams[i].stopped # "other"
        /\ streams[i].kind # "pods" => streams[i].stopped # "replaced"

\* A pods, log or table stream kept by a session talks to that session's
\* cluster, though the session was looked up in one command and may have been
\* replaced by another.
StreamsUseTheirSession ==
    \A t \in Tabs : handles[t] # None =>
        \A i \in Kept(handles[t]) : streams[i].kind # "exec" =>
            streams[i].session = handles[t].session /\ streams[i].tab = t

\* Once a log or table task has pruned, no session keeps an entry for it.
NoEntryLeftBehind ==
    \A t \in Tabs : \A i \in Kept(handles[t]) :
        streams[i].kind = "logs" => streams[i].state # "done"

Reloaded == page > 0

Closed(t) ==
    /\ handles[t] = None
    /\ \A i \in DOMAIN streams : streams[i].tab = t => streams[i].state \in {"refused", "done"}

\* A closed tab ends up without a session and without streams, whatever it was
\* waiting for when it closed; a reloaded page forgets the tabs it had.
ClosedTabsEnd == []~Reloaded => \A t \in Tabs : (front[t] = "gone") ~> [](Closed(t))

Over(i) == streams[i].state \in {"refused", "done"}

\* "another start() superseded us while awaiting; stop the orphan"
\* (ResourceTableView.svelte:72): a stream asked for by a view that went on to
\* another one, or by a terminal that is gone, comes to an end, while the page
\* is there to stop it.
OrphansEnd == []~Reloaded =>
    \A i \in 1..MaxStreams :
        i \in DOMAIN streams /\ streams[i].view = "superseded" ~> i \in DOMAIN streams /\ Over(i)

\* Neither a tab that closes while something is under way nor a view that is
\* superseded leaves anything running for good.
NothingRunsOn == ClosedTabsEnd /\ OrphansEnd

\* The same of every view that is gone.
LeftViewsEnd ==
    \A i \in 1..MaxStreams :
        i \in DOMAIN streams /\ streams[i].view = "left" ~> i \in DOMAIN streams /\ Over(i)
=============================================================================
