------------------------------ MODULE TableView ------------------------------
(***************************************************************************)
(* A table view of the terminal app: PodsView (views/pods.rs), ResourcesView  *)
(* (views/resources.rs) and EventsView (views/events.rs), which share all but   *)
(* where rows come from.  Operators on a view's record; what takes a key or a message returns  *)
(* [view, cmds].  The handle of its watch is TuiApp's subject and left out.    *)
(*                                                                         *)
(* A row is [key, ns, faulty, cells]; a filter is what split_filter makes of   *)
(* its text: labels for the watch, and the keys the rest matches.  A name and   *)
(* a port to pick are both texts, which the pick does not tell apart.           *)
(***************************************************************************)
EXTENDS TableOrder, Views

ClusterScoped == {"Node"}   \* what discovery says has no namespace

\* PodsView::new, ResourcesView::new, EventsView::new
NewTable(id, shows, ns) ==
    [kind |-> "table", id |-> id, shows |-> shows, ns |-> ns, selector |-> None,
     awaiting |-> FALSE, loaded |-> FALSE, filter |-> NoFilter, faults |-> FALSE, rows |-> <<>>,
     metrics |-> <<>>, sort |-> None, selected |-> None,
     exec |-> FALSE, attach |-> FALSE, pf |-> FALSE, of |-> None, svc |-> None]

\* new_with_pending_selector
NewDrillDown(id, ns) == [NewTable(id, "Pod", ns) EXCEPT !.awaiting = TRUE]

Watch(v) == [cmd |-> "Watch", view |-> v.id, ns |-> v.ns,
             selector |-> <<v.selector, v.filter.labels>>]

-----------------------------------------------------------------------------
(* What is shown *)

Metric(metrics, row) == IF row.key \in DOMAIN metrics THEN metrics[row.key] ELSE Blank
SortByMetric(rows, metrics, dir) == StableSort(rows, LAMBDA r : Metric(metrics, r), dir)

\* visible_rows of PodsView: filtered, then sorted if a sort is on
VisiblePods(v, rows) ==
    CASE v.sort = None -> rows
      [] v.sort # None /\ v.sort.key = "metric" -> SortByMetric(rows, v.metrics, v.sort.dir)
      [] OTHER -> SortPods(rows, v.sort.key, v.sort.dir)

\* visible_rows of ResourcesView
VisibleResources(v, rows) ==
    IF v.sort = None THEN rows ELSE SortRows(rows, v.sort.key, v.sort.dir)

\* visible of EventsView
VisibleEvents(rows) == NewestFirst(rows)

\* The rows the filter lets through; a fold, like what else is done row by row
Passed(shown, row, names, faults) ==
    IF row.key \in names /\ (faults => row.faulty) THEN Append(shown, row) ELSE shown
Passing(rows, names, faults) == FoldLeft(LAMBDA shown, r : Passed(shown, r, names, faults), <<>>, rows)

Visible(v) ==
    LET shown == Passing(v.rows, v.filter.names, v.faults) IN
    CASE v.shows = "Pod" -> VisiblePods(v, shown)
      [] v.shows = "Event" -> VisibleEvents(shown)
      [] OTHER -> VisibleResources(v, shown)

KeysOf(rows) == [i \in DOMAIN rows |-> rows[i].key]
Keys(v) == KeysOf(Visible(v))

SelectFirst(v, keys) == [v EXCEPT !.selected = IF keys = <<>> THEN None ELSE keys[1]]

\* Faulty: the first row is selected whenever rows arrive.
FixToFirst(v) == SelectFirst(v, Keys(v))

KeepSelection(v, keys) == IF v.selected \in Range(keys) THEN v ELSE SelectFirst(v, keys)

\* fix_selection
FixSelection(v) == KeepSelection(v, Keys(v))

\* move_selection, and g and G for a delta beyond either edge
MoveAmong(v, keys, delta) ==
    LET at == IF v.selected \in Range(keys)
              THEN (CHOOSE i \in DOMAIN keys : keys[i] = v.selected) + delta
              ELSE IF delta > 0 THEN 1 ELSE Len(keys)
        to == IF at < 1 THEN 1 ELSE IF at > Len(keys) THEN Len(keys) ELSE at
    IN  [v EXCEPT !.selected = IF keys = <<>> THEN None ELSE keys[to]]
Move(v, delta) == MoveAmong(v, Keys(v), delta)

\* target: the selected row, if it is visible
TargetRow(v) == {r \in Range(Visible(v)) : r.key = v.selected}

-----------------------------------------------------------------------------
(* Keys *)

\* The keys every table has: j, k, G and ctrl-r
BrowseKey(v, k) ==
    CASE k.key \in {"down", "up", "end"} ->
            Kept(Move(v, CASE k.key = "down" -> 1 [] k.key = "up" -> -1 [] k.key = "end" -> Len(v.rows) + 1), <<>>)
      [] k.key = "refresh" -> Kept(v, <<Watch(v)>>)
      [] OTHER -> Kept(v, <<>>)

SortBy(v, column) == Kept([v EXCEPT !.sort = CycleSort(@, column, None)], <<>>)

\* handle_key of PodsView: an upper-case letter names one of its columns.
PodsKey(v, k) == IF k.key = "sort" THEN SortBy(v, k.column) ELSE BrowseKey(v, k)

\* handle_key of ResourcesView: the columns are known once the server's table is there.
ResourcesKey(v, k) == IF k.key = "sort" /\ v.loaded THEN SortBy(v, k.column) ELSE BrowseKey(v, k)

\* handle_key of EventsView: no sorts
EventsKey(v, k) == BrowseKey(v, k)

TableKey(v, k) ==
    CASE v.shows = "Pod" -> PodsKey(v, k)
      [] v.shows = "Event" -> EventsKey(v, k)
      [] OTHER -> ResourcesKey(v, k)

ToggleFaults(v) == FixSelection([v EXCEPT !.faults = ~@])

\* set_filter of EventsView: all of it is matched against reason, object and message.
FilterEvents(fixed) == Kept([fixed EXCEPT !.filter.labels = None], <<>>)

\* Other labels are for the watch, whose rows are gone until it answers.
Rewatched(fixed, labels) ==
    IF fixed.filter.labels = labels THEN Kept(fixed, <<>>)
    ELSE Kept([fixed EXCEPT !.rows = <<>>, !.loaded = FALSE], <<Watch(fixed)>>)

Refiltered(fixed, labels) == IF fixed.shows = "Event" THEN FilterEvents(fixed) ELSE Rewatched(fixed, labels)

\* set_filter of PodsView and ResourcesView
SetFilter(v, filter) == Refiltered(FixSelection([v EXCEPT !.filter = filter]), v.filter.labels)

-----------------------------------------------------------------------------
(* The watch, the namespace, the metrics *)

\* Faulty: the rows and the title follow the namespace, the watch does not.
FollowTitleOnly(v, ns) ==
    IF v.awaiting \/ v.shows \in ClusterScoped THEN Kept(v, <<>>)
    ELSE Kept([v EXCEPT !.ns = ns, !.rows = <<>>, !.selected = None], <<>>)

\* sync_namespace, from every tick and NamespaceChanged
FollowNamespace(v, ns) ==
    IF v.awaiting \/ v.shows \in ClusterScoped \/ v.ns = ns THEN Kept(v, <<>>)
    ELSE LET w == [v EXCEPT !.ns = ns, !.rows = <<>>, !.selected = None, !.loaded = FALSE] IN Kept(w, <<Watch(w)>>)

Replaced(rows, r) ==
    IF \E i \in DOMAIN rows : rows[i].key = r.key
    THEN [i \in DOMAIN rows |-> IF rows[i].key = r.key THEN r ELSE rows[i]]
    ELSE Append(rows, r)

\* A snapshot or a server-side table, changed rows, and deleted ones
OnRows(v, e) ==
    FixSelection([v EXCEPT !.loaded = TRUE, !.rows =
        CASE e.event = "Snapshot" -> e.rows
          [] e.event = "Upsert" -> FoldLeft(Replaced, @, e.rows)
          [] e.event = "Delete" -> SelectSeq(@, LAMBDA r : r.key \notin e.keys)])

\* Metrics are kept by key and replaced by newer ones.
OnMetrics(v, polled) ==
    IF v.shows = "Pod"
    THEN [v EXCEPT !.metrics = [k \in DOMAIN @ \cup DOMAIN polled |->
                                    IF k \in DOMAIN polled THEN polled[k] ELSE @[k]]]
    ELSE v

-----------------------------------------------------------------------------
(* Shells, attaches and forwards: what was fetched for the row, and the pick *)

Suspend(what, pod, with) == [cmd |-> "Suspend", what |-> what, pod |-> pod, with |-> with]
StartForward(v, pod, port) == [cmd |-> "Forward", view |-> v.id, pod |-> pod, port |-> port]
PickFrom(v, title, options) == [cmd |-> "Pick", view |-> v.id, title |-> title, options |-> options]
Endpoint(v, svc, port) == [cmd |-> "Fetch", view |-> v.id, what |-> "Endpoint", of |-> svc, port |-> port]

\* One container or port is taken at once, several are offered.  Without ports
\* to forward the pick is empty, without containers nothing happens.
OnContainers(v, what, pod, containers) ==
    LET w == [v EXCEPT !.of = pod, ![what] = FALSE] IN
    CASE Len(containers) = 0 -> Kept(w, <<>>)
      [] Len(containers) = 1 -> Kept(w, <<Suspend(what, pod, containers[1])>>)
      [] OTHER -> Kept([w EXCEPT ![what] = TRUE], <<PickFrom(v, <<what, pod>>, containers)>>)

OnForwardPorts(v, pod, ports) ==
    LET w == [v EXCEPT !.of = pod, !.pf = FALSE] IN
    IF Len(ports) = 1 THEN Kept(w, <<StartForward(v, pod, ports[1])>>)
    ELSE Kept([w EXCEPT !.pf = TRUE], <<PickFrom(v, <<"exec", pod>>, ports)>>)

OnServicePorts(v, svc, ports) ==
    CASE Len(ports) = 0 -> Kept(v, <<>>)
      [] Len(ports) = 1 -> Kept(v, <<Endpoint(v, svc, ports[1])>>)
      [] OTHER -> Kept([v EXCEPT !.svc = svc], <<PickFrom(v, <<"container", svc>>, ports)>>)

\* The selector of a drill-down: it watches the namespace that is active by now.
OnSelector(v, selector, ns) ==
    LET w == [v EXCEPT !.selector = selector, !.awaiting = FALSE, !.ns = ns] IN Kept(w, <<Watch(w)>>)

\* on_msg(Fetched); an error only flashes
OnAnswer(v, a, ns) ==
    CASE a.what \in {"exec", "attach"} -> OnContainers(v, a.what, a.of, a.found)
      [] a.what = "ForwardPorts" -> OnForwardPorts(v, a.of, a.found)
      [] a.what = "ServicePorts" -> IF v.shows = "Pod" THEN Kept(v, <<>>) ELSE OnServicePorts(v, a.of, a.found)
      [] a.what = "Endpoint" -> Kept([v EXCEPT !.pf = IF v.shows = "Pod" THEN FALSE ELSE @],
                                    <<StartForward(v, a.of, a.found[1])>>)
      [] a.what = "Selector" -> IF v.shows = "Pod" THEN OnSelector(v, a.found, ns) ELSE Kept(v, <<>>)
      [] OTHER -> Kept(v, <<>>)

\* on_msg(Picked): the first of the expected picks takes the choice; "port": it reads as one.
OnPicked(v, choice, port) ==
    CASE v.svc # None ->
            Kept([v EXCEPT !.svc = None],
                IF port THEN <<Endpoint(v, v.svc, choice)>> ELSE <<>>)
      [] v.svc = None /\ choice = None ->
            Kept([v EXCEPT !.exec = FALSE, !.attach = FALSE, !.pf = FALSE], <<>>)
      [] v.svc = None /\ choice # None /\ v.attach ->
            Kept([v EXCEPT !.attach = FALSE], <<Suspend("attach", v.of, choice)>>)
      [] v.svc = None /\ choice # None /\ ~v.attach /\ v.exec ->
            Kept([v EXCEPT !.exec = FALSE], <<Suspend("exec", v.of, choice)>>)
      [] v.svc = None /\ choice # None /\ ~v.attach /\ ~v.exec /\ v.pf ->
            Kept([v EXCEPT !.pf = FALSE],
                IF port THEN <<StartForward(v, v.of, choice)>> ELSE <<>>)
      [] OTHER -> Kept(v, <<>>)
=============================================================================
