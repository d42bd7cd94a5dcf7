------------------------------ MODULE Terminal ------------------------------
(***************************************************************************)
(* The terminal app as its user meets it (crates/kxs-tui): App::update routes    *)
(* keys and answers to the dialogs, to the app's own commands and to the views     *)
(* of the stack (TableView, LogsView, ListViews, Dialogs), and the runtime runs      *)
(* the commands that come back, in their order, before the next message.              *)
(* TuiApp models the handles of watches, connects that cross and shells; here they      *)
(* are left out: a watch is what was asked for last, a shell an entry of "did".           *)
(*                                                                                     *)
(* Operators on the state "t" model the methods of App; what returns commands              *)
(* returns [t, cmds], and Run has them executed.                                            *)
(***************************************************************************)
EXTENDS TableView, LogsView, ListViews, Dialogs

Tasks == INSTANCE BagsExt

CONSTANTS Scenes,        \* sittings: what is on screen first, which keys and answers come
          MaxFavorites,  \* 9
          MaxHistory     \* 50

\* The answers of these kinds are lists; what is remembered is what was remembered once.
IsFilter(f) == DOMAIN f = {"labels", "names"}
IsCommand(c) ==
    /\ c.cmd \in {"q", "ctx", "ns", "alias", "pf", "help", "theme", "events", "metrics", "kind"}
    /\ c.cmd = "kind" => /\ DOMAIN c = {"cmd", "kind", "ns", "filter", "context"}
                         /\ c.filter = None \/ IsFilter(c.filter)
IsMemory(m) ==
    /\ DOMAIN m = {"ns", "favorites", "lastKind"}
    /\ m.favorites \in Seq(Range(m.favorites)) /\ Len(m.favorites) <= MaxFavorites /\ IsInjective(m.favorites)
IsScene(sc) ==
    /\ DOMAIN sc.config = {"theme", "of"} /\ \A c \in DOMAIN sc.config.of : IsMemory(sc.config.of[c])
    /\ sc.contexts \in Seq(DOMAIN sc.config.of)
    /\ None \notin DOMAIN sc.config.of
    /\ DOMAIN sc.session = {"context", "ns"} /\ sc.session.context \in {None} \cup DOMAIN sc.config.of
    /\ sc.presses \in Nat
    /\ \A k \in sc.keys : (k.key = "filter" => IsFilter(k.text)) /\ (k.key = "command" => IsCommand(k.text))
    /\ \A what \in {"containers", "pods", "exec"} : \A found \in sc.answers[what] : found \in Seq(Range(found))

ASSUME TerminalAssumption ==
    /\ MaxFavorites \in Nat /\ MaxHistory \in Nat /\ MaxPings \in Nat
    /\ \A sc \in Scenes : IsScene(sc)

VARIABLES scene, t, keys, events, lines

vars == <<scene, t, keys, events, lines>>

-----------------------------------------------------------------------------
(* kinds.rs, and what tables do by kind *)

Scalable == {"Deployment", "StatefulSet", "ReplicaSet", "ReplicationController"}
Restartable == {"Deployment", "StatefulSet", "DaemonSet"}
PodOwners == {"Deployment", "StatefulSet", "DaemonSet", "ReplicaSet", "ReplicationController", "Job"}
ViewsPods == PodOwners \cup {"CronJob"}

Kinds(v) == CASE v.kind \in {"contexts", "table", "logs"} -> v.kind [] OTHER -> "list"

\* The session, of no context if there is none
NoSession == [context |-> None, ns |-> None]
HasSession(s) == s.session.context # None
Ns(s) == s.session.ns
Pair(s, cmds) == [t |-> s, cmds |-> cmds]
Then(p, cmds) == Pair(p.t, p.cmds \o cmds)

-----------------------------------------------------------------------------
(* What the views make of a key, a tick, an answer, a filter *)

ViewKey(v, k) ==
    CASE Kinds(v) = "table" -> TableKey(v, k)
      [] Kinds(v) = "logs" -> LogsKey(v, k)
      [] Kinds(v) = "contexts" -> ContextsKey(v, k)
      [] Kinds(v) = "list" -> ListKey(v, k)

FirstTick(v, s) ==
    CASE Kinds(v) = "table" -> Kept(v, IF v.awaiting THEN <<>> ELSE <<Watch(v)>>)
      [] Kinds(v) = "logs" -> OnTick(v)
      [] Kinds(v) = "contexts" -> PingMissing(v)
      [] Kinds(v) = "list" -> ListTick(v, s.forwards)

ViewTick(v, s) == IF Kinds(v) = "table" THEN FollowNamespace(v, Ns(s)) ELSE FirstTick(v, s)

ViewAnswer(v, a, s) ==
    CASE Kinds(v) = "table" -> OnAnswer(v, a, Ns(s))
      [] Kinds(v) = "logs" -> LogsAnswer(v, a)
      [] Kinds(v) = "list" -> Kept(ListAnswer(v, a), <<>>)
      [] OTHER -> Kept(v, <<>>)

IsPort(choice) == choice \in scene.ports
ViewPicked(v, choice) ==
    CASE Kinds(v) = "table" -> OnPicked(v, choice, choice # None /\ IsPort(choice))
      [] Kinds(v) = "logs" -> LogsPicked(v, choice)
      [] OTHER -> Kept(v, <<>>)

\* A filter is [labels, names] for every view.
Unfiltered(v) ==
    CASE Kinds(v) = "table" -> v.filter = NoFilter
      [] Kinds(v) = "logs" -> ~v.filter
      [] OTHER -> v.filter = AnyName

SetViewFilter(v, f) ==
    CASE Kinds(v) = "table" -> SetFilter(v, f)
      [] Kinds(v) = "logs" -> FilterLines(v, f # NoFilter)
      [] Kinds(v) = "contexts" -> FilterContexts(v, f.names)
      [] v.kind \in {"namespaces", "aliases"} -> FilterList(v, f.names)
      [] v.kind = "text" -> SearchText(v, f.names)
      [] OTHER -> Kept(v, <<>>)

WantsFilter(v) == v.kind \in {"table", "logs", "contexts", "namespaces", "aliases", "text"}

\* target: what the row keys act on, if there is a row
Targets(v) ==
    CASE v.kind = "table" /\ v.shows # "Event" ->
            {[kind |-> v.shows, ns |-> IF r.ns = None THEN v.ns ELSE r.ns, name |-> r.key, container |-> None] :
                r \in TargetRow(v)}
      [] v.kind = "containers" -> {[v.of EXCEPT !.container = Highlighted(v)]}
      [] v.kind = "rollout" -> {v.of}
      [] OTHER -> {}

-----------------------------------------------------------------------------
(* The stack *)

Top(s) == s.views[Len(s.views)]
WithTop(s, p) == Pair([s EXCEPT !.views[Len(s.views)] = p.view], p.cmds)
OnTop(s, Do(_)) == IF s.views = <<>> THEN Pair(s, <<>>) ELSE WithTop(s, Do(Top(s)))
OnStack(s, id) == \E i \in DOMAIN s.views : s.views[i].id = id

\* on_msg of a view
OnMsg(v, m, s) ==
    CASE m.msg = "Tick" -> ViewTick(v, s)
      [] m.msg = "Fetched" -> ViewAnswer(v, m.answer, s)
      [] m.msg = "Picked" -> ViewPicked(v, m.choice)
      [] m.msg = "LogLines" -> Kept(PushLines(v, m.lines), <<>>)
      [] m.msg = "Started" -> Kept(LogsStarted(v, m.stream), <<>>)
      [] m.msg = "Rows" -> Kept(OnRows(v, m.rows), <<>>)
      [] m.msg = "NamespaceChanged" /\ Kinds(v) = "table" -> FollowNamespace(v, Ns(s))
      [] m.msg = "Metrics" /\ Kinds(v) = "table" -> Kept(OnMetrics(v, m.polled), <<>>)
      [] m.msg = "Pinged" /\ Kinds(v) = "contexts" -> Kept(Pinged(v, m.context), <<>>)
      [] OTHER -> Kept(v, <<>>)

Told(p, i, did) == Pair([p.t EXCEPT !.views[i] = did.view], p.cmds \o did.cmds)

\* The views at "places", from the first to the last
Tell(s, places, m) ==
    FoldLeft(LAMBDA p, i : Told(p, i, OnMsg(p.t.views[i], m, p.t)), Pair(s, <<>>), places)

OnAll(s, m) == Tell(s, [i \in DOMAIN s.views |-> i], m)

\* route: a message is for one view, and dropped if that was left.
Route(s, id, m) == Tell(s, IF OnStack(s, id) THEN <<Min({i \in DOMAIN s.views : s.views[i].id = id})>> ELSE <<>>, m)

\* sync_chrome: the header has a copy of its own.
SyncChrome(s) ==
    IF HasSession(s)
    THEN [s EXCEPT !.shown = [context |-> s.session.context,
                              favorites |-> s.config.of[s.session.context].favorites]]
    ELSE s

Pushed(s, p) == Pair(SyncChrome([s EXCEPT !.next = @ + 1, !.full = FALSE, !.views = Append(@, p.view)]), p.cmds)

\* push_view of a view that alloc_id gave its number
PushView(s, view) == Pushed(s, FirstTick(view, s))

ReplaceViews(s, view) == PushView([s EXCEPT !.views = <<>>], view)

PopView(s) ==
    IF Len(s.views) <= 1 THEN s
    ELSE SyncChrome([s EXCEPT !.full = FALSE, !.views = Front(@)])

\* A view and the fetch its opener adds to what its first tick asked for
PushAsking(s, view, what, of) ==
    Then(PushView(s, view), <<[cmd |-> "Fetch", view |-> view.id, what |-> what, of |-> of]>>)

-----------------------------------------------------------------------------
(* Namespaces, kinds, commands *)

\* Faulty: the favourites only grow.
RememberAll(s, ns) ==
    [s EXCEPT !.config.of[s.shown.context].ns = ns,
              !.config.of[s.shown.context].favorites = IF ns = None THEN @ ELSE <<ns>> \o @]

\* remember_namespace: the most recent first
Remember(s, ns) ==
    LET recent(favorites) == LET all == <<ns>> \o RemoveFirst(favorites, ns)
                             IN  SubSeq(all, 1, IF Len(all) > MaxFavorites THEN MaxFavorites ELSE Len(all))
        noted(m) == [m EXCEPT !.ns = ns, !.favorites = IF ns = None THEN @ ELSE recent(@)]
    IN  [s EXCEPT !.config.of[s.shown.context] = noted(@)]

Save == [cmd |-> "SaveConfig"]

\* set_namespace
SetNamespace(s, ns) ==
    IF ~HasSession(s) \/ Ns(s) = ns THEN Pair(s, <<>>)
    ELSE Then(OnAll(SyncChrome(Remember(SyncChrome([s EXCEPT !.session.ns = ns]), ns)), [msg |-> "NamespaceChanged"]),
              <<Save>>)

\* A namespace that is named is switched to.
Moved(s, ns) == IF ns = None THEN Pair(s, <<>>) ELSE SetNamespace(s, ns)

OpenTable(s, kind) == ReplaceViews(s, NewTable(s.next, kind, Ns(s)))

\* What comes after p: a table, a filter of it
Add(p, next) == Pair(next.t, p.cmds \o next.cmds)
WithTable(p, kind) == Add(p, OpenTable(p.t, kind))
WithFilter(p, filter) == Add(p, WithTop(p.t, SetViewFilter(Top(p.t), filter)))

\* landing_view
Landing(s) ==
    LET last == s.config.of[s.session.context].lastKind
    IN  OpenTable(s, IF last \in scene.kinds THEN last ELSE "Pod")

MaybeFiltered(p, filter) == IF filter = None THEN p ELSE WithFilter(p, filter)

\* open_kind_command: a kind with a namespace, a filter or a context
OpenKindCommand(s, c) ==
    IF c.context # None
    THEN Pair([s EXCEPT !.pending = [c EXCEPT !.context = None]], <<[cmd |-> "Connect", context |-> c.context]>>)
    ELSE IF ~HasSession(s) \/ c.kind \notin scene.kinds THEN Pair(s, <<>>)
    ELSE MaybeFiltered(
             Then(WithTable([Moved(s, c.ns) EXCEPT !.t.config.of[s.shown.context].lastKind = c.kind], c.kind), <<Save>>),
             c.filter)

\* The commands are dropped; "dropped" is a history of those that are not made up for.
Drop(p) == Pair([p.t EXCEPT !.dropped = @ \cup Range(p.cmds)], <<>>)

\* open_kind_filtered: of a kind that is not known, the namespace is switched all the
\* same, and what that asks for is dropped.
OpenKindFiltered(s, kind, ns, filter) ==
    IF kind \in scene.kinds THEN WithFilter(WithTable(Moved(s, ns), kind), filter) ELSE Drop(Moved(s, ns))

SetTheme(s, theme) ==
    IF theme \in Range(scene.themes) THEN [s EXCEPT !.theme = theme, !.config.theme = theme] ELSE s

\* handle_command
HandleCommand(s, c) ==
    CASE c.cmd = "q" -> Pair(s, <<[cmd |-> "Quit"]>>)
      [] c.cmd = "ctx" -> IF c.arg = None THEN PushView(s, NewContexts(s.next, scene.contexts))
                          ELSE Pair(s, <<[cmd |-> "Connect", context |-> c.arg]>>)
      [] c.cmd = "ns" -> IF c.arg = None THEN PushView(s, NewNamespaces(s.next)) ELSE SetNamespace(s, c.arg)
      [] c.cmd = "alias" -> PushView(s, NewAliases(s.next, SetToSeq(scene.kinds)))
      [] c.cmd = "pf" -> PushView(s, NewForwards(s.next))
      [] c.cmd = "help" -> PushView(s, NewHelp(s.next))
      [] c.cmd = "theme" -> IF c.arg = None THEN PushView(s, NewThemes(s.next, scene.themes, s.theme))
                            ELSE Pair(SetTheme(s, c.arg), <<Save>>)
      [] c.cmd = "events" -> OpenTable(s, "Event")
      [] c.cmd = "metrics" -> ReplaceViews(s, NewMetrics(s.next))
      [] c.cmd = "kind" -> OpenKindCommand(s, c)

\* remember_command: a repeat is not recorded, the cursor goes past the newest.
RememberCommand(s, c) ==
    LET all == IF s.history # <<>> /\ Last(s.history) = c THEN s.history ELSE Append(s.history, c)
        kept == IF Len(all) > MaxHistory THEN Tail(all) ELSE all
    IN  [s EXCEPT !.history = kept, !.at = Len(kept) + 1]

\* history_repeat, history_step
RepeatCommand(s) ==
    IF s.history = <<>> THEN Pair(s, <<>>)
    ELSE HandleCommand([s EXCEPT !.at = Len(s.history) + 1], Last(s.history))
StepHistory(s, delta) ==
    IF s.history = <<>> THEN Pair(s, <<>>)
    ELSE LET last == Len(s.history)
             from == (IF s.at > last THEN last ELSE s.at) + delta
             to == IF from < 1 THEN 1 ELSE IF from > last THEN last ELSE from
         IN  HandleCommand([s EXCEPT !.at = to], s.history[to])

\* What was asked for when connecting, else the choice of a namespace
Pending(s) ==
    IF s.pending = None THEN PushView(s, NewNamespaces(s.next)) ELSE HandleCommand([s EXCEPT !.pending = None], s.pending)
WithPending(p) == Add(p, Pending(p.t))

\* on_connected, after connect_one has set the session or not; the poller is started anew.
OnConnected(s, ok) ==
    IF ok THEN Then(WithPending(Landing(SyncChrome(s))), <<[cmd |-> "PollMetrics"]>>)
    ELSE LET dropped == [s EXCEPT !.pending = None] IN
         IF s.views = <<>> THEN PushView(dropped, NewContexts(dropped.next, scene.contexts)) ELSE Pair(dropped, <<>>)

-----------------------------------------------------------------------------
(* Keys of the app *)

CtrlA(s) == PushView(s, NewAliases(s.next, SetToSeq(scene.kinds)))

Mutate(view, what, of) == <<[cmd |-> "Mutate", view |-> view, what |-> what, of |-> of]>>

\* mutation_key: what it opens or does for a target, None if the key is none of them
MutationKeys(x) ==
    {"e", "ctrl-d", "ctrl-k"} \cup (IF x.kind \in Scalable THEN {"s"} ELSE {})
        \cup (IF x.kind \in Restartable THEN {"r"} ELSE {})
        \cup (IF x.kind = "Node" THEN {"r", "u"} ELSE {})
        \cup (IF x.kind = "CronJob" THEN {"t", "s"} ELSE {})

MutationKey(s, k, x) ==
    LET id == Top(s).id IN
    CASE scene.readonly -> Pair(s, <<>>)
      [] ~scene.readonly /\ k.key = "e" -> Pair(s, <<Suspend("edit", x.name, None)>>)
      [] ~scene.readonly /\ k.key = "s" /\ x.kind \in Scalable ->
            Pair([s EXCEPT !.dialogs = OpenInput(@, id, x.name, scene.ready)], <<>>)
      [] ~scene.readonly /\ k.key = "r" ->
            Pair([s EXCEPT !.dialogs = OpenConfirm(@, id, [what |-> IF x.kind = "Node" THEN "Drain" ELSE "Restart",
                                                          of |-> x.name])], <<>>)
      [] ~scene.readonly /\ k.key = "t" ->
            Pair([s EXCEPT !.dialogs = OpenConfirm(@, id, [what |-> "Trigger", of |-> x.name])], <<>>)
      [] ~scene.readonly /\ k.key = "u" -> Pair(s, Mutate(id, "Cordon", x.name))
      [] ~scene.readonly /\ k.key = "s" /\ x.kind = "CronJob" -> Pair(s, Mutate(id, "Suspend", x.name))
      [] ~scene.readonly /\ k.key = "ctrl-d" -> Pair([s EXCEPT !.dialogs = OpenDelete(@, id, x.name)], <<>>)
      [] ~scene.readonly /\ k.key = "ctrl-k" -> Pair(s, Mutate(id, "Delete", x.name))

\* open_logs
OpenLogs(s, x, all, previous) ==
    LET mode(v) == IF previous THEN [v EXCEPT !.mode = 1] ELSE v IN
    CASE x.kind = "Pod" -> PushView(s, mode(NewLogs(s.next, x.name, x.container, all /\ x.container = None, None)))
      [] x.kind # "Pod" /\ ~previous /\ x.kind \in PodOwners ->
            PushView(s, NewLogs(s.next, None, None, FALSE, x.name))
      [] OTHER -> Pair(s, <<>>)

\* open_enter: containers of a pod, pods of what selects some
OpenEnter(s, x) ==
    CASE x.kind = "Pod" -> PushAsking(s, NewContainers(s.next, x), "Containers", x)
      [] x.kind \in ViewsPods -> PushAsking(s, NewDrillDown(s.next, x.ns), "Selector", x.name)
      [] OTHER -> Pair(s, <<>>)

\* begin_exec, begin_attach, begin_port_forward, begin_service_forward
Begins(s, what, x) ==
    Pair(s, IF scene.readonly THEN <<>> ELSE <<[cmd |-> "Fetch", view |-> Top(s).id, what |-> what, of |-> x.name]>>)

\* The keys that act on the row: those handle_key lists, unless another kind has them
RowKey(s, k, x) ==
    CASE k.key \in {"d", "y"} ->
            LET what == IF k.key = "d" THEN "Describe" ELSE "Yaml"
            IN  PushAsking(s, NewText(s.next, x.name, what), what, x.name)
      [] k.key \in {"l", "L", "p"} -> OpenLogs(s, x, k.key = "L", k.key = "p")
      [] k.key = "c" \/ k.key = "n" -> Pair(s, <<>>)
      [] k.key = "w" -> IF x.ns = None THEN Pair(s, <<>>) ELSE SetNamespace(s, x.ns)
      [] k.key = "J" -> Pair(s, <<[cmd |-> "Fetch", view |-> Top(s).id, what |-> "Owner", of |-> x.name]>>)
      [] k.key = "z" -> OpenKindFiltered(s, "ReplicaSet", x.ns, [labels |-> None, names |-> {x.name}])
      [] k.key = "ctrl-s" -> Pair(s, <<[cmd |-> "SaveResource", of |-> x.name]>>)
      [] k.key = "a" -> Begins(s, "attach", x)
      [] k.key = "enter" -> OpenEnter(s, x)
      [] k.key = "x" -> PushView(s, NewValues(s.next, x.name, x.kind = "Secret"))
      [] k.key = "F" -> Begins(s, IF x.kind = "Pod" THEN "ForwardPorts" ELSE "ServicePorts", x)
      [] k.key = "f" -> PushView(s, NewForwards(s.next))
      [] k.key = "s" /\ x.kind = "Pod" -> Begins(s, "exec", x)
      [] k.key = "h" -> PushAsking(s, NewRollout(s.next, x), "RolloutHistory", x)
      [] OTHER -> MutationKey(s, k, x)

RowKeys(v, x) ==
    {"d", "y", "l", "L", "p", "c", "n", "w", "J", "ctrl-s", "f"} \cup MutationKeys(x)
        \cup (IF v.kind = "table" THEN {"enter"} ELSE {})
        \cup (IF x.kind = "Deployment" THEN {"z"} ELSE {})
        \cup (IF x.kind = "Pod" THEN {"a", "F", "s"} ELSE {})
        \cup (IF x.kind = "Service" THEN {"F"} ELSE {})
        \cup (IF x.kind \in {"ConfigMap", "Secret"} THEN {"x"} ELSE {})
        \cup (IF x.kind \in Restartable THEN {"h"} ELSE {})

\* esc_cascade: the filter first, then the view
EscCascade(s) ==
    IF s.views # <<>> /\ ~Unfiltered(Top(s)) THEN WithTop(s, SetViewFilter(Top(s), NoFilter))
    ELSE Pair(PopView(s), <<>>)

\* favorite_key
FavoriteKey(s, n) ==
    IF n \in {0} \cup DOMAIN s.shown.favorites
    THEN SetNamespace(s, IF n = 0 THEN None ELSE s.shown.favorites[n]) ELSE Pair(s, <<>>)

\* toggle_fullscreen and toggle_faults of the view on top
FullScreenKey(s) ==
    LET on == ~Top(s).full IN Pair([s EXCEPT !.views[Len(s.views)].full = on, !.full = on], <<>>)
FaultsKey(s) ==
    Pair(IF s.views # <<>> /\ Kinds(Top(s)) = "table" /\ Top(s).shows # "Event"
         THEN [s EXCEPT !.views[Len(s.views)] = ToggleFaults(@)] ELSE s, <<>>)

TakesDigits(s) == s.views # <<>> /\ Kinds(Top(s)) = "logs"
Fills(s) == s.views # <<>> /\ Top(s).kind \in {"logs", "text"}

GlobalKeys(s) ==
    {":", "/", "?", "ctrl-c", "ctrl-a", "ctrl-z", "[", "]"}
        \cup (IF Fills(s) THEN {"f"} ELSE {})
        \cup (IF TakesDigits(s) THEN {} ELSE {"-", "digit"})
        \cup (IF s.views # <<>> /\ Top(s).kind = "themes" THEN {} ELSE {"esc"})

GlobalKey(s, k) ==
    CASE k.key = ":" -> Pair([s EXCEPT !.dialogs = OpenPrompt(@, "Command")], <<>>)
      [] k.key = "/" -> Pair(IF s.views # <<>> /\ WantsFilter(Top(s))
                             THEN [s EXCEPT !.dialogs = OpenPrompt(@, "Filter")] ELSE s, <<>>)
      [] k.key = "?" -> PushView(s, NewHelp(s.next))
      [] k.key = "ctrl-c" -> Pair(s, <<[cmd |-> "Quit"]>>)
      [] k.key = "f" -> FullScreenKey(s)
      [] k.key = "ctrl-a" -> CtrlA(s)
      [] k.key = "ctrl-z" -> FaultsKey(s)
      [] k.key = "-" -> RepeatCommand(s)
      [] k.key \in {"[", "]"} -> StepHistory(s, IF k.key = "[" THEN -1 ELSE 1)
      [] k.key = "digit" -> FavoriteKey(s, k.digit)
      [] k.key = "esc" -> EscCascade(s)

-----------------------------------------------------------------------------
(* Keys while a dialog has them *)

Close(s) == [s EXCEPT !.dialogs = CloseModals(@)]

ConfirmKey(s, k) ==
    LET c == s.dialogs.confirm IN
    CASE k.key \in {"y", "enter"} -> Pair(Close(s), Mutate(c.view, c.action.what, c.action.of))
      [] k.key \in {"esc", "n", "N"} -> Pair(Close(s), <<>>)
      [] OTHER -> Pair(s, <<>>)

InputKey(s, k) ==
    LET i == s.dialogs.input IN
    CASE k.key = "enter" -> Pair(Close(s), IF IsReplicas(i.value) THEN Mutate(i.view, "Scale", i.name) ELSE <<>>)
      [] k.key = "esc" -> Pair(Close(s), <<>>)
      [] OTHER -> Pair([s EXCEPT !.dialogs = InputEdit(@, k)], <<>>)

\* Deleting takes this dialog alone, esc closes all.
DeleteKey(s, k) ==
    LET d == s.dialogs.delete IN
    CASE k.key = "enter" -> Pair([s EXCEPT !.dialogs.delete = None], Mutate(d.view, "Delete", d.name))
      [] k.key = "esc" -> Pair(Close(s), <<>>)
      [] OTHER -> Pair([s EXCEPT !.dialogs = DeleteEdit(@, k)], <<>>)

PickKey(s, k) ==
    IF k.key \in {"enter", "esc"}
    THEN Route([s EXCEPT !.dialogs.pick = None], s.dialogs.pick.view,
               [msg |-> "Picked", choice |-> IF k.key = "enter" THEN Choice(s.dialogs) ELSE None])
    ELSE Pair([s EXCEPT !.dialogs = PickEdit(@, k)], <<>>)

\* A prompt is submitted with the text of the key; typing changes nothing else.
PromptKey(s, k) ==
    LET closed == [s EXCEPT !.dialogs.prompt = None] IN
    CASE k.key = "esc" -> Pair(closed, <<>>)
      [] k.key = "command" /\ s.dialogs.prompt = "Command" -> HandleCommand(RememberCommand(closed, k.text), k.text)
      [] k.key = "filter" /\ s.dialogs.prompt = "Filter" -> OnTop(closed, LAMBDA v : SetViewFilter(v, k.text))
      [] OTHER -> Pair(s, <<>>)

\* handle_key
HandleKey(s, k) ==
    LET has == HasKeys(s.dialogs)
        rows == IF s.views = <<>> THEN {} ELSE {x \in Targets(Top(s)) : k.key \in RowKeys(Top(s), x)}
    IN  CASE has = "confirm" -> ConfirmKey(s, k)
          [] has = "input" -> InputKey(s, k)
          [] has = "delete" -> DeleteKey(s, k)
          [] has = "pick" -> PickKey(s, k)
          [] has = "prompt" -> PromptKey(s, k)
          [] has = None /\ k.key \in GlobalKeys(s) -> GlobalKey(s, k)
          [] has = None /\ k.key \notin GlobalKeys(s) /\ rows # {} -> RowKey(s, k, CHOOSE x \in rows : TRUE)
          [] OTHER -> OnTop(s, LAMBDA v : ViewKey(v, k))

-----------------------------------------------------------------------------
(* The runtime: execute *)

Start(s, task) == [s EXCEPT !.tasks = Tasks!BagAdd(@, task)]

WriteConfig(s) == [s EXCEPT !.saved = s.config, !.dropped = @ \ {Save}]

\* The watches of a view
WatchesOf(id, cmds) == {c \in cmds : c.cmd = "Watch" /\ c.view = id}

Execute1(s, c) ==
    CASE c.cmd = "Fetch" -> Start(s, c)
      [] c.cmd = "Ping" -> Start(s, c)
      [] c.cmd = "Connect" -> Start(s, c)
      [] c.cmd = "Forward" -> Start(s, c)
      [] c.cmd = "StartLogs" -> Start(s, c)
      [] c.cmd = "Watch" ->
            [s EXCEPT !.watching = [v \in DOMAIN @ \cup {c.view} |->
                                       IF v = c.view THEN <<c.ns, c.selector>> ELSE @[v]],
                       !.dropped = @ \ WatchesOf(c.view, @)]
      [] c.cmd \in {"Mutate", "Suspend"} -> [s EXCEPT !.did = @ \cup {c.what}]
      [] c.cmd = "StopForward" -> [s EXCEPT !.forwards = SelectSeq(@, LAMBDA f : f.id # c.id)]
      [] c.cmd = "Pick" -> [s EXCEPT !.dialogs = OpenPick(@, c.view, c.title, c.options)]
      [] c.cmd = "ConfirmUndo" ->
            [s EXCEPT !.dialogs = OpenConfirm(@, c.view, [what |-> "Undo", of |-> c.of.name])]
      [] c.cmd = "PreviewTheme" -> [s EXCEPT !.theme = c.theme]
      [] c.cmd = "SetTheme" -> WriteConfig(SetTheme(s, c.theme))
      [] c.cmd = "SaveConfig" -> WriteConfig(s)
      [] c.cmd = "PopView" -> PopView(s)
      [] c.cmd = "Quit" -> [s EXCEPT !.quit = TRUE]
      [] c.cmd \in {"Stop", "PollMetrics", "SaveResource"} -> s

\* The commands another command leads to
RunAll(p) == FoldLeft(Execute1, p.t, p.cmds)

Execute(s, c) ==
    CASE s.quit -> s
      [] ~s.quit /\ c.cmd = "SwitchNamespace" -> RunAll(SetNamespace(s, c.ns))
      [] ~s.quit /\ c.cmd = "OpenKind" ->
            RunAll(HandleCommand(s, [cmd |-> "kind", kind |-> c.kind, ns |-> None, filter |-> None, context |-> None]))
      [] OTHER -> Execute1(s, c)

Run(p) == FoldLeft(Execute, p.t, p.cmds)

-----------------------------------------------------------------------------
(* Messages *)

Running == ~t.quit
Uses(p) == t' = Run(p)

\* Msg::Key
Key(k) ==
    /\ Running /\ keys > 0
    /\ keys' = keys - 1
    /\ Uses(HandleKey(t, k))
    /\ UNCHANGED <<scene, events, lines>>

\* Msg::Tick, from the first on that changes something
Tick ==
    /\ Running /\ BagCardinality(t.tasks) < scene.tasks
    /\ LET s == SyncChrome(t) IN Uses(OnAll(s, [msg |-> "Tick"]))
    /\ UNCHANGED <<scene, keys, events, lines>>

\* Msg::Table and Msg::Pod, of the table that was asked for last
Rows(v, e) ==
    /\ Running /\ events > 0
    /\ events' = events - 1
    /\ Uses(Route(t, v.id, [msg |-> "Rows", rows |-> e]))
    /\ UNCHANGED <<scene, keys, lines>>

\* Msg::Metrics
MetricsCome(m) ==
    /\ Running /\ events > 0
    /\ events' = events - 1
    /\ Uses(OnAll(t, [msg |-> "Metrics", polled |-> m]))
    /\ UNCHANGED <<scene, keys, lines>>

Done(task) == [t EXCEPT !.tasks = Tasks!BagRemove(@, task)]

\* Msg::Fetched: the owner is the app's, the rest is for the view that asked.
Owner(s, a) ==
    LET ns == IF s.views = <<>> THEN {} ELSE {x.ns : x \in Targets(Top(s))} IN
    IF a.found = None THEN Pair(s, <<>>)
    ELSE OpenKindFiltered(s, a.found.kind, IF ns = {} THEN None ELSE CHOOSE n \in ns : TRUE,
                          [labels |-> None, names |-> {a.found.name}])

Answer(task, a) ==
    /\ Running /\ task.cmd = "Fetch"
    /\ Uses(CASE ~OnStack(t, task.view) -> Pair(Done(task), <<>>)
              [] OnStack(t, task.view) /\ a.what = "Owner" -> Owner(Done(task), a)
              [] OTHER -> Route(Done(task), task.view, [msg |-> "Fetched", answer |-> a]))
    /\ UNCHANGED <<scene, keys, events, lines>>

\* Msg::Pinged goes to every view.
Pong(task) ==
    /\ Running /\ task.cmd = "Ping"
    /\ Uses(OnAll(Done(task), [msg |-> "Pinged", context |-> task.context]))
    /\ UNCHANGED <<scene, keys, events, lines>>

\* connect_one, in a task: the namespace is the remembered one, else the context's own.
Connect(task, ok) ==
    /\ Running /\ task.cmd = "Connect"
    /\ LET known == ok /\ task.context \in Range(scene.contexts)
           ns == LET last == t.config.of[task.context].ns IN IF last = None THEN scene.own[task.context] ELSE last
           s == Start(Done(task), [cmd |-> "Connected", ok |-> known])
       IN  t' = IF known THEN [s EXCEPT !.session = [context |-> task.context, ns |-> ns]] ELSE s
    /\ UNCHANGED <<scene, keys, events, lines>>

\* Msg::Connected
Connected(task) ==
    /\ Running /\ task.cmd = "Connected"
    /\ Uses(OnConnected(Done(task), task.ok))
    /\ UNCHANGED <<scene, keys, events, lines>>

\* The task of a forward, once its port is bound
Forwarded(task, ok) ==
    /\ Running /\ task.cmd = "Forward"
    /\ t' = IF ok THEN [Done(task) EXCEPT !.forwards = Append(@, [id |-> t.forward, pod |-> task.pod, port |-> task.port]),
                                          !.forward = @ + 1]
            ELSE Done(task)
    /\ UNCHANGED <<scene, keys, events, lines>>

\* Msg::Started of a log stream: the handle of a view that was left is dropped.
Started(task) ==
    /\ Running /\ task.cmd = "StartLogs"
    /\ Uses(Route(Done(task), task.view, [msg |-> "Started", stream |-> task.target]))
    /\ UNCHANGED <<scene, keys, events, lines>>

\* Msg::LogLines: a batch that a stream of the view sent
Lines(v, target, hits) ==
    /\ Running /\ events > 0
    /\ events' = events - 1
    /\ lines' = lines + Len(hits)
    /\ LET batch == [i \in DOMAIN hits |-> [from |-> target, n |-> lines + i, hit |-> hits[i]]]
       IN  Uses(Route(t, v.id, [msg |-> "LogLines", lines |-> batch]))
    /\ UNCHANGED <<scene, keys>>

-----------------------------------------------------------------------------
Fresh(sc) ==
    [views |-> <<>>, dialogs |-> NoDialogs, full |-> FALSE, session |-> sc.session,
     shown |-> [context |-> None, favorites |-> <<>>],
     config |-> sc.config, saved |-> sc.config, theme |-> sc.config.theme,
     history |-> <<>>, at |-> 1, pending |-> None, next |-> 1, tasks |-> EmptyBag,
     watching |-> <<>>, forwards |-> <<>>, forward |-> 1, did |-> {}, dropped |-> {}, quit |-> FALSE]

\* main: the landing view of the startup context, or the contexts
Init ==
    /\ scene \in Scenes
    /\ t = Run(IF ~HasSession(Fresh(scene))
               THEN PushView(Fresh(scene), NewContexts(Fresh(scene).next, scene.contexts))
               ELSE Landing(Fresh(scene)))
    /\ keys = scene.presses
    /\ events = scene.events
    /\ lines = 0

\* The targets whose lines may be on their way to a view: of the streams it holds, and of
\* those whose Started is still to come, which after a restart also are the stopped ones.
StreamsOf(v) ==
    Range(v.handles)
        \cup {task.target : task \in {x \in BagToSet(t.tasks) : x.cmd = "StartLogs" /\ x.view = v.id}}

Keys1 == \E k \in scene.keys : Key(k)
RowsCome == \E v \in Range(t.views), e \in scene.rows : v.kind = "table" /\ v.shows = e.kind /\ Rows(v, e)
MetricsAll == \E m \in scene.metrics : MetricsCome(m)
Answers == \E task \in BagToSet(t.tasks) :
              task.cmd = "Fetch" /\ \E found \in scene.answers[task.what] :
                  Answer(task, [what |-> task.what, of |-> task.of, found |-> found])
Refusals == \E task \in BagToSet(t.tasks) : Answer(task, [what |-> "error", found |-> None])
Pongs == \E task \in BagToSet(t.tasks) : Pong(task)
Connects == \E task \in BagToSet(t.tasks), ok \in BOOLEAN : Connect(task, ok)
Arrivals == \E task \in BagToSet(t.tasks) : Connected(task)
Forwards == \E task \in BagToSet(t.tasks), ok \in BOOLEAN : Forwarded(task, ok)
Starts == \E task \in BagToSet(t.tasks) : Started(task)
LinesCome == \E v \in Range(t.views), hits \in scene.batches :
                v.kind = "logs" /\ \E h \in StreamsOf(v) : Lines(v, h, hits)

Next == Keys1 \/ Tick \/ RowsCome \/ MetricsAll \/ Answers \/ Refusals \/ Pongs \/ Connects \/ Arrivals \/ Forwards \/ Starts \/ LinesCome

Spec == Init /\ [][Next]_vars

-----------------------------------------------------------------------------
(* What should hold *)

TablesOf(s) == {v \in Range(s.views) : Kinds(v) = "table"}

\* Whatever comes while no key is pressed - rows, metrics, ticks, answers - the selected
\* row stays selected as long as it is shown: a key acts on the row it was aimed at
\* (fix_selection of views/pods.rs and views/resources.rs).
SelectionKept ==
    [][keys' = keys =>
         \A v \in TablesOf(t), w \in TablesOf(t') :
            v.id = w.id /\ v.selected \in Range(Keys(v)) /\ v.selected \in Range(Keys(w))
                => w.selected = v.selected]_vars

\* Lines that arrive do not move what a paused logs view shows: the screen loses what
\* the ring drops and gains nothing, with a filter or without (push_lines of views/logs.rs).
PausedStaysPut ==
    [][keys' = keys =>
         \A v \in Range(t.views), w \in Range(t'.views) :
            v.kind = "logs" /\ w.id = v.id /\ ~v.auto
                => Shown(w) = SelectSeq(Shown(v), LAMBDA l : l \in Range(w.lines))]_vars

\* How far from the first view, unfiltered and without a dialog
Depth(s) ==
    OpenCount(s.dialogs) + Len(s.views)
        + Cardinality({i \in DOMAIN s.views : ~Unfiltered(s.views[i])})

\* Every esc closes, clears or leaves something, until the first view is all that is
\* there: nothing traps the user, and nothing is skipped over by an esc that did
\* nothing (esc_cascade of app.rs, the dialogs of chrome.rs, wants_esc of the views).
EscGoesHome ==
    Running => Depth(Run(HandleKey(t, [key |-> "esc"]))) < Depth(t) \/ Depth(t) = 1

\* What is remembered of a context is on disk after every message, unless the command to
\* save it was dropped on the way to a kind that is not known and nothing was saved since;
\* its favourites are no more than there are digits for and each is there once, and the
\* header, which the digits go by, shows them (set_namespace, remember_namespace,
\* sync_chrome and open_kind_filtered of app.rs).
MemoryAgrees ==
    /\ t.saved = t.config \/ Save \in t.dropped
    /\ \A c \in DOMAIN t.config.of :
          /\ Len(t.config.of[c].favorites) <= MaxFavorites
          /\ IsInjective(t.config.of[c].favorites)
    /\ HasSession(t) /\ t.shown.context = t.session.context
          => t.shown.favorites = t.config.of[t.session.context].favorites

\* What a table's title and filter say is what its watch was last started with, unless the
\* restart of this very table's watch was dropped with what else led to a kind that is not
\* known, and no watch of it was started since; and unless a connect is about to replace
\* it, it is the active namespace (restart_watch, sync_namespace and set_filter of
\* views/pods.rs, resources.rs, events.rs; open_kind_filtered of app.rs).
WatchedIsShown ==
    \A v \in TablesOf(t) :
        ~v.awaiting =>
            /\ \/ v.id \in DOMAIN t.watching /\ t.watching[v.id] = <<v.ns, <<v.selector, v.filter.labels>>>>
               \/ WatchesOf(v.id, t.dropped) # {}
            /\ v.shows \in ClusterScoped \/ v.ns = Ns(t)
                  \/ \E task \in BagToSet(t.tasks) : task.cmd = "Connected"

\* A context the list waits for has a ping under way, whose answer will make room for the
\* next: no context is waited for in vain, however the contexts are asked for again
\* meanwhile and whichever of their pings answers first (ping_missing, handle_key and
\* on_msg of views/contexts.rs).  The pings under way may be more than are waited for.
PingsAreUnderWay ==
    \A v \in Range(t.views) : v.kind = "contexts" =>
        v.pending \subseteq {task.context : task \in {x \in BagToSet(t.tasks) : x.cmd = "Ping"}}
=============================================================================
