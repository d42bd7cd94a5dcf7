------------------------------ MODULE MCTerminal ------------------------------
(* Sittings at the terminal app, each with the keys that concern one part of it. *)
EXTENDS Terminal

MCNames == {"p1", "p2", "p3", "web", "db", "a", "b", "c1", "c2", "c3", "error"}

Row(key, faulty, n) == [key |-> key, ns |-> "a", faulty |-> faulty, cells |-> [age |-> Quantity(n)]]
Snapshot(kind, rows) == [event |-> "Snapshot", kind |-> kind, rows |-> rows]
Upsert(kind, rows) == [event |-> "Upsert", kind |-> kind, rows |-> rows]
Delete(kind, names) == [event |-> "Delete", kind |-> kind, keys |-> names]

K(name) == [key |-> name]
Ks(names) == {K(name) : name \in names}
Digit(n) == [key |-> "digit", digit |-> n]
Filter(labels, names) == [key |-> "filter", text |-> [labels |-> labels, names |-> names]]
Sort(column) == [key |-> "sort", column |-> column]
Do(name, arg) == [key |-> "command", text |-> [cmd |-> name, arg |-> arg]]
Open(kind, ns, context) ==
    [key |-> "command", text |-> [cmd |-> "kind", kind |-> kind, ns |-> ns, filter |-> None, context |-> context]]

Memory(lastKind) == [ns |-> None, favorites |-> <<>>, lastKind |-> lastKind]

NoAnswer == [what \in {"Containers", "containers", "pods", "exec", "attach", "Selector", "ForwardPorts",
                       "ServicePorts", "Endpoint", "Owner", "Namespaces", "RolloutHistory", "ConfigValues",
                       "Describe", "Yaml"} |-> {}]

\* Connected to c1, whose namespace is a; the table of "kind" is on screen.
Of(kind) ==
    [session |-> [context |-> "c1", ns |-> "a"], contexts |-> <<"c1", "c2", "c3">>,
     config |-> [theme |-> "dark", of |-> [c \in {"c1", "c2", "c3"} |-> Memory(kind)]],
     own |-> [c \in {"c1", "c2", "c3"} |-> IF c = "c2" THEN "b" ELSE None],
     kinds |-> {"Pod", "Deployment", "Node"}, themes |-> <<"dark", "light">>, ports |-> {"80", "443"},
     readonly |-> FALSE, ready |-> 3, presses |-> 4, events |-> 1, tasks |-> 3,
     keys |-> {}, rows |-> {}, metrics |-> {}, answers |-> NoAnswer, batches |-> {}]

p1 == Row("p1", FALSE, 1)
p2 == Row("p2", TRUE, 2)
p3 == Row("p3", FALSE, 3)

\* Rows that come, change and go below a selection, with filters and sorts
Tables ==
    [Of("Pod") EXCEPT !.events = 3, !.presses = 3, !.tasks = 1,
        !.keys = Ks({"down", "up", "end", "/", "ctrl-z", "refresh", "esc"})
                   \cup {Filter(None, {"p2"}), Filter("app", {"p1", "p2"}), Sort("metric"), Sort("age")},
        !.rows = {Snapshot("Pod", <<p1, p2, p3>>), Snapshot("Pod", <<p2>>), Delete("Pod", {"p1"}),
                  Upsert("Pod", <<Row("p2", FALSE, 5), Row("p1", TRUE, 4)>>)},
        !.metrics = {"p2" :> Leading(1, 0) @@ "p3" :> Leading(2, 0), "p1" :> Leading(9, 0)}]

\* Tables of the server: a sort of their columns, and events, which come unordered
Ordered ==
    [Of("Deployment") EXCEPT !.events = 2, !.presses = 4, !.tasks = 1,
        !.keys = Ks({":", "down", "/", "refresh", "esc"}) \cup {Sort("age"), Filter("app", {"p1", "p3"}), Do("events", None)},
        !.rows = {Snapshot("Deployment", <<p3, p1>>), Snapshot("Event", <<p3, Row("p2", FALSE, 2), p1>>),
                  Snapshot("Event", <<[p2 EXCEPT !.cells = [age |-> Blank]], p3>>)}]

\* Logs of a pod with one or two containers
Logs ==
    [Of("Pod") EXCEPT !.events = 3, !.presses = 4, !.tasks = 1,
        !.keys = Ks({"L", "/", "s", "up", "t", "c", "esc"}) \cup {Filter(None, {"error"})},
        !.rows = {Snapshot("Pod", <<p1>>)},
        !.answers["containers"] = {<<"web">>, <<"web", "db">>},
        !.batches = {<<TRUE, FALSE>>, <<FALSE, FALSE, TRUE>>}]

\* Logs of a deployment's pods
WorkloadLogs ==
    [Of("Deployment") EXCEPT !.events = 2, !.presses = 3, !.tasks = 4,
        !.keys = Ks({"l", "t", "up", "esc"}), !.rows = {Snapshot("Deployment", <<Row("web", FALSE, 1)>>)},
        !.answers["pods"] = {<<"p1", "p2">>, <<>>}, !.answers["exec"] = {<<"web">>},
        !.batches = {<<TRUE>>}]

\* Commands, namespaces and what is remembered of them
Commands ==
    [Of("Deployment") EXCEPT !.presses = 6, !.events = 0, !.tasks = 2,
        !.keys = Ks({":", "-", "[", "]", "esc"}) \cup {Digit(0), Digit(1), Digit(2)}
                   \cup {Do("ns", "b"), Do("q", None), Do("theme", "light"), Open("Pod", "b", None),
                         Open("Node", None, None), Open("Deployment", None, "c2")}]

\* Switching between contexts from their list
Contexts ==
    [Of("Pod") EXCEPT !.session = NoSession, !.presses = 3, !.events = 0, !.tasks = 6,
        !.keys = Ks({"down", "end", "enter", "refresh", "esc"})]

\* The dialogs of a deployment, then of a node
Dialogue ==
    [Of("Deployment") EXCEPT !.presses = 4,
        !.keys = Ks({"s", "r", "e", "ctrl-d", "ctrl-k", "enter", "esc", "y", "h", "l", "f", "backspace"}) \cup {Digit(1)},
        !.rows = {Snapshot("Deployment", <<Row("web", FALSE, 1)>>)}]

\* The lists a command opens
Lists ==
    [Of("Pod") EXCEPT !.presses = 5, !.events = 0, !.tasks = 2,
        !.keys = Ks({":", "down", "end", "enter", "esc", "/"}) \cup {Filter(None, {"b"})}
                   \cup {Do(c, None) : c \in {"ns", "alias", "theme", "events", "metrics"}},
        !.answers["Namespaces"] = {<<"a", "b">>}]

\* Shells, attaches and forwards of a pod
Shells ==
    [Of("Pod") EXCEPT !.presses = 4, !.tasks = 2,
        !.keys = Ks({"s", "a", "F", "f", "enter", "esc", "down", "ctrl-d"}), !.rows = {Snapshot("Pod", <<p1>>)},
        !.answers["exec"] = {<<"web">>, <<"web", "db">>}, !.answers["attach"] = {<<"web", "db">>},
        !.answers["ForwardPorts"] = {<<"80">>, <<"80", "443">>, <<>>}]

\* What a row leads to
RowsOf(kind, keysOf, found) ==
    [Of(kind) EXCEPT !.kinds = @ \cup {kind, "ReplicaSet"}, !.presses = 3, !.tasks = 3,
        !.keys = Ks(keysOf \cup {"enter", "esc", "down", "end"}),
        !.rows = {Snapshot(kind, <<[Row("web", FALSE, 1) EXCEPT !.ns = IF kind = "Node" THEN None ELSE "b"]>>)},
        !.answers = found @@ NoAnswer]
Openings ==
    {RowsOf("Deployment", {"h", "z", "w", "J"},
            "Selector" :> {"app"} @@ "RolloutHistory" :> {<<[revision |-> 2, current |-> TRUE], [revision |-> 1, current |-> FALSE]>>}
            @@ "Owner" :> {[kind |-> "Deployment", name |-> "web"], None}),
     RowsOf("Pod", {"d", "p", "L", "n"}, "Containers" :> {<<"web", "db">>} @@ "Describe" :> {<<"a", "b", "error">>}),
     RowsOf("Secret", {"x", "y", "/", "n"}, "ConfigValues" :> {<<"a">>} @@ "Yaml" :> {<<"a", "error", "b">>}),
     RowsOf("Service", {"F", "ctrl-s"}, "ServicePorts" :> {<<"80">>, <<"80", "443">>} @@ "Endpoint" :> {<<"80">>}),
     RowsOf("Node", {"r", "u", "w", "l"}, NoAnswer),
     RowsOf("CronJob", {"t", "s", "c"}, "Selector" :> {"app"})}


\* An owner, and replica sets, of kinds the cluster is not known to have
Dropped ==
    [RowsOf("Deployment", {"z", "J", ":"}, "Owner" :> {[kind |-> "Rollout", name |-> "web"]})
        EXCEPT !.kinds = {"Pod", "Deployment"}, !.presses = 4,
               !.keys = (@ \ {K("down"), K("end")})
                            \cup {K("/"), K("refresh"), Digit(0), Filter("app", {"web"}), Do("ns", "a"), Do("ns", "b")}]

MCScenes == {Tables, Ordered, Logs, WorkloadLogs, Commands, Contexts, Dialogue, Lists, Shells, Dropped} \cup Openings
=============================================================================
