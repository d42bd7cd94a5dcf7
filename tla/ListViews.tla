------------------------------ MODULE ListViews ------------------------------
(***************************************************************************)
(* The smaller views of the terminal app, each a list with a highlighted item   *)
(* or a text: contexts, namespaces, containers, rollout, values, forwards,        *)
(* aliases, events, metrics, themes, help, describe and yaml.                     *)
(* Operators on the view's record; what takes a key or a message returns            *)
(* [view, cmds].  Contexts and events keep the selected item, the others its         *)
(* place in the list.                                                                *)
(***************************************************************************)
EXTENDS Views

CONSTANTS MaxPings,   \* MAX_PINGS_IN_FLIGHT
          Screen      \* lines of a pager on screen

ListView(kind, id, of, items) ==
    [kind |-> kind, id |-> id, of |-> of, items |-> items, at |-> 1, filter |-> AnyName,
     hits |-> {}, asked |-> FALSE, answered |-> FALSE, full |-> FALSE]

NewNamespaces(id) == ListView("namespaces", id, None, <<None>>)
NewContainers(id, pod) == ListView("containers", id, pod, <<>>)
NewRollout(id, target) == ListView("rollout", id, target, <<>>)
NewValues(id, target, secret) ==
    [ListView("values", id, target, <<>>) EXCEPT !.full = secret]   \* masked
NewForwards(id) == ListView("forwards", id, None, <<>>)
NewAliases(id, kinds) == ListView("aliases", id, None, kinds)
NewMetrics(id) == ListView("metrics", id, None, <<>>)
NewHelp(id) == ListView("help", id, None, <<>>)
NewText(id, target, what) == [ListView("text", id, <<what, target>>, <<>>) EXCEPT !.at = 0]
\* ThemePicker::new: the theme shown by now is highlighted and is gone back to.
NewThemes(id, themes, shown) ==
    [ListView("themes", id, shown, themes)
        EXCEPT !.at = CHOOSE i \in DOMAIN themes : themes[i] = shown]

Listed(v) ==
    IF v.kind \in {"namespaces", "aliases"}
    THEN SelectSeq(v.items, LAMBDA i : i = None \/ i \in v.filter)
    ELSE v.items

Within(v, at) == IF at < 1 \/ Listed(v) = <<>> THEN 1 ELSE IF at > Len(Listed(v)) THEN Len(Listed(v)) ELSE at
Highlighted(v) == IF v.at \in DOMAIN Listed(v) THEN Listed(v)[v.at] ELSE None

-----------------------------------------------------------------------------
(* The pager of describe and yaml: "items" are its lines, by what is in them, and  *)
(* "at" the number, from 0, of the first one on screen.                           *)

MaxScroll(lines) == IF lines > Screen THEN lines - Screen ELSE 0

\* jump_match: n and N.  What is behind the last page cannot be left behind.
JumpMatch(scroll, lines, matches, forward) ==
    LET beyond == {i \in matches : IF forward THEN i > scroll ELSE i < scroll}
        from == IF beyond = {} THEN matches ELSE beyond
        to == IF forward THEN Min(from) ELSE Max(from)
    IN  IF matches = {} THEN scroll ELSE Min({to, MaxScroll(lines)})

TextKey(v, k) ==
    LET most == MaxScroll(Len(v.items)) IN
    [v EXCEPT !.at =
        CASE k.key = "down" -> Min({@ + 1, most})
          [] k.key = "up" -> IF @ = 0 THEN 0 ELSE @ - 1
          [] k.key = "home" -> 0
          [] k.key = "end" -> most
          [] k.key \in {"n", "N"} -> JumpMatch(@, Len(v.items), v.hits, k.key = "n")
          [] OTHER -> @]

\* set_filter finds the matches in the text there is by now.
SearchText(v, words) ==
    LET hits == {i \in 0..(Len(v.items) - 1) : words # AnyName /\ v.items[i + 1] \in words} IN
    Kept([v EXCEPT !.filter = words, !.hits = hits,
                   !.at = IF hits = {} THEN @ ELSE Min({Min(hits), MaxScroll(Len(v.items))})], <<>>)

-----------------------------------------------------------------------------
(* Keys that move: j, k, g and G *)

Moves == {"down", "up", "home", "end"}

ListMove(v, k) ==
    [v EXCEPT !.at = CASE k.key = "down" -> Within(v, @ + 1)
                       [] k.key = "up" -> Within(v, @ - 1)
                       [] k.key = "home" -> 1
                       [] k.key = "end" -> Within(v, Len(Listed(v)))]

\* The metrics and the help do not know how many lines there are.
ScrollMove(v, k) ==
    [v EXCEPT !.at = CASE k.key = "down" -> @ + 1
                       [] k.key = "up" -> IF @ = 1 THEN 1 ELSE @ - 1
                       [] k.key = "home" -> 1
                       [] OTHER -> @]

\* Enter, and x of a secret: the commands are run by the runtime in their order.
NamespacesEnter(v) ==
    Kept(v, IF v.at \in DOMAIN Listed(v)
            THEN <<[cmd |-> "SwitchNamespace", ns |-> Highlighted(v)], [cmd |-> "PopView"]>> ELSE <<>>)
AliasesEnter(v) ==
    Kept(v, IF v.at \in DOMAIN Listed(v) THEN <<[cmd |-> "OpenKind", kind |-> Highlighted(v)]>> ELSE <<>>)
RolloutEnter(v) ==
    Kept(v, IF v.at \in DOMAIN v.items /\ ~v.items[v.at].current
            THEN <<[cmd |-> "ConfirmUndo", view |-> v.id, of |-> v.of, revision |-> v.items[v.at].revision]>>
            ELSE <<>>)
Reveal(v) == [v EXCEPT !.full = ~@]

\* ThemePicker: moving previews, enter keeps the theme, esc goes back to the one of before.
Preview(id) == [cmd |-> "PreviewTheme", theme |-> id]

\* Faulty: esc puts the theme back and stays.
ThemesKeyStays(v, k) ==
    CASE k.key = "esc" -> Kept(v, <<Preview(v.of)>>)
      [] OTHER -> Kept(ListMove(v, k), <<Preview(Highlighted(ListMove(v, k)))>>)

ThemesKey(v, k) ==
    CASE k.key = "enter" -> Kept([v EXCEPT !.of = Highlighted(v)], <<[cmd |-> "SetTheme", theme |-> Highlighted(v)]>>)
      [] k.key = "esc" -> Kept(v, <<Preview(v.of), [cmd |-> "PopView"]>>)
      [] k.key \in Moves -> Kept(ListMove(v, k), <<Preview(Highlighted(ListMove(v, k)))>>)
      [] OTHER -> Kept(v, <<Preview(Highlighted(v))>>)

ForwardsStop(v) ==
    Kept(v, IF v.at \in DOMAIN v.items THEN <<[cmd |-> "StopForward", id |-> v.items[v.at].id]>> ELSE <<>>)

ListKey(v, k) ==
    CASE v.kind = "themes" -> ThemesKey(v, k)
      [] v.kind = "metrics" /\ k.key = "refresh" -> Kept(v, <<[cmd |-> "PollMetrics"]>>)
      [] v.kind = "help" \/ (v.kind = "metrics" /\ k.key # "refresh") -> Kept(ScrollMove(v, k), <<>>)
      [] v.kind = "text" -> Kept(TextKey(v, k), <<>>)
      [] (v.kind \in {"namespaces", "containers", "aliases"} /\ k.key \in Moves)
            \/ (v.kind \in {"rollout", "values", "forwards"} /\ k.key \in {"up", "down"})
            -> Kept(ListMove(v, k), <<>>)
      [] v.kind = "namespaces" /\ k.key \in {"enter", "u"} -> NamespacesEnter(v)
      [] v.kind = "aliases" /\ k.key = "enter" -> AliasesEnter(v)
      [] v.kind = "rollout" /\ k.key = "enter" -> RolloutEnter(v)
      [] v.kind = "values" /\ k.key = "x" -> Kept(Reveal(v), <<>>)
      [] v.kind = "forwards" /\ k.key = "ctrl-d" -> ForwardsStop(v)
      [] OTHER -> Kept(v, <<>>)

\* A filter of a list keeps the place as far as there are items.
FilterList(v, names) ==
    LET w == [v EXCEPT !.filter = names] IN Kept([w EXCEPT !.at = IF @ > Len(Listed(w)) THEN Within(w, @) ELSE @], <<>>)

-----------------------------------------------------------------------------
(* Ticks and answers *)

Question(v) == CASE v.kind = "namespaces" -> "Namespaces" [] v.kind = "containers" -> "Containers"
                 [] v.kind = "rollout" -> "RolloutHistory" [] v.kind = "values" -> "ConfigValues"

\* What a list shows is asked for once, by its first tick; the metrics poller is started.
ListTick(v, forwards) ==
    CASE v.kind \in {"namespaces", "containers", "rollout", "values"} /\ ~v.asked /\ ~v.answered ->
            Kept([v EXCEPT !.asked = TRUE], <<Fetch(v, Question(v), v.of)>>)
      [] v.kind = "metrics" /\ ~v.asked -> Kept([v EXCEPT !.asked = TRUE], <<[cmd |-> "PollMetrics"]>>)
      [] v.kind = "forwards" ->
            LET w == [v EXCEPT !.items = forwards] IN Kept([w EXCEPT !.at = Within(w, @)], <<>>)
      [] OTHER -> Kept(v, <<>>)

\* on_msg(Fetched).  An error, or the answer to something else, shows nothing new;
\* only the rollout loses its revisions to an error.
ListAnswer(v, a) ==
    LET w == [v EXCEPT !.asked = FALSE, !.answered = TRUE] IN
    CASE v.kind = "namespaces" /\ a.what = "Namespaces" -> [w EXCEPT !.items = <<None>> \o a.found]
      [] v.kind = "namespaces" /\ a.what = "error" -> w
      [] v.kind = "containers" /\ a.what = "Containers" ->
            LET x == [w EXCEPT !.items = a.found] IN [x EXCEPT !.at = IF @ > Len(a.found) THEN Within(x, @) ELSE @]
      [] v.kind = "rollout" /\ a.what = "RolloutHistory" -> [w EXCEPT !.items = a.found]
      [] v.kind = "rollout" /\ a.what = "error" -> [w EXCEPT !.items = <<>>]
      [] v.kind = "values" /\ a.what = "ConfigValues" -> [w EXCEPT !.items = a.found]
      [] v.kind = "text" /\ a.what = v.of[1] -> [v EXCEPT !.items = a.found]
      [] v.kind \in {"containers", "values"} -> w
      [] OTHER -> v

-----------------------------------------------------------------------------
(* Contexts: at most MaxPings are waited for; those of before a refresh go on *)

NewContexts(id, names) ==
    [kind |-> "contexts", id |-> id, items |-> names, selected |-> names[1], filter |-> AnyName,
     pings |-> {}, pending |-> {}]

ShownContexts(v) == SelectSeq(v.items, LAMBDA n : n \in v.filter)

\* ping_missing, name by name
Asked(p, name) ==
    IF Cardinality(p.view.pending) >= MaxPings \/ name \in p.view.pings \cup p.view.pending THEN p
    ELSE Kept([p.view EXCEPT !.pending = @ \cup {name}], Append(p.cmds, [cmd |-> "Ping", context |-> name]))
PingMissing(v) == FoldLeft(Asked, Kept(v, <<>>), v.items)

\* Faulty: what is answered stays pending.
PingedOnly(v, name) == [v EXCEPT !.pings = @ \cup {name}]

Pinged(v, name) == [v EXCEPT !.pending = @ \ {name}, !.pings = @ \cup {name}]

\* move_selection on names, of the contexts and of events
Beside(names, selected, delta) ==
    IF names = <<>> THEN None
    ELSE LET at == IF selected \in Range(names)
                   THEN (CHOOSE i \in DOMAIN names : names[i] = selected) + delta
                   ELSE IF delta > 0 THEN 1 ELSE Len(names)
         IN  names[IF at < 1 THEN 1 ELSE IF at > Len(names) THEN Len(names) ELSE at]

ContextsKey(v, k) ==
    CASE k.key = "down" -> Kept([v EXCEPT !.selected = Beside(ShownContexts(v), @, 1)], <<>>)
      [] k.key = "up" -> Kept([v EXCEPT !.selected = Beside(ShownContexts(v), @, -1)], <<>>)
      [] k.key = "home" -> Kept([v EXCEPT !.selected = Beside(ShownContexts(v), None, 1)], <<>>)
      [] k.key = "end" -> Kept([v EXCEPT !.selected = Beside(ShownContexts(v), None, -1)], <<>>)
      [] k.key = "enter" /\ v.selected # None -> Kept(v, <<[cmd |-> "Connect", context |-> v.selected]>>)
      [] k.key = "refresh" -> PingMissing([v EXCEPT !.pings = {}, !.pending = {}])
      [] OTHER -> Kept(v, <<>>)

FilterContexts(v, names) ==
    LET w == [v EXCEPT !.filter = names] IN
    IF v.selected \in Range(ShownContexts(w)) THEN Kept(w, <<>>)
    ELSE Kept([w EXCEPT !.selected = Beside(ShownContexts(w), None, 1)], <<>>)

=============================================================================
