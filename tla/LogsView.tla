------------------------------ MODULE LogsView ------------------------------
(***************************************************************************)
(* The logs of a pod, of one of its containers or of a workload's pods        *)
(* (views/logs.rs): the targets, their streams, the ring of lines and the       *)
(* part of it that is on screen.  Operators on the view's record; what takes     *)
(* a key or a message returns [view, cmds].                                      *)
(* A line is [from, n, hit]: its stream, its number there, and whether the        *)
(* text of the filter is in it.                                                   *)
(***************************************************************************)
EXTENDS Views

CONSTANTS Ring,     \* RING_CAPACITY
          Height    \* of the viewport

\* LogsView::new, new_with_container, new_workload, previous
NewLogs(id, pod, container, all, workload) ==
    [kind |-> "logs", id |-> id,
     targets |-> IF workload = None THEN <<[pod |-> pod, container |-> container]>> ELSE <<>>,
     workload |-> workload, picking |-> FALSE, all |-> all, lines |-> <<>>,
     auto |-> TRUE, back |-> 0, full |-> FALSE, mode |-> 0, filter |-> FALSE,
     handles |-> <<>>, failed |-> FALSE]

StopStreams(v) == [i \in DOMAIN v.handles |-> [cmd |-> "Stop", stream |-> v.handles[i]]]

\* stream_cmds: one request per target, with the options as they are by now
StreamCmds(v, from) ==
    [i \in 1..(Len(v.targets) - from) |->
        [cmd |-> "StartLogs", view |-> v.id, target |-> v.targets[from + i], mode |-> v.mode]]

StartStreams(v) == Kept(v, StreamCmds(v, 0))

\* restart: t, p and the presets 0 to 5
RestartLogs(v) ==
    LET w == [v EXCEPT !.handles = <<>>, !.lines = <<>>, !.back = 0, !.failed = FALSE] IN
    Kept(w, StopStreams(v) \o StreamCmds(w, 0))

-----------------------------------------------------------------------------
(* The ring and what is on screen *)

Matching(v, lines) == SelectSeq(lines, LAMBDA l : v.filter => l.hit)

\* render: the viewport ends "back" lines before the end of the matching ones.
Shown(v) ==
    LET all == Matching(v, v.lines)
        start == AtLeast0(Len(all) - (Height + v.back))
        end == AtLeast0(Len(all) - v.back)
    IN  SubSeq(all, start + 1, end)

\* scroll_by
ScrollBy(v, delta) ==
    LET most == AtLeast0(Len(Matching(v, v.lines)) - Height)
        to == AtLeast0(v.back + delta)
        next == IF to > most THEN most ELSE to
    IN  [v EXCEPT !.back = next, !.auto = next = 0 /\ delta <= 0 /\ @]

\* Faulty: every line that came moves the view.
PushAll(v, lines) ==
    LET all == v.lines \o lines IN
    [v EXCEPT !.lines = SubSeq(all, AtLeast0(Len(all) - Ring) + 1, Len(all)),
              !.back = IF v.auto THEN @ ELSE @ + Len(lines)]

\* push_lines: the oldest go; a paused view moves back by the lines it would show.
PushLines(v, lines) ==
    LET all == v.lines \o lines IN
    [v EXCEPT !.lines = SubSeq(all, AtLeast0(Len(all) - Ring) + 1, Len(all)),
              !.back = IF v.auto THEN @ ELSE @ + Len(Matching(v, lines))]

\* toggle_fullscreen, set_filter
FillScreen(v) == [v EXCEPT !.full = ~@]
FilterLines(v, on) == Kept([v EXCEPT !.filter = on], <<>>)

\* handle_key: s, k, g, j, G, c, and t for all keys that restart the streams
LogsKey(v, k) ==
    CASE k.key = "s" -> Kept([v EXCEPT !.auto = ~@, !.back = IF v.auto THEN @ ELSE 0], <<>>)
      [] k.key = "up" -> Kept([ScrollBy(v, 1) EXCEPT !.auto = FALSE], <<>>)
      [] k.key = "home" -> Kept([ScrollBy(v, Ring) EXCEPT !.auto = FALSE], <<>>)
      [] k.key = "down" -> Kept(ScrollBy(v, -1), <<>>)
      [] k.key = "end" -> Kept([v EXCEPT !.back = 0, !.auto = TRUE], <<>>)
      [] k.key = "c" -> Kept([v EXCEPT !.lines = <<>>], <<>>)
      [] k.key = "t" -> RestartLogs([v EXCEPT !.mode = 1 - @])
      [] OTHER -> Kept(v, <<>>)

-----------------------------------------------------------------------------
(* Targets and streams *)

Each(pod, containers) == [i \in DOMAIN containers |-> [pod |-> pod, container |-> containers[i]]]

\* A tick asks for what is missing as long as no stream has reported: the pods of
\* a workload (once), the containers of a pod, or the streams of several targets.
OnTick(v) ==
    CASE v.failed \/ v.handles # <<>> \/ v.picking -> Kept(v, <<>>)
      [] v.workload # None /\ ~(v.failed \/ v.handles # <<>> \/ v.picking) ->
            Kept([v EXCEPT !.workload = None], <<Fetch(v, "pods", v.workload)>>)
      [] OTHER ->
            CASE Len(v.targets) = 0 -> Kept(v, <<>>)
              [] Len(v.targets) = 1 -> Kept([v EXCEPT !.picking = TRUE],
                                           <<Fetch(v, "containers", v.targets[1].pod)>>)
              [] OTHER -> StartStreams(v)

\* The containers of the one pod, without its init containers
OnPodContainers(v, found) ==
    LET pod == v.targets[1].pod IN
    IF v.all THEN StartStreams([v EXCEPT !.picking = FALSE, !.targets = Each(pod, found)])
    ELSE IF Len(found) <= 1
    THEN StartStreams([v EXCEPT !.picking = FALSE,
                                !.targets[1].container = IF found = <<>> THEN None ELSE found[1]])
    ELSE Kept([v EXCEPT !.picking = TRUE],
             <<[cmd |-> "Pick", view |-> v.id, title |-> <<"container", pod>>, options |-> found]>>)

\* The pods of a workload, then the containers of each as they come
OnPods(v, pods) ==
    Kept([v EXCEPT !.targets = <<>>], [i \in DOMAIN pods |-> Fetch(v, "exec", pods[i])])

OnItsContainers(v, pod, found) ==
    LET w == [v EXCEPT !.targets = @ \o Each(pod, found)] IN Kept(w, StreamCmds(w, Len(v.targets)))

\* on_msg(Fetched)
LogsAnswer(v, a) ==
    CASE a.what = "error" -> Kept([v EXCEPT !.picking = FALSE, !.failed = TRUE], <<>>)
      [] a.what = "containers" -> OnPodContainers(v, a.found)
      [] a.what = "pods" -> OnPods(v, a.found)
      [] a.what = "exec" -> OnItsContainers(v, a.of, a.found)
      [] OTHER -> Kept(v, <<>>)

\* on_msg(Picked): a pick that is cancelled pops the view on top.
LogsPicked(v, choice) ==
    IF choice = None THEN Kept([v EXCEPT !.picking = FALSE], <<[cmd |-> "PopView"]>>)
    ELSE StartStreams([v EXCEPT !.picking = FALSE, !.targets[1].container = choice])

\* on_started
LogsStarted(v, stream) == [v EXCEPT !.handles = Append(@, stream)]
=============================================================================
