------------------------------- MODULE TuiApp -------------------------------
(***************************************************************************)
(* The terminal UI: App::update and the runtime that runs its commands.     *)
(* One loop takes messages from an unbounded queue, updates the app and      *)
(* executes the commands it returns; connects, watches and fetches are tasks *)
(* of their own that report through the queue, except that a connect sets    *)
(* the shared sessions.active itself.  A shell suspends the loop, which       *)
(* drains the queue when it returns.                                         *)
(*                                                                         *)
(* The stack is the view that watches (pods here; every table view starts,   *)
(* stops and restarts its watch the same way) and at most one view over it.  *)
(* A key is taken when the loop gets to it and so has no place in the queue: *)
(* the messages the queue holds by then came after it.  The rows of a view   *)
(* are the watches they came from.  An update and its commands are one step. *)
(***************************************************************************)
EXTENDS Naturals, SequencesExt, FiniteSets

CONSTANTS None,
          Sittings   \* each what one run of the program has and is bounded by:
                     \* its contexts and namespaces, and how many keys and
                     \* shells are asked for and events a watch sends

\* The pods views of a sitting: [handle] is of the watch, [picking] of the context
\* of the pod that a container is to be picked for.
PodsViewsOf(s) ==
    [id : Nat, watched : s.namespaces, handle : Nat \cup {None}, pending : BOOLEAN,
     rows : SUBSET Nat, picking : s.contexts \cup {None}]

ASSUME TuiAppAssumption ==
    /\ None # "contexts"
    /\ \A s \in Sittings :
        /\ None \notin s.contexts \cup s.namespaces \cup Nat \cup PodsViewsOf(s)
        /\ s.keys \in Nat /\ s.shells \in Nat /\ s.events \in Nat

VARIABLES
    sitting,   \* the one this is
    active,    \* sessions.active: [ctx, ns], or None
    app,       \* [pods, over, next, followUp, modal]: the stack, next_view_id,
               \* pending_command and the modal that is open
    queue,     \* the Msg queue
    watches,   \* the watch tasks: [view, ctx, ns, sent, state]
    connects,  \* the connect tasks: [ctx, state]
    fetches,   \* the ExecTargets fetches: [view, of, state]
    mode,      \* "loop", "suspended", "draining" or "unreachable"
    keys,      \* [all, shells]: the keys pressed so far
    done       \* what was done [what, on] to something of context "of"

vars == <<sitting, active, app, queue, watches, connects, fetches, mode, keys, done>>

Contexts == sitting.contexts
Namespaces == sitting.namespaces

\* What an update and its commands change together.
World == [active |-> active, app |-> app, queue |-> queue, watches |-> watches,
          connects |-> connects, fetches |-> fetches, mode |-> mode, done |-> done]

Becomes(next) == \E w \in {next} :
    /\ active' = w.active /\ app' = w.app /\ queue' = w.queue /\ watches' = w.watches
    /\ connects' = w.connects /\ fetches' = w.fetches /\ mode' = w.mode /\ done' = w.done
    /\ sitting' = sitting

-----------------------------------------------------------------------------
(* The watching view *)

\* Faulty: the handle is dropped from the view and leaked.
ForgetHandle(w, h) == w

\* Sending on a stop handle; dropping it has the same effect.
StopHandle(w, h) == IF h = None THEN w ELSE [w EXCEPT !.watches[h].state = "stopped"]

\* Faulty: the handle is reported for the watch after it.
StartWatchAhead(w) ==
    [w EXCEPT !.app.pods.pending = TRUE,
              !.watches = Append(@, [view |-> w.app.pods.id, ctx |-> w.active.ctx,
                                     ns |-> w.app.pods.watched, sent |-> 0, state |-> "on"]),
              !.queue = Append(@, [type |-> "Started", view |-> w.app.pods.id,
                                   watch |-> Len(w.watches) + 2])]

\* restart_watch, and StartPodWatch on the session that is active by then
StartWatch(w) ==
    LET p == w.app.pods IN
    [w EXCEPT !.app.pods.pending = TRUE,
              !.watches = Append(@, [view |-> p.id, ctx |-> w.active.ctx, ns |-> p.watched,
                                     sent |-> 0, state |-> "on"]),
              !.queue = Append(@, [type |-> "Started", view |-> p.id,
                                   watch |-> Len(w.watches) + 1])]

\* stop_old, the rows cleared, restart_watch
Restart(w) ==
    StartWatch([StopHandle(w, w.app.pods.handle)
                   EXCEPT !.app.pods.handle = None, !.app.pods.rows = {}])

\* Faulty: a view whose watch has not reported yet is not restarted.
SyncRunning(w) ==
    IF w.app.pods = None \/ w.app.pods.watched = w.active.ns THEN w
    ELSE LET x == [w EXCEPT !.app.pods.watched = w.active.ns]
         IN  IF w.app.pods.handle = None THEN x ELSE Restart(x)

SyncNamespace(w) ==
    IF w.app.pods = None \/ w.app.pods.watched = w.active.ns THEN w
    ELSE Restart([w EXCEPT !.app.pods.watched = w.active.ns])

SetNamespace(w, n) ==
    IF w.active.ns = n THEN w ELSE SyncNamespace([w EXCEPT !.active.ns = n])

\* replace_views with a new pods view, whose first tick starts its watch
ReplaceViews(w) ==
    LET popped == IF w.app.pods = None THEN w ELSE StopHandle(w, w.app.pods.handle)
        view == [id |-> w.app.next, watched |-> w.active.ns, handle |-> None,
                 pending |-> FALSE, rows |-> {}, picking |-> None]
    IN  StartWatch([popped EXCEPT !.app.next = @ + 1, !.app.over = None, !.app.pods = view])

OnStack(view) == app.pods # None /\ app.pods.id = view

\* on_started: the handle that is replaced is dropped
OnStarted(w, m) ==
    [StopHandle(w, w.app.pods.handle) EXCEPT !.app.pods.handle = m.watch,
                                             !.app.pods.pending = FALSE]

OnPod(w, m) ==
    [w EXCEPT !.app.pods.rows = IF m.event = "Snapshot" THEN {m.watch} ELSE @ \cup {m.watch}]

-----------------------------------------------------------------------------
(* Messages *)

Suspend(w, of) ==
    [w EXCEPT !.mode = IF mode = "draining" THEN "unreachable" ELSE "suspended",
              !.done = @ \cup {[what |-> "shell", of |-> of, on |-> w.active.ctx]}]

\* ExecContainers: a shell at once, or the picker
OnFetched(w, m) ==
    IF m.single THEN Suspend([w EXCEPT !.app.pods.picking = None], m.of)
    ELSE [w EXCEPT !.app.pods.picking = m.of,
                   !.app.modal = [kind |-> "pick", view |-> m.view, of |-> m.of]]

\* A connect lands on the pods of its context.  What was asked for with
\* `<kind> @ctx` replaces them; otherwise the namespaces are offered.
OnConnected(w, m) ==
    LET landed == ReplaceViews(w) IN
    IF ~m.ok THEN [w EXCEPT !.app.followUp = None]
    ELSE IF w.app.followUp = None THEN [landed EXCEPT !.app.over = "namespaces"]
    ELSE ReplaceViews([landed EXCEPT !.app.followUp = None,
              !.done = @ \cup {[what |-> "followUp", of |-> w.app.followUp, on |-> w.active.ctx]}])

\* Messages of a view that is off the stack are dropped, handles with them.
Handle(w, m) ==
    CASE m.type = "Connected" -> OnConnected(w, m)
      [] m.type = "Started" -> IF OnStack(m.view) THEN OnStarted(w, m) ELSE StopHandle(w, m.watch)
      [] m.type = "Pod" -> IF OnStack(m.view) THEN OnPod(w, m) ELSE w
      [] m.type = "Fetched" -> IF OnStack(m.view) THEN OnFetched(w, m) ELSE w

Take ==
    /\ mode \in {"loop", "draining"} /\ queue # <<>>
    /\ Becomes(Handle([World EXCEPT !.queue = Tail(@)], Head(queue)))
    /\ UNCHANGED keys

\* The clock of the loop: a view that has no watch starts one.
Tick ==
    /\ mode = "loop" /\ app.pods # None
    /\ Becomes(IF app.pods.handle = None /\ ~app.pods.pending THEN StartWatch(World)
               ELSE SyncNamespace(World))
    /\ UNCHANGED keys

\* The shell ends; the queue is drained, keys and ticks wait.
Resume ==
    /\ mode = "suspended"
    /\ Becomes([World EXCEPT !.mode = "draining"])
    /\ UNCHANGED keys

Drained ==
    /\ mode = "draining" /\ queue = <<>>
    /\ Becomes([World EXCEPT !.mode = "loop"])
    /\ UNCHANGED keys

-----------------------------------------------------------------------------
(* Keys *)

Press ==
    /\ mode = "loop" /\ keys.all < sitting.keys
    /\ keys' = [keys EXCEPT !.all = @ + 1]

NoModal == app.modal = None

\* `:ctx c`, and enter in the contexts view
CommandContext(c) ==
    /\ Press /\ NoModal
    /\ Becomes([World EXCEPT !.connects = Append(@, [ctx |-> c, state |-> "connecting"])])

\* `:pods @c`
CommandPodsAt(c) ==
    /\ Press /\ NoModal
    /\ Becomes([World EXCEPT !.app.followUp = c, !.connects = Append(@, [ctx |-> c, state |-> "connecting"])])

\* `:pods`
CommandPods ==
    /\ Press /\ NoModal /\ active # None
    /\ Becomes(ReplaceViews(World))

\* `:ns n` and the favourites
CommandNamespace(n) ==
    /\ Press /\ NoModal /\ active # None
    /\ Becomes(SetNamespace(World, n))

\* Enter in the namespaces view: SwitchNamespace and PopView
PickNamespace(n) ==
    /\ Press /\ NoModal /\ app.over = "namespaces"
    /\ Becomes([SetNamespace(World, n) EXCEPT !.app.over = None])

\* Esc pops the view that is over another.
Escape ==
    /\ Press /\ NoModal /\ app.over # None /\ app.pods # None
    /\ Becomes([World EXCEPT !.app.over = None])

\* A `-l` filter that changes the label selector
Filter ==
    /\ Press /\ NoModal /\ app.over = None
    /\ Becomes(Restart(World))

OnRow(i) == NoModal /\ app.over = None /\ i \in app.pods.rows

\* ctrl-d opens the delete dialog
AskDelete(i) ==
    /\ Press /\ OnRow(i)
    /\ Becomes([World EXCEPT !.app.modal = [kind |-> "delete", view |-> app.pods.id,
                                            of |-> watches[i].ctx]])

\* enter in it: Mutate runs on the session that is active by then
Deleted(w, of) == [w EXCEPT !.done = @ \cup {[what |-> "delete", of |-> of, on |-> active.ctx]}]

ConfirmDelete ==
    /\ Press /\ ~NoModal /\ app.modal.kind = "delete"
    /\ Becomes(Deleted([World EXCEPT !.app.modal = None], app.modal.of))

\* ctrl-k
Kill(i) ==
    /\ Press /\ OnRow(i)
    /\ Becomes(Deleted(World, watches[i].ctx))

\* s
Shell(i) ==
    /\ mode = "loop" /\ keys.shells < sitting.shells /\ OnRow(i)
    /\ keys' = [keys EXCEPT !.shells = @ + 1]
    /\ Becomes([World EXCEPT !.fetches = Append(@, [view |-> app.pods.id, of |-> watches[i].ctx,
                                                 state |-> "under way"])])

\* The picker answers the view that opened it, if that is still on the stack
\* and still expects an answer.
PickContainer ==
    /\ Press /\ ~NoModal /\ app.modal.kind = "pick"
    /\ LET w == [World EXCEPT !.app.modal = None] IN
       IF OnStack(app.modal.view) /\ app.pods.picking # None
       THEN Becomes(Suspend([w EXCEPT !.app.pods.picking = None], app.pods.picking))
       ELSE Becomes(w)

CancelModal ==
    /\ Press /\ ~NoModal
    /\ Becomes(IF app.modal.kind = "pick" /\ OnStack(app.modal.view)
               THEN [World EXCEPT !.app.modal = None, !.app.pods.picking = None]
               ELSE [World EXCEPT !.app.modal = None])

-----------------------------------------------------------------------------
(* Tasks *)


\* connect_one got through: it makes its context the active one, in the
\* namespace it remembers or its kubeconfig has; the report is a step of its own.
ConnectDone(i) ==
    /\ connects[i].state = "connecting"
    /\ \E n \in Namespaces :
           Becomes([World EXCEPT !.active = [ctx |-> connects[i].ctx, ns |-> n],
                                 !.connects[i].state = "active"])
    /\ UNCHANGED keys

ConnectFails(i) ==
    /\ connects[i].state = "connecting"
    /\ Becomes([World EXCEPT !.connects[i].state = "failed"])
    /\ UNCHANGED keys

ConnectReports(i) ==
    /\ connects[i].state \in {"active", "failed"}
    /\ Becomes([World EXCEPT !.connects[i].state = "done",
            !.queue = Append(@, [type |-> "Connected", ok |-> connects[i].state = "active"])])
    /\ UNCHANGED keys

\* A watch sends a snapshot and then changes, until it notices the stop.
WatchSends(i) ==
    /\ watches[i].state # "ended" /\ watches[i].sent < sitting.events
    /\ Becomes([World EXCEPT !.watches[i].sent = @ + 1,
            !.queue = Append(@, [type |-> "Pod", view |-> watches[i].view, watch |-> i,
                                 event |-> IF watches[i].sent = 0 THEN "Snapshot" ELSE "Upsert"])])
    /\ UNCHANGED keys

WatchEnds(i) ==
    /\ watches[i].state = "stopped"
    /\ Becomes([World EXCEPT !.watches[i].state = "ended"])
    /\ UNCHANGED keys

\* The pod has one container or several.
FetchDone(i) ==
    /\ fetches[i].state = "under way"
    /\ \E single \in BOOLEAN :
           Becomes([World EXCEPT !.fetches[i].state = "done",
                   !.queue = Append(@, [type |-> "Fetched", view |-> fetches[i].view,
                                        of |-> fetches[i].of, single |-> single])])
    /\ UNCHANGED keys

-----------------------------------------------------------------------------

AtContexts ==
    [active |-> None, app |-> [pods |-> None, over |-> "contexts", next |-> 1,
                               followUp |-> None, modal |-> None],
     queue |-> <<>>, watches |-> <<>>, connects |-> <<>>, fetches |-> <<>>, mode |-> "loop", done |-> {}]

\* Started with a connection, which lands on its pods, or at the contexts.
Start == {AtContexts} \cup
         {ReplaceViews([AtContexts EXCEPT !.active = [ctx |-> c, ns |-> n]]) :
             c \in Contexts, n \in Namespaces}

Init ==
    /\ sitting \in Sittings
    /\ keys = [all |-> 0, shells |-> 0]
    /\ \E w \in Start :
           /\ active = w.active /\ app = w.app /\ queue = w.queue /\ watches = w.watches
           /\ connects = w.connects /\ fetches = w.fetches /\ mode = w.mode /\ done = w.done

Key ==
    \/ \E c \in Contexts : CommandContext(c) \/ CommandPodsAt(c)
    \/ CommandPods
    \/ \E n \in Namespaces : CommandNamespace(n) \/ PickNamespace(n)
    \/ Escape \/ Filter \/ ConfirmDelete \/ PickContainer \/ CancelModal
    \/ app.pods # None /\ \E i \in app.pods.rows : AskDelete(i) \/ Kill(i) \/ Shell(i)

Loop == Take \/ Tick \/ Drained

Task ==
    \/ \E i \in DOMAIN connects : ConnectDone(i) \/ ConnectFails(i) \/ ConnectReports(i)
    \/ \E i \in DOMAIN watches : WatchSends(i) \/ WatchEnds(i)
    \/ \E i \in DOMAIN fetches : FetchDone(i)

Next == Key \/ Loop \/ Resume \/ Task

Spec == Init /\ [][Next]_vars

\* The loop runs, and every task gets on with what it does; a shell may last.
FairSpec == Spec /\ WF_vars(Loop \/ Task)

-----------------------------------------------------------------------------

Watched == DOMAIN watches

Sessions == [ctx : Contexts, ns : Namespaces]

PodsViews == PodsViewsOf(sitting)

Modals == [kind : {"pick", "delete"}, view : Nat, of : Contexts]

Apps == [pods : PodsViews \cup {None}, over : {None, "namespaces", "contexts"}, next : Nat,
         followUp : Contexts \cup {None}, modal : Modals \cup {None}]

Messages ==
    [type : {"Connected"}, ok : BOOLEAN]
    \cup [type : {"Started"}, view : Nat, watch : Nat]
    \cup [type : {"Pod"}, view : Nat, watch : Nat, event : {"Snapshot", "Upsert"}]
    \cup [type : {"Fetched"}, view : Nat, of : Contexts, single : BOOLEAN]

WatchTasks == [view : Nat, ctx : Contexts, ns : Namespaces, sent : Nat,
               state : {"on", "stopped", "ended"}]

ConnectTasks == [ctx : Contexts, state : {"connecting", "active", "failed", "done"}]

FetchTasks == [view : Nat, of : Contexts, state : {"under way", "done"}]

Deeds == [what : {"shell", "delete", "followUp"}, of : Contexts, on : Contexts]

Worlds == [active : Sessions \cup {None}, app : Apps, queue : Seq(Messages),
           watches : Seq(WatchTasks), connects : Seq(ConnectTasks), fetches : Seq(FetchTasks),
           mode : {"loop", "suspended", "draining", "unreachable"}, done : SUBSET Deeds]

\* What relies on there being a session.
NeedsSession(w) ==
    \/ w.app.pods \in PodsViews \/ w.app.modal # None
    \/ \E i \in DOMAIN w.connects : w.connects[i].state = "active"
    \/ \E i \in DOMAIN w.queue : w.queue[i].type = "Connected" /\ w.queue[i].ok

\* What needs a session has one, and only the contexts view is on a stack of its own.
SessionThere(w) ==
    /\ NeedsSession(w) => w.active \in Sessions
    /\ w.app.over \in {None, "namespaces"} => w.app.pods \in PodsViews

\* The view on the stack and the messages name watches that exist.
WatchesThere(w) ==
    /\ w.app.pods \in PodsViews => w.app.pods.handle \in DOMAIN w.watches \cup {None}
                                   /\ w.app.pods.rows \subseteq DOMAIN w.watches
    /\ \A i \in DOMAIN w.queue :
           w.queue[i].type \in {"Started", "Pod"} => w.queue[i].watch \in DOMAIN w.watches

\* No update finds a view, a session or a watch missing that it relies on.
TypeOK ==
    /\ sitting \in Sittings /\ keys \in [all : Nat, shells : Nat]
    /\ World \in Worlds /\ SessionThere(World) /\ WatchesThere(World)

\* The view whose watch w is, if it is still to be told that w started.
ToBeTold(w) == \E i \in DOMAIN queue : queue[i].type = "Started" /\ queue[i].watch = w

\* A watch that runs is owned: the view on the stack holds its handle, or the
\* handle is still on its way to a view.  No change of namespace, context or
\* filter, and no late Started, leaves a watch running that nobody can stop.
NoWatchLeaks ==
    \A w \in Watched : watches[w].state = "on" =>
        \/ ToBeTold(w)
        \/ app.pods # None /\ app.pods.handle = w

\* The newest watch of the view on the stack is never stopped: whatever the order
\* in which watches were asked for and reported, the view does not kill the one
\* that shows the namespace it is in now.
LatestWatchKept ==
    app.pods # None =>
        \E w \in Watched :
            /\ watches[w].view = app.pods.id /\ watches[w].state = "on"
            /\ watches[w].ns = app.pods.watched
            /\ \A v \in Watched : watches[v].view = app.pods.id => v <= w

\* Every running watch has an owner, and the view on the stack has the right one.
WatchesAreOwned == NoWatchLeaks /\ LatestWatchKept

\* What the view on the stack and its watch agree on when nothing is under way
\* and no shell has the screen.
Settled ==
    mode = "loop" /\ app.pods # None =>
        /\ app.pods.handle # None
        /\ watches[app.pods.handle].ctx = active.ctx
        /\ watches[app.pods.handle].ns = active.ns
        /\ app.pods.watched = active.ns

\* Once the user lets go of the keyboard, the view on the stack ends up holding a
\* watch of the active context and namespace, however the connects interleaved.
Settles == <>[]Settled

\* views/pods.rs, sync_namespace: "clear stale rows".  The rows a view shows are
\* of the namespace it follows.
RowsOfNamespace ==
    app.pods # None =>
        \A w \in app.pods.rows : watches[w].ns = app.pods.watched

\* app.rs: the follow-up of `<kind> @ctx` "cannot fire on a later, unrelated
\* connect": it runs in the context it was typed for.
FollowUpInItsContext == \A d \in done : d.what = "followUp" => d.on = d.of

\* app.rs: keys "act on the selected row": what they do, they do to the cluster
\* the row is from.
ActsOnSelectedRow == \A d \in done : d.what # "followUp" => d.on = d.of

\* runtime.rs: a Suspend command is "handled inline in run()" and never executed.
NeverUnreachable == mode # "unreachable"
=============================================================================
