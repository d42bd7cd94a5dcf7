---------------------------- MODULE ClusterActions ----------------------------
(***************************************************************************)
(* What kxs writes to the cluster: the editor of the window and the one the  *)
(* terminal runs, merges of one field, rollback, drain, triggers and         *)
(* deletion, against a cluster that controllers and other users change       *)
(* between any two requests.                                                 *)
(***************************************************************************)
EXTENDS Naturals, Sequences, FiniteSets, TLC, MergePatch

CONSTANTS
    None,
    Pods,       \* the pods of the cluster, all of which run on the node once they run
    Daemons,    \* those a drain leaves alone
    Menus,      \* bound on what is mixed: a behaviour takes the operations of one of these
    MaxTasks,   \* bound on what the user starts besides the window's editor
    MaxTyping,  \* bound on the changes typed into the editors
    MaxOthers,  \* bound on what others change
    MaxFailures \* bound on the requests that fail or are refused

ASSUME ClusterActionsAssumption ==
    /\ None \notin Nat /\ None \notin {"applied", "unchanged", "error"}
    /\ {MaxTasks, MaxTyping, MaxOthers, MaxFailures} \subseteq Nat

VARIABLES
    object,    \* the document of a deployment, or None
    version,   \* the last version the server gave an object
    revisions, \* the templates of its replica sets, by revision
    node,      \* [cordoned, lifted: the drains during which it was uncordoned]
    pods,      \* where each pod is: "waiting", "running", "terminating" or "gone"
    jobs,      \* the names of the jobs
    clock,     \* the second it is
    tasks,     \* what was started, in order
    window,    \* the window's editor
    raced,     \* whose comparison with the object another write made old
    menu,      \* the operations of this behaviour
    budget     \* what is left of the bounds

vars == <<object, version, revisions, node, pods, jobs, clock, tasks, window, raced, menu, budget>>
deployment == <<object, version, revisions, raced>>
machine    == <<node, pods>>
batch      == <<jobs, clock>>

-----------------------------------------------------------------------------
(* The object on the server (external) *)

\* An object with one value at the end of a path
Nested(path, v) ==
    LET from[i \in 1..(Len(path) + 1)] ==
            IF i > Len(path) THEN v ELSE Obj([k \in {path[i]} |-> from[i + 1]])
    IN  from[1]

With(v, key, field) == Obj([k \in Keys(v) \cup {key} |-> IF k = key THEN field ELSE v.fields[k]])

\* A document with another value, or none, at the end of a path
SetAt(doc, path, v) ==
    LET from[i \in 1..(Len(path) + 1)] ==
            IF i > Len(path) THEN v
            ELSE LET parent == ValueAt(doc, SubSeq(path, 1, i - 1))
                     field == from[i + 1]
                 IN  IF field = Null THEN Without(parent, {path[i]}) ELSE With(parent, path[i], field)
    IN  from[1]

\* The window's editor among those that hold a copy; tasks have their number.
Win == 0

Rv == <<"metadata", "resourceVersion">>
Image == <<"spec", "template", "image">>
RestartedAt == <<"spec", "template", "restartedAt">>
Replicas == <<"spec", "replicas">>
Template(doc) == ValueAt(doc, <<"spec", "template">>)

Version(doc) == ValueAt(doc, Rv).leaf
Versioned(doc, n) == SetAt(SetAt(doc, Rv, Leaf(n)), <<"status">>, Leaf(n))

Created(n) == Versioned(SetAt(SetAt(SetAt(EmptyObj, <<"metadata", "name">>, Leaf(1)), Replicas, Leaf(1)),
                              Image, Leaf(1)), n)

\* Who has compared what it will send with the object, and not sent it yet
Compared == {w \in {Win} : window.at = "patching"} \cup {i \in DOMAIN tasks : tasks[i].at = "patching"}

\* A write that changes something gives the object its next version.
Write(doc, by) ==
    /\ IF doc = object THEN UNCHANGED <<object, version>>
       ELSE object' = Versioned(doc, version + 1) /\ version' = version + 1
    /\ raced' = (IF doc = object THEN raced ELSE raced \cup Compared) \ {by}

Fails == budget.failures > 0 /\ budget' = [budget EXCEPT !.failures = @ - 1]
Works == UNCHANGED budget
Missing == object = None /\ Works

-----------------------------------------------------------------------------
(* apply_edit, in the steps its awaits divide it into; "to" is where a step    *)
(* takes the edit of "by".                                                    *)

\* Before it talks to the server: what it will send, or why nothing.
Asked(base, edited) ==
    LET patch == Stripped(Diff(base, edited))
    IN  IF Identity(base) # Identity(edited) THEN [at |-> "error", patch |-> None]
        ELSE IF Paths(patch) = {} THEN [at |-> "unchanged", patch |-> None]
        ELSE [at |-> "reading", patch |-> patch]

\* Faulty: what the user saw is not compared with what is there.
CheckedBlindly(base, patch) == "patching"

Checked(base, patch) == IF Stale(base, object, patch) = {} THEN "patching" ELSE "error"

\* api.get, and the comparison
ReadsLatest(base, patch, to) ==
    /\ \/ object # None /\ Works /\ to = Checked(base, patch)
       \/ (Missing \/ Fails) /\ to = "error"
    /\ UNCHANGED deployment

\* api.patch
Sends(patch, dry, by, to) ==
    \/ /\ object # None /\ Works /\ to = IF dry THEN "unchanged" ELSE "fetching"
       /\ IF dry THEN UNCHANGED <<object, version>> /\ raced' = raced \ {by} ELSE Write(Patched(object, patch), by)
       /\ UNCHANGED revisions
    \/ (Missing \/ Fails) /\ to = "error" /\ raced' = raced \ {by} /\ UNCHANGED <<object, version, revisions>>

\* get_yaml; when it fails the edit was applied all the same
Fetches(to) ==
    /\ \/ object # None /\ Works /\ to = "applied"
       \/ (Missing \/ Fails) /\ to = "error"
    /\ UNCHANGED deployment

Apply(e, by, to) ==
    \/ e.at = "reading" /\ ReadsLatest(e.base, e.patch, to)
    \/ e.at = "patching" /\ Sends(e.patch, e.dry, by, to)
    \/ e.at = "fetching" /\ Fetches(to)

Ends == {"patching", "fetching", "unchanged", "applied", "error"}

\* What a user makes of a document: a field changed, added or removed, a field of
\* the server, or another name.
Drafts(doc) ==
    {SetAt(doc, Image, v) : v \in {Leaf(2), Null}} \cup {SetAt(doc, Replicas, Leaf(2))}
    \cup {SetAt(doc, <<"status">>, Leaf(0)), SetAt(doc, <<"metadata", "name">>, Leaf(2))}

Typing == budget.typing > 0 /\ budget' = [budget EXCEPT !.typing = @ - 1]

-----------------------------------------------------------------------------
(* The window's editor *)

Closed == [open |-> FALSE, base |-> None, saved |-> None, draft |-> None, at |-> "idle",
           dry |-> FALSE, patch |-> None, late |-> FALSE]

\* reseed: the server's document is what was read, saved and shown.
Seeded(w) == [w EXCEPT !.open = TRUE, !.base = object, !.saved = object, !.draft = object,
                       !.at = "idle", !.late = FALSE, !.dry = FALSE, !.patch = None]

OpenEditor ==
    /\ ~window.open /\ object # None /\ window' = Seeded(window)
    /\ UNCHANGED <<deployment, machine, batch, tasks, budget>>

\* Nothing keeps the user from typing while a request is under way.
Type ==
    /\ window.open /\ Typing
    /\ \E d \in Drafts(window.draft) :
           window' = [window EXCEPT !.draft = d, !.late = @ \/ window.at # "idle"]
    /\ UNCHANGED <<deployment, machine, batch, tasks>>

\* Validate is a dry run; Apply is offered when the draft is not what was saved.
Submit(dry) ==
    /\ window.open /\ window.at = "idle" /\ (dry \/ window.draft # window.saved)
    /\ LET asked == Asked(window.base, window.draft) IN
       window' = [window EXCEPT !.at = asked.at, !.patch = asked.patch, !.dry = dry]
    /\ UNCHANGED <<deployment, machine, batch, tasks, budget>>

Reload ==
    /\ window.open /\ window.at = "idle" /\ object # None /\ window' = Seeded(window)
    /\ UNCHANGED <<deployment, machine, batch, tasks, budget>>

CloseEditor ==
    /\ window.open /\ window.at = "idle" /\ window' = Closed
    /\ UNCHANGED <<deployment, machine, batch, tasks, budget>>

WindowRequest ==
    \E to \in Ends :
        /\ Apply(window, Win, to)
        /\ window' = IF to = "applied" THEN Seeded(window) ELSE [window EXCEPT !.at = to]
        /\ UNCHANGED <<machine, batch, tasks>>

\* Faulty: a draft that was refused counts as saved.
AnsweredSaved == [window EXCEPT !.at = "idle", !.dry = FALSE, !.patch = None, !.saved = IF window.dry THEN @ ELSE window.draft]

\* Nothing to write: the draft is what is saved.  An error leaves it unsaved.
Answered ==
    [window EXCEPT !.at = "idle", !.dry = FALSE, !.patch = None,
         !.saved = IF window.at = "unchanged" /\ ~window.dry THEN window.draft ELSE @]

WindowAnswered ==
    /\ window.at \in {"unchanged", "error"} /\ window' = Answered
    /\ UNCHANGED <<deployment, machine, batch, tasks, budget>>

Window ==
    /\ "window" \in menu
    /\ UNCHANGED menu
    /\ \/ OpenEditor \/ Type \/ Submit(TRUE) \/ Submit(FALSE) \/ Reload \/ CloseEditor
       \/ WindowRequest \/ WindowAnswered

-----------------------------------------------------------------------------
(* The terminal's editor: run_edit, while the app is suspended *)

Task(i, t) == tasks' = [tasks EXCEPT ![i] = t]
Ended(i, how, failed) == tasks' = [tasks EXCEPT ![i] = [op |-> @.op, at |-> "done", how |-> how, failed |-> failed]]
Done(i, how) == Ended(i, how, {})

EditOpens(i) ==
    /\ tasks[i].op = "edit" /\ tasks[i].at = "start"
    /\ \/ object # None /\ Works /\ Task(i, [op |-> "edit", at |-> "editor", how |-> None, base |-> object,
                                              current |-> object, noted |-> FALSE, patch |-> None, dry |-> FALSE])
       \/ (Missing \/ Fails) /\ Done(i, "error")
    /\ UNCHANGED <<deployment, machine, batch, window>>

\* Saved unchanged, or the editor failed: nothing is applied.
EditAborted(i) ==
    /\ tasks[i].op = "edit" /\ tasks[i].at = "editor" /\ Done(i, "unchanged")
    /\ UNCHANGED <<deployment, machine, batch, window, budget>>

\* The base is what was read at first, however often the editor reopens; taking
\* out the note of the last error is a change of the file, too.
EditSaved(i) ==
    LET t == tasks[i] IN
    /\ t.op = "edit" /\ t.at = "editor"
    /\ \/ /\ Typing
          /\ \E d \in Drafts(t.current) :
                 LET asked == Asked(t.base, d) IN
                 Task(i, [t EXCEPT !.at = asked.at, !.patch = asked.patch, !.current = d, !.noted = FALSE])
       \/ /\ t.noted /\ Works
          /\ LET asked == Asked(t.base, t.current) IN
             Task(i, [t EXCEPT !.at = asked.at, !.patch = asked.patch, !.noted = FALSE])
    /\ UNCHANGED <<deployment, machine, batch, window>>

EditRequest(i) ==
    /\ tasks[i].op = "edit"
    /\ \E to \in Ends : Apply(tasks[i], i, to) /\ Task(i, [tasks[i] EXCEPT !.at = to])
    /\ UNCHANGED <<machine, batch, window>>

\* An error is put on top of the file, and the editor opens again.
EditAnswered(i) ==
    LET t == tasks[i] IN
    /\ t.op = "edit"
    /\ \/ t.at \in {"unchanged", "applied"} /\ Done(i, t.at)
       \/ t.at = "error" /\ Task(i, [t EXCEPT !.at = "editor", !.noted = TRUE])
    /\ UNCHANGED <<deployment, machine, batch, window, budget>>

Editing(i) == EditOpens(i) \/ EditAborted(i) \/ EditSaved(i) \/ EditRequest(i) \/ EditAnswered(i)

-----------------------------------------------------------------------------
(* Merges of one field: scale, restart, suspend, cordon; deletion *)

MergePatches == {Nested(Replicas, Leaf(2)), Nested(RestartedAt, Leaf(1))}

Merges(i) ==
    /\ tasks[i].op = "merge" /\ tasks[i].at = "start"
    /\ \/ /\ object # None /\ Works /\ Write(Patched(object, tasks[i].patch), i) /\ Done(i, "applied")
          /\ UNCHANGED revisions
       \/ (Missing \/ Fails) /\ Done(i, "error") /\ UNCHANGED deployment
    /\ UNCHANGED <<machine, batch, window>>

Deletes(i) ==
    /\ tasks[i].op = "delete" /\ tasks[i].at = "start"
    /\ \/ /\ object # None /\ Works /\ object' = None /\ revisions' = [r \in {} |-> None] /\ UNCHANGED version
          /\ raced' = raced \cup Compared /\ Done(i, "applied")
       \/ (Missing \/ Fails) /\ Done(i, "error") /\ UNCHANGED deployment
    /\ UNCHANGED <<machine, batch, window>>

SetsCordon(i) ==
    /\ tasks[i].op = "cordon" /\ tasks[i].at = "start"
    /\ \/ /\ Works /\ Done(i, "applied")
          /\ node' = [cordoned |-> tasks[i].on, lifted |-> IF tasks[i].on THEN node.lifted ELSE DOMAIN tasks]
       \/ Fails /\ Done(i, "error") /\ UNCHANGED node
    /\ UNCHANGED <<deployment, pods, batch, window>>

-----------------------------------------------------------------------------
(* rollout_undo: the deployment, its replica sets, a full replace *)

UndoReads(i) ==
    /\ tasks[i].op = "undo" /\ tasks[i].at = "start"
    /\ \/ object # None /\ Works /\ Task(i, [tasks[i] EXCEPT !.at = "listing", !.read = object])
       \/ (Missing \/ Fails) /\ Done(i, "error")
    /\ UNCHANGED <<deployment, machine, batch, window>>

\* Faulty: the template is merged into the one that is there.
RolledBackMerged(read, template) == Patched(read, Nested(<<"spec", "template">>, template))

RolledBack(read, template) ==
    With(read, "spec", With(ValueAt(read, <<"spec">>), "template", template))

UndoLists(i) ==
    /\ tasks[i].op = "undo" /\ tasks[i].at = "listing"
    /\ \/ /\ tasks[i].revision \in DOMAIN revisions /\ Works
          /\ Task(i, [tasks[i] EXCEPT !.at = "replacing", !.template = revisions[tasks[i].revision]])
       \/ tasks[i].revision \notin DOMAIN revisions /\ Works /\ Done(i, "error")
       \/ Fails /\ Done(i, "error")
    /\ UNCHANGED <<deployment, machine, batch, window>>

\* Faulty: the version that was read is not sent along.
AcceptsAny(doc) == object # None

\* A replace is refused when the version it carries is not the one that is there.
Accepts(doc) == object # None /\ Version(doc) = Version(object)

UndoReplaces(i) ==
    LET t == tasks[i]
        doc == RolledBack(t.read, t.template)
    IN  /\ t.op = "undo" /\ t.at = "replacing"
        /\ \/ Accepts(doc) /\ Works /\ Write(doc, i) /\ Done(i, "applied") /\ UNCHANGED revisions
           \/ ((~Accepts(doc) /\ Works) \/ Fails) /\ Done(i, "error") /\ UNCHANGED deployment
        /\ UNCHANGED <<machine, batch, window>>

Undoing(i) == UndoReads(i) \/ UndoLists(i) \/ UndoReplaces(i)

-----------------------------------------------------------------------------
(* drain_node: cordon, list, evict one after the other *)

DrainCordons(i) ==
    /\ tasks[i].op = "drain" /\ tasks[i].at = "start"
    /\ \/ /\ Works /\ node' = [cordoned |-> TRUE, lifted |-> node.lifted \ {i}]
          /\ Task(i, [tasks[i] EXCEPT !.at = "listing"])
       \/ Fails /\ Done(i, "error") /\ UNCHANGED node
    /\ UNCHANGED <<deployment, pods, batch, window>>

OnNode(p) == pods[p] \in {"running", "terminating"}

\* What is listed is whatever has not ended, pods that are terminating included.
DrainLists(i) ==
    /\ tasks[i].op = "drain" /\ tasks[i].at = "listing"
    /\ \/ Works /\ Task(i, [tasks[i] EXCEPT !.at = "evicting", !.left = {p \in Pods : OnNode(p)}])
       \/ Fails /\ Done(i, "error")
    /\ UNCHANGED <<deployment, machine, batch, window>>

\* Faulty: an eviction the API refuses counts as one.
RefusedCounts(i, p) == Task(i, [tasks[i] EXCEPT !.left = @ \ {p}])

Refused(i, p) == Task(i, [tasks[i] EXCEPT !.left = @ \ {p}, !.failed = @ \cup {p}])

\* A pod is skipped, accepted or refused (by a disruption budget, or because it is
\* gone).  Accepted means that it begins to terminate, or goes on to; nobody waits
\* for its end.
DrainEvicts(i) ==
    /\ tasks[i].op = "drain" /\ tasks[i].at = "evicting"
    /\ \E p \in tasks[i].left :
           \/ p \in Daemons /\ Works /\ Task(i, [tasks[i] EXCEPT !.left = @ \ {p}]) /\ UNCHANGED pods
           \/ /\ p \notin Daemons /\ OnNode(p) /\ Works
              /\ pods' = [pods EXCEPT ![p] = "terminating"] /\ Task(i, [tasks[i] EXCEPT !.left = @ \ {p}])
           \/ /\ p \notin Daemons /\ (Fails \/ (~OnNode(p) /\ Works))
              /\ Refused(i, p) /\ UNCHANGED pods
    /\ UNCHANGED <<deployment, node, batch, window>>

DrainEnds(i) ==
    /\ tasks[i].op = "drain" /\ tasks[i].at = "evicting" /\ tasks[i].left = {} /\ Ended(i, "applied", tasks[i].failed)
    /\ UNCHANGED <<deployment, machine, batch, window, budget>>

Draining(i) == DrainCordons(i) \/ DrainLists(i) \/ DrainEvicts(i) \/ DrainEnds(i)

-----------------------------------------------------------------------------
(* trigger_cronjob: the name of the job is the second of the clock *)

TriggerReads(i) ==
    /\ tasks[i].op = "trigger" /\ tasks[i].at = "start"
    /\ \/ Works /\ Task(i, [tasks[i] EXCEPT !.at = "creating", !.job = clock])
       \/ Fails /\ Done(i, "error")
    /\ UNCHANGED <<deployment, machine, batch, window>>

TriggerCreates(i) ==
    /\ tasks[i].op = "trigger" /\ tasks[i].at = "creating"
    /\ \/ tasks[i].job \notin jobs /\ Works /\ jobs' = jobs \cup {tasks[i].job} /\ Done(i, "applied")
       \/ ((tasks[i].job \in jobs /\ Works) \/ Fails) /\ Done(i, "error") /\ UNCHANGED jobs
    /\ UNCHANGED <<deployment, machine, clock, window>>

-----------------------------------------------------------------------------
(* What the user starts: mutate runs each as a task; an edit suspends the app. *)

Ops ==
    {[op |-> "edit"], [op |-> "delete"], [op |-> "trigger", job |-> 0],
     [op |-> "drain", left |-> {}, failed |-> {}]}
    \cup {[op |-> "merge", patch |-> p] : p \in MergePatches}
    \cup {[op |-> "cordon", on |-> b] : b \in BOOLEAN}
    \cup {[op |-> "undo", revision |-> r, read |-> None, template |-> None] : r \in DOMAIN revisions}

Suspended == \E i \in DOMAIN tasks : tasks[i].op = "edit" /\ tasks[i].at # "done"

Start ==
    /\ Len(tasks) < MaxTasks /\ ~Suspended
    /\ UNCHANGED menu
    /\ \E o \in {op \in Ops : op.op \in menu} :
           tasks' = Append(tasks, [k \in DOMAIN o \cup {"at", "how"} |->
                                     IF k = "at" THEN "start" ELSE IF k = "how" THEN None ELSE o[k]])
    /\ UNCHANGED <<deployment, machine, batch, window, budget>>

Runs(i) ==
    /\ UNCHANGED menu
    /\ \/ Editing(i) \/ Merges(i) \/ Deletes(i) \/ SetsCordon(i) \/ Undoing(i) \/ Draining(i)
       \/ TriggerReads(i) \/ TriggerCreates(i)

-----------------------------------------------------------------------------
(* Everybody else (external) *)

Other == budget.others > 0 /\ budget' = [budget EXCEPT !.others = @ - 1]

OthersWrite ==
    /\ menu \cap {"window", "edit", "undo"} # {} /\ object # None /\ Other
    /\ \E d \in {SetAt(object, Image, Leaf(3)), SetAt(object, Replicas, Leaf(3)),
                  SetAt(object, <<"status">>, Leaf(0))} : d # object /\ Write(d, None)
    /\ UNCHANGED <<revisions, machine, batch, tasks, window>>

Recreated ==
    /\ object = None /\ Other /\ object' = Created(version + 1) /\ version' = version + 1
    /\ revisions' = [r \in {1} |-> Template(object')]
    /\ raced' = raced \cup Compared
    /\ UNCHANGED <<machine, batch, tasks, window>>

\* The controller makes a revision of a template it has none of, and gives an old
\* one that is current again the next number.
RollsOut ==
    /\ "undo" \in menu /\ object # None
    /\ LET newest == CHOOSE r \in DOMAIN revisions : \A s \in DOMAIN revisions : s <= r
           others == {r \in DOMAIN revisions : revisions[r] # Template(object)}
       IN  /\ revisions[newest] # Template(object)
           /\ revisions' = [r \in others \cup {newest + 1} |->
                                IF r \in others THEN revisions[r] ELSE Template(object)]
    /\ UNCHANGED <<object, version, raced, machine, batch, tasks, window, budget>>

Schedules ==
    /\ "drain" \in menu
    /\ \E p \in Pods : /\ pods[p] = "waiting" /\ (~node.cordoned \/ p \in Daemons)
                       /\ pods' = [pods EXCEPT ![p] = "running"]
    /\ UNCHANGED <<deployment, node, batch, tasks, window, budget>>

\* A pod completes, or has shut down.
PodEnds ==
    /\ "drain" \in menu
    /\ \E p \in Pods : OnNode(p) /\ pods' = [pods EXCEPT ![p] = "gone"]
    /\ UNCHANGED <<deployment, node, batch, tasks, window, budget>>

OthersUncordon ==
    /\ "drain" \in menu /\ node.cordoned /\ Other /\ node' = [cordoned |-> FALSE, lifted |-> DOMAIN tasks]
    /\ UNCHANGED <<deployment, pods, batch, tasks, window>>

Ticks ==
    /\ \E i \in DOMAIN tasks : tasks[i].op = "trigger" /\ tasks[i].at # "done"
    /\ clock < MaxTasks /\ clock' = clock + 1
    /\ UNCHANGED <<deployment, machine, jobs, tasks, window, budget>>

Others ==
    /\ UNCHANGED menu
    /\ \/ OthersWrite \/ Recreated \/ RollsOut \/ Schedules \/ PodEnds \/ OthersUncordon \/ Ticks

-----------------------------------------------------------------------------

Init ==
    /\ object = Created(1) /\ version = 1 /\ revisions = [r \in {1} |-> Template(object)]
    /\ node = [cordoned |-> FALSE, lifted |-> {}] /\ pods = [p \in Pods |-> "waiting"]
    /\ jobs = {} /\ clock = 0 /\ tasks = <<>> /\ window = Closed /\ raced = {}
    /\ menu \in Menus
    /\ budget = [typing |-> MaxTyping, others |-> MaxOthers, failures |-> MaxFailures]

Next == Window \/ Start \/ (\E i \in DOMAIN tasks : Runs(i)) \/ Others

Spec == Init /\ [][Next]_vars

-----------------------------------------------------------------------------
(* Properties *)

Edits(e) == e.at = "patching" /\ ~e.dry
Editors == (IF window.open THEN {window} ELSE {}) \cup {tasks[i] : i \in {j \in DOMAIN tasks : tasks[j].op = "edit"}}

\* apply_edit sends "only that" (edit.rs): whatever the server holds by then, an
\* edit changes the paths the user changed, to what the user made of them, and
\* none besides the server's own.
EditsOnlyWhatChanged ==
    [][\A i \in DOMAIN tasks :
          LET t == tasks[i] IN
          t.op = "edit" /\ t.at = "patching" /\ tasks'[i].at = "fetching" =>
              /\ \A p \in {Image, RestartedAt, Replicas} :
                     ValueAt(object', p) =
                         IF ValueAt(t.base, p) # ValueAt(t.current, p) THEN ValueAt(t.current, p)
                         ELSE ValueAt(object, p)
              /\ ValueAt(object', <<"metadata", "name">>) = ValueAt(object, <<"metadata", "name">>)
      ]_vars

\* "conflict: ... changed on the server since you opened the editor": what a
\* patch overwrites is what the user saw, unless it was changed between the
\* comparison and the patch.
NoBlindOverwrite ==
    /\ Edits(window) /\ window.open /\ Win \notin raced /\ object # None =>
           Stale(window.base, object, window.patch) = {}
    /\ \A i \in DOMAIN tasks :
           tasks[i].op = "edit" /\ tasks[i].at = "patching" /\ i \notin raced /\ object # None =>
               Stale(tasks[i].base, object, tasks[i].patch) = {}

\* YamlEditView: the editor says "unsaved" while there is something to send,
\* unless it was typed while a request was under way.
CleanMeansSaved ==
    window.open /\ window.at = "idle" /\ window.draft = window.saved /\ ~window.late =>
        Paths(Stripped(Diff(window.base, window.draft))) = {}

\* rollout_undo: "Uses a full replace so fields removed since that revision are
\* actually removed"; nothing else of the deployment changes, whoever wrote to
\* it since it was read.
UndoRestores ==
    [][\A i \in DOMAIN tasks :
          tasks[i].op = "undo" /\ tasks[i].at = "replacing" /\ tasks'[i].how = "applied" =>
              /\ Template(object') = tasks[i].template
              /\ ValueAt(object', Replicas) = ValueAt(object, Replicas)
      ]_vars

\* drain_node: once a drain has ended without a failed eviction, every pod on the
\* node but those it leaves alone is terminating, unless the node was uncordoned
\* meanwhile: none was scheduled behind the list, or left out of it.
DrainEvictsAll ==
    \A i \in DOMAIN tasks :
        /\ tasks[i].op = "drain" /\ tasks[i].how = "applied"
        /\ tasks[i].failed = {} /\ i \notin node.lifted
        => \A p \in Pods : pods[p] = "running" => p \in Daemons
=============================================================================
