------------------------------ MODULE KubeStore ------------------------------
(***************************************************************************)
(* The kubeconfig store of kxs-core with everything that shares its files: *)
(*   - the save_context and delete_context commands, which hold the store's *)
(*     mutex and run mutate (read the file afresh, edit, back up, replace   *)
(*     atomically, read back) once per store method they call;             *)
(*   - the file watcher, whose callback reloads every file under the mutex; *)
(*   - external programs (kubectl, editors, cloud CLIs) that rewrite the    *)
(*     files at any moment, without any lock;                               *)
(*   - failing file operations, and the death and restart of the program.  *)
(***************************************************************************)
EXTENDS KubeConfig

CONSTANTS Paths,          \* the kubeconfig files
          LoadOrder,      \* the loaded ones, in order of precedence
          HomePath,       \* ~/.kube/config, where new entries go when it is loaded
          InitContents,   \* what a file may hold at the start
          Contents,       \* what an external program may leave in a file
          Specs,          \* the ContextSpecs the form may submit
          DeleteNames,    \* the contexts the user may delete
          BackupKeep,     \* backups kept per file
          MaxExternal, MaxCommands, MaxFailures, MaxCrashes  \* bounds

ASSUME KubeStoreAssumption ==
    /\ LoadOrder \in Seq(Paths) /\ LoadOrder # <<>>
    /\ BackupKeep \in Nat \ {0}
    /\ \A c \in InitContents \cup Contents : c.state \in {"ok", "bad", "none"} /\ IsConfig(c.cfg)
    /\ \A s \in Specs : /\ s.target \in Paths \cup {None}
                        /\ {s.cluster.mode, s.user.mode} \subseteq {"existing", "new", "missing"}
    /\ MaxExternal \in Nat /\ MaxCommands \in Nat
    /\ MaxFailures \in Nat /\ MaxCrashes \in Nat

VARIABLES
    disk,      \* path -> the content of the file: state "ok", "bad" or "none", and cfg
    backups,   \* path -> the backups kept, oldest first
    files,     \* KubeconfigStore.files: the store's memory
    watching,  \* the watcher thread has registered its directories
    dirty,     \* a relevant event waits for the watcher's callback
    phase,     \* what the holder of the store's mutex does; "idle": mutex free
    spec,      \* the ContextSpec being applied
    calls,     \* the store methods the command has still to run
    path, edit, base,   \* mutate: the file, the edit, the content read afresh
    pos,       \* reload: the next file to read
    outcome,   \* what the last command returned: "none", "ok" or "err"
    raced,     \* since which points of mutate an external write hit the file
    missed,    \* history: files whose read at the start or after a write failed, and
               \* which were not reloaded since
    count      \* how often each bounded event has happened

storeVars == <<files, outcome>>
jobVars   == <<phase, spec, calls, path, edit, base, pos>>
vars == <<disk, backups, files, watching, dirty, phase, spec, calls, path, edit,
          base, pos, outcome, raced, missed, count>>

NoContent == [state |-> "none", cfg |-> EmptyConfig]
Written(cfg) == [state |-> "ok", cfg |-> cfg]
NoEdit == [kind |-> "none"]
NoSpec == [orig |-> None]

-----------------------------------------------------------------------------
(* read_file, load_tolerant, default_target *)

\* A file that does not exist reads as an empty config; a malformed one is an error.
Readable(c) == c.state # "bad"

Loaded(p, c) == [path |-> p, cfg |-> c.cfg, error |-> FALSE]

\* failed: the files that cannot be read at all.
LoadTolerant(d, failed) ==
    [i \in DOMAIN LoadOrder |->
        IF Readable(d[LoadOrder[i]]) /\ LoadOrder[i] \notin failed
        THEN Loaded(LoadOrder[i], d[LoadOrder[i]])
        ELSE [path |-> LoadOrder[i], cfg |-> EmptyConfig, error |-> TRUE]]

DefaultTarget == IF \E i \in DOMAIN files : files[i].path = HomePath
                 THEN HomePath ELSE files[1].path

Target(t) == IF t = None THEN DefaultTarget ELSE t

-----------------------------------------------------------------------------
(* apply_context_spec: the checks before the first write, and the methods   *)
(* it then calls.  A spec names its cluster and user either as existing or  *)
(* as new ones, whose fields it carries (data).                              *)

\* A reference to a cluster or a user: mode is "existing", "new" or "missing".
RefRefused(list, ref) == ref.mode = "existing" /\ ~Known(files, list, ref.name)

SpecRefused(s) ==
    \/ RefRefused("clusters", s.cluster)
    \/ RefRefused("users", s.user)
    \/ s.orig = None /\ Known(files, "contexts", s.name)
    \/ s.orig # None /\ ~Known(files, "contexts", s.orig)
    \/ s.orig \notin {None, s.name} /\ Known(files, "contexts", s.name)

\* The call a reference leads to: none for an existing entry, an upsert for a
\* new one, and a failing match arm when the spec names neither.
RefCalls(list, ref) ==
    CASE ref.mode = "existing" -> <<>>
      [] ref.mode = "new"      -> <<[fn |-> "upsert", list |-> list]>>
      [] ref.mode = "missing"  -> <<[fn |-> "unspecified", list |-> list]>>

ContextCalls(s) ==
    IF s.orig = None THEN <<[fn |-> "create"]>>
    ELSE IF s.orig = s.name THEN <<[fn |-> "update"]>>
    ELSE <<[fn |-> "rename"], [fn |-> "update"]>>

CallsOf(s) == RefCalls("clusters", s.cluster) \o RefCalls("users", s.user) \o ContextCalls(s)

-----------------------------------------------------------------------------
(* The store methods: the checks each makes on memory, the file it picks    *)
(* and the edit it hands to mutate.                                          *)

Ref(list) == IF list = "clusters" THEN spec.cluster ELSE spec.user

\* upsert_cluster, upsert_user: an entry found in memory is edited where it
\* is, with the extras memory holds; otherwise a new one goes to the target.
UpsertPath(list) ==
    IF Known(files, list, Ref(list).name)
    THEN FindPath(files, list, Ref(list).name) ELSE Target(spec.target)

\* Faulty: an edit starts from an entry without extras.
UpsertEditBare(list) ==
    LET new == [name |-> Ref(list).name, data |-> Ref(list).data, extras |-> NoExtras]
    IN  IF Known(files, list, new.name) THEN SetEdit(list, new) ELSE AddEdit(list, new)

UpsertEdit(list) ==
    LET new == [name |-> Ref(list).name, data |-> Ref(list).data, extras |-> NoExtras]
    IN  IF Known(files, list, new.name)
        THEN SetEdit(list, [new EXCEPT !.extras = FindEntry(files, list, new.name).extras])
        ELSE AddEdit(list, new)

\* The context entry a spec describes.
ContextEntry(s) == [name |-> s.name, cluster |-> s.cluster.name, user |-> s.user.name]

RefsKnown == Known(files, "clusters", spec.cluster.name) /\ Known(files, "users", spec.user.name)

CallRefused(c) ==
    CASE c.fn = "unspecified" -> TRUE
      [] c.fn = "upsert" -> FALSE
      [] c.fn = "create" -> Known(files, "contexts", spec.name) \/ ~RefsKnown
      [] c.fn = "update" -> ~Known(files, "contexts", spec.name) \/ ~RefsKnown
      [] c.fn = "rename" -> Known(files, "contexts", spec.name) \/ ~Known(files, "contexts", spec.orig)
      [] c.fn = "delete" -> ~Known(files, "contexts", c.name)

CallPath(c) ==
    CASE c.fn = "upsert" -> UpsertPath(c.list)
      [] c.fn = "create" -> Target(spec.target)
      [] c.fn = "update" -> FindPath(files, "contexts", spec.name)
      [] c.fn = "rename" -> FindPath(files, "contexts", spec.orig)
      [] c.fn = "delete" -> FindPath(files, "contexts", c.name)

CallEdit(c) ==
    CASE c.fn = "upsert" -> UpsertEdit(c.list)
      [] c.fn = "create" -> AddEdit("contexts", ContextEntry(spec))
      [] c.fn = "update" -> SetEdit("contexts", ContextEntry(spec))
      [] c.fn = "rename" -> RenameEdit(spec.orig, spec.name)
      [] c.fn = "delete" -> DeleteEdit(c.name)

-----------------------------------------------------------------------------
(* Events with a bound. *)

Events == {"external", "command", "failure", "crash"}

Bound(ev) == CASE ev = "external" -> MaxExternal
               [] ev = "command"  -> MaxCommands
               [] ev = "failure"  -> MaxFailures
               [] ev = "crash"    -> MaxCrashes

Happens(ev) == count[ev] < Bound(ev) /\ count' = [count EXCEPT ![ev] = @ + 1]

\* Whether the reads of some files may fail when all are loaded: one failure.
Failure(failed) == IF failed = {} THEN 0 ELSE 1

\* A changed file reaches the watcher only once it watches.
Notify == dirty' = (dirty \/ watching)

-----------------------------------------------------------------------------
Init ==
    /\ disk \in [Paths -> InitContents]
    /\ backups = [p \in Paths |-> <<>>]
    /\ missed \in SUBSET Paths /\ files = LoadTolerant(disk, missed)
    /\ watching = FALSE /\ dirty = FALSE
    /\ phase = "idle" /\ spec = NoSpec /\ calls = <<>>
    /\ path = LoadOrder[1] /\ edit = NoEdit /\ base = NoContent /\ pos = 1
    /\ outcome = "none" /\ raced = {}
    /\ count = [ev \in Events |-> IF ev = "failure" THEN Failure(missed) ELSE 0]
    /\ count["failure"] <= MaxFailures

\* The command returns; the next one starts from a clean slate.
Return(result) ==
    /\ phase' = "idle" /\ outcome' = result
    /\ calls' = <<>> /\ spec' = NoSpec
    /\ edit' = NoEdit /\ base' = NoContent /\ raced' = {} /\ pos' = 1
    /\ UNCHANGED path

Accept(s, c) ==
    /\ phase' = "call" /\ spec' = s /\ calls' = c
    /\ UNCHANGED <<path, edit, base, pos, raced, outcome>>

SaveContext(s) ==
    /\ phase = "idle" /\ Happens("command")
    /\ IF SpecRefused(s) THEN Return("err") ELSE Accept(s, CallsOf(s))
    /\ UNCHANGED <<disk, backups, files, watching, dirty, missed>>

DeleteContext(n) ==
    /\ phase = "idle" /\ Happens("command")
    /\ Accept(NoSpec, <<[fn |-> "delete", name |-> n]>>)
    /\ UNCHANGED <<disk, backups, files, watching, dirty, missed>>

\* The next store method checks memory and picks its file.
StartCall ==
    /\ phase = "call"
    /\ IF CallRefused(Head(calls)) THEN Return("err")
       ELSE /\ phase' = "read" /\ path' = CallPath(Head(calls)) /\ edit' = CallEdit(Head(calls))
            /\ UNCHANGED <<spec, calls, base, pos, raced, outcome>>
    /\ UNCHANGED <<disk, backups, files, watching, dirty, missed, count>>

\* Faulty: the edit starts from what memory holds.
Remembered ==
    IF \E i \in DOMAIN files : files[i].path = path
    THEN Written(files[CHOOSE i \in DOMAIN files : files[i].path = path].cfg) ELSE disk[path]

\* The content an edit starts from.
Fresh == disk[path]

\* mutate reads the file afresh and applies the edit to what it read.
ReadFresh ==
    /\ phase = "read"
    /\ IF ~Readable(Fresh) \/ Refuses(Fresh.cfg, edit) THEN Return("err")
       ELSE /\ phase' = "backup" /\ base' = Fresh /\ raced' = {}
            /\ UNCHANGED <<spec, calls, path, edit, pos, outcome>>
    /\ UNCHANGED <<disk, backups, files, watching, dirty, missed, count>>

\* Faulty: the newest backups are removed.
KeptOldest(s) == SubSeq(s, 1, IF Len(s) > BackupKeep THEN BackupKeep ELSE Len(s))

\* Oldest first; rotate removes from the front.
Kept(s) == IF Len(s) > BackupKeep THEN SubSeq(s, Len(s) - BackupKeep + 1, Len(s)) ELSE s

Backup ==
    /\ phase = "backup"
    /\ phase' = "persist" /\ raced' = raced \ {"backup"}
    /\ IF disk[path].state = "none" THEN UNCHANGED backups
       ELSE backups' = [backups EXCEPT ![path] = Kept(Append(@, disk[path]))]
    /\ UNCHANGED <<disk, files, watching, dirty, spec, calls, path, edit, base, pos, outcome,
                   missed, count>>

\* The temporary file replaces the old one in a single rename.
Persist ==
    /\ phase = "persist"
    /\ phase' = "reread"
    /\ disk' = [disk EXCEPT ![path] = Written(Edited(base.cfg, edit))]
    /\ Notify
    /\ UNCHANGED <<backups, files, watching, spec, calls, path, edit, base, pos, outcome, raced,
                   missed, count>>

\* The fresh read and any of the file operations of write_file may fail.
FileFails ==
    /\ phase \in {"read", "backup", "persist"} /\ Happens("failure")
    /\ Return("err")
    /\ UNCHANGED <<disk, backups, files, watching, dirty, missed>>

\* Faulty: memory is not refreshed after a write.
NotRefreshed(f) == files

\* files with f in place of the entry of the same path, or added at the end.
Refreshed(f) ==
    IF \E i \in DOMAIN files : files[i].path = f.path
    THEN LET first == CHOOSE i \in DOMAIN files :
                          /\ files[i].path = f.path
                          /\ \A j \in DOMAIN files : files[j].path = f.path => i <= j
         IN  [files EXCEPT ![first] = f]
    ELSE Append(files, f)

\* The file is written, but memory keeps what it had of it.
MissReadBack == Return("err") /\ missed' = missed \cup {path} /\ UNCHANGED files

Reread ==
    /\ phase = "reread"
    /\ IF ~Readable(disk[path]) THEN MissReadBack
       ELSE /\ files' = Refreshed(Loaded(path, disk[path])) /\ UNCHANGED missed
            /\ IF Len(calls) = 1 THEN Return("ok")
               ELSE /\ phase' = "call" /\ calls' = Tail(calls)
                    /\ edit' = NoEdit /\ base' = NoContent /\ raced' = {}
                    /\ UNCHANGED <<spec, path, pos, outcome>>
    /\ UNCHANGED <<disk, backups, watching, dirty, count>>

\* The read of the file that was just replaced fails.
RereadFails ==
    /\ phase = "reread" /\ Happens("failure")
    /\ MissReadBack
    /\ UNCHANGED <<disk, backups, watching, dirty>>

-----------------------------------------------------------------------------
(* The watcher *)

StartWatcher ==
    /\ ~watching /\ watching' = TRUE
    /\ UNCHANGED <<disk, backups, files, dirty, jobVars, outcome, raced, missed, count>>

\* The event queue is drained before the callback takes the mutex.
StartReload ==
    /\ phase = "idle" /\ dirty
    /\ dirty' = FALSE /\ phase' = "reload" /\ pos' = 1
    /\ UNCHANGED <<disk, backups, files, watching, spec, calls, path, edit, base, outcome, raced,
                   missed, count>>

\* Faulty: a file that no longer parses counts as empty.
ReloadedEmpty(f) == IF Readable(disk[f.path]) THEN Loaded(f.path, disk[f.path])
                    ELSE [f EXCEPT !.cfg = EmptyConfig, !.error = TRUE]

\* A file that no longer parses keeps the last good state and is marked.
Reloaded(f) == IF Readable(disk[f.path]) THEN Loaded(f.path, disk[f.path])
               ELSE [f EXCEPT !.error = TRUE]

\* What reload leaves in the place of the file it is at, and where it goes on.
Reload(f) ==
    /\ phase = "reload"
    /\ files' = [files EXCEPT ![pos] = f]
    /\ IF pos = Len(files) THEN phase' = "idle" /\ pos' = 1
       ELSE phase' = phase /\ pos' = pos + 1
    /\ UNCHANGED <<disk, backups, watching, spec, calls, path, edit, base, outcome, raced>>

\* The files that are still missed once f is read, or found malformed.
StillMissed(f) == IF Readable(disk[f.path]) THEN missed \ {f.path} ELSE missed

\* Faulty: events that arrive during the reload are dropped when it ends.
ReloadFileDropping ==
    /\ Reload(Reloaded(files[pos])) /\ missed' = StillMissed(files[pos])
    /\ dirty' = (dirty /\ pos # Len(files))
    /\ UNCHANGED count

ReloadFile ==
    /\ Reload(Reloaded(files[pos])) /\ missed' = StillMissed(files[pos])
    /\ UNCHANGED <<dirty, count>>

\* The file cannot be read: it keeps the last good state as well.
ReloadFails ==
    /\ Happens("failure")
    /\ Reload([files[pos] EXCEPT !.error = TRUE])
    /\ UNCHANGED <<dirty, missed>>

-----------------------------------------------------------------------------
(* The environment *)

ExternalWrite(p, c) ==
    /\ Happens("external") /\ c # disk[p]
    /\ disk' = [disk EXCEPT ![p] = c]
    /\ Notify
    /\ raced' = IF phase \in {"backup", "persist"} /\ p = path
                THEN {"read", "backup"} ELSE raced
    /\ UNCHANGED <<backups, files, watching, jobVars, outcome, missed>>

\* The program dies between two steps and starts again.
Crash ==
    \E failed \in SUBSET Paths :
        /\ count["crash"] < MaxCrashes /\ count["failure"] + Failure(failed) <= MaxFailures
        /\ count' = [count EXCEPT !["crash"] = @ + 1, !["failure"] = @ + Failure(failed)]
        /\ files' = LoadTolerant(disk, failed) /\ missed' = failed
        /\ watching' = FALSE /\ dirty' = FALSE
        /\ Return("none")
        /\ UNCHANGED <<disk, backups>>

-----------------------------------------------------------------------------
Mutate == StartCall \/ ReadFresh \/ Backup \/ Persist \/ Reread
Watch  == StartWatcher \/ StartReload \/ ReloadFile

Next ==
    \/ \E s \in Specs : SaveContext(s)
    \/ \E n \in DeleteNames : DeleteContext(n)
    \/ StartCall
    \/ ReadFresh
    \/ Backup
    \/ Persist
    \/ FileFails
    \/ Reread
    \/ RereadFails
    \/ StartWatcher
    \/ StartReload
    \/ ReloadFile
    \/ ReloadFails
    \/ \E p \in Paths, c \in Contents : ExternalWrite(p, c)
    \/ Crash

Spec == Init /\ [][Next]_vars

\* The holder of the mutex runs to the end; the watcher thread is scheduled.
FairSpec == Spec /\ WF_vars(Mutate) /\ WF_vars(Watch)
-----------------------------------------------------------------------------
(* Properties *)

Phases == {"idle", "call", "read", "backup", "persist", "reread", "reload"}

IsSeq(s) == Len(s) \in Nat /\ s = [i \in 1..Len(s) |-> s[i]]

\* A call belongs to the spec being applied, or deletes a context.
CallOK(c) ==
    \/ c.fn = "delete"
    \/ spec \in Specs /\ c.fn \in {"create", "update", "rename", "unspecified"}
    \/ spec \in Specs /\ c.fn = "upsert" /\ c.list \in {"clusters", "users"}

\* What a running command has prepared: the edit of its call, and once the file
\* is read, a content the edit applies to.
EditOK(e) == \/ e.kind \in {"rename", "delete"}
             \/ e.kind \in {"add", "set"} /\ e.list \in Lists
                /\ "name" \in DOMAIN e.entry /\ e.entry.name = e.name

\* What the files hold parses to configs, and rotate bounds the backups.
FilesOK ==
    /\ DOMAIN disk = Paths /\ DOMAIN backups = Paths
    /\ \A p \in Paths : /\ disk[p].state \in {"ok", "bad", "none"} /\ IsConfig(disk[p].cfg)
                        /\ IsSeq(backups[p]) /\ Len(backups[p]) <= BackupKeep

MemoryOK ==
    /\ IsSeq(files) /\ pos \in DOMAIN files
    /\ \A i \in DOMAIN files : files[i].path \in Paths /\ IsConfig(files[i].cfg)

\* A running command has calls, an edit and a content the edit applies to.
CommandOK ==
    /\ path \in Paths /\ phase \in Phases
    /\ IsSeq(calls) /\ \A i \in DOMAIN calls : CallOK(calls[i])
    /\ (calls # <<>>) <=> phase \in Phases \ {"idle", "reload"}
    /\ phase \in {"read", "backup", "persist"} => EditOK(edit)
    /\ phase \in {"backup", "persist"} => IsConfig(base.cfg) /\ ~Refuses(base.cfg, edit)

FlagsOK ==
    /\ outcome \in {"none", "ok", "err"} /\ raced \subseteq {"read", "backup"}
    /\ watching \in BOOLEAN /\ dirty \in BOOLEAN /\ (dirty => watching) /\ missed \subseteq Paths

\* Every variable has the shape the store gives it.
TypeOK == FilesOK /\ MemoryOK /\ CommandOK /\ FlagsOK

\* mutate edits the file as it is on disk, not as memory remembers it: until
\* an external write falls between the fresh read and the rename, the file
\* still holds exactly what the edit was computed from, so the rename loses
\* no external change.
EditsBuildOnLatest ==
    phase \in {"backup", "persist"} /\ "read" \notin raced => disk[path] = base

\* write_file overwrites only what the newest backup holds: an external change
\* is lost without a copy only when it falls between the backup and the rename.
OverwrittenIsBackedUp ==
    phase = "persist" /\ "backup" \notin raced /\ disk[path].state # "none" =>
        /\ backups[path] # <<>>
        /\ backups[path][Len(backups[path])] = disk[path]

Unique(list) == \A i, j \in DOMAIN list : list[i].name = list[j].name => i = j

\* No edit brings a second entry of one name into a file: the closures look
\* for the name in the fresh file and do not rely on the check made on memory.
NoDuplicateAdded ==
    phase \in {"backup", "persist"} =>
        \A l \in Lists : Unique(base.cfg[l]) => Unique(Edited(base.cfg, edit)[l])

Concerns(l, entry) ==
    entry.name = edit.name /\ (edit.kind \in {"rename", "delete"} \/ edit.list = l)

\* An edit leaves every other entry of the file, and a current-context that
\* names another context, as they were.
EditIsLocal ==
    phase = "persist" =>
        LET new == Edited(base.cfg, edit) IN
        /\ \A l \in Lists : \A i \in DOMAIN base.cfg[l] :
              Concerns(l, base.cfg[l][i]) \/ (i \in DOMAIN new[l] /\ new[l][i] = base.cfg[l][i])
        /\ base.cfg.current # edit.name => new.current = base.cfg.current

\* The merged view the launch screen lists (contexts) and the lookups the
\* commands use (find_context) agree: one row per context known to any file,
\* with the entry and the file a lookup finds.
MergedViewAgrees ==
    LET view == Contexts(files)
        names == UNION {{files[i].cfg.contexts[j].name : j \in DOMAIN files[i].cfg.contexts} :
                            i \in DOMAIN files}
    IN  /\ Len(view) = Cardinality(names)
        /\ \A n \in names : \E k \in DOMAIN view :
              view[k] = Summary(FindEntry(files, "contexts", n), FindPath(files, "contexts", n))

\* While the program runs, what memory holds of a file changes only to what
\* the file now holds and parses to: a malformed file never empties the list.
LastGoodKept ==
    [][count'["crash"] = count["crash"] =>
        \A i \in DOMAIN files : files'[i].cfg # files[i].cfg =>
            Readable(disk[files[i].path]) /\ files'[i].cfg = disk[files[i].path].cfg]_vars

InStep(f) == Readable(disk[f.path]) => f.cfg = disk[f.path].cfg

\* With no other writer, memory and disk agree whenever the mutex is free, also
\* after a command that failed halfway, but for the files that could not be read
\* at the start or read back after the rename (the second read_file of mutate):
\* of them, and of no others, memory keeps what it had until they are reloaded.
MemoryMatchesDisk ==
    phase = "idle" /\ count["external"] = 0 =>
        \A i \in DOMAIN files : InStep(files[i]) \/ files[i].path \in missed

\* Nobody else has written, and memory has read back all that was written.
Undisturbed == count["external"] = 0 /\ missed = {}

\* A save reported as done is what the merged view shows: the context resolves
\* to the cluster and user asked for, and both resolve.
SaveIsVisible ==
    [][phase = "reread" /\ phase' = "idle" /\ outcome' = "ok" /\ spec # NoSpec /\ Undisturbed =>
        /\ Known(files', "contexts", spec.name)
        /\ FindEntry(files', "contexts", spec.name) = ContextEntry(spec)
        /\ Known(files', "clusters", spec.cluster.name)
        /\ Known(files', "users", spec.user.name)]_vars

\* The step in which a save fails, other than by a failing file operation.
SaveFails == phase # "idle" /\ phase' = "idle" /\ outcome' = "err" /\ spec # NoSpec /\ count' = count

\* The checks apply_context_spec makes before its first write leave two things
\* that can end a save after it has written a part: a spec that names no user,
\* and a file that cannot be parsed when a later call comes to it.  Nothing
\* else does: neither a missing cluster, nor a name that is taken or unknown,
\* whatever the files hold and share.
FailedSaveWroteNothing ==
    [][SaveFails /\ Undisturbed =>
         calls = CallsOf(spec) \/ spec.user.mode = "missing" \/ ~Readable(disk[path])]_vars

\* A save is done as a whole or, but for those two cases and failing file
\* operations, not begun.
SavesAreWhole == SaveIsVisible /\ FailedSaveWroteNothing

\* What the comment in apply_context_spec says: no disk mutation happens before
\* all checks pass.
ChecksComeFirst == [][SaveFails /\ Undisturbed => calls = CallsOf(spec)]_vars

\* upsert_cluster and upsert_user keep the fields kxs does not understand as
\* they are in the file they rewrite.
ExtrasPreserved ==
    phase = "persist" /\ edit.kind = "set" /\ edit.list # "contexts" =>
        edit.entry.extras = LastNamed(base.cfg[edit.list], edit.name).extras

\* They do so at least when memory and the file agree as the edit is made.
ExtrasPreservedWhenSynced ==
    (\E i \in DOMAIN files : files[i].path = path /\ files[i].cfg = base.cfg) => ExtrasPreserved

\* Renaming the context that is the merged current-context does not leave the
\* current-context naming a context that no file has.
CurrentFollowsRename ==
    [][phase = "reread" /\ edit.kind = "rename" /\ phase' # "reread"
       /\ CurrentContext(files) = edit.name =>
          Known(files', "contexts", CurrentContext(files'))]_vars

\* A change the watcher has seen reaches memory: once the writers pause, every
\* file that parses is in memory as it is on disk, or is marked as one that
\* could not be read.
SeenChangesAreLoaded == dirty ~> \A i \in DOMAIN files : InStep(files[i]) \/ files[i].error
=============================================================================
