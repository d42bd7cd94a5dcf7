----------------------------- MODULE KubeConfig -----------------------------
(***************************************************************************)
(* The data of kxs-core's kubeconfig store: what one file holds, the edits *)
(* KubeconfigStore makes to a file, and the merged view over all files.    *)
(*                                                                         *)
(* A list of the YAML file (contexts, clusters, users) is a function from  *)
(* positions to entries; only the order of the positions matters, so a     *)
(* removed entry leaves a gap.  A cluster or user entry carries its name,  *)
(* the data kxs understands and the extras it must preserve unread.        *)
(***************************************************************************)
EXTENDS Naturals, SequencesExt, FiniteSets

CONSTANTS None,      \* an absent optional value
          NoExtras   \* an entry without unknown fields

Lists == {"contexts", "clusters", "users"}

EmptyConfig == [contexts |-> <<>>, clusters |-> <<>>, users |-> <<>>, current |-> None]

IsList(list) ==
    /\ DOMAIN list \subseteq Nat \ {0} /\ IsFiniteSet(DOMAIN list)
    /\ \A i \in DOMAIN list : "name" \in DOMAIN list[i]

IsConfig(c) == DOMAIN c = Lists \cup {"current"} /\ \A l \in Lists : IsList(c[l])

Slots(list, n) == {i \in DOMAIN list : list[i].name = n}

Has(list, n) == Slots(list, n) # {}

Highest(S) == CHOOSE i \in S : \A j \in S \ {i} : j < i

\* Faulty: the first duplicate wins.
FirstNamed(list, n) == list[CHOOSE i \in Slots(list, n) : \A j \in Slots(list, n) : i <= j]

\* Within a file the last duplicate wins.
LastNamed(list, n) == list[Highest(Slots(list, n))]

-----------------------------------------------------------------------------
(* Edits: what the closures given to mutate do to one file. *)

\* Faulty: the new entry takes the place of the last one.
PushOver(list, entry) ==
    LET end == IF DOMAIN list = {} THEN 1 ELSE Highest(DOMAIN list)
    IN  [i \in DOMAIN list \cup {end} |-> IF i = end THEN entry ELSE list[i]]

Push(list, entry) ==
    LET end == IF DOMAIN list = {} THEN 1 ELSE Highest(DOMAIN list) + 1
    IN  [i \in DOMAIN list \cup {end} |-> IF i = end THEN entry ELSE list[i]]

\* Faulty: the first duplicate is replaced.
ReplaceFirst(list, n, entry) ==
    [list EXCEPT ![CHOOSE i \in Slots(list, n) : \A j \in Slots(list, n) : i <= j] = entry]

ReplaceLast(list, n, entry) == [list EXCEPT ![Highest(Slots(list, n))] = entry]

Without(list, n) == Restrict(list, DOMAIN list \ Slots(list, n))

Moved(current, old, new) == IF current = old THEN new ELSE current

AddEdit(list, entry) == [kind |-> "add", list |-> list, name |-> entry.name, entry |-> entry]
SetEdit(list, entry) == [kind |-> "set", list |-> list, name |-> entry.name, entry |-> entry]
RenameEdit(old, new) == [kind |-> "rename", name |-> old, new |-> new]
DeleteEdit(n)        == [kind |-> "delete", name |-> n]

\* Faulty: the name is not looked for again in the fresh file.
RefusesUnknownOnly(cfg, e) ==
    \/ e.kind = "set" /\ ~Has(cfg[e.list], e.name)
    \/ e.kind = "rename" /\ ~Has(cfg.contexts, e.name)

\* The closure returns an error: the file on disk no longer allows the edit.
Refuses(cfg, e) ==
    \/ e.kind = "add" /\ Has(cfg[e.list], e.name)
    \/ e.kind = "set" /\ ~Has(cfg[e.list], e.name)
    \/ e.kind = "rename" /\ (Has(cfg.contexts, e.new) \/ ~Has(cfg.contexts, e.name))

Renamed(cfg, old, new) ==
    [cfg EXCEPT !.contexts = ReplaceLast(@, old, [LastNamed(@, old) EXCEPT !.name = new]),
                !.current  = Moved(@, old, new)]

Deleted(cfg, n) ==
    [cfg EXCEPT !.contexts = Without(@, n), !.current = Moved(@, n, None)]

Edited(cfg, e) ==
    CASE e.kind = "add"    -> [cfg EXCEPT ![e.list] = Push(@, e.entry)]
      [] e.kind = "set"    -> [cfg EXCEPT ![e.list] = ReplaceLast(@, e.name, e.entry)]
      [] e.kind = "rename" -> Renamed(cfg, e.name, e.new)
      [] e.kind = "delete" -> Deleted(cfg, e.name)

-----------------------------------------------------------------------------
(* The merged view.  files is the store's sequence of loaded files, each a  *)
(* record with the fields path and cfg; the first file that has an entry    *)
(* wins.                                                                    *)

Holders(files, list, n) == {i \in DOMAIN files : Has(files[i].cfg[list], n)}

Known(files, list, n) == Holders(files, list, n) # {}

FirstHolder(files, list, n) ==
    CHOOSE i \in Holders(files, list, n) : \A j \in Holders(files, list, n) : i <= j

FindPath(files, list, n) == files[FirstHolder(files, list, n)].path

FindEntry(files, list, n) == LastNamed(files[FirstHolder(files, list, n)].cfg[list], n)

CurrentContext(files) ==
    LET with == {i \in DOMAIN files : files[i].cfg.current # None}
    IN  IF with = {} THEN None
        ELSE files[CHOOSE i \in with : \A j \in with : i <= j].cfg.current

Summary(entry, path) == [entry |-> entry, source |-> path]

Bare == [out |-> <<>>, claimed |-> {}, slots |-> <<>>]

\* One entry of contexts(): a name that earlier files claimed is skipped, a
\* duplicate within the file overwrites the row its first occurrence took.
Place(m, entry, path) ==
    LET row == Summary(entry, path)
        n == entry.name
    IN  IF n \in m.claimed THEN m
        ELSE IF n \in DOMAIN m.slots THEN [m EXCEPT !.out = [@ EXCEPT ![m.slots[n]] = row]]
        ELSE [m EXCEPT !.out = Append(@, row),
                       !.slots = [x \in DOMAIN @ \cup {n} |-> IF x = n THEN Len(m.out) + 1 ELSE @[x]]]

LastPos(list) == IF DOMAIN list = {} THEN 0 ELSE Highest(DOMAIN list)

\* What is merged after each position of a file's contexts.
Placed(m, file) ==
    LET list == file.cfg.contexts
        placed[i \in 0..LastPos(list)] ==
            IF i = 0 THEN [m EXCEPT !.slots = <<>>]
            ELSE IF i \in DOMAIN list THEN Place(placed[i - 1], list[i], file.path)
            ELSE placed[i - 1]
    IN  placed

MergeFile(m, file) ==
    LET new == Placed(m, file)[LastPos(file.cfg.contexts)]
    IN  [new EXCEPT !.claimed = @ \cup DOMAIN new.slots]

\* What is merged after each file.
Merged(files) ==
    LET merged[i \in 0..Len(files)] == IF i = 0 THEN Bare ELSE MergeFile(merged[i - 1], files[i])
    IN  merged

Contexts(files) == Merged(files)[Len(files)].out
=============================================================================
