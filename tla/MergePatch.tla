------------------------------ MODULE MergePatch ------------------------------
(***************************************************************************)
(* The documents of the editors, and the patch kxs sends for an edit        *)
(* (RFC 7386): what merge_patch_diff makes of a base and an edit, which      *)
(* paths it touches, and what a server makes of it.                          *)
(***************************************************************************)
LOCAL INSTANCE Naturals
LOCAL INSTANCE Sequences
LOCAL INSTANCE FiniteSets

CONSTANT MaxDepth  \* bound on the depth of a document: what is deeper counts as a leaf

ASSUME MergePatchAssumption == MaxDepth \in Nat \ {0}

\* A value is a leaf (a scalar or an array, which is replaced as a whole) or an object.
Leaf(v) == [leaf |-> v]
Obj(m)  == [fields |-> m]
IsObj(v) == "fields" \in DOMAIN v
Null == [null |-> TRUE]
Absent == [absent |-> TRUE]
EmptyObj == Obj([k \in {} |-> Null])
Keys(v) == IF IsObj(v) THEN DOMAIN v.fields ELSE {}

\* value_at
ValueAt(v, path) ==
    LET at[n \in 0..Len(path)] ==
            IF n = 0 THEN v
            ELSE LET parent == at[n - 1]
                 IN  IF path[n] \in Keys(parent) THEN parent.fields[path[n]] ELSE Absent
    IN  at[Len(path)]

\* The values of a document, each with its depth
Values(v) ==
    LET at[n \in 0..MaxDepth] ==
            IF n = 0 THEN {v} ELSE LET above == at[n - 1] IN UNION {{x.fields[k] : k \in Keys(x)} : x \in above}
    IN  at

\* The values of two documents, pair by pair of one depth
Pairs(v, w) ==
    LET vs == Values(v)
        ws == Values(w)
    IN  UNION {{n} \X vs[n] \X ws[n] : n \in 0..MaxDepth}

\* Faulty: a key the edit dropped is not in the patch.
DiffOfShallow(b, e, sub) ==
    IF ~IsObj(b) \/ ~IsObj(e) THEN e
    ELSE Obj([k \in {j \in Keys(e) : j \in Keys(b) => b.fields[j] # e.fields[j]} |->
                 IF k \in Keys(b) THEN sub[k] ELSE e.fields[k]])

\* What merge_patch_diff makes of two values, sub of the fields they share
DiffOf(b, e, sub) ==
    IF ~IsObj(b) \/ ~IsObj(e) THEN e
    ELSE LET both == Keys(b) \cap Keys(e)
             vacuous(k) == sub[k] = EmptyObj /\ IsObj(b.fields[k])
             changed == {k \in both : b.fields[k] # e.fields[k] /\ ~vacuous(k)}
         IN  Obj([k \in changed \cup ((Keys(b) \cup Keys(e)) \ both) |->
                     IF k \notin Keys(e) THEN Null
                     ELSE IF k \notin Keys(b) THEN e.fields[k] ELSE sub[k]])

\* merge_patch_diff
Diff(base, edited) ==
    LET diff[at \in Pairs(base, edited)] ==
            LET n == at[1]
                b == at[2]
                e == at[3]
            IN  IF n = MaxDepth THEN e
                ELSE DiffOf(b, e, [k \in Keys(b) \cap Keys(e) |-> diff[<<n + 1, b.fields[k], e.fields[k]>>]])
    IN  DiffOf(base, edited, [k \in Keys(base) \cap Keys(edited) |-> diff[<<1, base.fields[k], edited.fields[k]>>]])

\* patch_paths: the paths of the leaves; an empty object is one, unless it is all there is
Paths(patch) ==
    LET values == Values(patch)
        paths[at \in UNION {{n} \X values[n] : n \in 0..MaxDepth}] ==
            LET n == at[1]
                v == at[2]
            IN  IF n = MaxDepth \/ Keys(v) = {} THEN {<<>>}
                ELSE UNION {{<<k>> \o p : p \in paths[<<n + 1, v.fields[k]>>]} : k \in Keys(v)}
    IN  IF patch = EmptyObj THEN {} ELSE paths[<<0, patch>>]

Without(v, keys) == Obj([k \in Keys(v) \ keys |-> v.fields[k]])

\* strip_server_fields: status, and what the server keeps in the metadata
ServerOwned == {"resourceVersion", "uid", "generation", "creationTimestamp", "managedFields"}
Stripped(patch) ==
    IF ~IsObj(patch) THEN patch
    ELSE LET p == Without(patch, {"status"}) IN
         IF "metadata" \notin Keys(p) \/ ~IsObj(p.fields["metadata"]) THEN p
         ELSE LET md == Without(p.fields["metadata"], ServerOwned) IN
              IF Keys(md) = {} THEN Without(p, {"metadata"})
              ELSE Obj([p.fields EXCEPT !["metadata"] = md])

\* identity_of
Identity(v) == [p \in {<<"apiVersion">>, <<"kind">>, <<"metadata", "name">>, <<"metadata", "namespace">>} |->
                   ValueAt(v, p)]

\* The paths of the edit that the server changed since the base was read
Stale(base, latest, patch) == {p \in Paths(patch) : ValueAt(base, p) # ValueAt(latest, p)}

-----------------------------------------------------------------------------

\* MergePatch of RFC 7386, as the server does it.
Patched(target, patch) ==
    LET targets == Values(target)
        patches == Values(patch)
        done[at \in UNION {{n} \X (targets[n] \cup {EmptyObj}) \X patches[n] : n \in 0..MaxDepth}] ==
            LET n == at[1]
                t == at[2]
                q == at[3]
                removed == {k \in Keys(q) : q.fields[k] = Null}
                old(k) == IF k \in Keys(t) THEN t.fields[k] ELSE EmptyObj
            IN  IF n = MaxDepth \/ ~IsObj(q) THEN q
                ELSE Obj([k \in (Keys(t) \cup Keys(q)) \ removed |->
                             IF k \in Keys(q) THEN done[<<n + 1, old(k), q.fields[k]>>] ELSE t.fields[k]])
    IN  done[<<0, target, patch>>]
=============================================================================
