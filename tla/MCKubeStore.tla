----------------------------- MODULE MCKubeStore -----------------------------
(* Instances of KubeStore for TLC: two files, two context names, one cluster  *)
(* and one user, in the states that matter for precedence and for races.      *)
EXTENDS KubeStore

CONSTANTS p1, p2, a, b, c, d, u, X1, X2

VARIABLE menu   \* which of the two kinds of behaviour below this one is

TwoFiles == <<p1, p2>>

Entry(n, x) == [name |-> n, data |-> "old", extras |-> x]
Ctx(n)      == [name |-> n, cluster |-> c, user |-> u]
Stray(n)    == [name |-> n, cluster |-> d, user |-> u]  \* its cluster is not defined

Conf(contexts, x, current) ==
    Written([contexts |-> contexts, clusters |-> <<Entry(c, x)>>, users |-> <<Entry(u, NoExtras)>>,
             current |-> current])
OnlyContexts(contexts, current) ==
    Written([EmptyConfig EXCEPT !.contexts = contexts, !.current = current])

Malformed == [state |-> "bad", cfg |-> EmptyConfig]

\* A file with everything, one with contexts only, one that does not exist.
Plain == {Conf(<<Ctx(a)>>, X1, a), OnlyContexts(<<Ctx(b)>>, None), NoContent}

\* Duplicates within a file, names shared across files, current-context set
\* in either file.
Rich == {Conf(<<Ctx(a)>>, X1, None), Conf(<<Stray(a), Ctx(b), Stray(a)>>, X1, a),
         OnlyContexts(<<Ctx(b), Ctx(b)>>, b), OnlyContexts(<<Ctx(a)>>, a),
         OnlyContexts(<<>>, a), Malformed, NoContent}

\* What an external program leaves: a new context, changed extras, a broken
\* file, no file.
Outside == {Conf(<<Ctx(a), Ctx(b)>>, X1, b), Conf(<<Ctx(a)>>, X2, a), Malformed, NoContent}

Old(n) == [mode |-> "existing", name |-> n]
New(n) == [mode |-> "new", name |-> n, data |-> "new"]
NoRef  == [mode |-> "missing", name |-> None]
MkSpec(orig, name, cl, us, target) ==
    [orig |-> orig, name |-> name, cluster |-> cl, user |-> us, target |-> target]

\* The form: create with existing or new references, edit with or without a
\* new name.
FormSpecs ==
    {MkSpec(None, b, Old(c), New(u), t) : t \in {None, p2}}
    \cup {MkSpec(None, b, New(d), Old(u), p2), MkSpec(a, a, New(c), New(u), None)}
    \cup {MkSpec(a, b, New(c), Old(u), None), MkSpec(b, a, Old(c), Old(u), None)}

\* A cluster that may be in another file than the rest, and specs that name no
\* cluster or no user.
CrossFile    == {MkSpec(None, b, New(c), New(d), p2)}
PartialSpecs ==
    CrossFile \cup {MkSpec(None, b, New(d), NoRef, p1), MkSpec(None, b, NoRef, New(d), p1)}

\* A few of them, for the behaviours with external writers.
RaceSpecs == {MkSpec(a, b, New(c), Old(u), None), MkSpec(None, b, Old(c), Old(u), p1)}

MCContents == Plain \cup Rich
MCSpecs    == FormSpecs \cup PartialSpecs \cup RaceSpecs

-----------------------------------------------------------------------------
(* Two menus share the bounds of an instance: sequences of commands without  *)
(* another writer, before the watcher starts, over files with duplicates and  *)
(* shared names; and a command racing external writers, the watcher and the   *)
(* death of the program.                                                      *)

Deletes(n) == \E i \in DOMAIN calls' : calls'[i].fn = "delete" /\ calls'[i].name = n

Within ==
    CASE menu = "commands" -> /\ count'["external"] = 0 /\ count'["crash"] = 0 /\ ~watching'
                              /\ spec' \in FormSpecs \cup PartialSpecs \cup {NoSpec}
      [] menu = "races"    -> /\ count'["command"] <= 1 /\ ~Deletes(b)
                              /\ spec' \in RaceSpecs \cup {NoSpec}

MCInit ==
    /\ Init /\ menu \in {"commands", "races"}
    /\ disk \in [Paths -> IF menu = "commands" THEN Rich ELSE Plain]

MCStep(A) == A /\ Within /\ UNCHANGED menu
MCNext == MCStep(Next)

MCSpec ==
    /\ MCInit /\ [][MCNext]_<<vars, menu>>
    /\ WF_<<vars, menu>>(MCStep(Mutate)) /\ WF_<<vars, menu>>(MCStep(Watch))
=============================================================================
