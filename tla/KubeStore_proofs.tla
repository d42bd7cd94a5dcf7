--------------------------- MODULE KubeStore_proofs ---------------------------
(***************************************************************************)
(* Theorems about KubeStore, for every set of files, contents and specs.   *)
(***************************************************************************)
EXTENDS KubeStore, FiniteSetTheorems, SequenceTheorems, WellFoundedInduction, TLAPS

-----------------------------------------------------------------------------
(* Numbers: the CHOOSE of a least or of a greatest member finds one.         *)

\* A set of numbers that is not empty has a least one: what "the first file
\* that has the entry" rests on.
LEMMA LeastExists ==
    ASSUME NEW S, S \subseteq Nat, S # {}
    PROVE  \E i \in S : \A j \in S : i <= j
  <1> DEFINE below == {ss \in Nat \X Nat : ss[1] < ss[2]}
  <1>1. IsWellFoundedOn(below, Nat)
    <2>1. below = OpToRel(<, Nat)
      BY Zenon DEF OpToRel
    <2>2. QED
      BY <2>1, NatLessThanWellFounded, Zenon
  <1>2. \E i \in S : \A j \in S : <<j, i>> \notin below
    BY ONLY S \subseteq Nat, S # {}, <1>1, WFMin, Zenon
  <1>3. \A i, j \in Nat : <<j, i>> \notin below => i <= j
    OBVIOUS
  <1> HIDE DEF below
  <1>4. QED
    BY <1>2, <1>3

\* A bounded set of numbers that is not empty has a greatest one.
LEMMA GreatestExists ==
    ASSUME NEW S, S \subseteq Nat, S # {}, NEW n \in Nat, \A i \in S : i <= n
    PROVE  \E i \in S : \A j \in S : j <= i
  <1> DEFINE T == {m \in Nat : n - m \in S}
  <1>1. \A i \in S : n - i \in T /\ n - (n - i) = i
    OBVIOUS
  <1>2. T \subseteq Nat /\ T # {}
    BY <1>1
  <1>3. PICK m \in T : \A k \in T : m <= k
    BY <1>2, LeastExists
  <1>4. \A j \in S : m <= n - j
    BY <1>1, <1>3
  <1>5. m \in Nat /\ n - m \in S
    BY <1>3
  <1> HIDE DEF T
  <1>6. QED
    BY <1>4, <1>5

\* A finite set of numbers is bounded.
LEMMA FiniteIsBounded ==
    ASSUME NEW S, S \subseteq Nat, IsFiniteSet(S)
    PROVE  \E n \in Nat : \A i \in S : i <= n
  <1>1. PICK f : f \in Bijection(1..Cardinality(S), S)
    BY FS_CardinalityType DEF ExistsBijection
  <1>2. Cardinality(S) \in Nat
    BY FS_CardinalityType
  <1> DEFINE c == Cardinality(S)
             bounds(k, n) == \A i \in 1..k : f[i] <= n
             loose == {k \in 0..c : \A n \in Nat : ~bounds(k, n)}
  <1>3. \A i \in 1..c : f[i] \in Nat
    BY <1>1 DEF Bijection, Injection
  <1>4. \A i \in S : \E j \in 1..c : f[j] = i
    BY <1>1 DEF Bijection, Surjection
  <1> HIDE DEF c
  <1>5. c \in Nat
    BY <1>2 DEF c
  <1>6. loose = {}
    <2> SUFFICES ASSUME loose # {} PROVE FALSE
      OBVIOUS
    <2>0. loose \subseteq 0..c
      OBVIOUS
    <2>1. PICK k \in loose : \A j \in loose : k <= j
      <3> HIDE DEF loose
      <3>1. loose \subseteq Nat
        BY <1>5, <2>0
      <3>2. QED
        BY <3>1, LeastExists
    <2>2. k # 0
      <3>1. bounds(0, 0)
        OBVIOUS
      <3>2. QED
        BY <2>1, <3>1
    <2>3. k \in 1..c /\ k - 1 \in 0..c /\ k - 1 \notin loose
      <3> HIDE DEF loose
      <3>1. k \in 0..c
        BY <2>0
      <3>2. QED
        BY <1>5, <2>1, <2>2, <3>1
    <2>4. PICK n \in Nat : bounds(k - 1, n)
      BY <2>3
    <2>5. PICK m \in Nat : m >= n /\ m >= f[k]
      <3>1. f[k] \in Nat
        BY <1>3, <2>3
      <3>2. CASE f[k] >= n
        BY <3>1, <3>2
      <3>3. CASE ~(f[k] >= n)
        BY <3>1, <3>3
      <3>4. QED
        BY <3>2, <3>3
    <2>6. bounds(k, m)
      <3>1. SUFFICES ASSUME NEW i \in 1..k PROVE f[i] <= m
        OBVIOUS
      <3>2. i = k \/ i \in 1..k - 1
        BY <2>3
      <3>3. f[i] \in Nat
        BY <1>3, <1>5, <2>3
      <3>4. QED
        BY <2>4, <2>5, <3>2, <3>3
    <2>7. QED
      BY <2>1, <2>6
  <1>7. PICK n \in Nat : bounds(c, n)
    BY <1>5, <1>6
  <1>8. QED
    BY <1>4, <1>7

\* A finite set of numbers that is not empty has a greatest one: what "the last
\* duplicate within a file" rests on.
LEMMA FiniteHasGreatest ==
    ASSUME NEW S, S \subseteq Nat, S # {}, IsFiniteSet(S)
    PROVE  \E i \in S : \A j \in S : j <= i
  BY FiniteIsBounded, GreatestExists

-----------------------------------------------------------------------------
(* Lists and edits                                                           *)

\* An edit the closures do not refuse keeps names unique within every list:
\* the heart of NoDuplicateAdded.
LEMMA AddKeepsUnique ==
    ASSUME NEW list, NEW entry, Unique(list), ~Has(list, entry.name)
    PROVE  Unique(Push(list, entry))
  BY DEF Unique, Has, Slots, Push

\* A list without duplicates has one entry of a name, the one LastNamed and ReplaceLast reach.
LEMMA OnlySlot ==
    ASSUME NEW list, Unique(list), NEW n, Has(list, n)
    PROVE  /\ Highest(Slots(list, n)) \in DOMAIN list
           /\ list[Highest(Slots(list, n))].name = n
  <1>1. PICK i \in DOMAIN list : list[i].name = n
    BY DEF Has, Slots
  <1>2. Slots(list, n) = {i}
    BY <1>1 DEF Slots, Unique
  <1>3. Highest({i}) = i
    BY <1>1 DEF Highest
  <1>4. QED
    BY <1>1, <1>2, <1>3

\* Replacing an entry under its own name keeps names unique.
LEMMA ReplaceKeepsUnique ==
    ASSUME NEW list, Unique(list),
           NEW n, Has(list, n), NEW entry, entry.name = n \/ ~Has(list, entry.name)
    PROVE  Unique(ReplaceLast(list, n, entry))
  <1>1. PICK k \in DOMAIN list : k = Highest(Slots(list, n)) /\ list[k].name = n
    BY OnlySlot
  <1>2. ReplaceLast(list, n, entry) = [list EXCEPT ![k] = entry]
    BY <1>1 DEF ReplaceLast
  <1>3. SUFFICES ASSUME NEW i \in DOMAIN list, NEW j \in DOMAIN list, i # j
                 PROVE  [list EXCEPT ![k] = entry][i].name # [list EXCEPT ![k] = entry][j].name
    BY <1>2 DEF Unique
  <1>4. list[i].name # list[j].name
    BY <1>3 DEF Unique
  <1>5. \A m \in DOMAIN list : m # k => list[m].name # entry.name
    BY <1>1 DEF Unique, Has, Slots
  <1>6. QED
    BY <1>1, <1>3, <1>4, <1>5

\* Dropping the entries of a name keeps names unique.
LEMMA WithoutKeepsUnique ==
    ASSUME NEW list, NEW n, Unique(list)
    PROVE  Unique(Without(list, n))
  BY DEF Unique, Without, Restrict, Slots

\* An edit that its file does not refuse brings no duplicate into any list.
LEMMA EditKeepsUnique ==
    ASSUME NEW cfg, IsConfig(cfg), NEW e, ~Refuses(cfg, e), NEW l \in Lists, Unique(cfg[l]),
           EditOK(e)
    PROVE  Unique(Edited(cfg, e)[l])
  <1> USE DEF IsConfig, Lists, EditOK
  <1>1. CASE e.kind = "add"
    BY <1>1, AddKeepsUnique DEF Edited, Refuses
  <1>2. CASE e.kind = "set"
    BY <1>2, ReplaceKeepsUnique DEF Edited, Refuses
  <1>3. CASE e.kind = "rename"
    <2>1. e.new # e.name /\ Has(cfg.contexts, e.name) /\ ~Has(cfg.contexts, e.new)
      BY <1>3 DEF Refuses
    <2>2. Edited(cfg, e) = Renamed(cfg, e.name, e.new)
      BY <1>3 DEF Edited
    <2>3. CASE l = "contexts"
      <3> DEFINE entry == [LastNamed(cfg.contexts, e.name) EXCEPT !.name = e.new]
      <3>1. Edited(cfg, e)[l] = ReplaceLast(cfg.contexts, e.name, entry)
        BY <2>2, <2>3 DEF Renamed
      <3>2. Unique(cfg.contexts)
        BY <2>3
      <3>3. entry.name = e.new \/ entry.name = LastNamed(cfg.contexts, e.name).name
        OBVIOUS
      <3>4. LastNamed(cfg.contexts, e.name).name = e.name
        BY <2>1, <3>2, OnlySlot DEF LastNamed
      <3>5. entry.name = e.name \/ ~Has(cfg.contexts, entry.name)
        BY <3>3, <3>4, <2>1
      <3>6. Unique(ReplaceLast(cfg.contexts, e.name, entry))
        BY <2>1, <3>2, <3>5, ReplaceKeepsUnique
      <3>7. QED
        BY <3>1, <3>6
    <2>4. CASE l # "contexts"
      BY <2>2, <2>4 DEF Renamed
    <2>5. QED
      BY <2>3, <2>4
  <1>4. CASE e.kind = "delete"
    BY <1>4, WithoutKeepsUnique DEF Edited, Deleted
  <1>5. QED
    BY <1>1, <1>2, <1>3, <1>4

\* Highest picks a greatest member.
LEMMA HighestIsGreatest ==
    ASSUME NEW S, S \subseteq Nat, S # {}, IsFiniteSet(S)
    PROVE  Highest(S) \in S /\ \A j \in S : j <= Highest(S)
  <1>1. PICK i \in S : \A j \in S : j <= i
    BY FiniteHasGreatest
  <1>2. \A j \in S \ {i} : j < i
    BY <1>1
  <1>3. \A k \in S : (\A j \in S \ {k} : j < k) => k = i
    BY <1>1
  <1>4. Highest(S) = i
    BY <1>2, <1>3 DEF Highest
  <1>5. QED
    BY <1>1, <1>4

\* The entry LastNamed and ReplaceLast reach, whatever duplicates the list has.
LEMMA LastSlot ==
    ASSUME NEW list, IsList(list), NEW n, Has(list, n)
    PROVE  Highest(Slots(list, n)) \in DOMAIN list /\ list[Highest(Slots(list, n))].name = n
  <1>1. Slots(list, n) \subseteq DOMAIN list /\ Slots(list, n) # {}
    BY DEF Slots, Has
  <1>2. IsFiniteSet(Slots(list, n))
    BY <1>1, FS_Subset DEF IsList
  <1>3. Highest(Slots(list, n)) \in Slots(list, n)
    BY <1>1, <1>2, HighestIsGreatest DEF IsList
  <1>4. QED
    BY <1>3 DEF Slots

\* A pushed entry takes a place after all others.
LEMMA PushIs ==
    ASSUME NEW list, IsList(list), NEW entry
    PROVE  \E end \in (Nat \ {0}) \ DOMAIN list :
              /\ DOMAIN Push(list, entry) = DOMAIN list \cup {end}
              /\ Push(list, entry)[end] = entry
              /\ \A i \in DOMAIN list : Push(list, entry)[i] = list[i]
  <1> DEFINE end == IF DOMAIN list = {} THEN 1 ELSE Highest(DOMAIN list) + 1
  <1>1. end \in Nat \ {0} /\ end \notin DOMAIN list
    <2>1. CASE DOMAIN list = {}
      BY <2>1
    <2>2. CASE DOMAIN list # {}
      <3>1. Highest(DOMAIN list) \in Nat /\ \A j \in DOMAIN list : j <= Highest(DOMAIN list)
        BY <2>2, HighestIsGreatest DEF IsList
      <3>2. end = Highest(DOMAIN list) + 1
        BY <2>2
      <3> HIDE DEF end
      <3>3. QED
        BY <3>1, <3>2 DEF IsList
    <2>3. QED
      BY <2>1, <2>2
  <1>2. Push(list, entry) = [i \in DOMAIN list \cup {end} |-> IF i = end THEN entry ELSE list[i]]
    BY Zenon DEF Push
  <1> HIDE DEF end
  <1>3. /\ DOMAIN Push(list, entry) = DOMAIN list \cup {end} /\ Push(list, entry)[end] = entry
        /\ \A i \in DOMAIN list : Push(list, entry)[i] = list[i]
    BY <1>1, <1>2
  <1>4. QED
    BY <1>1, <1>3

\* The other entries stay where they are.
LEMMA PushAtEnd ==
    ASSUME NEW list, IsList(list), NEW entry, "name" \in DOMAIN entry
    PROVE  /\ IsList(Push(list, entry))
           /\ \A i \in DOMAIN list : i \in DOMAIN Push(list, entry) /\ Push(list, entry)[i] = list[i]
  <1>1. PICK end \in (Nat \ {0}) \ DOMAIN list :
           /\ DOMAIN Push(list, entry) = DOMAIN list \cup {end}
           /\ Push(list, entry)[end] = entry
           /\ \A i \in DOMAIN list : Push(list, entry)[i] = list[i]
    BY PushIs
  <1>2. IsFiniteSet(DOMAIN list \cup {end})
    BY FS_AddElement DEF IsList
  <1>3. QED
    BY <1>1, <1>2 DEF IsList

\* Dropping the entries of a name leaves the others where they are.
LEMMA WithoutLeaves ==
    ASSUME NEW list, IsList(list), NEW n
    PROVE  /\ IsList(Without(list, n))
           /\ \A i \in DOMAIN list : list[i].name # n =>
                 i \in DOMAIN Without(list, n) /\ Without(list, n)[i] = list[i]
  <1>1. /\ DOMAIN Without(list, n) = DOMAIN list \ Slots(list, n)
        /\ \A i \in DOMAIN list \ Slots(list, n) : Without(list, n)[i] = list[i]
    BY DEF Without, Restrict
  <1>2. IsList(Without(list, n))
    BY <1>1, FS_Subset DEF IsList
  <1>3. QED
    BY <1>1, <1>2 DEF Slots

\* Replacing an entry touches no other.
LEMMA ReplaceLeaves ==
    ASSUME NEW list, IsList(list), NEW n, Has(list, n), NEW entry, "name" \in DOMAIN entry
    PROVE  /\ IsList(ReplaceLast(list, n, entry))
           /\ \A i \in DOMAIN list : list[i].name # n =>
                 i \in DOMAIN ReplaceLast(list, n, entry) /\ ReplaceLast(list, n, entry)[i] = list[i]
  <1>1. PICK k \in DOMAIN list : k = Highest(Slots(list, n)) /\ list[k].name = n
    BY LastSlot
  <1>2. ReplaceLast(list, n, entry) = [list EXCEPT ![k] = entry]
    BY <1>1 DEF ReplaceLast
  <1>3. QED
    BY <1>1, <1>2 DEF IsList

\* An edit its file does not refuse leaves a file's content, in which only
\* entries the edit names are touched.
LEMMA EditFacts ==
    ASSUME NEW cfg, IsConfig(cfg), NEW e, EditOK(e), ~Refuses(cfg, e)
    PROVE  /\ IsConfig(Edited(cfg, e))
           /\ \A l \in Lists : \A i \in DOMAIN cfg[l] :
                 \/ cfg[l][i].name = e.name /\ (e.kind \in {"rename", "delete"} \/ e.list = l)
                 \/ i \in DOMAIN Edited(cfg, e)[l] /\ Edited(cfg, e)[l][i] = cfg[l][i]
           /\ cfg.current # e.name => Edited(cfg, e).current = cfg.current
  <1> DEFINE new == Edited(cfg, e)
  <1> USE DEF IsConfig, Lists
  <1>1. CASE e.kind = "add"
    <2>1. /\ new = [cfg EXCEPT ![e.list] = Push(cfg[e.list], e.entry)]
          /\ e.list \in Lists /\ "name" \in DOMAIN e.entry
      BY <1>1 DEF Edited, EditOK
    <2>2. IsList(cfg[e.list])
      BY <2>1
    <2>3. QED
      BY <2>1, <2>2, PushAtEnd
  <1>2. CASE e.kind = "set"
    <2>1. /\ new = [cfg EXCEPT ![e.list] = ReplaceLast(cfg[e.list], e.name, e.entry)]
          /\ e.list \in Lists /\ Has(cfg[e.list], e.name) /\ "name" \in DOMAIN e.entry
      BY <1>2 DEF Edited, EditOK, Refuses
    <2>2. IsList(cfg[e.list])
      BY <2>1
    <2>3. QED
      BY <2>1, <2>2, ReplaceLeaves
  <1>3. CASE e.kind = "rename"
    <2> DEFINE entry == [LastNamed(cfg.contexts, e.name) EXCEPT !.name = e.new]
    <2>1. /\ new = [cfg EXCEPT !.contexts = ReplaceLast(cfg.contexts, e.name, entry),
                               !.current = Moved(cfg.current, e.name, e.new)]
          /\ Has(cfg.contexts, e.name)
      BY <1>3 DEF Edited, Renamed, Refuses
    <2>2. IsList(cfg.contexts)
      OBVIOUS
    <2>a. "name" \in DOMAIN entry
      <3>1. "name" \in DOMAIN LastNamed(cfg.contexts, e.name)
        BY <2>1, <2>2, LastSlot DEF LastNamed, IsList
      <3>2. QED
        BY <3>1
    <2> HIDE DEF entry
    <2>3. QED
      BY <1>3, <2>1, <2>a, <2>2, ReplaceLeaves DEF Moved
  <1>4. CASE e.kind = "delete"
    <2>1. new = [cfg EXCEPT !.contexts = Without(cfg.contexts, e.name),
                            !.current = Moved(cfg.current, e.name, None)]
      BY <1>4 DEF Edited, Deleted
    <2>2. IsList(cfg.contexts)
      OBVIOUS
    <2>3. QED
      BY <1>4, <2>1, <2>2, WithoutLeaves DEF Moved
  <1>5. QED
    BY <1>1, <1>2, <1>3, <1>4 DEF EditOK

-----------------------------------------------------------------------------
(* Sequences and the lookup of the first file *)

\* What IsSeq calls a sequence is one over its members.
LEMMA SeqMembers ==
    ASSUME NEW s, IsSeq(s)
    PROVE  \E S : s \in Seq(S)
  <1> DEFINE S == {s[i] : i \in 1..Len(s)}
  <1>1. s \in [1..Len(s) -> S]
    BY DEF IsSeq
  <1>2. s \in Seq(S)
    BY <1>1 DEF IsSeq
  <1>3. QED
    BY <1>2

\* A sequence over a set is one in the sense of IsSeq.
LEMMA SeqIsSeq ==
    ASSUME NEW S, NEW s \in Seq(S)
    PROVE  IsSeq(s) /\ DOMAIN s = 1..Len(s)
  BY DEF IsSeq

\* Replacing a member of a sequence leaves a sequence.
LEMMA ExceptIsSeq ==
    ASSUME NEW s, IsSeq(s), NEW i \in DOMAIN s, NEW e
    PROVE  IsSeq([s EXCEPT ![i] = e]) /\ Len([s EXCEPT ![i] = e]) = Len(s)
  <1>1. PICK S : s \in Seq(S)
    BY SeqMembers
  <1>2. s \in Seq(S \cup {e})
    BY <1>1, SeqMonotonic
  <1>3. [s EXCEPT ![i] = e] \in Seq(S \cup {e}) /\ Len([s EXCEPT ![i] = e]) = Len(s)
    BY <1>2
  <1>4. QED
    BY <1>3, SeqIsSeq

\* Appending leaves a sequence, longer by one.
LEMMA AppendIsSeq ==
    ASSUME NEW s, IsSeq(s), NEW e
    PROVE  /\ IsSeq(Append(s, e)) /\ Len(Append(s, e)) = Len(s) + 1
           /\ \A i \in DOMAIN Append(s, e) : Append(s, e)[i] = e \/ (i \in DOMAIN s /\ Append(s, e)[i] = s[i])
           /\ Append(s, e)[Len(s) + 1] = e
  <1>1. PICK S : s \in Seq(S)
    BY SeqMembers
  <1>2. s \in Seq(S \cup {e})
    BY <1>1, SeqMonotonic
  <1>3. Append(s, e) \in Seq(S \cup {e})
    BY <1>2
  <1>4. IsSeq(Append(s, e)) /\ DOMAIN Append(s, e) = 1..Len(Append(s, e))
    BY <1>3, SeqIsSeq
  <1>5. /\ Len(Append(s, e)) = Len(s) + 1 /\ Append(s, e)[Len(s) + 1] = e
        /\ \A i \in 1..Len(s) : Append(s, e)[i] = s[i]
    BY <1>2, AppendProperties
  <1>6. Len(s) \in Nat /\ DOMAIN s = 1..Len(s)
    BY <1>1
  <1>7. QED
    BY <1>4, <1>5, <1>6

\* The tail of a sequence that is not empty is a sequence.
LEMMA TailIsSeq ==
    ASSUME NEW s, IsSeq(s), s # <<>>
    PROVE  /\ IsSeq(Tail(s)) /\ Len(Tail(s)) = Len(s) - 1
           /\ \A i \in DOMAIN Tail(s) : i + 1 \in DOMAIN s /\ Tail(s)[i] = s[i + 1]
           /\ 1 \in DOMAIN s /\ Head(s) = s[1]
  <1>1. PICK S : s \in Seq(S)
    BY SeqMembers
  <1>2. Tail(s) \in Seq(S)
    BY <1>1
  <1>3. IsSeq(Tail(s)) /\ DOMAIN Tail(s) = 1..Len(Tail(s))
    BY <1>2, SeqIsSeq
  <1>4. Len(s) \in Nat \ {0} /\ DOMAIN s = 1..Len(s) /\ Len(Tail(s)) = Len(s) - 1 /\ Head(s) = s[1]
    BY <1>1
  <1>5. \A i \in 1..Len(s) - 1 : Tail(s)[i] = s[i + 1]
    BY <1>1
  <1>6. QED
    BY <1>3, <1>4, <1>5

\* A name the store knows has a first file that holds it.
LEMMA FirstHolderExists ==
    ASSUME IsSeq(files), NEW list, NEW n, Known(files, list, n)
    PROVE  FirstHolder(files, list, n) \in DOMAIN files
  <1>1. Holders(files, list, n) \subseteq Nat /\ Holders(files, list, n) # {}
    BY DEF Known, Holders, IsSeq
  <1>2. \E i \in Holders(files, list, n) : \A j \in Holders(files, list, n) : i <= j
    BY <1>1, LeastExists
  <1>3. QED
    BY <1>2 DEF FirstHolder, Holders

\* The store keeps its shape when one file is read back.
LEMMA RefreshedOK ==
    ASSUME MemoryOK, NEW f, f.path \in Paths, IsConfig(f.cfg)
    PROVE  /\ IsSeq(Refreshed(f)) /\ Len(Refreshed(f)) >= Len(files)
           /\ \A i \in DOMAIN Refreshed(f) : /\ Refreshed(f)[i].path \in Paths
                                              /\ IsConfig(Refreshed(f)[i].cfg)
  <1>1. IsSeq(files) /\ Len(files) \in Nat
    BY DEF MemoryOK, IsSeq
  <1>2. \A i \in DOMAIN files : files[i].path \in Paths /\ IsConfig(files[i].cfg)
    BY DEF MemoryOK
  <1>3. CASE \E i \in DOMAIN files : files[i].path = f.path
    <2> DEFINE same == {i \in DOMAIN files : files[i].path = f.path}
               P(i) == /\ files[i].path = f.path
                       /\ \A j \in DOMAIN files : files[j].path = f.path => i <= j
               first == CHOOSE i \in DOMAIN files : P(i)
    <2>1. same \subseteq Nat /\ same # {}
      BY <1>1, <1>3 DEF IsSeq
    <2>2. \E i \in same : \A j \in same : i <= j
      BY <2>1, LeastExists
    <2>3. \E i \in DOMAIN files : P(i)
      BY <2>2, Zenon
    <2>4. first \in DOMAIN files
      <3> HIDE DEF P
      <3>1. QED
        BY <2>3
    <2>5. Refreshed(f) = [files EXCEPT ![first] = f]
      BY <1>3 DEF Refreshed
    <2> HIDE DEF first
    <2>6. PICK k \in DOMAIN files : Refreshed(f) = [files EXCEPT ![k] = f]
      BY <2>4, <2>5
    <2> HIDE DEF P, same
    <2>7. IsSeq([files EXCEPT ![k] = f]) /\ Len([files EXCEPT ![k] = f]) = Len(files)
      BY <1>1, ExceptIsSeq
    <2>8. \A i \in DOMAIN Refreshed(f) : i \in DOMAIN files /\ Refreshed(f)[i] \in {f, files[i]}
      BY <2>6
    <2>9. QED
      BY <1>1, <1>2, <2>6, <2>7, <2>8
  <1>4. CASE ~(\E i \in DOMAIN files : files[i].path = f.path)
    <2>1. Refreshed(f) = Append(files, f)
      BY <1>4 DEF Refreshed
    <2>2. QED
      BY <1>1, <1>2, <2>1, AppendIsSeq
  <1>5. QED
    BY <1>3, <1>4

-----------------------------------------------------------------------------
(* The calls of a command *)

\* Rotation keeps at least one backup, and the newest.
LEMMA KeptIsSeq ==
    ASSUME NEW s, IsSeq(s), Len(s) > 0
    PROVE  /\ IsSeq(Kept(s)) /\ Len(Kept(s)) \in 1..BackupKeep
           /\ Kept(s)[Len(Kept(s))] = s[Len(s)]
  <1>1. PICK S : s \in Seq(S)
    BY SeqMembers
  <1>2. CASE Len(s) > BackupKeep
    <2> DEFINE m == Len(s) - BackupKeep + 1
               t == SubSeq(s, m, Len(s))
    <2>1. Kept(s) = t
      BY <1>2 DEF Kept
    <2>2. m \in 1..Len(s) /\ Len(s) \in Nat /\ Len(s) - m + 1 = BackupKeep /\ BackupKeep \in Nat \ {0}
      BY <1>1, <1>2, KubeStoreAssumption
    <2>3. \A i \in m..Len(s) : s[i] \in S
      BY <1>1, <2>2
    <2>4. /\ t \in Seq(S) /\ Len(t) = BackupKeep
          /\ \A i \in 1..BackupKeep : t[i] = s[m + i - 1]
      BY <2>2, <2>3, SubSeqProperties
    <2> HIDE DEF t
    <2>5. t[BackupKeep] = s[Len(s)]
      <3>1. m + BackupKeep - 1 = Len(s) /\ BackupKeep \in 1..BackupKeep
        BY <2>2
      <3>2. t[BackupKeep] = s[m + BackupKeep - 1]
        BY <2>4, <3>1
      <3>3. QED
        BY <3>1, <3>2
    <2>6. IsSeq(t)
      BY <2>4, SeqIsSeq
    <2> HIDE DEF m
    <2>7. QED
      BY <2>1, <2>2, <2>4, <2>5, <2>6
  <1>3. CASE ~(Len(s) > BackupKeep)
    BY <1>1, <1>3, KubeStoreAssumption DEF Kept
  <1>4. QED
    BY <1>2, <1>3

\* The default target of a new entry is a path of the store.
LEMMA TargetIsPath ==
    ASSUME TypeOK, NEW t \in Paths \cup {None}
    PROVE  Target(t) \in Paths
  <1>1. Len(files) \in Nat /\ DOMAIN files = 1..Len(files) /\ 1 \in DOMAIN files
    BY DEF TypeOK, MemoryOK, IsSeq
  <1>2. \A i \in DOMAIN files : files[i].path \in Paths
    BY DEF TypeOK, MemoryOK
  <1>3. DefaultTarget \in Paths
    BY <1>1, <1>2 DEF DefaultTarget
  <1>4. QED
    BY <1>3 DEF Target

\* A path found by find_context is a path of the store.
LEMMA FoundPath ==
    ASSUME TypeOK, NEW list, NEW n, Known(files, list, n)
    PROVE  FindPath(files, list, n) \in Paths
  BY FirstHolderExists DEF TypeOK, MemoryOK, FindPath

\* Each call of a command has a path and an edit.
LEMMA CallFacts ==
    ASSUME TypeOK, NEW c, CallOK(c), ~CallRefused(c)
    PROVE  CallPath(c) \in Paths /\ EditOK(CallEdit(c))
  <1>1. CASE c.fn = "upsert"
    <2>1. spec.target \in Paths \cup {None} /\ c.list \in {"clusters", "users"}
      BY <1>1, KubeStoreAssumption DEF CallOK
    <2>2. UpsertPath(c.list) \in Paths
      BY <2>1, TargetIsPath, FoundPath DEF UpsertPath
    <2>3. EditOK(UpsertEdit(c.list))
      BY <2>1 DEF EditOK, UpsertEdit, SetEdit, AddEdit, Lists
    <2>4. QED
      BY <1>1, <2>2, <2>3 DEF CallPath, CallEdit
  <1>2. CASE c.fn = "create"
    <2>1. spec.target \in Paths \cup {None}
      BY <1>2, KubeStoreAssumption DEF CallOK
    <2>2. QED
      BY <1>2, <2>1, TargetIsPath DEF CallPath, CallEdit, AddEdit, ContextEntry, EditOK, Lists
  <1>3. CASE c.fn = "update"
    BY <1>3, FoundPath DEF CallPath, CallEdit, CallRefused, SetEdit, ContextEntry, EditOK, Lists
  <1>4. CASE c.fn = "rename"
    BY <1>4, FoundPath DEF CallPath, CallEdit, CallRefused, RenameEdit, EditOK
  <1>5. CASE c.fn = "delete"
    BY <1>5, FoundPath DEF CallPath, CallEdit, CallRefused, DeleteEdit, EditOK
  <1>6. CASE c.fn = "unspecified"
    BY <1>6 DEF CallRefused
  <1>7. QED
    BY <1>1, <1>2, <1>3, <1>4, <1>5, <1>6 DEF CallOK

\* The calls of a command are a sequence of such calls.
LEMMA CallsOfOK ==
    ASSUME NEW s \in Specs
    PROVE  \E S : /\ CallsOf(s) \in Seq(S) /\ Len(CallsOf(s)) > 0
                  /\ \A c \in S : \/ c.fn \in {"create", "update", "rename", "unspecified"}
                                  \/ c.fn = "upsert" /\ c.list \in {"clusters", "users"}
  <1> DEFINE S == {[fn |-> "create"], [fn |-> "update"], [fn |-> "rename"]}
                  \cup {[fn |-> f, list |-> l] : f \in {"upsert", "unspecified"}, l \in {"clusters", "users"}}
  <1>1. {s.cluster.mode, s.user.mode} \subseteq {"existing", "new", "missing"}
    BY KubeStoreAssumption
  <1>a. /\ <<>> \in Seq(S)
        /\ \A l \in {"clusters", "users"}, f \in {"upsert", "unspecified"} :
              <<[fn |-> f, list |-> l]>> \in Seq(S)
    <2>1. \A e \in S : <<e>> \in Seq(S)
      OBVIOUS
    <2>2. \A l \in {"clusters", "users"}, f \in {"upsert", "unspecified"} : [fn |-> f, list |-> l] \in S
      OBVIOUS
    <2>3. <<>> \in Seq(S)
      OBVIOUS
    <2> HIDE DEF S
    <2>4. QED
      BY <2>1, <2>2, <2>3
  <1>2. RefCalls("clusters", s.cluster) \in Seq(S)
    <2> HIDE DEF S
    <2>1. QED
      BY <1>1, <1>a DEF RefCalls
  <1>3. RefCalls("users", s.user) \in Seq(S)
    <2> HIDE DEF S
    <2>1. QED
      BY <1>1, <1>a DEF RefCalls
  <1>4. ContextCalls(s) \in Seq(S) /\ Len(ContextCalls(s)) > 0
    BY SMTT(30) DEF ContextCalls
  <1>5. \A c \in S : \/ c.fn \in {"create", "update", "rename", "unspecified"}
                     \/ c.fn = "upsert" /\ c.list \in {"clusters", "users"}
    OBVIOUS
  <1> HIDE DEF S
  <1>6. CallsOf(s) \in Seq(S) /\ Len(CallsOf(s)) > 0
    BY <1>2, <1>3, <1>4 DEF CallsOf
  <1>7. QED
    BY <1>5, <1>6

-----------------------------------------------------------------------------
(* Type correctness *)

\* The empty sequence in the sense of IsSeq.
LEMMA EmptyIsSeq == IsSeq(<<>>) /\ DOMAIN <<>> = {} /\ Len(<<>>) = 0
  BY DEF IsSeq

\* A command that returns leaves every variable in shape.
LEMMA ReturnOK ==
    ASSUME TypeOK, NEW r \in {"none", "ok", "err"}, Return(r), FilesOK', IsSeq(files'),
           Len(files') > 0,
           \A i \in DOMAIN files' : files'[i].path \in Paths /\ IsConfig(files'[i].cfg),
           watching' \in BOOLEAN, dirty' \in BOOLEAN, dirty' => watching', missed' \subseteq Paths
    PROVE  TypeOK'
  <1>1. MemoryOK'
    BY DEF Return, MemoryOK, IsSeq
  <1>2. CommandOK'
    BY EmptyIsSeq DEF Return, CommandOK, Phases, TypeOK
  <1>3. FlagsOK'
    BY DEF Return, FlagsOK
  <1>4. QED
    BY <1>1, <1>2, <1>3 DEF TypeOK

\* The same when nothing but the command changes.
LEMMA ReturnAloneOK ==
    ASSUME TypeOK, NEW r \in {"none", "ok", "err"}, Return(r),
           UNCHANGED <<disk, backups, files, watching, dirty>>, missed' \subseteq Paths
    PROVE  TypeOK'
  <1>1. FilesOK'
    BY DEF TypeOK, FilesOK
  <1>2. /\ IsSeq(files) /\ Len(files) > 0
        /\ \A i \in DOMAIN files : files[i].path \in Paths /\ IsConfig(files[i].cfg)
    BY DEF TypeOK, MemoryOK, IsSeq
  <1>3. watching \in BOOLEAN /\ dirty \in BOOLEAN /\ (dirty => watching)
    BY DEF TypeOK, FlagsOK
  <1>4. QED
    BY <1>1, <1>2, <1>3, ReturnOK

\* And when a file that was written cannot be read back.
LEMMA MissedOK ==
    ASSUME TypeOK, MissReadBack, UNCHANGED <<disk, backups, watching, dirty>>
    PROVE  TypeOK'
  <1>1. Return("err") /\ UNCHANGED files /\ missed' = missed \cup {path}
    BY DEF MissReadBack
  <1>2. missed' \subseteq Paths
    BY <1>1 DEF TypeOK, FlagsOK, CommandOK
  <1>3. QED
    BY <1>1, <1>2, ReturnAloneOK

\* What is left in the place of a file reloaded keeps the shape.
LEMMA ReloadOK ==
    ASSUME TypeOK, NEW f, f.path \in Paths, IsConfig(f.cfg), Reload(f),
           UNCHANGED dirty, missed' \subseteq missed
    PROVE  TypeOK'
  <1> USE DEF TypeOK
  <1>2. files' = [files EXCEPT ![pos] = f]
    BY DEF Reload
  <1>3. IsSeq(files') /\ Len(files') = Len(files)
    BY <1>2, ExceptIsSeq DEF MemoryOK
  <1>4. \A i \in DOMAIN files' : i \in DOMAIN files /\ files'[i] \in {f, files[i]}
    BY <1>2
  <1>5. Len(files) \in Nat /\ pos \in 1..Len(files) /\ DOMAIN files' = 1..Len(files)
    BY <1>2 DEF MemoryOK, IsSeq
  <1>6. pos' \in DOMAIN files'
    <2>1. pos' = 1 \/ (pos # Len(files) /\ pos' = pos + 1)
      BY DEF Reload
    <2> HIDE DEF TypeOK
    <2>2. QED
      BY <1>5, <2>1
  <1>7. MemoryOK'
    BY <1>3, <1>4, <1>6 DEF MemoryOK
  <1>8. CommandOK'
    BY DEF Reload, CommandOK, Phases, CallOK
  <1>9. QED
    BY <1>7, <1>8 DEF Reload, FilesOK, FlagsOK

\* The load order lists paths.
LEMMA LoadOrderFacts ==
    IsSeq(LoadOrder) /\ Len(LoadOrder) > 0 /\ DOMAIN LoadOrder = 1..Len(LoadOrder)
    /\ \A i \in DOMAIN LoadOrder : LoadOrder[i] \in Paths
  BY KubeStoreAssumption DEF IsSeq

\* Loading the paths gives the store its shape.
LEMMA LoadedOK ==
    ASSUME NEW d, NEW failed, \A p \in Paths : IsConfig(d[p].cfg)
    PROVE  /\ IsSeq(LoadTolerant(d, failed)) /\ Len(LoadTolerant(d, failed)) > 0
           /\ \A i \in DOMAIN LoadTolerant(d, failed) :
                 LoadTolerant(d, failed)[i].path \in Paths /\ IsConfig(LoadTolerant(d, failed)[i].cfg)
  <1>1. \A i \in 1..Len(LoadOrder) :
          /\ LoadTolerant(d, failed)[i].path = LoadOrder[i]
          /\ LoadTolerant(d, failed)[i].cfg \in {EmptyConfig, d[LoadOrder[i]].cfg}
    BY LoadOrderFacts DEF LoadTolerant, Loaded
  <1>2. IsConfig(EmptyConfig)
    BY FS_EmptySet DEF IsConfig, IsList, EmptyConfig, Lists
  <1>3. Len(LoadOrder) \in Nat /\ DOMAIN LoadTolerant(d, failed) = 1..Len(LoadOrder)
    BY LoadOrderFacts DEF LoadTolerant, IsSeq
  <1>4. LoadTolerant(d, failed) \in Seq({LoadTolerant(d, failed)[i] : i \in 1..Len(LoadOrder)})
        /\ Len(LoadTolerant(d, failed)) = Len(LoadOrder)
    <2>1. LoadTolerant(d, failed) = [i \in 1..Len(LoadOrder) |-> LoadTolerant(d, failed)[i]]
      BY <1>3 DEF LoadTolerant
    <2> DEFINE l == LoadTolerant(d, failed)
    <2>2. l = [i \in 1..Len(LoadOrder) |-> l[i]]
      BY <2>1
    <2> HIDE DEF l
    <2>3. l \in Seq({l[i] : i \in 1..Len(LoadOrder)}) /\ Len(l) = Len(LoadOrder)
      BY <1>3, <2>2
    <2>4. QED
      BY <2>3 DEF l
  <1>5. IsSeq(LoadTolerant(d, failed))
    BY <1>4, SeqIsSeq
  <1>6. QED
    BY <1>1, <1>2, <1>3, <1>4, <1>5, LoadOrderFacts

\* The initial states have the shape.
LEMMA InitTypeOK == Init => TypeOK
  <1> SUFFICES ASSUME Init PROVE TypeOK
    OBVIOUS
  <1> USE DEF Init
  <1>1. \A p \in Paths : disk[p] \in InitContents
    OBVIOUS
  <1>2. FilesOK
    BY <1>1, EmptyIsSeq, KubeStoreAssumption DEF FilesOK
  <1>3. MemoryOK
    <2>1. \A p \in Paths : IsConfig(disk[p].cfg)
      BY <1>2 DEF FilesOK
    <2>2. QED
      BY <2>1, LoadedOK DEF MemoryOK, IsSeq
  <1>4. CommandOK
    BY LoadOrderFacts, EmptyIsSeq DEF CommandOK, Phases
  <1>5. FlagsOK
    BY DEF FlagsOK
  <1>6. QED
    BY <1>2, <1>3, <1>4, <1>5 DEF TypeOK

\* Every step of the store, of the watcher and of the environment keeps the shape.
LEMMA StepTypeOK == TypeOK /\ [Next]_vars => TypeOK'
  <1> SUFFICES ASSUME TypeOK, [Next]_vars PROVE TypeOK'
    OBVIOUS
  <1> USE DEF TypeOK
  <1>1. ASSUME NEW s \in Specs, SaveContext(s) PROVE TypeOK'
    <2>1. CASE SpecRefused(s)
      BY <1>1, <2>1, ReturnAloneOK DEF SaveContext, FlagsOK
    <2>2. CASE ~SpecRefused(s)
      <3>1. Accept(s, CallsOf(s)) /\ UNCHANGED <<disk, backups, files, watching, dirty, missed>>
        BY <1>1, <2>2 DEF SaveContext
      <3>2. PICK S : /\ CallsOf(s) \in Seq(S) /\ Len(CallsOf(s)) > 0
                     /\ \A c \in S : \/ c.fn \in {"create", "update", "rename", "unspecified"}
                                     \/ c.fn = "upsert" /\ c.list \in {"clusters", "users"}
        BY CallsOfOK
      <3>3. IsSeq(CallsOf(s)) /\ CallsOf(s) # <<>> /\ \A i \in DOMAIN CallsOf(s) : CallsOf(s)[i] \in S
        BY <3>2, SeqIsSeq
      <3>4. CommandOK'
        BY <3>1, <3>2, <3>3 DEF Accept, CommandOK, CallOK, Phases
      <3>5. QED
        BY <3>1, <3>4 DEF Accept, FilesOK, MemoryOK, FlagsOK
    <2>3. QED
      BY <2>1, <2>2
  <1>2. ASSUME NEW n \in DeleteNames, DeleteContext(n) PROVE TypeOK'
    <2> DEFINE c == <<[fn |-> "delete", name |-> n]>>
    <2>1. IsSeq(c) /\ c # <<>> /\ \A i \in DOMAIN c : c[i].fn = "delete"
      BY DEF IsSeq
    <2> HIDE DEF c
    <2>2. Accept(NoSpec, c) /\ UNCHANGED <<disk, backups, files, watching, dirty, missed>>
      BY <1>2 DEF DeleteContext, c
    <2>3. CommandOK'
      BY <2>1, <2>2 DEF Accept, CommandOK, CallOK, Phases
    <2>4. QED
      BY <2>2, <2>3 DEF Accept, FilesOK, MemoryOK, FlagsOK
  <1>3. ASSUME StartCall PROVE TypeOK'
    <2> DEFINE c == Head(calls)
    <2>1. calls # <<>> /\ IsSeq(calls) /\ \A i \in DOMAIN calls : CallOK(calls[i])
      BY <1>3 DEF StartCall, CommandOK, Phases
    <2>2. CallOK(c)
      BY <2>1, TailIsSeq
    <2>3. CASE CallRefused(c)
      BY <1>3, <2>3, ReturnAloneOK DEF StartCall, FlagsOK
    <2>4. CASE ~CallRefused(c)
      <3>1. CallPath(c) \in Paths /\ EditOK(CallEdit(c))
        BY <2>2, <2>4, CallFacts
      <3>2. CommandOK'
        BY <1>3, <2>4, <3>1 DEF StartCall, CommandOK, Phases, CallOK
      <3>3. QED
        BY <1>3, <2>4, <3>2 DEF StartCall, FilesOK, MemoryOK, FlagsOK
    <2>5. QED
      BY <2>3, <2>4
  <1>4. ASSUME ReadFresh PROVE TypeOK'
    <2>1. CASE ~Readable(Fresh) \/ Refuses(Fresh.cfg, edit)
      BY <1>4, <2>1, ReturnAloneOK DEF ReadFresh, FlagsOK
    <2>2. CASE ~(~Readable(Fresh) \/ Refuses(Fresh.cfg, edit))
      <3>1. IsConfig(Fresh.cfg)
        BY DEF Fresh, FilesOK, CommandOK
      <3>2. CommandOK'
        BY <1>4, <2>2, <3>1 DEF ReadFresh, CommandOK, Phases, CallOK
      <3>3. QED
        BY <1>4, <2>2, <3>2 DEF ReadFresh, FilesOK, MemoryOK, FlagsOK
    <2>3. QED
      BY <2>1, <2>2
  <1>5. ASSUME Backup PROVE TypeOK'
    <2>1. \A p \in Paths : IsSeq(backups'[p]) /\ Len(backups'[p]) <= BackupKeep
      <3> DEFINE new == Append(backups[path], disk[path])
      <3>1. IsSeq(backups[path])
        BY DEF FilesOK, CommandOK
      <3>2. IsSeq(new) /\ Len(new) > 0
        BY <3>1, AppendIsSeq DEF IsSeq
      <3> HIDE DEF new
      <3>3. IsSeq(Kept(new)) /\ Len(Kept(new)) <= BackupKeep
        <4>1. IsSeq(Kept(new)) /\ Len(Kept(new)) \in 1..BackupKeep
          BY <3>2, KeptIsSeq
        <4>2. QED
          BY <4>1, KubeStoreAssumption
      <3>4. CASE disk[path].state = "none"
        BY <1>5, <3>4 DEF Backup, FilesOK
      <3>5. CASE disk[path].state # "none"
        BY <1>5, <3>3, <3>5 DEF Backup, FilesOK, new
      <3>6. QED
        BY <3>4, <3>5
    <2>2. FilesOK'
      BY <1>5, <2>1 DEF Backup, FilesOK
    <2>3. CommandOK'
      BY <1>5 DEF Backup, CommandOK, Phases, CallOK
    <2>4. QED
      BY <1>5, <2>2, <2>3 DEF Backup, MemoryOK, FlagsOK
  <1>6. ASSUME Persist PROVE TypeOK'
    <2>1. IsConfig(Edited(base.cfg, edit))
      BY <1>6, EditFacts DEF Persist, CommandOK
    <2>2. FilesOK'
      BY <1>6, <2>1 DEF Persist, FilesOK, Written
    <2>3. CommandOK'
      BY <1>6 DEF Persist, CommandOK, Phases, CallOK
    <2>4. QED
      BY <1>6, <2>2, <2>3 DEF Persist, Notify, MemoryOK, FlagsOK
  <1>7. ASSUME FileFails PROVE TypeOK'
    BY <1>7, ReturnAloneOK DEF FileFails, FlagsOK
  <1>8. ASSUME Reread PROVE TypeOK'
    <2>1. CASE ~Readable(disk[path])
      BY <1>8, <2>1, MissedOK DEF Reread
    <2>2. CASE Readable(disk[path])
      <3> DEFINE f == Loaded(path, disk[path])
      <3>1. f.path \in Paths /\ IsConfig(f.cfg)
        BY DEF Loaded, FilesOK, CommandOK
      <3>2. /\ IsSeq(Refreshed(f)) /\ Len(Refreshed(f)) >= Len(files)
            /\ \A i \in DOMAIN Refreshed(f) : Refreshed(f)[i].path \in Paths
                                              /\ IsConfig(Refreshed(f)[i].cfg)
        BY <3>1, RefreshedOK
      <3> HIDE DEF f
      <3>3. files' = Refreshed(f) /\ UNCHANGED <<disk, backups, watching, dirty, missed>>
        BY <1>8, <2>2 DEF Reread, f
      <3>4. Len(files) > 0 /\ Len(files) \in Nat /\ pos \in 1..Len(files)
        BY DEF MemoryOK, IsSeq
      <3>5. Len(Refreshed(f)) > 0 /\ pos \in 1..Len(Refreshed(f))
            /\ DOMAIN Refreshed(f) = 1..Len(Refreshed(f))
        BY <3>2, <3>4 DEF IsSeq
      <3>6. FilesOK' /\ watching' \in BOOLEAN /\ dirty' \in BOOLEAN /\ (dirty' => watching')
            /\ missed' \subseteq Paths
        BY <3>3 DEF FilesOK, FlagsOK
      <3>7. CASE Len(calls) = 1
        <4>1. Return("ok")
          BY <1>8, <2>2, <3>7 DEF Reread
        <4>2. QED
          BY <3>2, <3>3, <3>5, <3>6, <4>1, ReturnOK
      <3>8. CASE Len(calls) # 1
        <4>1. /\ phase' = "call" /\ calls' = Tail(calls) /\ raced' = {}
              /\ UNCHANGED <<spec, path, pos, outcome>>
          BY <1>8, <2>2, <3>8 DEF Reread
        <4>2. calls # <<>> /\ IsSeq(calls) /\ \A i \in DOMAIN calls : CallOK(calls[i])
          BY <1>8 DEF Reread, CommandOK, Phases
        <4>3. /\ IsSeq(Tail(calls)) /\ Len(Tail(calls)) = Len(calls) - 1
              /\ \A i \in DOMAIN Tail(calls) : CallOK(Tail(calls)[i])
          BY <4>2, TailIsSeq
        <4>4. Tail(calls) # <<>>
          BY <3>8, <4>3, EmptyIsSeq, <4>2 DEF IsSeq
        <4>5. CommandOK'
          BY <4>1, <4>3, <4>4 DEF CommandOK, Phases, CallOK
        <4>6. MemoryOK'
          BY <3>2, <3>3, <3>5, <4>1 DEF MemoryOK
        <4>7. QED
          BY <3>6, <4>1, <4>5, <4>6 DEF FlagsOK
      <3>9. QED
        BY <3>7, <3>8
    <2>3. QED
      BY <2>1, <2>2
  <1>9. ASSUME StartWatcher PROVE TypeOK'
    BY <1>9 DEF StartWatcher, FilesOK, MemoryOK, CommandOK, FlagsOK, CallOK, jobVars
  <1>10. ASSUME StartReload PROVE TypeOK'
    <2>1. 1 \in DOMAIN files
      BY DEF MemoryOK, IsSeq
    <2>2. CommandOK'
      BY <1>10 DEF StartReload, CommandOK, Phases, CallOK
    <2>3. QED
      BY <1>10, <2>1, <2>2 DEF StartReload, FilesOK, MemoryOK, FlagsOK
  <1>11. ASSUME ReloadFile PROVE TypeOK'
    <2> DEFINE f == Reloaded(files[pos])
    <2>1. f.path \in Paths /\ IsConfig(f.cfg)
      BY DEF Reloaded, Loaded, FilesOK, MemoryOK
    <2> HIDE DEF f
    <2>2. Reload(f) /\ UNCHANGED dirty /\ missed' \subseteq missed
      BY <1>11 DEF ReloadFile, StillMissed, f
    <2>3. QED
      BY <2>1, <2>2, ReloadOK
  <1>12. ASSUME NEW p \in Paths, NEW c \in Contents, ExternalWrite(p, c) PROVE TypeOK'
    <2>1. c.state \in {"ok", "bad", "none"} /\ IsConfig(c.cfg)
      BY KubeStoreAssumption
    <2>2. FilesOK'
      BY <1>12, <2>1 DEF ExternalWrite, FilesOK
    <2>3. FlagsOK'
      BY <1>12 DEF ExternalWrite, Notify, FlagsOK
    <2>4. QED
      BY <1>12, <2>2, <2>3 DEF ExternalWrite, MemoryOK, CommandOK, CallOK, jobVars
  <1>13. ASSUME Crash PROVE TypeOK'
    <2>1. \A p \in Paths : IsConfig(disk[p].cfg)
      BY DEF FilesOK
    <2>2. PICK failed \in SUBSET Paths :
             /\ Return("none") /\ files' = LoadTolerant(disk, failed) /\ missed' = failed
             /\ watching' = FALSE /\ dirty' = FALSE /\ UNCHANGED <<disk, backups>>
      BY <1>13 DEF Crash
    <2>3. FilesOK'
      BY <2>2 DEF FilesOK
    <2>4. QED
      BY <2>1, <2>2, <2>3, LoadedOK, ReturnOK
  <1>14. ASSUME UNCHANGED vars PROVE TypeOK'
    BY <1>14 DEF vars, FilesOK, MemoryOK, CommandOK, FlagsOK, CallOK
  <1>15. ASSUME RereadFails PROVE TypeOK'
    BY <1>15, MissedOK DEF RereadFails
  <1>16. ASSUME ReloadFails PROVE TypeOK'
    <2> DEFINE f == [files[pos] EXCEPT !.error = TRUE]
    <2>1. f.path \in Paths /\ IsConfig(f.cfg)
      BY DEF MemoryOK
    <2> HIDE DEF f
    <2>2. QED
      BY <1>16, <2>1, ReloadOK DEF ReloadFails, f
  <1>17. QED
    BY <1>1, <1>2, <1>3, <1>4, <1>5, <1>6, <1>7, <1>8, <1>9, <1>10, <1>11, <1>12, <1>13, <1>14,
       <1>15, <1>16 DEF Next

\* Whatever the files hold and whoever writes them, the store keeps its shape.
THEOREM TypeCorrect == Spec => []TypeOK
  BY InitTypeOK, StepTypeOK, PTL DEF Spec

-----------------------------------------------------------------------------
(* What mutate promises about the file it edits *)

\* Before the first command nothing was written.
LEMMA InitPromises == Init => EditsBuildOnLatest /\ OverwrittenIsBackedUp
  BY DEF Init, EditsBuildOnLatest, OverwrittenIsBackedUp

\* A step keeps the promise that edits build on the file's latest content.
LEMMA StepBuildsOnLatest == TypeOK /\ EditsBuildOnLatest /\ [Next]_vars => EditsBuildOnLatest'
  <1> SUFFICES ASSUME TypeOK, EditsBuildOnLatest, [Next]_vars,
                      phase' \in {"backup", "persist"}, "read" \notin raced'
               PROVE  disk'[path'] = base'
    BY DEF EditsBuildOnLatest
  <1>1. CASE ReadFresh
    BY <1>1 DEF ReadFresh, Return, Fresh
  <1>2. CASE Backup
    BY <1>2 DEF Backup, EditsBuildOnLatest
  <1>3. ASSUME NEW p \in Paths, NEW c \in Contents, ExternalWrite(p, c) PROVE disk'[path'] = base'
    <2>1. path \in Paths /\ DOMAIN disk = Paths
      BY DEF TypeOK, CommandOK, FilesOK
    <2>2. p # path /\ raced' = raced
      BY <1>3 DEF ExternalWrite, jobVars
    <2>3. QED
      BY <1>3, <2>1, <2>2 DEF ExternalWrite, EditsBuildOnLatest, jobVars
  <1>4. CASE StartWatcher
    BY <1>4 DEF StartWatcher, EditsBuildOnLatest, jobVars
  <1>5. CASE UNCHANGED vars
    BY <1>5 DEF vars, EditsBuildOnLatest
  <1>6. ASSUME Next PROVE ReadFresh \/ Backup \/ StartWatcher
                          \/ \E p \in Paths, c \in Contents : ExternalWrite(p, c)
    BY <1>6 DEF Next, SaveContext, DeleteContext, StartCall, Persist, FileFails, Reread, RereadFails,
                MissReadBack, StartReload, ReloadFile, ReloadFails, Reload, Crash, Return, Accept
  <1>7. QED
    BY <1>1, <1>2, <1>3, <1>4, <1>5, <1>6

\* A step keeps the promise that the newest backup holds what was overwritten.
LEMMA StepBacksUp == TypeOK /\ OverwrittenIsBackedUp /\ [Next]_vars => OverwrittenIsBackedUp'
  <1> DEFINE Saved == backups[path] # <<>> /\ backups[path][Len(backups[path])] = disk[path]
  <1> SUFFICES ASSUME TypeOK, OverwrittenIsBackedUp, [Next]_vars,
                      phase' = "persist", "backup" \notin raced', disk'[path'].state # "none"
               PROVE  Saved'
    BY DEF OverwrittenIsBackedUp
  <1>1. path \in Paths /\ DOMAIN disk = Paths /\ DOMAIN backups = Paths
    BY DEF TypeOK, CommandOK, FilesOK
  <1>2. CASE Backup
    <2> DEFINE new == Append(backups[path], disk[path])
    <2>1. IsSeq(backups[path])
      BY <1>1 DEF TypeOK, FilesOK
    <2>2. IsSeq(new) /\ Len(new) > 0 /\ new[Len(new)] = disk[path]
      <3>1. Len(backups[path]) \in Nat
        BY <2>1 DEF IsSeq
      <3>2. IsSeq(new) /\ Len(new) = Len(backups[path]) + 1
        BY <2>1, AppendIsSeq
      <3>3. new[Len(backups[path]) + 1] = disk[path]
        BY <2>1, AppendIsSeq
      <3> HIDE DEF new
      <3>4. QED
        BY <3>1, <3>2, <3>3
    <2> HIDE DEF new
    <2>3. Len(Kept(new)) \in 1..BackupKeep /\ Kept(new)[Len(Kept(new))] = disk[path]
      BY <2>2, KeptIsSeq
    <2>4. Kept(new) # <<>>
      BY <2>3, EmptyIsSeq, KubeStoreAssumption
    <2>5. disk' = disk /\ path' = path
      BY <1>2 DEF Backup
    <2>6. backups'[path] = Kept(new)
      BY <1>1, <1>2, <2>5 DEF Backup, new
    <2>7. QED
      BY <2>3, <2>4, <2>5, <2>6
  <1>3. ASSUME NEW p \in Paths, NEW c \in Contents, ExternalWrite(p, c) PROVE Saved'
    <2>1. p # path /\ raced' = raced /\ phase = "persist" /\ path' = path /\ backups' = backups
      BY <1>3 DEF ExternalWrite, jobVars
    <2>2. disk'[path] = disk[path]
      BY <1>1, <1>3, <2>1 DEF ExternalWrite
    <2>3. QED
      BY <2>1, <2>2 DEF OverwrittenIsBackedUp
  <1>4. CASE StartWatcher
    BY <1>4 DEF StartWatcher, OverwrittenIsBackedUp, jobVars
  <1>5. CASE UNCHANGED vars
    BY <1>5 DEF vars, OverwrittenIsBackedUp
  <1>6. ASSUME Next PROVE Backup \/ StartWatcher
                          \/ \E p \in Paths, c \in Contents : ExternalWrite(p, c)
    BY <1>6 DEF Next, SaveContext, DeleteContext, StartCall, ReadFresh, Persist, FileFails, Reread,
                RereadFails, MissReadBack, StartReload, ReloadFile, ReloadFails, Reload, Crash, Return, Accept
  <1>7. QED
    BY <1>2, <1>3, <1>4, <1>5, <1>6

\* mutate builds on what the file holds unless an external write comes
\* between its read and its rename.
THEOREM BuildsOnLatest == Spec => []EditsBuildOnLatest
  BY InitPromises, StepBuildsOnLatest, TypeCorrect, PTL DEF Spec

\* write_file replaces only what the newest backup holds unless an external
\* write comes between the two.
THEOREM BacksUpWhatItOverwrites == Spec => []OverwrittenIsBackedUp
  BY InitPromises, StepBacksUp, TypeCorrect, PTL DEF Spec

\* No command brings a second entry of a name into a file, whatever external
\* programs and other commands did since its checks on memory.
THEOREM AddsNoDuplicate == Spec => []NoDuplicateAdded
  <1>1. TypeOK => NoDuplicateAdded
    BY EditKeepsUnique DEF TypeOK, CommandOK, NoDuplicateAdded
  <1>2. QED
    BY <1>1, TypeCorrect, PTL

\* An edit touches only the entries it names, whatever the file holds and
\* however many duplicates it has.
THEOREM EditsAreLocal == Spec => []EditIsLocal
  <1>1. TypeOK => EditIsLocal
    BY EditFacts DEF TypeOK, CommandOK, EditIsLocal, Concerns
  <1>2. QED
    BY <1>1, TypeCorrect, PTL

-----------------------------------------------------------------------------
(* What memory holds of the files *)

\* The file read back replaces its entry, or is added at the end.
LEMMA RefreshedFacts ==
    ASSUME MemoryOK, NEW f
    PROVE  \/ /\ \A i \in DOMAIN files : files[i].path # f.path
              /\ Refreshed(f) = Append(files, f)
           \/ \E k \in DOMAIN files :
              /\ files[k].path = f.path
              /\ Refreshed(f) = [files EXCEPT ![k] = f]
  <1>1. SUFFICES ASSUME \E i \in DOMAIN files : files[i].path = f.path
                 PROVE  \E k \in DOMAIN files : /\ files[k].path = f.path
                                                /\ Refreshed(f) = [files EXCEPT ![k] = f]
    BY DEF Refreshed
  <1> DEFINE same == {i \in DOMAIN files : files[i].path = f.path}
             P(i) == /\ files[i].path = f.path
                     /\ \A j \in DOMAIN files : files[j].path = f.path => i <= j
             first == CHOOSE i \in DOMAIN files : P(i)
  <1>2. same \subseteq Nat /\ same # {}
    BY <1>1 DEF MemoryOK, IsSeq
  <1>3. \E i \in same : \A j \in same : i <= j
    BY <1>2, LeastExists
  <1>4. \E i \in DOMAIN files : P(i)
    BY <1>3, Zenon
  <1>5. first \in DOMAIN files /\ P(first)
    <2> HIDE DEF P
    <2>1. QED
      BY <1>4
  <1>6. Refreshed(f) = [files EXCEPT ![first] = f]
    BY <1>1 DEF Refreshed
  <1> HIDE DEF first
  <1>7. QED
    BY <1>5, <1>6

\* What happened is counted.
Counted == count \in [Events -> Nat]

LEMMA InitCounted == Init => Counted
  BY DEF Init, Counted, Failure

\* A crash, and the reads that fail when the program starts again.
LEMMA CrashCounted ==
    ASSUME Counted, Crash
    PROVE  Counted' /\ count'["crash"] = count["crash"] + 1 /\ count'["external"] = count["external"]
  BY DEF Counted, Crash, Events, Failure

LEMMA StepCounted == Counted /\ [Next]_vars => Counted'
  <1>1. [Next]_vars => \/ count' = count \/ Crash
                       \/ \E ev \in Events : Happens(ev)
    <2>1. [Next]_vars => \/ count' = count \/ Crash
                         \/ Happens("command") \/ Happens("failure") \/ Happens("external")
      BY DEF Next, vars, SaveContext, DeleteContext, StartCall, ReadFresh, Backup, Persist, FileFails,
             Reread, RereadFails, StartWatcher, StartReload, ReloadFile, ReloadFails, ExternalWrite
    <2>2. QED
      BY <2>1 DEF Events
  <1>2. ASSUME Counted, NEW ev \in Events, Happens(ev) PROVE Counted'
    BY <1>2 DEF Counted, Happens
  <1>3. Counted /\ count' = count => Counted'
    BY DEF Counted
  <1>4. QED
    BY <1>1, <1>2, <1>3, CrashCounted

\* While the program runs, memory of a file changes only to what it holds.
LEMMA StepKeepsLastGood ==
    ASSUME TypeOK, Counted, [Next]_vars, count'["crash"] = count["crash"]
    PROVE  \A i \in DOMAIN files : files'[i].cfg # files[i].cfg =>
             Readable(disk[files[i].path]) /\ files'[i].cfg = disk[files[i].path].cfg
  <1> DEFINE Goal == \A i \in DOMAIN files : files'[i].cfg # files[i].cfg =>
                 Readable(disk[files[i].path]) /\ files'[i].cfg = disk[files[i].path].cfg
  <1>1. CASE Reread /\ Readable(disk[path])
    <2> DEFINE f == Loaded(path, disk[path])
    <2>1. files' = Refreshed(f) /\ f.path = path /\ f.cfg = disk[path].cfg
      BY <1>1 DEF Reread, Loaded
    <2> HIDE DEF f
    <2>2. CASE Refreshed(f) = Append(files, f)
      <3>1. Len(files) \in Nat /\ DOMAIN files = 1..Len(files)
        BY DEF TypeOK, MemoryOK, IsSeq
      <3>2. \A i \in DOMAIN files : Append(files, f)[i] = files[i]
        BY <3>1
      <3>3. QED
        BY <2>1, <2>2, <3>2
    <2>3. ASSUME NEW k \in DOMAIN files, files[k].path = f.path, Refreshed(f) = [files EXCEPT ![k] = f]
          PROVE  Goal
      BY <1>1, <2>1, <2>3
    <2>4. QED
      BY <2>2, <2>3, RefreshedFacts DEF TypeOK
  <1>2. CASE ReloadFile \/ ReloadFails
    <2>1. ASSUME NEW f, Reload(f), f.cfg = files[pos].cfg \/
                                   (Readable(disk[files[pos].path]) /\ f.cfg = disk[files[pos].path].cfg)
          PROVE  Goal
      <3>1. files' = [files EXCEPT ![pos] = f]
        BY <2>1 DEF Reload
      <3>2. \A i \in DOMAIN files : i # pos => files'[i] = files[i]
        BY <3>1
      <3>3. pos \in DOMAIN files => files'[pos] = f
        BY <3>1
      <3>4. QED
        BY <2>1, <3>2, <3>3
    <2> DEFINE Found == \E f : Reload(f) /\ (f.cfg = files[pos].cfg \/
                          (Readable(disk[files[pos].path]) /\ f.cfg = disk[files[pos].path].cfg))
    <2>2. Found
      <3>1. CASE ReloadFile
        <4> DEFINE f == Reloaded(files[pos])
        <4>1. f.cfg = files[pos].cfg \/ (Readable(disk[files[pos].path]) /\ f.cfg = disk[files[pos].path].cfg)
          BY DEF Reloaded, Loaded
        <4>2. Reload(f)
          BY <3>1 DEF ReloadFile
        <4> HIDE DEF f
        <4>3. QED
          BY <4>1, <4>2
      <3>2. CASE ReloadFails
        <4> DEFINE f == [files[pos] EXCEPT !.error = TRUE]
        <4>1. f.cfg = files[pos].cfg
          OBVIOUS
        <4>2. Reload(f)
          BY <3>2 DEF ReloadFails
        <4> HIDE DEF f
        <4>3. QED
          BY <4>1, <4>2
      <3> HIDE DEF Found
      <3>3. QED
        BY <1>2, <3>1, <3>2
    <2>3. Goal
      <3> HIDE DEF Goal
      <3>1. QED
        BY <2>1, <2>2
    <2>4. QED
      BY <2>3
  <1>3. CASE Crash
    <2>1. count'["crash"] = count["crash"] + 1 /\ count["crash"] \in Nat
      BY <1>3, CrashCounted DEF Counted, Events
    <2>2. QED
      BY <2>1
  <1>4. CASE UNCHANGED files
    BY <1>4
  <1>5. UNCHANGED files \/ ReloadFile \/ ReloadFails \/ Crash \/ (Reread /\ Readable(disk[path]))
    BY DEF Next, vars, SaveContext, DeleteContext, StartCall, ReadFresh, Backup, Persist, FileFails,
           Reread, RereadFails, MissReadBack, StartWatcher, StartReload, ExternalWrite
  <1>6. QED
    BY <1>1, <1>2, <1>3, <1>4, <1>5

\* A file that stops parsing, however often and by whomever it is written,
\* never takes its last good contexts from memory.
THEOREM KeepsLastGood == Spec => LastGoodKept
  <1>1. TypeOK /\ Counted /\ [Next]_vars =>
          [count'["crash"] = count["crash"] =>
             \A i \in DOMAIN files : files'[i].cfg # files[i].cfg =>
               Readable(disk[files[i].path]) /\ files'[i].cfg = disk[files[i].path].cfg]_vars
    BY StepKeepsLastGood
  <1>2. QED
    BY <1>1, InitCounted, StepCounted, TypeCorrect, PTL DEF Spec, LastGoodKept

-----------------------------------------------------------------------------
(* With distinct paths.  The code takes KUBECONFIG as it is, duplicates       *)
(* included, and a file that is loaded twice is refreshed at its first place  *)
(* only; what follows needs every file to be loaded once.                     *)

DistinctPaths == \A i, j \in DOMAIN LoadOrder : LoadOrder[i] = LoadOrder[j] => i = j

\* Every file has one place in memory.
OnePlace == \A i, j \in DOMAIN files : files[i].path = files[j].path => i = j

\* With no other writer only the file that was written and not yet read back
\* may differ, and those that could not be read.
AlmostSynced ==
    count["external"] = 0 =>
        \A i \in DOMAIN files :
            InStep(files[i]) \/ files[i].path \in missed \/ (phase = "reread" /\ files[i].path = path)

\* The entry an upsert starts from is the one memory has in the file it edits.
UpsertsFromMemory ==
    phase \in {"read", "backup", "persist"} /\ edit.kind = "set" /\ edit.list # "contexts" =>
        /\ Known(files, edit.list, edit.name)
        /\ path = FindPath(files, edit.list, edit.name)
        /\ edit.entry.extras = FindEntry(files, edit.list, edit.name).extras

MemoryInv == TypeOK /\ Counted /\ OnePlace /\ AlmostSynced /\ UpsertsFromMemory

\* Loading distinct paths gives each file one place, with what is on disk if it
\* can be read.
LEMMA LoadedFacts ==
    ASSUME DistinctPaths, NEW failed
    PROVE  LET loaded == LoadTolerant(disk, failed) IN
           /\ \A i, j \in DOMAIN loaded : loaded[i].path = loaded[j].path => i = j
           /\ \A i \in DOMAIN loaded : InStep(loaded[i]) \/ loaded[i].path \in failed
  BY DEF LoadTolerant, Loaded, DistinctPaths, InStep

LEMMA InitMemory == ASSUME DistinctPaths, Init PROVE MemoryInv
  <1>1. TypeOK /\ Counted
    BY InitTypeOK, InitCounted
  <1>2. files = LoadTolerant(disk, missed) /\ phase = "idle"
    BY DEF Init
  <1>3. OnePlace /\ AlmostSynced /\ UpsertsFromMemory
    BY <1>2, LoadedFacts DEF OnePlace, AlmostSynced, UpsertsFromMemory
  <1>4. QED
    BY <1>1, <1>3 DEF MemoryInv

\* Reading a file back gives it its one place and brings it in step.
LEMMA RefreshKeeps ==
    ASSUME TypeOK, OnePlace, NEW f, f.path \in Paths,
           files' = Refreshed(f), disk' = disk, Readable(disk[f.path]), f.cfg = disk[f.path].cfg,
           NEW S, \A i \in DOMAIN files : InStep(files[i]) \/ files[i].path \in S \/ files[i].path = f.path
    PROVE  OnePlace' /\ \A i \in DOMAIN files' : InStep(files[i])' \/ files'[i].path \in S
  <1>1. IsSeq(files) /\ Len(files) \in Nat /\ DOMAIN files = 1..Len(files)
    BY DEF TypeOK, MemoryOK, IsSeq
  <1>2. CASE (\A i \in DOMAIN files : files[i].path # f.path) /\ Refreshed(f) = Append(files, f)
    <2>1. /\ DOMAIN files' = 1..Len(files) + 1 /\ files'[Len(files) + 1] = f
          /\ \A i \in DOMAIN files' : i \in DOMAIN files \/ i = Len(files) + 1
          /\ \A i \in DOMAIN files : files'[i] = files[i]
      BY <1>1, <1>2
    <2>2. QED
      BY <1>2, <2>1 DEF OnePlace, InStep
  <1>3. ASSUME NEW k \in DOMAIN files, files[k].path = f.path, Refreshed(f) = [files EXCEPT ![k] = f]
        PROVE  OnePlace' /\ \A i \in DOMAIN files' : InStep(files[i])' \/ files'[i].path \in S
    <2>1. DOMAIN files' = DOMAIN files /\ files'[k] = f
          /\ \A i \in DOMAIN files : i # k => files'[i] = files[i] /\ files[i].path # f.path
      BY <1>3 DEF OnePlace
    <2>2. QED
      BY <1>3, <2>1 DEF OnePlace, InStep
  <1>4. QED
    BY <1>2, <1>3, RefreshedFacts DEF TypeOK

\* A step that leaves the disk and memory, outside the rename and the read back.
LEMMA RestKeepsSynced ==
    ASSUME OnePlace, AlmostSynced, UNCHANGED <<disk, files, missed>>, phase # "reread",
           count'["external"] = 0 => count["external"] = 0
    PROVE  OnePlace' /\ AlmostSynced'
  BY DEF OnePlace, AlmostSynced, InStep

\* A file that is not read back is the one that may differ from then on.
LEMMA MissedKeeps ==
    ASSUME OnePlace, AlmostSynced, MissReadBack, UNCHANGED disk,
           count'["external"] = 0 => count["external"] = 0
    PROVE  OnePlace' /\ AlmostSynced'
  <1>1. UNCHANGED <<disk, files>> /\ missed' = missed \cup {path}
    BY DEF MissReadBack
  <1>2. QED
    BY <1>1 DEF OnePlace, AlmostSynced, InStep

\* An upsert is prepared from what memory holds.
LEMMA PreparedFromMemory ==
    ASSUME TypeOK, NEW c, CallOK(c), ~CallRefused(c),
           CallEdit(c).kind = "set", CallEdit(c).list # "contexts"
    PROVE  /\ Known(files, CallEdit(c).list, CallEdit(c).name)
           /\ CallPath(c) = FindPath(files, CallEdit(c).list, CallEdit(c).name)
           /\ CallEdit(c).entry.extras = FindEntry(files, CallEdit(c).list, CallEdit(c).name).extras
  <1>1. CASE c.fn = "upsert"
    BY <1>1 DEF CallEdit, CallPath, UpsertEdit, UpsertPath, SetEdit, AddEdit
  <1>2. CASE c.fn # "upsert"
    BY <1>2 DEF CallOK, CallRefused, CallEdit, SetEdit, AddEdit, RenameEdit, DeleteEdit
  <1>3. QED
    BY <1>1, <1>2

\* Every step keeps memory in step with the disk, as far as MemoryInv says.
LEMMA StepMemory == ASSUME DistinctPaths, MemoryInv, [Next]_vars PROVE MemoryInv'
  <1> USE DEF MemoryInv
  <1>1. TypeOK' /\ Counted'
    BY StepTypeOK, StepCounted
  <1> DEFINE Goal == OnePlace' /\ AlmostSynced'
  <1>2. ASSUME Persist PROVE Goal
    <2>1. path \in Paths /\ DOMAIN disk = Paths
      BY DEF TypeOK, CommandOK, FilesOK
    <2>2. \A p \in Paths : p # path => disk'[p] = disk[p]
      BY <1>2 DEF Persist
    <2>3. \A i \in DOMAIN files : files[i].path \in Paths
      BY DEF TypeOK, MemoryOK
    <2>4. QED
      BY <1>2, <2>2, <2>3 DEF Persist, OnePlace, AlmostSynced, InStep
  <1>3. ASSUME Reread PROVE Goal
    <2>1. CASE ~Readable(disk[path])
      BY <1>3, <2>1, MissedKeeps DEF Reread
    <2>2. CASE Readable(disk[path])
      <3> DEFINE f == Loaded(path, disk[path])
      <3>1. files' = Refreshed(f) /\ UNCHANGED <<disk, count, missed>> /\ phase = "reread"
        BY <1>3, <2>2 DEF Reread
      <3>2. f.path = path /\ f.cfg = disk[path].cfg /\ path \in Paths
        BY DEF Loaded, TypeOK, CommandOK
      <3> HIDE DEF f
      <3>3. CASE count["external"] # 0
        <4>1. OnePlace'
          <5>1. CASE (\A i \in DOMAIN files : files[i].path # f.path) /\ Refreshed(f) = Append(files, f)
            <6>1. Len(files) \in Nat /\ DOMAIN files = 1..Len(files)
              BY DEF TypeOK, MemoryOK, IsSeq
            <6>2. /\ DOMAIN files' = 1..Len(files) + 1 /\ files'[Len(files) + 1] = f
                  /\ \A i \in DOMAIN files' : i \in DOMAIN files \/ i = Len(files) + 1
                  /\ \A i \in DOMAIN files : files'[i] = files[i]
              BY <3>1, <5>1, <6>1
            <6>3. QED
              BY <5>1, <6>2 DEF OnePlace
          <5>2. ASSUME NEW k \in DOMAIN files, files[k].path = f.path,
                       Refreshed(f) = [files EXCEPT ![k] = f]
                PROVE  OnePlace'
            BY <3>1, <5>2 DEF OnePlace
          <5>3. QED
            BY <5>1, <5>2, RefreshedFacts DEF TypeOK
        <4>2. QED
          BY <3>1, <3>3, <4>1 DEF AlmostSynced
      <3>4. CASE count["external"] = 0
        <4>1. \A i \in DOMAIN files : InStep(files[i]) \/ files[i].path \in missed \/ files[i].path = f.path
          BY <3>2, <3>4 DEF AlmostSynced
        <4>2. OnePlace' /\ \A i \in DOMAIN files' : InStep(files[i])' \/ files'[i].path \in missed
          BY <2>2, <3>1, <3>2, <4>1, RefreshKeeps
        <4>3. QED
          BY <3>1, <4>2 DEF AlmostSynced
      <3>5. QED
        BY <3>3, <3>4
    <2>3. QED
      BY <2>1, <2>2
  <1>4. ASSUME ReloadFile PROVE Goal
    <2>1. pos \in DOMAIN files /\ phase = "reload"
      BY <1>4 DEF ReloadFile, Reload, TypeOK, MemoryOK
    <2>2. /\ DOMAIN files' = DOMAIN files /\ UNCHANGED <<disk, count>>
          /\ \A i \in DOMAIN files : files'[i].path = files[i].path /\ (i # pos => files'[i] = files[i])
          /\ Readable(disk[files[pos].path]) => files'[pos].cfg = disk[files[pos].path].cfg
          /\ missed' = IF Readable(disk[files[pos].path]) THEN missed \ {files[pos].path} ELSE missed
      BY <1>4, <2>1 DEF ReloadFile, Reload, Reloaded, Loaded, StillMissed
    <2>3. OnePlace'
      BY <2>2 DEF OnePlace
    <2>4. ASSUME count["external"] = 0, NEW i \in DOMAIN files
          PROVE  InStep(files[i])' \/ files'[i].path \in missed'
      <3>1. CASE i = pos
        BY <2>2, <3>1 DEF InStep
      <3>2. CASE i # pos
        <4>1. files[i].path # files[pos].path
          BY <2>1, <3>2 DEF OnePlace
        <4>2. InStep(files[i]) \/ files[i].path \in missed
          BY <2>1, <2>4 DEF AlmostSynced
        <4>3. QED
          BY <2>2, <3>2, <4>1, <4>2 DEF InStep
      <3>3. QED
        BY <3>1, <3>2
    <2>5. QED
      BY <2>2, <2>3, <2>4 DEF AlmostSynced
  <1>5. ASSUME NEW p \in Paths, NEW c \in Contents, ExternalWrite(p, c) PROVE Goal
    <2>1. count'["external"] # 0
      BY <1>5 DEF ExternalWrite, Happens, Counted, Events
    <2>2. QED
      BY <1>5, <2>1 DEF ExternalWrite, OnePlace, AlmostSynced
  <1>6. ASSUME Crash PROVE Goal
    <2>1. PICK failed : /\ files' = LoadTolerant(disk, failed) /\ missed' = failed
                        /\ disk' = disk /\ phase' = "idle"
      BY <1>6 DEF Crash, Return
    <2>2. OnePlace'
      BY <2>1, LoadedFacts DEF OnePlace
    <2>3. \A i \in DOMAIN files' : InStep(files[i])' \/ files'[i].path \in missed'
      BY <2>1, LoadedFacts DEF InStep
    <2>4. QED
      BY <2>2, <2>3 DEF AlmostSynced
  <1>7. ASSUME UNCHANGED <<disk, files, missed, count, path>>, phase' = phase PROVE Goal
    BY <1>7 DEF OnePlace, AlmostSynced, InStep
  <1>8. ASSUME UNCHANGED <<disk, files, missed>>, phase # "reread", count'["external"] = count["external"] PROVE Goal
    BY <1>8, RestKeepsSynced
  <1>9. ASSUME Happens("command") \/ Happens("failure") PROVE count'["external"] = count["external"]
    BY <1>9 DEF Happens, Counted, Events
  <1>10. Goal
    <2>1. ASSUME \/ \E s \in Specs : SaveContext(s)
                 \/ \E n \in DeleteNames : DeleteContext(n)
                 \/ FileFails
          PROVE  Goal
      <3>1. UNCHANGED <<disk, files, missed>> /\ phase # "reread" /\ (Happens("command") \/ Happens("failure"))
        BY <2>1 DEF SaveContext, DeleteContext, FileFails
      <3>2. QED
        BY <3>1, <1>8, <1>9
    <2>2. ASSUME StartCall \/ ReadFresh \/ Backup \/ StartReload PROVE Goal
      <3>1. UNCHANGED <<disk, files, missed, count>> /\ phase # "reread"
        BY <2>2 DEF StartCall, ReadFresh, Backup, StartReload
      <3>2. QED
        BY <3>1, <1>8
    <2>3. ASSUME StartWatcher \/ UNCHANGED vars PROVE Goal
      <3>1. UNCHANGED <<disk, files, missed, count, path>> /\ phase' = phase
        BY <2>3 DEF StartWatcher, jobVars, vars
      <3>2. QED
        BY <3>1, <1>7
    <2>4. ASSUME RereadFails PROVE Goal
      <3>1. MissReadBack /\ UNCHANGED disk /\ phase = "reread" /\ count'["external"] = count["external"]
        BY <2>4, <1>9 DEF RereadFails
      <3>2. QED
        BY <3>1, MissedKeeps
    <2>5. ASSUME ReloadFails PROVE Goal
      <3>1. pos \in DOMAIN files
        BY DEF TypeOK, MemoryOK
      <3>2. /\ DOMAIN files' = DOMAIN files /\ UNCHANGED <<disk, missed>>
            /\ \A i \in DOMAIN files : files'[i].path = files[i].path /\ files'[i].cfg = files[i].cfg
            /\ count'["external"] = count["external"] /\ phase = "reload"
        BY <2>5, <1>9, <3>1 DEF ReloadFails, Reload
      <3>3. OnePlace'
        BY <3>2 DEF OnePlace
      <3>4. AlmostSynced'
        BY <3>2 DEF AlmostSynced, InStep
      <3>5. QED
        BY <3>3, <3>4
    <2>6. QED
      BY <2>1, <2>2, <2>3, <2>4, <2>5, <1>2, <1>3, <1>4, <1>5, <1>6 DEF Next
  <1>11. UpsertsFromMemory'
    <2>1. SUFFICES ASSUME phase' \in {"read", "backup", "persist"}, edit'.kind = "set", edit'.list # "contexts"
                   PROVE  /\ Known(files, edit.list, edit.name)'
                          /\ path' = FindPath(files, edit.list, edit.name)'
                          /\ edit'.entry.extras = FindEntry(files, edit.list, edit.name)'.extras
      BY DEF UpsertsFromMemory
    <2>2. CASE StartCall
      <3> DEFINE c == Head(calls)
      <3>1. CallOK(c)
        BY <2>2, TailIsSeq DEF StartCall, TypeOK, CommandOK, Phases
      <3>2. path' = CallPath(c) /\ edit' = CallEdit(c) /\ files' = files /\ ~CallRefused(c)
        BY <2>1, <2>2 DEF StartCall, Return
      <3>3. QED
        BY <2>1, <3>1, <3>2, PreparedFromMemory DEF Known, Holders, FindPath, FindEntry, FirstHolder
    <2>3. CASE UNCHANGED <<files, edit, path>> /\ phase \in {"read", "backup", "persist"}
      BY <2>1, <2>3 DEF UpsertsFromMemory, Known, Holders, FindPath, FindEntry, FirstHolder
    <2>4. StartCall \/ (UNCHANGED <<files, edit, path>> /\ phase \in {"read", "backup", "persist"})
      BY <2>1 DEF Next, vars, SaveContext, DeleteContext, ReadFresh, Backup, Persist, FileFails, Reread, RereadFails,
                  MissReadBack, StartWatcher, StartReload, ReloadFile, ReloadFails, Reload, ExternalWrite, Crash, Return, Accept, jobVars
    <2>5. QED
      BY <2>2, <2>3, <2>4
  <1>12. QED
    BY <1>1, <1>10, <1>11

\* The invariant on memory, for distinct paths.
THEOREM MemoryInvariant == ASSUME DistinctPaths PROVE Spec => []MemoryInv
  BY InitMemory, StepMemory, PTL DEF Spec

\* With no other writer, memory is what the disk holds whenever the mutex is
\* free, however often operations failed and the program died, but for the files
\* that could not be read at the start or back after they were written and were
\* not reloaded since.
THEOREM MemoryIsSynced == ASSUME DistinctPaths PROVE Spec => []MemoryMatchesDisk
  <1>1. MemoryInv => MemoryMatchesDisk
    BY DEF MemoryInv, AlmostSynced, MemoryMatchesDisk
  <1>2. QED
    BY <1>1, MemoryInvariant, PTL

\* An upsert keeps the fields kxs does not understand whenever memory and the
\* file agree as the edit is made.
THEOREM ExtrasSurvive == ASSUME DistinctPaths PROVE Spec => []ExtrasPreservedWhenSynced
  <1>1. ASSUME MemoryInv, NEW i \in DOMAIN files, files[i].path = path, files[i].cfg = base.cfg
        PROVE  ExtrasPreserved
    <2> SUFFICES ASSUME phase = "persist", edit.kind = "set", edit.list # "contexts"
                 PROVE  edit.entry.extras = LastNamed(base.cfg[edit.list], edit.name).extras
      BY DEF ExtrasPreserved
    <2> DEFINE h == FirstHolder(files, edit.list, edit.name)
    <2>1. /\ Known(files, edit.list, edit.name) /\ path = files[h].path
          /\ edit.entry.extras = LastNamed(files[h].cfg[edit.list], edit.name).extras
      BY <1>1 DEF MemoryInv, UpsertsFromMemory, FindPath, FindEntry
    <2>2. h \in DOMAIN files
      BY <1>1, <2>1, FirstHolderExists DEF MemoryInv, TypeOK, MemoryOK
    <2>3. h = i
      BY <1>1, <2>1, <2>2 DEF MemoryInv, OnePlace
    <2>4. QED
      BY <1>1, <2>1, <2>3
  <1>2. MemoryInv => ExtrasPreservedWhenSynced
    BY <1>1 DEF ExtrasPreservedWhenSynced
  <1>3. QED
    BY <1>2, MemoryInvariant, PTL

-----------------------------------------------------------------------------
(* What a lookup finds after an edit *)

\* A pushed entry is the one of its name, and no other name comes or goes.
LEMMA PushFound ==
    ASSUME NEW list, IsList(list), NEW entry, ~Has(list, entry.name)
    PROVE  /\ \A n : Has(Push(list, entry), n) <=> Has(list, n) \/ n = entry.name
           /\ LastNamed(Push(list, entry), entry.name) = entry
  <1> DEFINE new == Push(list, entry)
  <1>1. PICK end \in Nat \ DOMAIN list :
           /\ DOMAIN new = DOMAIN list \cup {end} /\ new[end] = entry
           /\ \A i \in DOMAIN list : new[i] = list[i]
    BY PushIs
  <1> HIDE DEF new
  <1>2. \A n : Has(new, n) <=> Has(list, n) \/ n = entry.name
    BY <1>1 DEF Has, Slots
  <1>3. Slots(new, entry.name) = {end}
    BY <1>1 DEF Has, Slots
  <1>4. Highest({end}) = end
    BY DEF Highest
  <1>5. LastNamed(new, entry.name) = entry
    BY <1>1, <1>3, <1>4 DEF LastNamed
  <1>6. QED
    BY <1>2, <1>5 DEF new

\* An entry that replaces the last of its name is what is found, and no name
\* comes or goes.
LEMMA ReplacedFound ==
    ASSUME NEW list, IsList(list), NEW n, Has(list, n), NEW entry, entry.name = n
    PROVE  /\ \A m : Has(ReplaceLast(list, n, entry), m) <=> Has(list, m)
           /\ LastNamed(ReplaceLast(list, n, entry), n) = entry
  <1> DEFINE new == ReplaceLast(list, n, entry)
             k == Highest(Slots(list, n))
  <1>1. k \in DOMAIN list /\ list[k].name = n
    BY LastSlot
  <1>2. DOMAIN new = DOMAIN list /\ new[k] = entry /\ \A i \in DOMAIN list : i # k => new[i] = list[i]
    BY <1>1 DEF ReplaceLast
  <1> HIDE DEF new
  <1>3. Slots(new, n) = Slots(list, n)
    BY <1>1, <1>2 DEF Slots
  <1>4. LastNamed(new, n) = entry
    BY <1>2, <1>3 DEF LastNamed
  <1> HIDE DEF k
  <1>5. \A m : Has(new, m) <=> Has(list, m)
    BY <1>1, <1>2 DEF Has, Slots
  <1>6. QED
    BY <1>4, <1>5 DEF new

\* A context that is renamed is found under its new name.
LEMMA RenamedFound ==
    ASSUME NEW list, IsList(list), NEW old, Has(list, old), NEW new
    PROVE  Has(ReplaceLast(list, old, [LastNamed(list, old) EXCEPT !.name = new]), new)
  <1> DEFINE entry == [LastNamed(list, old) EXCEPT !.name = new]
             k == Highest(Slots(list, old))
  <1>1. k \in DOMAIN list
    BY LastSlot
  <1>2. entry.name = new
    <2>1. "name" \in DOMAIN LastNamed(list, old)
      BY <1>1 DEF LastNamed, IsList
    <2>2. QED
      BY <2>1
  <1>3. k \in DOMAIN ReplaceLast(list, old, entry) /\ ReplaceLast(list, old, entry)[k] = entry
    BY <1>1 DEF ReplaceLast
  <1> HIDE DEF entry
  <1>4. Has(ReplaceLast(list, old, entry), new)
    BY <1>2, <1>3 DEF Has, Slots
  <1>5. QED
    BY <1>4 DEF entry

\* The files after an edit of one of them: where is file k edited by e.
EditedAt(f2, k, e) ==
    /\ k \in DOMAIN files /\ DOMAIN f2 = DOMAIN files
    /\ f2[k].cfg = Edited(files[k].cfg, e)
    /\ \A i \in DOMAIN files : i # k => f2[i] = files[i]
    /\ IsConfig(files[k].cfg) /\ EditOK(e) /\ ~Refuses(files[k].cfg, e)

\* An entry that is added is known from then on, and found if it was not known
\* anywhere.
LEMMA AddedIsFound ==
    ASSUME NEW f2, NEW k, NEW e, EditedAt(f2, k, e), e.kind = "add"
    PROVE  /\ \A l \in Lists : \A n : Known(f2, l, n) <=> Known(files, l, n) \/ (l = e.list /\ n = e.name)
           /\ ~Known(files, e.list, e.name) => FindEntry(f2, e.list, e.name) = e.entry
  <1> DEFINE cfg == files[k].cfg
             new == Push(cfg[e.list], e.entry)
  <1>1. /\ e.list \in Lists /\ e.entry.name = e.name /\ ~Has(cfg[e.list], e.name) /\ IsList(cfg[e.list])
        /\ k \in DOMAIN files /\ DOMAIN f2 = DOMAIN files
        /\ \A i \in DOMAIN files : i # k => f2[i] = files[i]
    BY DEF EditedAt, EditOK, Refuses, IsConfig
  <1>2. f2[k].cfg = [cfg EXCEPT ![e.list] = new]
    BY DEF EditedAt, Edited
  <1>3. f2[k].cfg[e.list] = new /\ \A l \in Lists : l # e.list => f2[k].cfg[l] = cfg[l]
    BY <1>1, <1>2 DEF EditedAt, IsConfig
  <1>4. (\A n : Has(new, n) <=> Has(cfg[e.list], n) \/ n = e.name) /\ LastNamed(new, e.name) = e.entry
    BY <1>1, PushFound
  <1> HIDE DEF new
  <1>5. \A l \in Lists : \A n : Known(f2, l, n) <=> Known(files, l, n) \/ (l = e.list /\ n = e.name)
    BY <1>1, <1>3, <1>4 DEF Known, Holders
  <1>6. ASSUME ~Known(files, e.list, e.name) PROVE FindEntry(f2, e.list, e.name) = e.entry
    <2>1. Holders(f2, e.list, e.name) = {k}
      BY <1>1, <1>3, <1>4, <1>6 DEF Known, Holders
    <2>2. FirstHolder(f2, e.list, e.name) = k
      <3>1. \A i \in {k} : (\A j \in {k} : i <= j) => i = k
        OBVIOUS
      <3>2. QED
        BY <2>1, <1>1 DEF FirstHolder
    <2>3. QED
      BY <1>3, <1>4, <2>2 DEF FindEntry
  <1>7. QED
    BY <1>5, <1>6

\* An entry that is replaced is found if it was the one found before, and no
\* name comes or goes.
LEMMA SetIsFound ==
    ASSUME NEW f2, NEW k, NEW e, EditedAt(f2, k, e), e.kind = "set"
    PROVE  /\ \A l \in Lists : \A n : Known(f2, l, n) <=> Known(files, l, n)
           /\ k = FirstHolder(files, e.list, e.name) => FindEntry(f2, e.list, e.name) = e.entry
  <1> DEFINE cfg == files[k].cfg
             new == ReplaceLast(cfg[e.list], e.name, e.entry)
  <1>1. /\ e.list \in Lists /\ e.entry.name = e.name /\ Has(cfg[e.list], e.name) /\ IsList(cfg[e.list])
        /\ k \in DOMAIN files /\ DOMAIN f2 = DOMAIN files
        /\ \A i \in DOMAIN files : i # k => f2[i] = files[i]
    BY DEF EditedAt, EditOK, Refuses, IsConfig
  <1>2. f2[k].cfg = [cfg EXCEPT ![e.list] = new]
    BY DEF EditedAt, Edited
  <1>3. f2[k].cfg[e.list] = new /\ \A l \in Lists : l # e.list => f2[k].cfg[l] = cfg[l]
    BY <1>1, <1>2 DEF EditedAt, IsConfig
  <1>4. (\A n : Has(new, n) <=> Has(cfg[e.list], n)) /\ LastNamed(new, e.name) = e.entry
    BY <1>1, ReplacedFound
  <1> HIDE DEF new
  <1>5. \A l \in Lists : \A n : Holders(f2, l, n) = Holders(files, l, n)
    BY <1>1, <1>3, <1>4 DEF Holders
  <1>6. k = FirstHolder(files, e.list, e.name) => FindEntry(f2, e.list, e.name) = e.entry
    BY <1>1, <1>3, <1>4, <1>5 DEF FindEntry, FirstHolder
  <1>7. QED
    BY <1>5, <1>6 DEF Known

\* A context that is renamed is known by its new name, and no cluster or user
\* comes or goes.
LEMMA RenamedIsKnown ==
    ASSUME NEW f2, NEW k, NEW e, EditedAt(f2, k, e), e.kind = "rename"
    PROVE  /\ \A l \in {"clusters", "users"} : \A n : Known(f2, l, n) <=> Known(files, l, n)
           /\ Known(f2, "contexts", e.new)
  <1> DEFINE cfg == files[k].cfg
             entry == [LastNamed(cfg.contexts, e.name) EXCEPT !.name = e.new]
             new == ReplaceLast(cfg.contexts, e.name, entry)
  <1>1. /\ Has(cfg.contexts, e.name) /\ IsList(cfg.contexts) /\ DOMAIN cfg = Lists \cup {"current"}
        /\ k \in DOMAIN files /\ DOMAIN f2 = DOMAIN files
        /\ \A i \in DOMAIN files : i # k => f2[i] = files[i]
    BY DEF EditedAt, Refuses, IsConfig, Lists
  <1>2. f2[k].cfg = [cfg EXCEPT !.contexts = new, !.current = Moved(cfg.current, e.name, e.new)]
    BY DEF EditedAt, Edited, Renamed
  <1>3. Has(new, e.new)
    BY <1>1, RenamedFound
  <1> HIDE DEF new
  <1>4. f2[k].cfg.contexts = new /\ f2[k].cfg.clusters = cfg.clusters /\ f2[k].cfg.users = cfg.users
    BY <1>1, <1>2 DEF Lists
  <1>5. \A l \in {"clusters", "users"} : \A n : Known(f2, l, n) <=> Known(files, l, n)
    BY <1>1, <1>4 DEF Known, Holders
  <1>6. Known(f2, "contexts", e.new)
    BY <1>1, <1>3, <1>4 DEF Known, Holders
  <1>7. QED
    BY <1>5, <1>6

-----------------------------------------------------------------------------
(* Saves.  While nobody else writes and memory has read back what was written, *)
(* a save is done as a whole or not begun, but for what the checks of          *)
(* apply_context_spec leave out: a spec that names no user, and a file that    *)
(* does not parse.                                                             *)

\* Each file is loaded once, and the form offers the loaded ones as targets
\* (ContextForm.svelte).
OnceLoaded ==
    /\ DistinctPaths
    /\ \A s \in Specs : s.target = None \/ \E i \in DOMAIN LoadOrder : LoadOrder[i] = s.target

AllLoaded == \A i \in DOMAIN LoadOrder : \E j \in DOMAIN files : files[j].path = LoadOrder[i]

\* The file and the edit are those of the call that runs, as memory has them.
OfItsCall ==
    phase \in {"read", "backup", "persist", "reread"} =>
        /\ ~CallRefused(Head(calls))
        /\ path = CallPath(Head(calls)) /\ edit = CallEdit(Head(calls))

\* What the edit is made of is what memory holds of the file.
FromMemory ==
    /\ phase \in {"backup", "persist"} => base = disk[path] /\ Readable(disk[path])
    /\ phase = "reread" =>
          /\ Readable(disk[path])
          /\ disk[path].cfg = Edited(base.cfg, edit) /\ IsConfig(base.cfg) /\ ~Refuses(base.cfg, edit)
          /\ \A i \in DOMAIN files : files[i].path = path => files[i].cfg = base.cfg

\* The calls of a save that are left: upserts, or what fails for a cluster or user
\* that is not named, then what is done to the context.
InTheirOrder ==
    \A i \in DOMAIN calls :
        \/ calls[i].fn \in {"upsert", "unspecified"} /\ calls[i].list \in {"clusters", "users"} /\ i < Len(calls)
        \/ calls[i].fn = "rename" /\ i + 1 = Len(calls) /\ calls[i + 1].fn = "update"
        \/ calls[i].fn \in {"create", "update"} /\ i = Len(calls)

Comes(fn) == \E i \in DOMAIN calls : calls[i].fn = fn

\* A cluster that is not named is found out before anything is written.
Unnamed ==
    \A i \in DOMAIN calls : calls[i].fn = "unspecified" =>
        \/ calls[i].list = "users" /\ spec.user.mode = "missing"
        \/ i = 1 /\ calls = CallsOf(spec)

\* What the spec names is known by the time it is needed.
RefsComing ==
    \A l \in {"clusters", "users"} :
        \/ Known(files, l, Ref(l).name)
        \/ \E i \in DOMAIN calls : calls[i].fn \in {"upsert", "unspecified"} /\ calls[i].list = l

\* A context is created if it is not known, and updated once it is.
ContextComing ==
    /\ Comes("create") => ~Known(files, "contexts", spec.name)
    /\ Comes("rename") => Known(files, "contexts", spec.orig) /\ ~Known(files, "contexts", spec.name)
    /\ Comes("update") /\ ~Comes("rename") => Known(files, "contexts", spec.name)

SaveUnderWay ==
    spec # NoSpec => spec \in Specs /\ InTheirOrder /\ Unnamed /\ RefsComing /\ ContextComing

\* No spec is left when no command runs.
NoneLeft == phase \in {"idle", "reload"} => spec = NoSpec

SaveInv ==
    /\ MemoryInv /\ AllLoaded /\ OfItsCall /\ NoneLeft
    /\ Undisturbed => FromMemory /\ SaveUnderWay

\* The first file that holds a name holds it.
LEMMA FirstHolderHolds ==
    ASSUME IsSeq(files), NEW list, NEW n, Known(files, list, n)
    PROVE  /\ FirstHolder(files, list, n) \in DOMAIN files
           /\ Has(files[FirstHolder(files, list, n)].cfg[list], n)
  <1>1. Holders(files, list, n) \subseteq Nat /\ Holders(files, list, n) # {}
    BY DEF Known, Holders, IsSeq
  <1>2. \E i \in Holders(files, list, n) : \A j \in Holders(files, list, n) : i <= j
    BY <1>1, LeastExists
  <1>3. QED
    BY <1>2 DEF FirstHolder, Holders

\* A call works on a file that is loaded.
LEMMA CallPathIsLoaded ==
    ASSUME OnceLoaded, TypeOK, AllLoaded, NEW c, CallOK(c), ~CallRefused(c)
    PROVE  \E i \in DOMAIN files : files[i].path = CallPath(c)
  <1>1. IsSeq(files) /\ 1 \in DOMAIN files
    BY DEF TypeOK, MemoryOK, IsSeq
  <1>2. ASSUME NEW l, NEW n, Known(files, l, n)
        PROVE  \E i \in DOMAIN files : files[i].path = FindPath(files, l, n)
    BY <1>1, <1>2, FirstHolderHolds DEF FindPath
  <1>3. ASSUME spec \in Specs PROVE \E i \in DOMAIN files : files[i].path = Target(spec.target)
    <2>1. CASE spec.target = None
      BY <1>1, <2>1 DEF Target, DefaultTarget
    <2>2. CASE spec.target # None
      BY <1>3, <2>2 DEF OnceLoaded, AllLoaded, Target
    <2>3. QED
      BY <2>1, <2>2
  <1>4. CASE c.fn = "upsert"
    BY <1>2, <1>3, <1>4 DEF CallOK, CallPath, UpsertPath
  <1>5. CASE c.fn = "create"
    BY <1>3, <1>5 DEF CallOK, CallPath
  <1>6. CASE c.fn \in {"update", "rename", "delete", "unspecified"}
    BY <1>2, <1>6 DEF CallPath, CallRefused
  <1>7. QED
    BY <1>4, <1>5, <1>6 DEF CallOK

\* Between two writes memory is what the disk holds.
LEMMA MemoryIsDisk ==
    ASSUME MemoryInv, Undisturbed, phase # "reread", NEW i \in DOMAIN files,
           Readable(disk[files[i].path])
    PROVE  files[i].cfg = disk[files[i].path].cfg
  BY DEF MemoryInv, AlmostSynced, InStep, Undisturbed

\* The call that runs, and what it works on.
LEMMA CurrentCall ==
    ASSUME OnceLoaded, MemoryInv, AllLoaded, OfItsCall, phase \in {"read", "backup", "persist", "reread"}
    PROVE  LET c == Head(calls)
           IN  /\ CallOK(c) /\ ~CallRefused(c) /\ path = CallPath(c) /\ edit = CallEdit(c)
               /\ EditOK(edit) /\ \E i \in DOMAIN files : files[i].path = path
  <1> DEFINE c == Head(calls)
  <1>1. CallOK(c)
    <2>1. IsSeq(calls) /\ calls # <<>> /\ \A i \in DOMAIN calls : CallOK(calls[i])
      BY DEF MemoryInv, TypeOK, CommandOK, Phases
    <2>2. QED
      BY <2>1, TailIsSeq
  <1>2. ~CallRefused(c) /\ path = CallPath(c) /\ edit = CallEdit(c)
    BY DEF OfItsCall
  <1> HIDE DEF c
  <1>3. EditOK(edit) /\ \E i \in DOMAIN files : files[i].path = path
    BY <1>1, <1>2, CallFacts, CallPathIsLoaded DEF MemoryInv
  <1>4. QED
    BY <1>1, <1>2, <1>3 DEF c

\* The file a call reads allows its edit.
LEMMA CallApplies ==
    ASSUME OnceLoaded, MemoryInv, AllLoaded, Undisturbed, OfItsCall, phase = "read",
           Readable(disk[path])
    PROVE  ~Refuses(disk[path].cfg, edit)
  <1> DEFINE c == Head(calls)
  <1>1. /\ CallOK(c) /\ ~CallRefused(c) /\ path = CallPath(c) /\ edit = CallEdit(c)
        /\ EditOK(edit) /\ \E i \in DOMAIN files : files[i].path = path
    BY CurrentCall
  <1> HIDE DEF c
  <1>2. IsSeq(files) /\ \A i \in DOMAIN files : files[i].path = path => files[i].cfg = disk[path].cfg
    BY MemoryIsDisk DEF MemoryInv, TypeOK, MemoryOK
  <1>3. ASSUME NEW l, NEW n, ~Known(files, l, n) PROVE ~Has(disk[path].cfg[l], n)
    BY <1>1, <1>2, <1>3 DEF Known, Holders
  <1>4. ASSUME NEW l, NEW n, Known(files, l, n), path = FindPath(files, l, n)
        PROVE  Has(disk[path].cfg[l], n)
    BY <1>2, <1>4, FirstHolderHolds DEF FindPath
  <1>5. CASE c.fn = "upsert"
    BY <1>1, <1>3, <1>4, <1>5 DEF Refuses, CallPath, CallEdit, UpsertPath, UpsertEdit, AddEdit, SetEdit
  <1>6. CASE c.fn = "create"
    BY <1>1, <1>3, <1>6 DEF Refuses, CallRefused, CallPath, CallEdit, AddEdit, ContextEntry
  <1>7. CASE c.fn = "update"
    BY <1>1, <1>4, <1>7 DEF Refuses, CallRefused, CallPath, CallEdit, SetEdit, ContextEntry
  <1>8. CASE c.fn = "rename"
    <2>1. /\ ~Known(files, "contexts", spec.name) /\ Known(files, "contexts", spec.orig)
          /\ path = FindPath(files, "contexts", spec.orig) /\ edit = RenameEdit(spec.orig, spec.name)
      BY <1>1, <1>8 DEF CallRefused, CallPath, CallEdit
    <2>2. ~Has(disk[path].cfg["contexts"], spec.name) /\ Has(disk[path].cfg["contexts"], spec.orig)
      BY <1>3, <1>4, <2>1
    <2>3. QED
      BY <2>1, <2>2 DEF Refuses, RenameEdit
  <1>9. CASE c.fn = "delete"
    BY <1>1, <1>9 DEF Refuses, CallEdit, DeleteEdit
  <1>10. CASE c.fn = "unspecified"
    BY <1>1, <1>10 DEF CallRefused
  <1>11. QED
    BY <1>1, <1>5, <1>6, <1>7, <1>8, <1>9, <1>10 DEF CallOK

\* What is read back after a rename is memory with the edit made in one file.
LEMMA ReadBack ==
    ASSUME OnceLoaded, SaveInv, Undisturbed, Reread
    PROVE  \E k \in DOMAIN files : /\ files[k].path = path /\ EditedAt(files', k, edit)
                                   /\ \A i \in DOMAIN files : files'[i].path = files[i].path
  <1> USE DEF SaveInv
  <1>1. phase = "reread" /\ path \in Paths /\ Readable(disk[path])
    BY DEF Reread, FromMemory, MemoryInv, TypeOK, CommandOK
  <1>2. EditOK(edit) /\ \E i \in DOMAIN files : files[i].path = path
    BY <1>1, CurrentCall
  <1> DEFINE f == Loaded(path, disk[path])
  <1>3. files' = Refreshed(f) /\ f.path = path /\ f.cfg = disk[path].cfg
    BY <1>1 DEF Reread, Loaded
  <1> HIDE DEF f
  <1>4. PICK k \in DOMAIN files : files[k].path = path /\ files' = [files EXCEPT ![k] = f]
    BY <1>2, <1>3, RefreshedFacts DEF MemoryInv, TypeOK
  <1>5. /\ f.cfg = Edited(files[k].cfg, edit) /\ IsConfig(files[k].cfg)
        /\ ~Refuses(files[k].cfg, edit)
    BY <1>1, <1>3, <1>4 DEF FromMemory
  <1>6. EditedAt(files', k, edit)
    BY <1>2, <1>4, <1>5 DEF EditedAt
  <1>7. QED
    BY <1>3, <1>4, <1>6

\* What apply_context_spec calls.
LEMMA CallsAre ==
    ASSUME NEW s \in Specs, NEW cs, cs = CallsOf(s)
    PROVE  /\ IsSeq(cs) /\ cs # <<>>
           /\ \A i \in DOMAIN cs :
                 \/ cs[i].fn \in {"upsert", "unspecified"} /\ cs[i].list \in {"clusters", "users"} /\ i < Len(cs)
                 \/ cs[i].fn = "rename" /\ i + 1 = Len(cs) /\ cs[i + 1].fn = "update"
                 \/ cs[i].fn \in {"create", "update"} /\ i = Len(cs)
           /\ s.cluster.mode # "existing" => \E i \in DOMAIN cs : cs[i].fn \in {"upsert", "unspecified"} /\ cs[i].list = "clusters"
           /\ s.user.mode # "existing" => \E i \in DOMAIN cs : cs[i].fn \in {"upsert", "unspecified"} /\ cs[i].list = "users"
           /\ \A i \in DOMAIN cs : cs[i].fn = "unspecified" =>
                 (cs[i].list = "users" /\ s.user.mode = "missing") \/ i = 1
           /\ (\E i \in DOMAIN cs : cs[i].fn = "create") => s.orig = None
           /\ (\E i \in DOMAIN cs : cs[i].fn = "rename") <=> s.orig \notin {None, s.name}
           /\ (\E i \in DOMAIN cs : cs[i].fn = "update") => s.orig # None
  <1> DEFINE S == {[fn |-> "create"], [fn |-> "update"], [fn |-> "rename"],
                   [fn |-> "upsert", list |-> "clusters"], [fn |-> "upsert", list |-> "users"],
                   [fn |-> "unspecified", list |-> "clusters"], [fn |-> "unspecified", list |-> "users"]}
             c == RefCalls("clusters", s.cluster)
             u == RefCalls("users", s.user)
             x == ContextCalls(s)
  <1>a. <<>> \in Seq(S) /\ Len(<<>>) = 0 /\ \A e \in S : <<e>> \in Seq(S) /\ Len(<<e>>) = 1 /\ <<e>>[1] = e
    <2> HIDE DEF S
    <2>1. QED
      OBVIOUS
  <1>1. /\ c \in Seq(S) /\ Len(c) \in {0, 1}
        /\ \A i \in 1..Len(c) : c[i].fn \in {"upsert", "unspecified"} /\ c[i].list = "clusters"
        /\ s.cluster.mode # "existing" => Len(c) = 1
    <2> DEFINE e == [fn |-> IF s.cluster.mode = "new" THEN "upsert" ELSE "unspecified", list |-> "clusters"]
    <2>1. c = <<>> \/ c = <<e>>
      BY KubeStoreAssumption DEF RefCalls
    <2>2. s.cluster.mode # "existing" => c = <<e>>
      BY KubeStoreAssumption DEF RefCalls
    <2>3. e \in S /\ e.fn \in {"upsert", "unspecified"} /\ e.list = "clusters"
      BY KubeStoreAssumption
    <2> HIDE DEF c, e, S
    <2>4. CASE c = <<>>
      <3>1. <<e>> # <<>>
        OBVIOUS
      <3>2. QED
        BY <1>a, <2>2, <2>4, <3>1
    <2>5. CASE c = <<e>>
      <3>1. Len(<<e>>) = 1 /\ <<e>> \in Seq(S) /\ <<e>>[1] = e
        BY <1>a, <2>3
      <3>2. \A i \in 1..Len(c) : c[i] = e
        BY <2>5, <3>1
      <3>3. QED
        BY <2>3, <2>5, <3>1, <3>2
    <2>6. QED
      BY <2>1, <2>4, <2>5
  <1>2. /\ u \in Seq(S) /\ Len(u) \in {0, 1}
        /\ \A i \in 1..Len(u) : u[i].fn \in {"upsert", "unspecified"} /\ u[i].list = "users"
        /\ \A i \in 1..Len(u) : u[i].fn = "unspecified" => s.user.mode = "missing"
        /\ s.user.mode # "existing" => Len(u) = 1
    <2> DEFINE e == [fn |-> IF s.user.mode = "new" THEN "upsert" ELSE "unspecified", list |-> "users"]
    <2>1. u = <<>> \/ u = <<e>>
      BY KubeStoreAssumption DEF RefCalls
    <2>2. IF s.user.mode # "existing" THEN u = <<e>> ELSE u = <<>>
      BY KubeStoreAssumption DEF RefCalls
    <2>3. e \in S /\ e.fn \in {"upsert", "unspecified"} /\ e.list = "users"
          /\ (e.fn = "unspecified" /\ s.user.mode # "existing" => s.user.mode = "missing")
      BY KubeStoreAssumption
    <2> HIDE DEF u, e, S
    <2>4. CASE u = <<>>
      <3>1. <<e>> # <<>>
        OBVIOUS
      <3>2. QED
        BY <1>a, <2>2, <2>4, <3>1
    <2>5. CASE u = <<e>>
      <3>1. Len(<<e>>) = 1 /\ <<e>> \in Seq(S) /\ <<e>>[1] = e
        BY <1>a, <2>3
      <3>2. \A i \in 1..Len(u) : u[i] = e
        BY <2>5, <3>1
      <3>3. QED
        BY <2>2, <2>3, <2>5, <3>1, <3>2
    <2>6. QED
      BY <2>1, <2>4, <2>5
  <1>3. /\ x \in Seq(S)
        /\ \/ s.orig = None /\ Len(x) = 1 /\ x[1].fn = "create"
           \/ s.orig # None /\ s.orig = s.name /\ Len(x) = 1 /\ x[1].fn = "update"
           \/ s.orig # None /\ s.orig # s.name /\ Len(x) = 2 /\ x[1].fn = "rename" /\ x[2].fn = "update"
    <2>1. \A f \in {"create", "update", "rename"} : [fn |-> f] \in S /\ [fn |-> f].fn = f
      OBVIOUS
    <2>2. \A d, e \in S : <<d, e>> \in Seq(S) /\ Len(<<d, e>>) = 2 /\ <<d, e>>[1] = d /\ <<d, e>>[2] = e
      <3> HIDE DEF S
      <3>1. QED
        OBVIOUS
    <2>3. CASE s.orig = None
      <3>1. x = <<[fn |-> "create"]>>
        BY <2>3 DEF ContextCalls
      <3> HIDE DEF x, S
      <3>2. QED
        BY <1>a, <2>1, <2>3, <3>1
    <2>4. CASE s.orig # None /\ s.orig = s.name
      <3>1. x = <<[fn |-> "update"]>>
        BY <2>4 DEF ContextCalls
      <3> HIDE DEF x, S
      <3>2. QED
        BY <1>a, <2>1, <2>4, <3>1
    <2>5. CASE s.orig # None /\ s.orig # s.name
      <3>1. x = <<[fn |-> "rename"], [fn |-> "update"]>>
        BY <2>5 DEF ContextCalls
      <3> HIDE DEF x, S
      <3>2. QED
        BY <2>1, <2>2, <2>5, <3>1
    <2>6. QED
      BY <2>3, <2>4, <2>5
  <1>4. cs = (c \o u) \o x
    BY DEF CallsOf
  <1> HIDE DEF S, c, u, x
  <1> DEFINE p == c \o u
  <1>5. /\ p \in Seq(S) /\ Len(p) = Len(c) + Len(u)
        /\ \A i \in 1..Len(p) : p[i].fn \in {"upsert", "unspecified"} /\ p[i].list \in {"clusters", "users"}
        /\ \A i \in 1..Len(p) : p[i].fn = "unspecified" =>
              (p[i].list = "users" /\ s.user.mode = "missing") \/ i = 1
        /\ Len(c) = 1 => p[1].list = "clusters" /\ Len(p) \in {1, 2}
        /\ Len(u) = 1 => p[Len(p)].list = "users" /\ Len(p) \in {1, 2}
    <2>1. /\ p \in Seq(S) /\ Len(p) = Len(c) + Len(u)
          /\ \A i \in 1..Len(p) : p[i] = IF i <= Len(c) THEN c[i] ELSE u[i - Len(c)]
      BY <1>1, <1>2
    <2> HIDE DEF p
    <2>2. \A i \in 1..Len(p) : i <= Len(c) => i \in 1..Len(c)
      BY <1>1, <1>2, <2>1
    <2>3. \A i \in 1..Len(p) : ~(i <= Len(c)) => i - Len(c) \in 1..Len(u)
      BY <1>1, <1>2, <2>1
    <2>4. \A i \in 1..Len(p) : p[i].fn \in {"upsert", "unspecified"} /\ p[i].list \in {"clusters", "users"}
      BY <1>1, <1>2, <2>1, <2>2, <2>3
    <2>5. Len(c) = 1 => 1 \in 1..Len(p) /\ 1 \in 1..Len(c) /\ p[1] = c[1] /\ Len(p) \in {1, 2}
      BY <1>1, <1>2, <2>1
    <2>6. Len(u) = 1 => /\ Len(p) \in 1..Len(p) /\ ~(Len(p) <= Len(c)) /\ Len(p) - Len(c) = 1
                        /\ p[Len(p)] = u[1] /\ Len(p) \in {1, 2}
      BY <1>1, <1>2, <2>1
    <2>7. ASSUME NEW i \in 1..Len(p), p[i].fn = "unspecified"
          PROVE  (p[i].list = "users" /\ s.user.mode = "missing") \/ i = 1
      <3>1. CASE i <= Len(c)
        BY <1>1, <3>1
      <3>2. CASE ~(i <= Len(c))
        BY <1>2, <2>1, <2>3, <2>7, <3>2
      <3>3. QED
        BY <3>1, <3>2
    <2>8. QED
      BY <1>1, <1>2, <2>1, <2>4, <2>5, <2>6, <2>7
  <1> HIDE DEF p
  <1>6. /\ cs \in Seq(S) /\ Len(cs) = Len(p) + Len(x) /\ Len(p) \in Nat /\ Len(x) \in {1, 2}
        /\ \A i \in 1..Len(p) : cs[i] = p[i]
        /\ \A i \in 1..Len(x) : cs[Len(p) + i] = x[i]
    BY <1>3, <1>4, <1>5 DEF p
  <1>7. DOMAIN cs = 1..Len(cs) /\ IsSeq(cs) /\ cs # <<>>
    BY <1>6, SeqIsSeq
  <1>8. \A i \in DOMAIN cs : i \in 1..Len(p) \/ \E j \in 1..Len(x) : i = Len(p) + j
    <2>1. \A i \in DOMAIN cs : i \notin 1..Len(p) => i - Len(p) \in 1..Len(x) /\ i = Len(p) + (i - Len(p))
      BY <1>6, <1>7
    <2>2. QED
      BY <2>1
  <1>9. s.cluster.mode # "existing" => \E i \in DOMAIN cs : cs[i].fn \in {"upsert", "unspecified"} /\ cs[i].list = "clusters"
    <2>1. Len(c) = 1 => 1 \in DOMAIN cs /\ cs[1].fn \in {"upsert", "unspecified"} /\ cs[1].list = "clusters"
      BY <1>5, <1>6, <1>7
    <2>2. QED
      BY <1>1, <2>1
  <1>10. s.user.mode # "existing" => \E i \in DOMAIN cs : cs[i].fn \in {"upsert", "unspecified"} /\ cs[i].list = "users"
    <2>1. Len(u) = 1 => Len(p) \in DOMAIN cs /\ cs[Len(p)].fn \in {"upsert", "unspecified"} /\ cs[Len(p)].list = "users"
      BY <1>5, <1>6, <1>7
    <2>2. QED
      BY <1>2, <2>1
  <1>11. CASE s.orig = None \/ s.orig = s.name
    <2>1. Len(x) = 1 /\ cs[Len(cs)] = x[1] /\ \A i \in DOMAIN cs : i # Len(cs) => i \in 1..Len(p) /\ i < Len(cs)
      BY <1>3, <1>6, <1>7, <1>11
    <2>2. \A i \in DOMAIN cs : i # Len(cs) =>
             cs[i].fn \in {"upsert", "unspecified"} /\ cs[i].list \in {"clusters", "users"} /\ i < Len(cs)
      BY <1>5, <1>6, <2>1
    <2>3. Len(cs) \in DOMAIN cs /\ cs[Len(cs)].fn = IF s.orig = None THEN "create" ELSE "update"
      BY <1>3, <1>6, <1>7, <1>11, <2>1
    <2>4. \A i \in DOMAIN cs : cs[i].fn = "unspecified" => (cs[i].list = "users" /\ s.user.mode = "missing") \/ i = 1
      BY <1>5, <1>6, <2>1, <2>3
    <2>5. \A i \in DOMAIN cs :
             \/ cs[i].fn \in {"upsert", "unspecified"} /\ cs[i].list \in {"clusters", "users"} /\ i < Len(cs)
             \/ cs[i].fn \in {"create", "update"} /\ i = Len(cs)
      BY <2>2, <2>3
    <2>6. /\ (\E i \in DOMAIN cs : cs[i].fn = "create") => s.orig = None
          /\ ~(\E i \in DOMAIN cs : cs[i].fn = "rename")
          /\ (\E i \in DOMAIN cs : cs[i].fn = "update") => s.orig # None
      BY <2>2, <2>3
    <2>7. QED
      BY <1>7, <1>9, <1>10, <1>11, <2>4, <2>5, <2>6
  <1>12. CASE s.orig # None /\ s.orig # s.name
    <2>1. /\ Len(x) = 2 /\ Len(cs) = Len(p) + 2 /\ cs[Len(p) + 1].fn = "rename" /\ cs[Len(p) + 2].fn = "update"
          /\ Len(p) + 1 \in DOMAIN cs
          /\ \A i \in DOMAIN cs : i \in 1..Len(p) \/ i = Len(p) + 1 \/ i = Len(p) + 2
      BY <1>3, <1>6, <1>7, <1>12
    <2>2. \A i \in 1..Len(p) :
             cs[i].fn \in {"upsert", "unspecified"} /\ cs[i].list \in {"clusters", "users"} /\ i < Len(cs)
      BY <1>5, <1>6, <2>1
    <2>3. (Len(p) + 1) + 1 = Len(cs) /\ Len(p) + 2 = Len(cs) /\ cs[(Len(p) + 1) + 1].fn = "update"
      BY <1>6, <2>1
    <2>4. \A i \in DOMAIN cs : cs[i].fn = "unspecified" => (cs[i].list = "users" /\ s.user.mode = "missing") \/ i = 1
      BY <1>5, <1>6, <2>1
    <2>5. \A i \in DOMAIN cs :
             \/ cs[i].fn \in {"upsert", "unspecified"} /\ cs[i].list \in {"clusters", "users"} /\ i < Len(cs)
             \/ cs[i].fn = "rename" /\ i + 1 = Len(cs) /\ cs[i + 1].fn = "update"
             \/ cs[i].fn \in {"create", "update"} /\ i = Len(cs)
      BY <2>1, <2>2, <2>3
    <2>6. ~(\E i \in DOMAIN cs : cs[i].fn = "create") /\ \E i \in DOMAIN cs : cs[i].fn = "rename"
      BY <2>1, <2>2
    <2>7. QED
      BY <1>7, <1>9, <1>10, <1>12, <2>4, <2>5, <2>6
  <1>13. QED
    BY <1>11, <1>12

\* A save that is accepted begins with all it needs known or to come.
LEMMA AcceptedIsUnderWay ==
    ASSUME NEW s \in Specs, ~SpecRefused(s), files' = files, spec' = s, calls' = CallsOf(s)
    PROVE  InTheirOrder' /\ Unnamed' /\ RefsComing' /\ ContextComing'
  <1> DEFINE cs == CallsOf(s)
  <1>2. /\ \A i \in DOMAIN cs :
              \/ cs[i].fn \in {"upsert", "unspecified"} /\ cs[i].list \in {"clusters", "users"} /\ i < Len(cs)
              \/ cs[i].fn = "rename" /\ i + 1 = Len(cs) /\ cs[i + 1].fn = "update"
              \/ cs[i].fn \in {"create", "update"} /\ i = Len(cs)
        /\ s.cluster.mode # "existing" => \E i \in DOMAIN cs : cs[i].fn \in {"upsert", "unspecified"} /\ cs[i].list = "clusters"
        /\ s.user.mode # "existing" => \E i \in DOMAIN cs : cs[i].fn \in {"upsert", "unspecified"} /\ cs[i].list = "users"
        /\ \A i \in DOMAIN cs : cs[i].fn = "unspecified" =>
              (cs[i].list = "users" /\ s.user.mode = "missing") \/ i = 1
        /\ (\E i \in DOMAIN cs : cs[i].fn = "create") => s.orig = None
        /\ (\E i \in DOMAIN cs : cs[i].fn = "rename") <=> s.orig \notin {None, s.name}
        /\ (\E i \in DOMAIN cs : cs[i].fn = "update") => s.orig # None
    BY CallsAre
  <1> HIDE DEF cs
  <1>3. calls' = cs /\ CallsOf(s) = cs
    BY DEF cs
  <1>4. InTheirOrder'
    BY <1>2, <1>3 DEF InTheirOrder
  <1>5. RefsComing'
    <2>1. s.cluster.mode = "existing" => Known(files', "clusters", s.cluster.name)
      BY DEF SpecRefused, RefRefused
    <2>2. s.user.mode = "existing" => Known(files', "users", s.user.name)
      BY DEF SpecRefused, RefRefused
    <2>3. QED
      BY <1>2, <1>3, <2>1, <2>2 DEF RefsComing, Ref
  <1>6. ContextComing'
    BY <1>2, <1>3 DEF ContextComing, Comes, SpecRefused
  <1>7. Unnamed'
    <2>1. CallsOf(s)' = CallsOf(s)
      BY DEF CallsOf, RefCalls, ContextCalls
    <2>2. QED
      BY <1>2, <1>3, <2>1 DEF Unnamed
  <1>8. QED
    BY <1>4, <1>5, <1>6, <1>7

\* No call of a save that names its cluster and its user is refused.
LEMMA NextCallIsReady ==
    ASSUME SaveUnderWay, TypeOK, phase = "call", spec # NoSpec
    PROVE  CallRefused(Head(calls)) => calls[1].fn = "unspecified"
  <1>1. /\ IsSeq(calls) /\ calls # <<>> /\ 1 \in DOMAIN calls /\ Head(calls) = calls[1]
        /\ DOMAIN calls = 1..Len(calls) /\ Len(calls) \in Nat
    BY TailIsSeq DEF TypeOK, CommandOK, Phases, IsSeq
  <1>2. InTheirOrder /\ RefsComing /\ ContextComing
    BY DEF SaveUnderWay
  <1>3. CASE calls[1].fn = "upsert"
    BY <1>1, <1>3 DEF CallRefused
  <1>4. CASE calls[1].fn = "rename"
    BY <1>1, <1>2, <1>4 DEF CallRefused, ContextComing, Comes
  <1>5. CASE calls[1].fn \in {"create", "update"}
    <2>1. Len(calls) = 1
      BY <1>1, <1>2, <1>5 DEF InTheirOrder
    <2>2. \A i \in DOMAIN calls : i = 1
      BY <1>1, <2>1
    <2>3. RefsKnown
      BY <1>2, <1>5, <2>2 DEF RefsComing, RefsKnown, Ref
    <2>4. calls[1].fn = "update" => ~Comes("rename")
      BY <1>5, <2>2 DEF Comes
    <2>5. QED
      BY <1>1, <1>2, <1>5, <2>3, <2>4 DEF CallRefused, ContextComing, Comes
  <1>6. QED
    BY <1>1, <1>2, <1>3, <1>4, <1>5 DEF InTheirOrder

\* An upsert or a rename that is done leaves the rest of the save as it was
\* expected.
LEMMA SaveGoesOn ==
    ASSUME OnceLoaded, SaveInv, Undisturbed, Reread, spec # NoSpec, Len(calls) # 1
    PROVE  InTheirOrder' /\ Unnamed' /\ RefsComing' /\ ContextComing'
  <1> USE DEF SaveInv
  <1>1. PICK k \in DOMAIN files : EditedAt(files', k, edit)
    BY ReadBack
  <1>2. /\ phase = "reread" /\ calls' = Tail(calls) /\ spec' = spec
    BY DEF Reread, MissReadBack, FromMemory, MemoryInv, TypeOK, CommandOK
  <1>3. /\ IsSeq(calls) /\ calls # <<>> /\ 1 \in DOMAIN calls /\ Head(calls) = calls[1]
        /\ DOMAIN calls = 1..Len(calls) /\ Len(calls) \in Nat
        /\ IsSeq(Tail(calls)) /\ Len(Tail(calls)) = Len(calls) - 1
        /\ \A i \in DOMAIN Tail(calls) : i + 1 \in DOMAIN calls /\ Tail(calls)[i] = calls[i + 1]
    BY <1>2, TailIsSeq DEF MemoryInv, TypeOK, CommandOK, Phases, IsSeq
  <1>4. InTheirOrder /\ Unnamed /\ RefsComing /\ ContextComing
    BY DEF SaveUnderWay
  <1>5. \A i \in DOMAIN calls : i # 1 => i - 1 \in DOMAIN Tail(calls) /\ Tail(calls)[i - 1] = calls[i]
    BY <1>3 DEF IsSeq
  <1>6. InTheirOrder'
    <2>1. SUFFICES ASSUME NEW i \in DOMAIN Tail(calls)
                   PROVE  LET t == Tail(calls)
                          IN  \/ t[i].fn \in {"upsert", "unspecified"} /\ t[i].list \in {"clusters", "users"} /\ i < Len(t)
                              \/ t[i].fn = "rename" /\ i + 1 = Len(t) /\ t[i + 1].fn = "update"
                              \/ t[i].fn \in {"create", "update"} /\ i = Len(t)
      BY <1>2 DEF InTheirOrder
    <2>2. i \in Nat /\ i + 1 \in DOMAIN calls /\ Tail(calls)[i] = calls[i + 1]
      BY <1>3 DEF IsSeq
    <2>3. DOMAIN Tail(calls) = 1..Len(Tail(calls)) /\ i \in 1..Len(Tail(calls))
      BY <1>3 DEF IsSeq
    <2>4. \A n, m, j \in Nat : m = n - 1 => /\ j + 1 < n => j < m
                                            /\ j + 1 = n => j = m
                                            /\ (j + 1) + 1 = n => j + 1 = m
      OBVIOUS
    <2>5. Len(Tail(calls)) \in Nat
      BY <1>3 DEF IsSeq
    <2>6. /\ i + 1 < Len(calls) => i < Len(Tail(calls))
          /\ i + 1 = Len(calls) => i = Len(Tail(calls))
          /\ (i + 1) + 1 = Len(calls) => i + 1 = Len(Tail(calls))
      <3> DEFINE n == Len(calls)
                 m == Len(Tail(calls))
      <3>1. n \in Nat /\ m \in Nat /\ m = n - 1
        BY <1>3, <2>5
      <3> HIDE DEF n, m
      <3>2. (i + 1 < n => i < m) /\ (i + 1 = n => i = m) /\ ((i + 1) + 1 = n => i + 1 = m)
        BY <2>2, <2>4, <3>1
      <3>3. QED
        BY <3>2 DEF n, m
    <2>7. i + 1 = Len(Tail(calls)) => Tail(calls)[i + 1] = calls[(i + 1) + 1]
      <3>1. i + 1 = Len(Tail(calls)) => i + 1 \in DOMAIN Tail(calls)
        BY <2>2, <2>3
      <3>2. QED
        BY <1>3, <3>1
    <2>8. QED
      BY <1>4, <2>2, <2>6, <2>7 DEF InTheirOrder
  <1>7. /\ CallOK(calls[1]) /\ ~CallRefused(calls[1]) /\ edit = CallEdit(calls[1])
    BY <1>2, <1>3, CurrentCall
  <1>u. Unnamed'
    <2>1. SUFFICES ASSUME NEW i \in DOMAIN Tail(calls), Tail(calls)[i].fn = "unspecified"
                   PROVE  Tail(calls)[i].list = "users" /\ spec.user.mode = "missing"
      BY <1>2 DEF Unnamed
    <2>2. i \in Nat \ {0} /\ i + 1 \in DOMAIN calls /\ Tail(calls)[i] = calls[i + 1]
      BY <1>3 DEF IsSeq
    <2>3. i + 1 # 1
      BY <2>2
    <2>4. QED
      BY <1>4, <2>1, <2>2, <2>3 DEF Unnamed
  <1>8. CASE calls[1].fn = "upsert"
    <2> DEFINE l == calls[1].list
    <2>1. /\ l \in {"clusters", "users"} /\ edit = UpsertEdit(l) /\ edit.list = l /\ edit.name = Ref(l).name
          /\ edit.kind \in {"add", "set"} /\ (edit.kind = "set" => Known(files, l, Ref(l).name))
      BY <1>7, <1>8 DEF CallOK, CallEdit, UpsertEdit, AddEdit, SetEdit
    <2> HIDE DEF l
    <2>2. /\ \A m \in Lists : m # l => \A n : Known(files', m, n) <=> Known(files, m, n)
          /\ Known(files', l, Ref(l).name)
      BY <1>1, <2>1, AddedIsFound, SetIsFound DEF Lists
    <2>3. ASSUME NEW m \in {"clusters", "users"}
          PROVE  \/ Known(files', m, Ref(m).name)
                 \/ \E i \in DOMAIN Tail(calls) : Tail(calls)[i].fn \in {"upsert", "unspecified"} /\ Tail(calls)[i].list = m
      <3>1. CASE m = l
        BY <2>2, <3>1
      <3>2. CASE m # l /\ Known(files, m, Ref(m).name)
        BY <2>2, <3>2 DEF Lists
      <3>3. ASSUME m # l, NEW i \in DOMAIN calls, calls[i].fn \in {"upsert", "unspecified"} /\ calls[i].list = m
            PROVE  \E j \in DOMAIN Tail(calls) : Tail(calls)[j].fn \in {"upsert", "unspecified"} /\ Tail(calls)[j].list = m
        <4>1. i # 1
          BY <3>3 DEF l
        <4>2. QED
          BY <1>5, <3>3, <4>1
      <3>4. QED
        BY <1>4, <3>1, <3>2, <3>3 DEF RefsComing
    <2>4. RefsComing'
      BY <1>2, <2>3 DEF RefsComing, Ref
    <2>5. \A fn \in {"create", "rename", "update"} : Comes(fn)' <=> Comes(fn)
      <3> SUFFICES ASSUME NEW fn \in {"create", "rename", "update"}
                   PROVE  (\E i \in DOMAIN Tail(calls) : Tail(calls)[i].fn = fn)
                             <=> \E i \in DOMAIN calls : calls[i].fn = fn
        BY <1>2 DEF Comes
      <3>1. ASSUME NEW i \in DOMAIN Tail(calls), Tail(calls)[i].fn = fn
            PROVE  \E j \in DOMAIN calls : calls[j].fn = fn
        BY <1>3, <3>1
      <3>2. ASSUME NEW j \in DOMAIN calls, calls[j].fn = fn
            PROVE  \E i \in DOMAIN Tail(calls) : Tail(calls)[i].fn = fn
        <4>1. j # 1
          BY <1>8, <3>2
        <4>2. QED
          BY <1>5, <3>2, <4>1
      <3>3. QED
        BY <3>1, <3>2
    <2>6. \A n : Known(files', "contexts", n) <=> Known(files, "contexts", n)
      BY <2>1, <2>2 DEF Lists
    <2>7. ContextComing'
      BY <1>2, <1>4, <2>5, <2>6 DEF ContextComing
    <2>8. QED
      BY <1>6, <1>u, <2>4, <2>7
  <1>9. CASE calls[1].fn = "rename"
    <2>1. Len(calls) = 2 /\ calls[2].fn = "update"
      BY <1>3, <1>4, <1>9 DEF InTheirOrder
    <2>2. edit = RenameEdit(spec.orig, spec.name)
      BY <1>7, <1>9 DEF CallEdit
    <2>3. /\ \A l \in {"clusters", "users"} : \A n : Known(files', l, n) <=> Known(files, l, n)
          /\ Known(files', "contexts", spec.name)
      BY <1>1, <2>2, RenamedIsKnown DEF RenameEdit
    <2>4. \A i \in DOMAIN calls : calls[i].fn \notin {"upsert", "unspecified"}
      BY <1>3, <1>9, <2>1
    <2>5. \A l \in {"clusters", "users"} : Known(files, l, Ref(l).name)
      BY <1>4, <2>4 DEF RefsComing
    <2>6. RefsComing'
      BY <1>2, <2>3, <2>5 DEF RefsComing, Ref
    <2>7. \A i \in DOMAIN Tail(calls) : Tail(calls)[i].fn = "update"
      <3>1. \A i \in DOMAIN Tail(calls) : i + 1 = 2
        BY <1>3, <2>1 DEF IsSeq
      <3>2. QED
        BY <1>3, <2>1, <3>1
    <2>8. ContextComing'
      BY <1>2, <2>3, <2>7 DEF ContextComing, Comes
    <2>9. QED
      BY <1>6, <1>u, <2>6, <2>8
  <1>10. QED
    BY <1>3, <1>4, <1>7, <1>8, <1>9 DEF InTheirOrder, CallRefused

\* When the last call of a save is done, what it asked for is what is found.
LEMMA SaveIsDone ==
    ASSUME OnceLoaded, SaveInv, Undisturbed, Reread, spec # NoSpec, Len(calls) = 1
    PROVE  /\ Known(files', "contexts", spec.name)
           /\ FindEntry(files', "contexts", spec.name) = ContextEntry(spec)
           /\ Known(files', "clusters", spec.cluster.name)
           /\ Known(files', "users", spec.user.name)
  <1> USE DEF SaveInv
  <1>1. PICK k \in DOMAIN files : files[k].path = path /\ EditedAt(files', k, edit)
    BY ReadBack
  <1>2. 1 \in DOMAIN calls /\ Head(calls) = calls[1] /\ InTheirOrder
    BY TailIsSeq DEF Reread, MemoryInv, TypeOK, CommandOK, Phases, SaveUnderWay
  <1> DEFINE c == Head(calls)
  <1>3. c.fn \in {"create", "update"}
    <2>1. 1 < Len(calls) <=> FALSE
      OBVIOUS
    <2>2. QED
      BY <1>2, <2>1 DEF InTheirOrder
  <1>4. ~CallRefused(c) /\ path = CallPath(c) /\ edit = CallEdit(c)
    BY CurrentCall DEF Reread
  <1> HIDE DEF c
  <1>5. Known(files, "clusters", spec.cluster.name) /\ Known(files, "users", spec.user.name)
    BY <1>3, <1>4 DEF CallRefused, RefsKnown
  <1>6. CASE c.fn = "create"
    <2>1. ~Known(files, "contexts", spec.name) /\ edit = AddEdit("contexts", ContextEntry(spec))
      BY <1>4, <1>6 DEF CallRefused, CallEdit
    <2>2. edit.kind = "add" /\ edit.list = "contexts" /\ edit.name = spec.name /\ edit.entry = ContextEntry(spec)
      BY <2>1 DEF AddEdit, ContextEntry
    <2>3. QED
      BY <1>1, <1>5, <2>1, <2>2, AddedIsFound DEF Lists
  <1>7. CASE c.fn = "update"
    <2>1. /\ Known(files, "contexts", spec.name) /\ edit = SetEdit("contexts", ContextEntry(spec))
          /\ path = FindPath(files, "contexts", spec.name)
      BY <1>4, <1>7 DEF CallRefused, CallEdit, CallPath
    <2>2. edit.kind = "set" /\ edit.list = "contexts" /\ edit.name = spec.name /\ edit.entry = ContextEntry(spec)
      BY <2>1 DEF SetEdit, ContextEntry
    <2>3. k = FirstHolder(files, "contexts", spec.name)
      BY <1>1, <2>1, FirstHolderHolds DEF FindPath, MemoryInv, OnePlace, TypeOK, MemoryOK
    <2>4. QED
      BY <1>1, <1>5, <2>1, <2>2, <2>3, SetIsFound DEF Lists
  <1>8. QED
    BY <1>3, <1>6, <1>7

\* Before the first save there is nothing to do.
LEMMA InitSave == ASSUME OnceLoaded, Init PROVE SaveInv
  <1>1. MemoryInv
    BY InitMemory DEF OnceLoaded
  <1>2. AllLoaded
    BY DEF Init, AllLoaded, LoadTolerant, Loaded
  <1>3. OfItsCall /\ FromMemory /\ SaveUnderWay /\ NoneLeft
    BY DEF Init, OfItsCall, FromMemory, SaveUnderWay, NoneLeft
  <1>4. QED
    BY <1>1, <1>2, <1>3 DEF SaveInv

\* No spec is left when a command returns.
LEMMA StepNoneLeft == ASSUME NoneLeft, [Next]_vars PROVE NoneLeft'
  BY DEF Next, vars, SaveContext, DeleteContext, StartCall, ReadFresh, Backup, Persist, FileFails, Reread,
         RereadFails, MissReadBack, StartWatcher, StartReload, ReloadFile, ReloadFails, Reload, ExternalWrite,
         Crash, Return, Accept, jobVars, NoneLeft

\* Every file stays loaded.
LEMMA StepAllLoaded == ASSUME SaveInv, [Next]_vars PROVE AllLoaded'
  <1> USE DEF SaveInv
  <1>1. CASE Reread /\ Readable(disk[path])
    <2> DEFINE f == Loaded(path, disk[path])
    <2>1. files' = Refreshed(f)
      BY <1>1 DEF Reread
    <2> HIDE DEF f
    <2>2. \A i \in DOMAIN files : i \in DOMAIN files' /\ files'[i].path = files[i].path
      <3>1. CASE Refreshed(f) = Append(files, f)
        <4>1. Len(files) \in Nat /\ DOMAIN files = 1..Len(files)
          BY DEF MemoryInv, TypeOK, MemoryOK, IsSeq
        <4>2. QED
          BY <2>1, <3>1, <4>1
      <3>2. ASSUME NEW k \in DOMAIN files, files[k].path = f.path, Refreshed(f) = [files EXCEPT ![k] = f]
            PROVE  \A i \in DOMAIN files : i \in DOMAIN files' /\ files'[i].path = files[i].path
        BY <2>1, <3>2
      <3>3. QED
        BY <3>1, <3>2, RefreshedFacts DEF MemoryInv, TypeOK
    <2>3. QED
      BY <2>2 DEF AllLoaded
  <1>2. CASE ReloadFile \/ ReloadFails
    <2>1. CASE ReloadFile
      <3>1. Reloaded(files[pos]).path = files[pos].path
        BY DEF Reloaded, Loaded
      <3>2. DOMAIN files' = DOMAIN files /\ \A j \in DOMAIN files : files'[j].path = files[j].path
        BY <2>1, <3>1 DEF ReloadFile, Reload
      <3>3. QED
        BY <3>2 DEF AllLoaded
    <2>2. CASE ReloadFails
      <3>1. [files[pos] EXCEPT !.error = TRUE].path = files[pos].path
        OBVIOUS
      <3>2. DOMAIN files' = DOMAIN files /\ \A j \in DOMAIN files : files'[j].path = files[j].path
        BY <2>2, <3>1 DEF ReloadFails, Reload
      <3>3. QED
        BY <3>2 DEF AllLoaded
    <2>3. QED
      BY <1>2, <2>1, <2>2
  <1>3. CASE Crash
    BY <1>3 DEF Crash, LoadTolerant, Loaded, AllLoaded
  <1>4. CASE files' = files
    BY <1>4 DEF AllLoaded
  <1>5. (Reread /\ Readable(disk[path])) \/ ReloadFile \/ ReloadFails \/ Crash \/ files' = files
    BY DEF Next, vars, SaveContext, DeleteContext, StartCall, ReadFresh, Backup, Persist, FileFails,
           Reread, RereadFails, MissReadBack, StartWatcher, StartReload, ExternalWrite
  <1>6. QED
    BY <1>1, <1>2, <1>3, <1>4, <1>5

\* Nothing is undisturbed again before the program reloads or restarts.
LEMMA StaysDisturbed ==
    ASSUME Counted, [Next]_vars, Undisturbed'
    PROVE  /\ \A p \in Paths, c \in Contents : ~ExternalWrite(p, c)
           /\ Undisturbed \/ phase' \in {"idle", "reload"}
  <1>1. \A p \in Paths, c \in Contents : ~ExternalWrite(p, c)
    BY DEF ExternalWrite, Happens, Counted, Events, Undisturbed
  <1>2. \/ missed' = missed /\ count' = count
        \/ missed' = missed /\ (Happens("command") \/ Happens("failure"))
        \/ phase' \in {"idle", "reload"}
    BY <1>1 DEF Next, vars, SaveContext, DeleteContext, StartCall, ReadFresh, Backup, Persist, FileFails,
           Reread, RereadFails, MissReadBack, StartWatcher, StartReload, ReloadFile, ReloadFails, Reload,
           Crash, Return
  <1>3. QED
    BY <1>1, <1>2 DEF Happens, Counted, Events, Undisturbed

\* The call that runs stays the one its file and edit are of.
LEMMA StepOfItsCall == ASSUME OfItsCall, [Next]_vars PROVE OfItsCall'
  <1>1. SUFFICES ASSUME phase' \in {"read", "backup", "persist", "reread"}
                 PROVE  ~CallRefused(Head(calls))' /\ path' = CallPath(Head(calls))' /\ edit' = CallEdit(Head(calls))'
    BY DEF OfItsCall
  <1>2. UNCHANGED <<files, spec, calls>>
    BY <1>1 DEF Next, vars, SaveContext, DeleteContext, StartCall, ReadFresh, Backup, Persist, FileFails,
           Reread, RereadFails, MissReadBack, StartWatcher, StartReload, ReloadFile, ReloadFails, Reload, ExternalWrite, Crash, Return, Accept, jobVars
  <1>3. /\ CallRefused(Head(calls))' <=> CallRefused(Head(calls))
        /\ CallPath(Head(calls))' = CallPath(Head(calls))
        /\ CallEdit(Head(calls))' = CallEdit(Head(calls))
    BY <1>2 DEF CallRefused, CallPath, CallEdit, RefsKnown, UpsertPath, UpsertEdit, Ref, Target,
           DefaultTarget, ContextEntry, Known, Holders, FindPath, FindEntry, FirstHolder
  <1>4. \/ StartCall
        \/ phase \in {"read", "backup", "persist", "reread"} /\ path' = path /\ edit' = edit
    BY <1>1 DEF Next, vars, SaveContext, DeleteContext, ReadFresh, Backup, Persist, FileFails,
           Reread, RereadFails, MissReadBack, StartWatcher, StartReload, ReloadFile, ReloadFails, Reload, ExternalWrite, Crash, Return, Accept, jobVars
  <1>5. CASE StartCall
    <2>1. ~CallRefused(Head(calls)) /\ path' = CallPath(Head(calls)) /\ edit' = CallEdit(Head(calls))
      BY <1>1, <1>5 DEF StartCall, Return
    <2>2. QED
      BY <1>3, <2>1
  <1>6. QED
    BY <1>3, <1>4, <1>5 DEF OfItsCall

\* The edit is made to what memory holds.
LEMMA StepFromMemory == ASSUME SaveInv, [Next]_vars, Undisturbed' PROVE FromMemory'
  <1> USE DEF SaveInv
  <1>1. /\ \A p \in Paths, c \in Contents : ~ExternalWrite(p, c)
        /\ (Undisturbed /\ FromMemory) \/ phase' \in {"idle", "reload"}
    BY StaysDisturbed DEF MemoryInv
  <1>a. phase' \in {"idle", "reload"} => FromMemory'
    BY DEF FromMemory
  <1>b. SUFFICES ASSUME Undisturbed, FromMemory PROVE FromMemory'
    BY <1>1, <1>a
  <1>2. CASE ReadFresh
    BY <1>2 DEF ReadFresh, Fresh, Return, FromMemory
  <1>3. CASE Backup
    BY <1>3, <1>b DEF Backup, FromMemory
  <1>4. CASE Persist
    <2>1. base = disk[path] /\ Readable(disk[path]) /\ IsConfig(base.cfg) /\ ~Refuses(base.cfg, edit) /\ path \in DOMAIN disk
      BY <1>4, <1>b DEF Persist, FromMemory, MemoryInv, TypeOK, CommandOK, FilesOK
    <2>2. disk'[path].cfg = Edited(base.cfg, edit) /\ UNCHANGED <<files, path, edit, base>>
          /\ phase' = "reread" /\ Readable(disk'[path])
      BY <1>4, <2>1 DEF Persist, Written, Readable
    <2>3. \A i \in DOMAIN files : files[i].path = path => files[i].cfg = base.cfg
      BY <1>4, <1>b, <2>1, MemoryIsDisk DEF Persist
    <2>4. QED
      BY <2>1, <2>2, <2>3 DEF FromMemory
  <1>5. CASE UNCHANGED <<disk, files, path, edit, base, phase>>
    BY <1>5, <1>b DEF FromMemory
  <1>6. CASE phase' \in {"idle", "call", "read", "reload"}
    BY <1>6 DEF FromMemory
  <1>7. \/ ReadFresh \/ Backup \/ Persist \/ UNCHANGED <<disk, files, path, edit, base, phase>>
        \/ phase' \in {"idle", "call", "read", "reload"}
    BY <1>1 DEF Next, vars, SaveContext, DeleteContext, StartCall, FileFails,
           Reread, RereadFails, MissReadBack, StartWatcher, StartReload, ReloadFile, ReloadFails, Reload, Crash, Return, Accept, jobVars
  <1>8. QED
    BY <1>2, <1>3, <1>4, <1>5, <1>6, <1>7

\* What a save has still to do stays possible.
LEMMA StepSaveUnderWay ==
    ASSUME OnceLoaded, SaveInv, [Next]_vars, Undisturbed' PROVE SaveUnderWay'
  <1> USE DEF SaveInv
  <1>1. /\ \A p \in Paths, c \in Contents : ~ExternalWrite(p, c)
        /\ (Undisturbed /\ FromMemory /\ SaveUnderWay) \/ spec' = NoSpec
    BY StaysDisturbed, StepNoneLeft DEF MemoryInv, NoneLeft
  <1>2. CASE spec' = NoSpec
    BY <1>2 DEF SaveUnderWay
  <1>3. SUFFICES ASSUME Undisturbed, FromMemory, SaveUnderWay, spec' # NoSpec PROVE SaveUnderWay'
    BY <1>1, <1>2
  <1>4. ASSUME NEW s \in Specs, SaveContext(s) PROVE SaveUnderWay'
    <2>1. ~SpecRefused(s)
      BY <1>3, <1>4 DEF SaveContext, Return
    <2>2. files' = files /\ spec' = s /\ calls' = CallsOf(s)
      BY <1>4, <2>1 DEF SaveContext, Accept
    <2>3. InTheirOrder' /\ Unnamed' /\ RefsComing' /\ ContextComing'
      BY <2>1, <2>2, AcceptedIsUnderWay
    <2>4. QED
      BY <2>2, <2>3 DEF SaveUnderWay
  <1>5. CASE Reread
    <2>1. Readable(disk[path])
      BY <1>3, <1>5 DEF Reread, FromMemory
    <2>2. Len(calls) # 1 /\ spec' = spec
      BY <1>3, <1>5, <2>1 DEF Reread, Return
    <2>3. InTheirOrder' /\ Unnamed' /\ RefsComing' /\ ContextComing'
      BY <1>3, <1>5, <2>2, SaveGoesOn
    <2>4. QED
      BY <1>3, <2>2, <2>3 DEF SaveUnderWay
  <1>6. CASE UNCHANGED <<files, spec, calls>>
    <2>1. InTheirOrder' <=> InTheirOrder
      BY <1>6 DEF InTheirOrder
    <2>2. RefsComing' <=> RefsComing
      BY <1>6 DEF RefsComing, Ref
    <2>3. ContextComing' <=> ContextComing
      BY <1>6 DEF ContextComing, Comes
    <2>4. Unnamed' <=> Unnamed
      BY <1>6 DEF Unnamed, CallsOf, RefCalls, ContextCalls
    <2>5. QED
      BY <1>3, <1>6, <2>1, <2>2, <2>3, <2>4 DEF SaveUnderWay
  <1>7. phase = "reload" => spec = NoSpec
    BY DEF NoneLeft
  <1>8. (\E s \in Specs : SaveContext(s)) \/ Reread \/ UNCHANGED <<files, spec, calls>>
    BY <1>1, <1>3, <1>7 DEF Next, vars, DeleteContext, StartCall, ReadFresh, Backup, Persist, FileFails,
           RereadFails, MissReadBack, StartWatcher, StartReload, ReloadFile, ReloadFails, Reload, Crash, Return,
           Accept, jobVars
  <1>9. QED
    BY <1>4, <1>5, <1>6, <1>8

\* One step of the store keeps all of it.
LEMMA StepSave == ASSUME OnceLoaded, SaveInv, [Next]_vars PROVE SaveInv'
  <1>1. MemoryInv'
    BY StepMemory DEF SaveInv, OnceLoaded
  <1>2. OfItsCall' /\ NoneLeft' /\ AllLoaded'
    BY StepOfItsCall, StepNoneLeft, StepAllLoaded DEF SaveInv
  <1>3. Undisturbed' => FromMemory' /\ SaveUnderWay'
    BY StepFromMemory, StepSaveUnderWay
  <1>4. QED
    BY <1>1, <1>2, <1>3 DEF SaveInv

\* A save that was accepted fails only if a file operation does, or for one of
\* the two things its checks leave out.
LEMMA SaveDoesNotFail ==
    ASSUME OnceLoaded, SaveInv, [Next]_vars, SaveFails, Undisturbed
    PROVE  calls = CallsOf(spec) \/ spec.user.mode = "missing" \/ ~Readable(disk[path])
  <1> USE DEF SaveInv, SaveFails
  <1>1. \A ev \in Events : ~Happens(ev)
    BY DEF Happens, MemoryInv, Counted
  <1>2. ~Crash
    BY CrashCounted DEF MemoryInv, Counted, Events
  <1>3. phase # "reload"
    BY DEF NoneLeft
  <1>4. CASE StartCall
    <2>1. calls[1].fn = "unspecified" /\ Unnamed
      BY <1>4, NextCallIsReady DEF StartCall, MemoryInv, SaveUnderWay
    <2>2. 1 \in DOMAIN calls
      BY <1>4, TailIsSeq DEF StartCall, MemoryInv, TypeOK, CommandOK, Phases
    <2>3. QED
      BY <2>1, <2>2 DEF Unnamed
  <1>5. CASE ReadFresh
    BY <1>5, CallApplies DEF ReadFresh, Fresh
  <1>6. CASE Reread
    BY <1>6 DEF Reread, Return, FromMemory
  <1>7. StartCall \/ ReadFresh \/ Reread
    BY <1>1, <1>2, <1>3 DEF Next, vars, SaveContext, DeleteContext, Backup, Persist, FileFails, RereadFails,
           StartWatcher, StartReload, ReloadFile, ReloadFails, Reload, ExternalWrite, jobVars, Events
  <1>8. QED
    BY <1>4, <1>5, <1>6, <1>7

\* A step that ends a save well is the last read back of the save.
LEMMA SaveEndsVisible ==
    ASSUME OnceLoaded, SaveInv, [Next]_vars, Undisturbed,
           phase = "reread", phase' = "idle", outcome' = "ok", spec # NoSpec
    PROVE  /\ Known(files', "contexts", spec.name)
           /\ FindEntry(files', "contexts", spec.name) = ContextEntry(spec)
           /\ Known(files', "clusters", spec.cluster.name)
           /\ Known(files', "users", spec.user.name)
  <1>1. Reread /\ Len(calls) = 1
    <2>1. Reread
      BY DEF Next, vars, SaveContext, DeleteContext, StartCall, ReadFresh, Backup, Persist, FileFails, RereadFails,
             MissReadBack, StartWatcher, StartReload, ReloadFile, ReloadFails, Reload, ExternalWrite, Crash, Return,
             jobVars
    <2>2. QED
      BY <2>1 DEF Reread, MissReadBack, Return
  <1>2. QED
    BY <1>1, SaveIsDone

\* SavesAreWhole: while nobody else writes and memory has read back what was
\* written, each write of a save finds what it needs as the checks before the
\* first one said, unless the spec names no user or a file does not parse, and
\* at the end the context is found with the cluster and the user it was given.
THEOREM SavesWork == ASSUME OnceLoaded PROVE Spec => SavesAreWhole
  <1>1. SaveInv /\ [Next]_vars =>
          [phase = "reread" /\ phase' = "idle" /\ outcome' = "ok" /\ spec # NoSpec /\ Undisturbed =>
             /\ Known(files', "contexts", spec.name)
             /\ FindEntry(files', "contexts", spec.name) = ContextEntry(spec)
             /\ Known(files', "clusters", spec.cluster.name)
             /\ Known(files', "users", spec.user.name)]_vars
    BY SaveEndsVisible
  <1>2. SaveInv /\ [Next]_vars =>
          [SaveFails /\ Undisturbed =>
             calls = CallsOf(spec) \/ spec.user.mode = "missing" \/ ~Readable(disk[path])]_vars
    BY SaveDoesNotFail
  <1>3. Init => SaveInv
    BY InitSave
  <1>4. SaveInv /\ [Next]_vars => SaveInv'
    BY StepSave
  <1>5. QED
    BY <1>1, <1>2, <1>3, <1>4, PTL DEF Spec, SavesAreWhole, SaveIsVisible, FailedSaveWroteNothing

-----------------------------------------------------------------------------
(* The merged view: contexts() is a loop over files and entries, and what it  *)
(* has merged is said after each of its turns.                                *)

\* The recursion over the positions of a file is one a function satisfies: each
\* of its values comes from the one before, so a position without one would have a
\* least.
LEMMA PlacedIs ==
    ASSUME NEW m, NEW file, LastPos(file.cfg.contexts) \in Nat
    PROVE  LET list == file.cfg.contexts IN
           Placed(m, file) = [i \in 0..LastPos(list) |->
              IF i = 0 THEN [m EXCEPT !.slots = <<>>]
              ELSE IF i \in DOMAIN list THEN Place(Placed(m, file)[i - 1], list[i], file.path)
              ELSE Placed(m, file)[i - 1]]
  <1> DEFINE list == file.cfg.contexts
             n == LastPos(list)
             at(g, i) == IF i = 0 THEN [m EXCEPT !.slots = <<>>]
                         ELSE IF i \in DOMAIN list THEN Place(g[i - 1], list[i], file.path)
                         ELSE g[i - 1]
             after(k, g) == g = [i \in 0..k |-> at(g, i)]
             none == {k \in 0..n : \A g : ~after(k, g)}
  <1>0. n \in Nat
    OBVIOUS
  <1>1. none = {}
    <2> SUFFICES ASSUME none # {} PROVE FALSE
      OBVIOUS
    <2>1. none \subseteq Nat /\ none \subseteq 0..n
      OBVIOUS
    <2> HIDE DEF none
    <2>2. PICK k \in none : \A j \in none : k <= j
      BY <2>1, LeastExists
    <2>3. k \in 0..n /\ \A g : ~after(k, g)
      BY <2>2 DEF none
    <2> HIDE DEF n, at
    <2>4. k # 0
      <3> DEFINE g == [i \in 0..0 |-> at(<<>>, 0)]
      <3>1. after(0, g)
        BY DEF at
      <3>2. QED
        BY <2>3, <3>1
    <2>5. k - 1 \in 0..n /\ k - 1 \notin none /\ k \in Nat
      BY <1>0, <2>1, <2>2, <2>3, <2>4
    <2>6. PICK g : after(k - 1, g)
      BY <2>5 DEF none
    <2> DEFINE h == [i \in 0..k |-> IF i = k THEN at(g, k) ELSE g[i]]
    <2>7. after(k, h)
      <3>1. \A i \in 0..k : i # k => h[i] = g[i] /\ i \in 0..(k - 1)
        BY <2>5
      <3>2. \A i \in 0..k : i # 0 => h[i - 1] = g[i - 1]
        BY <2>5
      <3>3. \A i \in 0..k : at(h, i) = at(g, i)
        BY <3>2 DEF at
      <3> HIDE DEF h
      <3>4. \A i \in 0..(k - 1) : g[i] = at(g, i)
        BY <2>6
      <3>5. h = [i \in 0..k |-> at(h, i)]
        <4>1. \A i \in 0..k : (IF i = k THEN at(g, k) ELSE g[i]) = at(h, i)
          BY <3>1, <3>3, <3>4
        <4>2. QED
          BY <4>1 DEF h
      <3>6. QED
        BY <3>5
    <2>8. QED
      BY <2>3, <2>7
  <1>2. PICK g : after(n, g)
    BY <1>1
  <1> DEFINE rec(f) == [i \in 0..n |-> at(f, i)]
  <1>3. g = rec(g)
    BY <1>2
  <1>4. Placed(m, file) = CHOOSE f : f = rec(f)
    BY Zenon DEF Placed
  <1> HIDE DEF rec
  <1>5. Placed(m, file) = rec(Placed(m, file))
    BY <1>3, <1>4
  <1>6. QED
    BY <1>5 DEF rec
\* So is the one over the files.
LEMMA MergedIs ==
    ASSUME NEW fs, Len(fs) \in Nat
    PROVE  Merged(fs) = [i \in 0..Len(fs) |-> IF i = 0 THEN Bare ELSE MergeFile(Merged(fs)[i - 1], fs[i])]
  <1> DEFINE n == Len(fs)
             at(g, i) == IF i = 0 THEN Bare ELSE MergeFile(g[i - 1], fs[i])
             after(k, g) == g = [i \in 0..k |-> at(g, i)]
             none == {k \in 0..n : \A g : ~after(k, g)}
  <1>0. n \in Nat
    OBVIOUS
  <1>1. none = {}
    <2> SUFFICES ASSUME none # {} PROVE FALSE
      OBVIOUS
    <2>1. none \subseteq Nat /\ none \subseteq 0..n
      OBVIOUS
    <2> HIDE DEF none
    <2>2. PICK k \in none : \A j \in none : k <= j
      BY <2>1, LeastExists
    <2>3. k \in 0..n /\ \A g : ~after(k, g)
      BY <2>2 DEF none
    <2> HIDE DEF n, at
    <2>4. k # 0
      <3> DEFINE g == [i \in 0..0 |-> at(<<>>, 0)]
      <3>1. after(0, g)
        BY DEF at
      <3>2. QED
        BY <2>3, <3>1
    <2>5. k - 1 \in 0..n /\ k - 1 \notin none /\ k \in Nat
      BY <1>0, <2>1, <2>2, <2>3, <2>4
    <2>6. PICK g : after(k - 1, g)
      BY <2>5 DEF none
    <2> DEFINE h == [i \in 0..k |-> IF i = k THEN at(g, k) ELSE g[i]]
    <2>7. after(k, h)
      <3>1. \A i \in 0..k : i # k => h[i] = g[i] /\ i \in 0..(k - 1)
        BY <2>5
      <3>2. \A i \in 0..k : i # 0 => h[i - 1] = g[i - 1]
        BY <2>5
      <3>3. \A i \in 0..k : at(h, i) = at(g, i)
        BY <3>2 DEF at
      <3> HIDE DEF h
      <3>4. \A i \in 0..(k - 1) : g[i] = at(g, i)
        BY <2>6
      <3>5. h = [i \in 0..k |-> at(h, i)]
        <4>1. \A i \in 0..k : (IF i = k THEN at(g, k) ELSE g[i]) = at(h, i)
          BY <3>1, <3>3, <3>4
        <4>2. QED
          BY <4>1 DEF h
      <3>6. QED
        BY <3>5
    <2>8. QED
      BY <2>3, <2>7
  <1>2. PICK g : after(n, g)
    BY <1>0, <1>1
  <1> DEFINE rec(f) == [i \in 0..n |-> at(f, i)]
  <1>3. g = rec(g)
    BY <1>2
  <1>4. Merged(fs) = CHOOSE f : f = rec(f)
    BY Zenon DEF Merged
  <1> HIDE DEF rec
  <1>5. Merged(fs) = rec(Merged(fs))
    BY <1>3, <1>4
  <1>6. QED
    BY <1>5 DEF rec

\* Rows of different names, and the names they show.
Distinct(out) == \A j, k \in DOMAIN out : out[j].entry.name = out[k].entry.name => j = k
Shows(out, n) == \E k \in DOMAIN out : out[k].entry.name = n

\* A sequence of such rows with a shape of its own in the merge.
MergeOK(m) ==
    /\ DOMAIN m = DOMAIN Bare
    /\ IsSeq(m.out) /\ Distinct(m.out)

Upto(list, n, i) == {j \in Slots(list, n) : j <= i}

\* What is merged after i positions of a file, from what m was before it.
PlacedUpto(m, file, i, p) ==
    LET list == file.cfg.contexts IN
    /\ MergeOK(p) /\ p.claimed = m.claimed
    /\ Len(p.out) >= Len(m.out) /\ \A k \in DOMAIN m.out : p.out[k] = m.out[k]
    /\ \A n : n \in DOMAIN p.slots <=> n \notin m.claimed /\ Upto(list, n, i) # {}
    /\ \A n : Shows(p.out, n) <=> n \in m.claimed \/ n \in DOMAIN p.slots
    /\ \A n \in DOMAIN p.slots :
          /\ p.slots[n] \in DOMAIN p.out /\ p.slots[n] > Len(m.out)
          /\ p.out[p.slots[n]] = Summary(list[Highest(Upto(list, n, i))], file.path)

\* One more position is one more entry of its name, the last so far.
LEMMA UptoFacts ==
    ASSUME NEW list, IsList(list), NEW i \in Nat \ {0}
    PROVE  /\ i \in DOMAIN list =>
                /\ Upto(list, list[i].name, i) # {}
                /\ Highest(Upto(list, list[i].name, i)) = i
                /\ \A n : n # list[i].name => Upto(list, n, i) = Upto(list, n, i - 1)
           /\ i \notin DOMAIN list => \A n : Upto(list, n, i) = Upto(list, n, i - 1)
           /\ \A n : \A j \in Upto(list, n, i - 1) : list[j].name = n
  <1>1. \A j \in DOMAIN list : j \in Nat
    BY DEF IsList
  <1>2. ASSUME i \in DOMAIN list
        PROVE  Upto(list, list[i].name, i) # {} /\ Highest(Upto(list, list[i].name, i)) = i
    <2> DEFINE S == Upto(list, list[i].name, i)
    <2>1. i \in S /\ S \subseteq DOMAIN list /\ \A j \in S : j <= i
      BY <1>2 DEF Upto, Slots
    <2> HIDE DEF S
    <2>2. IsFiniteSet(S) /\ S \subseteq Nat /\ S # {}
      BY <1>1, <2>1, FS_Subset DEF IsList
    <2>3. Highest(S) \in S /\ \A j \in S : j <= Highest(S)
      BY <2>2, HighestIsGreatest
    <2>4. Highest(S) = i
      <3>1. \A h \in S : (\A j \in S : j <= h) => h = i
        BY <2>1, <2>2
      <3>2. QED
        BY <2>3, <3>1
    <2>5. QED
      BY <2>1, <2>4 DEF S
  <1>3. \A n : (i \in DOMAIN list => n # list[i].name) => Upto(list, n, i) = Upto(list, n, i - 1)
    BY <1>1 DEF Upto, Slots
  <1>4. QED
    BY <1>2, <1>3 DEF Upto, Slots

\* Before its first position a file has placed nothing.
LEMMA PlacedNone ==
    ASSUME NEW m, MergeOK(m), \A n : Shows(m.out, n) <=> n \in m.claimed,
           NEW file, IsList(file.cfg.contexts)
    PROVE  PlacedUpto(m, file, 0, [m EXCEPT !.slots = <<>>])
  <1> DEFINE p == [m EXCEPT !.slots = <<>>]
  <1>1. p.out = m.out /\ p.claimed = m.claimed /\ DOMAIN p = DOMAIN Bare /\ p.slots = <<>>
    BY DEF MergeOK, Bare
  <1>2. DOMAIN p.slots = {}
    BY <1>1
  <1>3. \A n : Upto(file.cfg.contexts, n, 0) = {}
    BY DEF Upto, Slots, IsList
  <1> HIDE DEF p
  <1>4. Len(m.out) \in Nat
    BY DEF MergeOK, IsSeq
  <1>5. PlacedUpto(m, file, 0, p)
    BY <1>1, <1>2, <1>3, <1>4 DEF PlacedUpto, MergeOK
  <1>6. QED
    BY <1>5 DEF p

\* One position more.
LEMMA PlacedNext ==
    ASSUME NEW m, MergeOK(m), NEW file, IsList(file.cfg.contexts), NEW i \in DOMAIN file.cfg.contexts,
           NEW p, PlacedUpto(m, file, i - 1, p)
    PROVE  PlacedUpto(m, file, i, Place(p, file.cfg.contexts[i], file.path))
  <1> DEFINE list == file.cfg.contexts
             n0 == list[i].name
             row == Summary(list[i], file.path)
             q == Place(p, list[i], file.path)
  <1>0. i \in Nat \ {0} /\ row.entry.name = n0
    BY DEF IsList, Summary
  <1>1. /\ Upto(list, n0, i) # {} /\ Highest(Upto(list, n0, i)) = i
        /\ \A n : n # n0 => Upto(list, n, i) = Upto(list, n, i - 1)
    BY <1>0, UptoFacts
  <1>2. /\ MergeOK(p) /\ IsSeq(p.out) /\ Distinct(p.out) /\ p.claimed = m.claimed
        /\ Len(p.out) >= Len(m.out) /\ \A k \in DOMAIN m.out : p.out[k] = m.out[k]
        /\ \A n : n \in DOMAIN p.slots <=> n \notin m.claimed /\ Upto(list, n, i - 1) # {}
        /\ \A n : Shows(p.out, n) <=> n \in m.claimed \/ n \in DOMAIN p.slots
        /\ \A n \in DOMAIN p.slots :
              /\ p.slots[n] \in DOMAIN p.out /\ p.slots[n] > Len(m.out)
              /\ p.out[p.slots[n]] = Summary(list[Highest(Upto(list, n, i - 1))], file.path)
    BY DEF PlacedUpto, MergeOK
  <1>3. /\ Len(p.out) \in Nat /\ DOMAIN p.out = 1..Len(p.out)
        /\ Len(m.out) \in Nat /\ DOMAIN m.out = 1..Len(m.out)
    BY <1>2 DEF MergeOK, IsSeq
  <1>4. CASE n0 \in p.claimed
    <2>1. q = p
      BY <1>4 DEF Place
    <2>2. QED
      BY <1>1, <1>2, <1>4, <2>1 DEF PlacedUpto
  <1>5. CASE n0 \notin p.claimed /\ n0 \in DOMAIN p.slots
    <2> DEFINE out == [p.out EXCEPT ![p.slots[n0]] = row]
    <2>1. q = [p EXCEPT !.out = out]
      BY <1>5 DEF Place
    <2>2. /\ DOMAIN q = DOMAIN Bare /\ q.out = out
          /\ q.claimed = p.claimed /\ q.slots = p.slots
      BY <1>2, <2>1 DEF MergeOK, Bare
    <2> DEFINE k0 == p.slots[n0]
    <2>3. /\ k0 \in DOMAIN p.out /\ k0 > Len(m.out)
          /\ p.out[k0].entry.name = n0
      <3>1. Upto(list, n0, i - 1) # {}
        BY <1>2, <1>5
      <3> DEFINE S == Upto(list, n0, i - 1)
      <3>2. Highest(S) \in S
        <4>1. S \subseteq DOMAIN list
          BY DEF Upto, Slots
        <4>2. IsFiniteSet(S) /\ S \subseteq Nat
          BY <4>1, FS_Subset DEF IsList
        <4>3. QED
          BY <3>1, <4>2, HighestIsGreatest
      <3>3. list[Highest(S)].name = n0
        BY <3>2 DEF Upto, Slots
      <3>4. p.out[p.slots[n0]] = Summary(list[Highest(S)], file.path)
        BY <1>2, <1>5
      <3>5. p.out[p.slots[n0]].entry.name = n0
        BY <3>3, <3>4 DEF Summary
      <3>6. QED
        BY <1>2, <1>5, <3>5
    <2>4. IsSeq(out) /\ Len(out) = Len(p.out)
      BY <1>2, <2>3, ExceptIsSeq
    <2>5. /\ DOMAIN out = DOMAIN p.out /\ out[k0] = row
          /\ \A k \in DOMAIN p.out : k # k0 => out[k] = p.out[k]
      BY <2>3
    <2> HIDE DEF out, k0, q
    <2>6. Distinct(out) /\ \A n : Shows(out, n) <=> Shows(p.out, n)
      <3>1. \A k \in DOMAIN out : out[k].entry.name = p.out[k].entry.name
        BY <1>0, <2>3, <2>5
      <3>2. QED
        BY <1>2, <2>5, <3>1 DEF Distinct, Shows
    <2>7. \A k \in DOMAIN m.out : out[k] = m.out[k]
      BY <1>2, <1>3, <2>3, <2>5
    <2>8. \A n \in DOMAIN p.slots : n # n0 => p.slots[n] # k0
      <3> SUFFICES ASSUME NEW n \in DOMAIN p.slots, n # n0, p.slots[n] = k0 PROVE FALSE
        OBVIOUS
      <3> DEFINE S == Upto(list, n, i - 1)
      <3>1. S # {}
        BY <1>2
      <3>2. Highest(S) \in S
        <4>1. S \subseteq DOMAIN list
          BY DEF Upto, Slots
        <4>2. IsFiniteSet(S) /\ S \subseteq Nat
          BY <4>1, FS_Subset DEF IsList
        <4>3. QED
          BY <3>1, <4>2, HighestIsGreatest
      <3>3. list[Highest(S)].name = n
        BY <3>2 DEF Upto, Slots
      <3>4. p.out[p.slots[n]] = Summary(list[Highest(S)], file.path)
        BY <1>2
      <3>5. p.out[p.slots[n]].entry.name = n
        BY <3>3, <3>4 DEF Summary
      <3>6. QED
        BY <2>3, <3>5
    <2>9. \A n \in DOMAIN p.slots :
              /\ p.slots[n] \in DOMAIN out /\ p.slots[n] > Len(m.out)
              /\ out[p.slots[n]] = Summary(list[Highest(Upto(list, n, i))], file.path)
      <3> SUFFICES ASSUME NEW n \in DOMAIN p.slots
                   PROVE  out[p.slots[n]] = Summary(list[Highest(Upto(list, n, i))], file.path)
        BY <1>2, <2>5
      <3>1. CASE n = n0
        BY <1>1, <2>5, <3>1 DEF k0
      <3>2. CASE n # n0
        BY <1>1, <1>2, <2>5, <2>8, <3>2
      <3>3. QED
        BY <3>1, <3>2
    <2>10. \A n : n \in DOMAIN p.slots <=> n \notin m.claimed /\ Upto(list, n, i) # {}
      BY <1>1, <1>2, <1>5
    <2>11. QED
      <3>1. MergeOK(q)
        BY <2>2, <2>4, <2>6 DEF MergeOK
      <3>2. PlacedUpto(m, file, i, q)
        BY <1>2, <2>2, <2>4, <2>6, <2>7, <2>9, <2>10, <3>1 DEF PlacedUpto
      <3>3. QED
        BY <3>2 DEF q
  <1>6. CASE n0 \notin p.claimed /\ n0 \notin DOMAIN p.slots
    <2> DEFINE out == Append(p.out, row)
               k0 == Len(p.out) + 1
               slots == [x \in DOMAIN p.slots \cup {n0} |-> IF x = n0 THEN k0 ELSE p.slots[x]]
    <2>1. q = [p EXCEPT !.out = out, !.slots = slots]
      BY <1>6 DEF Place
    <2>2. /\ DOMAIN q = DOMAIN Bare /\ q.out = out
          /\ q.claimed = p.claimed /\ q.slots = slots
      BY <1>2, <2>1 DEF MergeOK, Bare
    <2>3. /\ IsSeq(out) /\ Len(out) = Len(p.out) + 1 /\ out[k0] = row
          /\ \A k \in DOMAIN out : out[k] = row \/ (k \in DOMAIN p.out /\ out[k] = p.out[k])
      BY <1>2, AppendIsSeq
    <2>4. /\ DOMAIN out = DOMAIN p.out \cup {k0} /\ k0 \notin DOMAIN p.out /\ k0 > Len(m.out)
          /\ \A k \in DOMAIN p.out : out[k] = p.out[k]
      <3>1. PICK S : p.out \in Seq(S)
        BY <1>2, SeqMembers
      <3>2. p.out \in Seq(S \cup {row})
        BY <3>1, SeqMonotonic
      <3>3. \A k \in 1..Len(p.out) : out[k] = p.out[k]
        BY <3>2, AppendProperties
      <3>4. DOMAIN out = 1..Len(out)
        BY <2>3 DEF IsSeq
      <3> HIDE DEF out
      <3>5. QED
        BY <1>2, <1>3, <2>3, <3>3, <3>4
    <2>5. /\ DOMAIN slots = DOMAIN p.slots \cup {n0} /\ slots[n0] = k0
          /\ \A n \in DOMAIN p.slots : slots[n] = p.slots[n]
      BY <1>6
    <2> HIDE DEF out, k0, q, slots
    <2>6. \A k \in DOMAIN p.out : p.out[k].entry.name # n0
      BY <1>2, <1>6 DEF Shows
    <2>7. Distinct(out) /\ \A n : Shows(out, n) <=> Shows(p.out, n) \/ n = n0
      BY SMTT(30), <1>0, <1>2, <2>3, <2>4, <2>6 DEF Distinct, Shows
    <2>8. \A k \in DOMAIN m.out : out[k] = m.out[k]
      BY <1>2, <1>3, <2>4
    <2>9. \A n \in DOMAIN slots :
              /\ slots[n] \in DOMAIN out /\ slots[n] > Len(m.out)
              /\ out[slots[n]] = Summary(list[Highest(Upto(list, n, i))], file.path)
      <3> SUFFICES ASSUME NEW n \in DOMAIN slots
                   PROVE  /\ slots[n] \in DOMAIN out /\ slots[n] > Len(m.out)
                          /\ out[slots[n]] = Summary(list[Highest(Upto(list, n, i))], file.path)
        OBVIOUS
      <3>1. CASE n = n0
        BY <1>1, <2>3, <2>4, <2>5, <3>1
      <3>2. CASE n # n0
        BY <1>1, <1>2, <2>4, <2>5, <3>2
      <3>3. QED
        BY <3>1, <3>2
    <2>10. \A n : n \in DOMAIN slots <=> n \notin m.claimed /\ Upto(list, n, i) # {}
      BY <1>1, <1>2, <1>6, <2>5
    <2>11. \A n : Shows(out, n) <=> n \in m.claimed \/ n \in DOMAIN slots
      BY <1>2, <2>5, <2>7
    <2>12. Len(out) >= Len(m.out)
      BY <1>2, <1>3, <2>3
    <2>13. QED
      <3>1. MergeOK(q)
        BY <2>2, <2>3, <2>7 DEF MergeOK
      <3>2. PlacedUpto(m, file, i, q)
        BY <1>2, <2>2, <2>8, <2>9, <2>10, <2>11, <2>12, <3>1 DEF PlacedUpto
      <3>3. QED
        BY <3>2 DEF q
  <1>7. QED
    BY <1>4, <1>5, <1>6

\* The positions of a list end at LastPos.
LEMMA LastPosIsLast ==
    ASSUME NEW list, IsList(list)
    PROVE  /\ LastPos(list) \in Nat
           /\ \A j \in DOMAIN list : j \in 1..LastPos(list)
  <1>1. CASE DOMAIN list = {}
    BY <1>1 DEF LastPos
  <1>2. CASE DOMAIN list # {}
    <2>1. Highest(DOMAIN list) \in DOMAIN list /\ \A j \in DOMAIN list : j <= Highest(DOMAIN list)
      BY <1>2, HighestIsGreatest DEF IsList
    <2>2. QED
      BY <1>2, <2>1 DEF LastPos, IsList
  <1>3. QED
    BY <1>1, <1>2

\* All of a file, position by position.
LEMMA PlacedAll ==
    ASSUME NEW m, MergeOK(m), \A n : Shows(m.out, n) <=> n \in m.claimed,
           NEW file, IsList(file.cfg.contexts)
    PROVE  LET last == LastPos(file.cfg.contexts)
           IN  PlacedUpto(m, file, last, Placed(m, file)[last])
  <1> DEFINE list == file.cfg.contexts
             last == LastPos(list)
             P == Placed(m, file)
             wrong == {i \in 0..last : ~PlacedUpto(m, file, i, P[i])}
  <1>1. last \in Nat
    BY LastPosIsLast
  <1>2. P = [i \in 0..last |->
              IF i = 0 THEN [m EXCEPT !.slots = <<>>]
              ELSE IF i \in DOMAIN list THEN Place(P[i - 1], list[i], file.path)
              ELSE P[i - 1]]
    BY <1>1, PlacedIs
  <1> HIDE DEF last, P
  <1>3. P[0] = [m EXCEPT !.slots = <<>>]
    BY <1>1, <1>2
  <1>4. \A i \in 1..last : P[i] = IF i \in DOMAIN list THEN Place(P[i - 1], list[i], file.path) ELSE P[i - 1]
    BY <1>1, <1>2
  <1>5. wrong = {}
    <2> SUFFICES ASSUME wrong # {} PROVE FALSE
      OBVIOUS
    <2>1. wrong \subseteq Nat /\ wrong \subseteq 0..last
      OBVIOUS
    <2> HIDE DEF wrong
    <2>2. PICK i \in wrong : \A j \in wrong : i <= j
      BY <2>1, LeastExists
    <2>3. i \in 0..last /\ ~PlacedUpto(m, file, i, P[i])
      BY <2>2 DEF wrong
    <2>4. i # 0
      BY <1>3, <2>3, PlacedNone
    <2>5. i \in 1..last /\ i - 1 \in 0..last /\ i - 1 \notin wrong /\ i \in Nat \ {0}
      BY <1>1, <2>1, <2>2, <2>3, <2>4
    <2>6. PlacedUpto(m, file, i - 1, P[i - 1])
      BY <2>5 DEF wrong
    <2>7. CASE i \in DOMAIN list
      <3>1. PlacedUpto(m, file, i, Place(P[i - 1], list[i], file.path))
        BY <2>6, <2>7, PlacedNext
      <3>2. QED
        BY <1>4, <2>3, <2>5, <2>7, <3>1
    <2>8. CASE i \notin DOMAIN list
      <3>1. P[i] = P[i - 1]
        BY <1>4, <2>5, <2>8
      <3>2. \A n : Upto(list, n, i) = Upto(list, n, i - 1)
        BY <2>5, <2>8, UptoFacts
      <3>3. PlacedUpto(m, file, i, P[i - 1])
        BY <2>6, <3>2 DEF PlacedUpto
      <3>4. QED
        BY <2>3, <3>1, <3>3
    <2>9. QED
      BY <2>7, <2>8
  <1>6. PlacedUpto(m, file, last, P[last])
    BY <1>1, <1>5
  <1>7. QED
    BY <1>6 DEF last, P

\* What a file brings into the merge: the names no earlier one had, each with the last
\* of its duplicates.
LEMMA MergeFileAdds ==
    ASSUME NEW m, MergeOK(m), \A n : Shows(m.out, n) <=> n \in m.claimed,
           NEW file, IsList(file.cfg.contexts)
    PROVE  LET list == file.cfg.contexts
               r == MergeFile(m, file)
           IN  /\ MergeOK(r) /\ Len(r.out) >= Len(m.out)
               /\ \A k \in DOMAIN m.out : r.out[k] = m.out[k]
               /\ \A n : n \in r.claimed <=> n \in m.claimed \/ Has(list, n)
               /\ \A n : Shows(r.out, n) <=> n \in r.claimed
               /\ \A n : Has(list, n) /\ n \notin m.claimed =>
                     \E k \in DOMAIN r.out : /\ r.out[k] = Summary(LastNamed(list, n), file.path)
                                             /\ r.out[k].entry.name = n
  <1> DEFINE list == file.cfg.contexts
             last == LastPos(list)
             p == Placed(m, file)[last]
             r == MergeFile(m, file)
  <1>1. r = [p EXCEPT !.claimed = p.claimed \cup DOMAIN p.slots]
    BY Zenon DEF MergeFile
  <1>2. PlacedUpto(m, file, last, p)
    BY PlacedAll
  <1>3. \A n : Upto(list, n, last) = Slots(list, n)
    BY LastPosIsLast DEF Upto, Slots
  <1> HIDE DEF p, r, last
  <1>4. /\ MergeOK(p) /\ p.claimed = m.claimed
        /\ Len(p.out) >= Len(m.out) /\ \A k \in DOMAIN m.out : p.out[k] = m.out[k]
        /\ \A n : n \in DOMAIN p.slots <=> n \notin m.claimed /\ Has(list, n)
        /\ \A n : Shows(p.out, n) <=> n \in m.claimed \/ n \in DOMAIN p.slots
        /\ \A n \in DOMAIN p.slots :
              /\ p.slots[n] \in DOMAIN p.out
              /\ p.out[p.slots[n]] = Summary(LastNamed(list, n), file.path)
    BY <1>2, <1>3 DEF PlacedUpto, LastNamed, Has
  <1>5. r.out = p.out /\ DOMAIN r = DOMAIN p /\ r.claimed = p.claimed \cup DOMAIN p.slots
    BY <1>1, <1>4 DEF MergeOK, Bare
  <1>6. MergeOK(r)
    BY <1>4, <1>5 DEF MergeOK
  <1>7. \A n : n \in r.claimed <=> n \in m.claimed \/ Has(list, n)
    BY <1>4, <1>5
  <1>8. \A n : Shows(r.out, n) <=> n \in r.claimed
    BY <1>4, <1>5
  <1>9. ASSUME NEW n, Has(list, n), n \notin m.claimed
        PROVE  \E k \in DOMAIN r.out : /\ r.out[k] = Summary(LastNamed(list, n), file.path)
                                       /\ r.out[k].entry.name = n
    <2>1. p.slots[n] \in DOMAIN r.out /\ r.out[p.slots[n]] = Summary(LastNamed(list, n), file.path)
      BY <1>4, <1>5, <1>9
    <2>2. LastNamed(list, n).name = n
      BY <1>9, LastSlot DEF LastNamed
    <2>3. r.out[p.slots[n]].entry.name = n
      BY <2>1, <2>2 DEF Summary
    <2>4. QED
      BY <2>1, <2>3
  <1>10. QED
    BY <1>4, <1>5, <1>6, <1>7, <1>8, <1>9 DEF r

\* What is merged after f files: the names they have, each with what a lookup finds.
MergedUpto(fs, f, m) ==
    /\ MergeOK(m)
    /\ \A n : Shows(m.out, n) <=> n \in m.claimed
    /\ \A n : n \in m.claimed <=> \E j \in 1..f : Has(fs[j].cfg["contexts"], n)
    /\ \A k \in DOMAIN m.out :
          LET n == m.out[k].entry.name
          IN  m.out[k] = Summary(FindEntry(fs, "contexts", n), FindPath(fs, "contexts", n))

\* One file more.
LEMMA MergedNext ==
    ASSUME NEW fs, IsSeq(fs), \A j \in DOMAIN fs : IsConfig(fs[j].cfg),
           NEW f \in DOMAIN fs, NEW m, MergedUpto(fs, f - 1, m)
    PROVE  MergedUpto(fs, f, MergeFile(m, fs[f]))
  <1> DEFINE file == fs[f]
             list == file.cfg.contexts
             r == MergeFile(m, file)
             Row(n) == Summary(FindEntry(fs, "contexts", n), FindPath(fs, "contexts", n))
  <1>0. f \in Nat \ {0} /\ DOMAIN fs = 1..Len(fs) /\ Len(fs) \in Nat /\ list = fs[f].cfg["contexts"]
    BY DEF IsSeq
  <1>1. IsList(list)
    BY DEF IsConfig, Lists
  <1>2. /\ MergeOK(m) /\ \A n : Shows(m.out, n) <=> n \in m.claimed
        /\ \A n : n \in m.claimed <=> \E j \in 1..(f - 1) : Has(fs[j].cfg["contexts"], n)
        /\ \A k \in DOMAIN m.out : m.out[k] = Row(m.out[k].entry.name)
    BY DEF MergedUpto
  <1>3. /\ MergeOK(r) /\ Len(r.out) >= Len(m.out)
        /\ \A k \in DOMAIN m.out : r.out[k] = m.out[k]
        /\ \A n : n \in r.claimed <=> n \in m.claimed \/ Has(list, n)
        /\ \A n : Shows(r.out, n) <=> n \in r.claimed
        /\ \A n : Has(list, n) /\ n \notin m.claimed =>
              \E k \in DOMAIN r.out : /\ r.out[k] = Summary(LastNamed(list, n), file.path)
                                      /\ r.out[k].entry.name = n
    BY <1>1, <1>2, MergeFileAdds
  <1> HIDE DEF r
  <1>4. \A n : n \in r.claimed <=> \E j \in 1..f : Has(fs[j].cfg["contexts"], n)
    <2>1. 1..f = 1..(f - 1) \cup {f}
      BY <1>0
    <2>2. QED
      BY <1>0, <1>2, <1>3, <2>1
  <1>5. ASSUME NEW k \in DOMAIN r.out PROVE r.out[k] = Row(r.out[k].entry.name)
    <2> DEFINE n == r.out[k].entry.name
    <2>0. DOMAIN m.out \subseteq DOMAIN r.out
      BY <1>2, <1>3 DEF MergeOK, IsSeq
    <2>1. CASE k \in DOMAIN m.out
      BY <1>2, <1>3, <2>1
    <2>2. CASE k \notin DOMAIN m.out
      <3>1. n \notin m.claimed
        <4> SUFFICES ASSUME n \in m.claimed PROVE FALSE
          OBVIOUS
        <4>1. PICK j \in DOMAIN m.out : m.out[j].entry.name = n
          BY <1>2 DEF Shows
        <4>2. r.out[j].entry.name = r.out[k].entry.name /\ j \in DOMAIN r.out
          BY <1>3, <2>0, <4>1
        <4>3. QED
          BY <1>3, <2>2, <4>2 DEF MergeOK, Distinct
      <3>2. Has(list, n)
        <4>1. Shows(r.out, n)
          BY <1>5 DEF Shows
        <4>2. QED
          BY <1>3, <3>1, <4>1
      <3>3. r.out[k] = Summary(LastNamed(list, n), file.path)
        <4>1. PICK j \in DOMAIN r.out : /\ r.out[j] = Summary(LastNamed(list, n), file.path)
                                        /\ r.out[j].entry.name = n
          BY <1>3, <3>1, <3>2
        <4>2. j = k
          BY <1>3, <1>5, <4>1 DEF MergeOK, Distinct
        <4>3. QED
          BY <4>1, <4>2
      <3>4. FirstHolder(fs, "contexts", n) = f
        <4>1. f \in Holders(fs, "contexts", n) /\ \A j \in Holders(fs, "contexts", n) : f <= j
          <5>1. f \in Holders(fs, "contexts", n)
            BY <1>0, <3>2 DEF Holders
          <5>2. ASSUME NEW j \in Holders(fs, "contexts", n) PROVE f <= j
            <6>1. j \in 1..Len(fs) /\ Has(fs[j].cfg["contexts"], n)
              BY <1>0 DEF Holders
            <6>2. j \notin 1..(f - 1)
              BY <1>2, <3>1, <6>1
            <6>3. QED
              BY <1>0, <6>1, <6>2
          <5>3. QED
            BY <5>1, <5>2
        <4>2. \A j \in Holders(fs, "contexts", n) : j \in Nat
          BY <1>0 DEF Holders
        <4> HIDE DEF n
        <4>3. \A j \in Holders(fs, "contexts", n) :
                 (\A i \in Holders(fs, "contexts", n) : j <= i) => j = f
          BY <1>0, <4>1, <4>2
        <4>4. QED
          BY <4>1, <4>3 DEF FirstHolder
      <3>5. QED
        BY <1>0, <3>3, <3>4 DEF FindEntry, FindPath
    <2>3. QED
      BY <2>1, <2>2
  <1>6. MergedUpto(fs, f, r)
    BY <1>3, <1>4, <1>5 DEF MergedUpto
  <1>7. QED
    BY <1>6 DEF r

\* All files.
LEMMA MergedAll ==
    ASSUME NEW fs, IsSeq(fs), \A j \in DOMAIN fs : IsConfig(fs[j].cfg)
    PROVE  MergedUpto(fs, Len(fs), Merged(fs)[Len(fs)])
  <1> DEFINE M == Merged(fs)
             wrong == {i \in 0..Len(fs) : ~MergedUpto(fs, i, M[i])}
  <1>1. Len(fs) \in Nat /\ DOMAIN fs = 1..Len(fs)
    BY DEF IsSeq
  <1>2. M = [i \in 0..Len(fs) |-> IF i = 0 THEN Bare ELSE MergeFile(M[i - 1], fs[i])]
    BY <1>1, MergedIs
  <1> HIDE DEF M
  <1>3. M[0] = Bare /\ \A i \in 1..Len(fs) : M[i] = MergeFile(M[i - 1], fs[i])
    BY <1>1, <1>2
  <1>4. MergedUpto(fs, 0, Bare)
    <2>1. DOMAIN Bare.out = {} /\ Bare.claimed = {} /\ IsSeq(Bare.out)
      BY DEF Bare, IsSeq
    <2>2. 1..0 = {}
      OBVIOUS
    <2>3. QED
      BY <2>1, <2>2 DEF MergedUpto, MergeOK, Distinct, Shows
  <1>5. wrong = {}
    <2> SUFFICES ASSUME wrong # {} PROVE FALSE
      OBVIOUS
    <2>1. wrong \subseteq Nat /\ wrong \subseteq 0..Len(fs)
      OBVIOUS
    <2> HIDE DEF wrong
    <2>2. PICK i \in wrong : \A j \in wrong : i <= j
      BY <2>1, LeastExists
    <2>3. i \in 0..Len(fs) /\ ~MergedUpto(fs, i, M[i])
      BY <2>2 DEF wrong
    <2>4. i # 0
      BY <1>3, <1>4, <2>3
    <2>5. i \in 1..Len(fs) /\ i - 1 \in 0..Len(fs) /\ i - 1 \notin wrong
      BY <1>1, <2>1, <2>2, <2>3, <2>4
    <2>6. MergedUpto(fs, i - 1, M[i - 1])
      BY <2>5 DEF wrong
    <2>7. QED
      BY <1>1, <1>3, <2>3, <2>5, <2>6, MergedNext
  <1>6. QED
    BY <1>1, <1>5 DEF M

\* The launch screen lists each context once, as a lookup finds it.
LEMMA MergedRows ==
    ASSUME MemoryOK PROVE MergedViewAgrees
  <1> DEFINE view == Contexts(files)
             m == Merged(files)[Len(files)]
             names == UNION {{files[i].cfg.contexts[j].name : j \in DOMAIN files[i].cfg.contexts} :
                                i \in DOMAIN files}
  <1>1. MergedUpto(files, Len(files), m) /\ view = m.out /\ DOMAIN files = 1..Len(files)
    BY MergedAll DEF MemoryOK, Contexts, IsSeq
  <1>2. \A n : n \in names <=> Shows(view, n)
    <2>1. \A n : n \in names <=> \E i \in DOMAIN files : \E j \in DOMAIN files[i].cfg.contexts :
                                    files[i].cfg.contexts[j].name = n
      OBVIOUS
    <2>2. \A n : n \in names <=> \E i \in 1..Len(files) : Has(files[i].cfg["contexts"], n)
      BY <1>1, <2>1 DEF Has, Slots
    <2> HIDE DEF names, view, m
    <2>3. QED
      BY <1>1, <2>2 DEF MergedUpto
  <1> HIDE DEF names, view, m
  <1>3. /\ Len(view) \in Nat /\ DOMAIN view = 1..Len(view) /\ Distinct(view)
        /\ \A k \in DOMAIN view : LET n == view[k].entry.name IN
              view[k] = Summary(FindEntry(files, "contexts", n), FindPath(files, "contexts", n))
    BY <1>1 DEF MergedUpto, MergeOK, IsSeq
  <1>4. Len(view) = Cardinality(names)
    <2> DEFINE shown == [k \in 1..Len(view) |-> view[k].entry.name]
    <2>1. shown \in Bijection(1..Len(view), names)
      <3>1. shown \in [1..Len(view) -> names]
        BY <1>2, <1>3 DEF Shows
      <3>2. \A j, k \in 1..Len(view) : shown[j] = shown[k] => j = k
        BY <1>3 DEF Distinct
      <3>3. \A n \in names : \E k \in 1..Len(view) : shown[k] = n
        BY <1>2, <1>3 DEF Shows
      <3> HIDE DEF shown
      <3>4. QED
        BY <3>1, <3>2, <3>3 DEF Bijection, Injection, Surjection, IsInjective
    <2>2. ExistsBijection(1..Len(view), names)
      BY <2>1 DEF ExistsBijection
    <2>3. IsFiniteSet(1..Len(view)) /\ Cardinality(1..Len(view)) = Len(view)
      BY <1>3, FS_Interval
    <2>4. QED
      BY <2>2, <2>3, FS_Bijection
  <1>5. ASSUME NEW n \in names
        PROVE  \E k \in DOMAIN view :
                  view[k] = Summary(FindEntry(files, "contexts", n), FindPath(files, "contexts", n))
    BY <1>2, <1>3 DEF Shows
  <1>6. QED
    BY <1>4, <1>5 DEF MergedViewAgrees, view, names

\* MergedViewAgrees: contexts() and the lookups take the same entry of the same file,
\* whatever the files hold and whoever writes them.
THEOREM MergeAgrees == Spec => []MergedViewAgrees
  <1>1. TypeOK => MergedViewAgrees
    BY MergedRows DEF TypeOK
  <1>2. QED
    BY <1>1, TypeCorrect, PTL
=============================================================================
