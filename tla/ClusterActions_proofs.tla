------------------------ MODULE ClusterActions_proofs ------------------------
(***************************************************************************)
(* What holds of the edits, of a rollback and of a drain for any pods, menus   *)
(* and numbers of tasks, changes and failures.                                *)
(***************************************************************************)
EXTENDS ClusterActions, SequenceTheorems, WellFoundedInduction, TLAPS

-----------------------------------------------------------------------------
(* Documents                                                                 *)

\* An edit that changes nothing sends nothing.
Vacuous(base, edited) == Paths(Stripped(Diff(base, edited))) = {}

LEMMA SameIsVacuous ==
    ASSUME NEW d, IsObj(d)
    PROVE  Vacuous(d, d)
  <1>1. Diff(d, d) = EmptyObj
    <2>1. PICK sub : Diff(d, d) = DiffOf(d, d, sub)
      BY Zenon DEF Diff
    <2>2. DiffOf(d, d, sub) = EmptyObj
      BY DEF DiffOf, Obj, EmptyObj
    <2>3. QED
      BY <2>1, <2>2
  <1>2. IsObj(EmptyObj) /\ Keys(EmptyObj) = {}
    BY DEF IsObj, Keys, EmptyObj, Obj
  <1>3. Without(EmptyObj, {"status"}) = EmptyObj
    <2>1. Keys(EmptyObj) \ {"status"} = {}
      BY <1>2
    <2>2. QED
      BY <2>1 DEF Without, Obj, EmptyObj
  <1>4. Stripped(EmptyObj) = EmptyObj
    BY <1>2, <1>3 DEF Stripped
  <1>5. Paths(EmptyObj) = {}
    BY Zenon DEF Paths
  <1>6. QED
    BY <1>1, <1>4, <1>5 DEF Vacuous

\* A key of an object, as value_at takes it
Field(v, k) == IF k \in Keys(v) THEN v.fields[k] ELSE Absent

LEMMA WithIs ==
    ASSUME NEW v, NEW key, NEW field
    PROVE  /\ IsObj(With(v, key, field)) /\ With(v, key, field) # Null
           /\ Field(With(v, key, field), key) = field
           /\ \A k : k # key => Field(With(v, key, field), k) = Field(v, k)
  <1>1. IsObj(With(v, key, field)) /\ With(v, key, field) # Null
    BY DEF IsObj, With, Obj, Null
  <1>2. Keys(With(v, key, field)) = Keys(v) \cup {key}
    BY <1>1 DEF Keys, With, Obj
  <1>3. \A k \in Keys(v) \cup {key} : With(v, key, field).fields[k] = IF k = key THEN field ELSE v.fields[k]
    BY DEF With, Obj
  <1>4. QED
    BY <1>1, <1>2, <1>3 DEF Field

\* The paths the properties are about have up to three keys, so the function that
\* ValueAt and SetAt are made of can be written down.
LEMMA ValueAtIs3 ==
    ASSUME NEW v, NEW a, NEW b, NEW c
    PROVE  /\ ValueAt(v, <<>>) = v
           /\ ValueAt(v, <<a>>) = Field(v, a)
           /\ ValueAt(v, <<a, b>>) = Field(Field(v, a), b)
           /\ ValueAt(v, <<a, b, c>>) = Field(Field(Field(v, a), b), c)
  <1> DEFINE val(path, n, parent) == IF n = 0 THEN v ELSE IF path[n] \in Keys(parent) THEN parent.fields[path[n]] ELSE Absent
             rec(path, f) == [n \in 0..Len(path) |-> val(path, n, f[n - 1])]
             at(path) == CHOOSE f : f = rec(path, f)
  <1>1. \A path : ValueAt(v, path) = at(path)[Len(path)]
    BY Zenon DEF ValueAt
  <1>2. \A path, n, parent : val(path, n, parent) = IF n = 0 THEN v ELSE Field(parent, path[n])
    BY DEF Field
  <1> HIDE DEF val
  <1>3. ASSUME NEW path, Len(path) \in {0, 1, 2, 3}
        PROVE  /\ at(path)[0] = v
               /\ \A n \in 1..3 : n <= Len(path) => at(path)[n] = Field(at(path)[n - 1], path[n])
    <2> DEFINE v1 == Field(v, path[1])
               v2 == Field(v1, path[2])
               g == [n \in 0..Len(path) |->
                        IF n = 0 THEN v ELSE IF n = 1 THEN v1 ELSE IF n = 2 THEN v2 ELSE Field(v2, path[3])]
    <2>1. PICK l \in {0, 1, 2, 3} : l = Len(path)
      BY <1>3
    <2>2. ASSUME NEW n \in 0..Len(path) PROVE g[n] = val(path, n, g[n - 1])
      <3>1. n \in {0, 1, 2, 3} /\ (n # 0 => n - 1 \in 0..Len(path))
        BY <2>1
      <3>2. CASE n = 0
        BY <1>2, <3>2
      <3>3. CASE n = 1
        <4>1. g[1] = v1 /\ g[0] = v
          BY <3>1, <3>3
        <4>2. QED
          BY <1>2, <3>3, <4>1
      <3>4. CASE n = 2
        <4>1. g[2] = v2 /\ g[1] = v1
          BY <3>1, <3>4
        <4>2. QED
          BY <1>2, <3>4, <4>1
      <3>5. CASE n = 3
        <4>1. g[3] = Field(v2, path[3]) /\ g[2] = v2
          BY <3>1, <3>5
        <4>2. QED
          BY <1>2, <3>5, <4>1
      <3>6. QED
        BY <3>1, <3>2, <3>3, <3>4, <3>5
    <2> HIDE DEF g
    <2>3. g = rec(path, g)
      <3>1. g = [n \in 0..Len(path) |-> g[n]]
        BY DEF g
      <3>2. QED
        BY <2>2, <3>1
    <2>4. at(path) = rec(path, at(path))
      <3> HIDE DEF rec
      <3>1. QED
        BY <2>3
    <2>5. PICK f : f = at(path)
      OBVIOUS
    <2> HIDE DEF at
    <2>6. \A n \in 0..Len(path) : f[n] = val(path, n, f[n - 1])
      BY <2>4, <2>5
    <2>7. \A n \in 0..Len(path) : f[n] = IF n = 0 THEN v ELSE Field(f[n - 1], path[n])
      BY <1>2, <2>6
    <2>8. QED
      BY <2>1, <2>5, <2>7
  <1> HIDE DEF at
  <1>4. /\ Len(<<>>) = 0 /\ Len(<<a>>) = 1 /\ Len(<<a, b>>) = 2 /\ Len(<<a, b, c>>) = 3
        /\ <<a>>[1] = a /\ <<a, b>>[1] = a /\ <<a, b>>[2] = b
        /\ <<a, b, c>>[1] = a /\ <<a, b, c>>[2] = b /\ <<a, b, c>>[3] = c
    OBVIOUS
  <1>5. ASSUME NEW path PROVE
            /\ Len(path) = 0 => ValueAt(v, path) = v
            /\ Len(path) = 1 => ValueAt(v, path) = Field(v, path[1])
            /\ Len(path) = 2 => ValueAt(v, path) = Field(Field(v, path[1]), path[2])
            /\ Len(path) = 3 => ValueAt(v, path) = Field(Field(Field(v, path[1]), path[2]), path[3])
    <2>1. /\ Len(path) \in {0, 1, 2, 3} => at(path)[0] = v
          /\ Len(path) \in {1, 2, 3} => at(path)[1] = Field(at(path)[0], path[1])
          /\ Len(path) \in {2, 3} => at(path)[2] = Field(at(path)[1], path[2])
          /\ Len(path) = 3 => at(path)[3] = Field(at(path)[2], path[3])
      BY <1>3
    <2>2. QED
      BY <1>1, <2>1
  <1>6. ValueAt(v, <<>>) = v /\ ValueAt(v, <<a>>) = Field(v, a)
    BY <1>4, <1>5
  <1>7. ValueAt(v, <<a, b>>) = Field(Field(v, a), b)
    BY <1>4, <1>5
  <1>8. ValueAt(v, <<a, b, c>>) = Field(Field(Field(v, a), b), c)
    BY <1>4, <1>5
  <1>9. QED
    BY <1>6, <1>7, <1>8

LEMMA ValueAtIs ==
    ASSUME NEW v, NEW a, NEW b
    PROVE  /\ ValueAt(v, <<>>) = v
           /\ ValueAt(v, <<a>>) = Field(v, a)
           /\ ValueAt(v, <<a, b>>) = Field(Field(v, a), b)
  <1>1. \A c : /\ ValueAt(v, <<>>) = v
              /\ ValueAt(v, <<a>>) = Field(v, a)
              /\ ValueAt(v, <<a, b>>) = Field(Field(v, a), b)
              /\ ValueAt(v, <<a, b, c>>) = Field(Field(Field(v, a), b), c)
    <2> TAKE c
    <2>1. QED
      BY ValueAtIs3
  <1>2. QED
    BY Zenon, <1>1

LEMMA SetAtIs ==
    ASSUME NEW doc, NEW a, NEW b, NEW v, v # Null
    PROVE  /\ SetAt(doc, <<a>>, v) = With(doc, a, v)
           /\ SetAt(doc, <<a, b>>, v) = With(doc, a, With(Field(doc, a), b, v))
  <1> DEFINE parent(path, i) == ValueAt(doc, SubSeq(path, 1, i - 1))
             val(path, i, field) == IF i > Len(path) THEN v
                                    ELSE IF field = Null THEN Without(parent(path, i), {path[i]})
                                         ELSE With(parent(path, i), path[i], field)
             rec(path, f) == [i \in 1..(Len(path) + 1) |-> val(path, i, f[i + 1])]
             from(path) == CHOOSE f : f = rec(path, f)
  <1>1. \A path : SetAt(doc, path, v) = from(path)[1]
    BY Zenon DEF SetAt
  <1>2. /\ SubSeq(<<a>>, 1, 1 - 1) = <<>> /\ SubSeq(<<a, b>>, 1, 1 - 1) = <<>>
        /\ SubSeq(<<a, b>>, 1, 2 - 1) = <<a>> /\ Len(<<a>>) = 1 /\ Len(<<a, b>>) = 2
    <2>1. SubSeq(<<a>>, 1, 1 - 1) = <<>>
      OBVIOUS
    <2>2. SubSeq(<<a, b>>, 1, 1 - 1) = <<>>
      OBVIOUS
    <2>3. SubSeq(<<a, b>>, 1, 2 - 1) = <<a>>
      <3>1. PICK s : s = <<a, b>>
        OBVIOUS
      <3>2. s \in Seq({a, b}) /\ Len(s) = 2 /\ s[1] = a
        BY <3>1
      <3>3. PICK r : r = SubSeq(s, 1, 1)
        OBVIOUS
      <3>4. r \in Seq({a, b}) /\ Len(r) = 1 /\ r[1] = a
        BY <3>2, <3>3
      <3>5. r = <<a>>
        BY <3>4
      <3>6. SubSeq(<<a, b>>, 1, 1) = <<a>>
        BY Zenon, <3>1, <3>3, <3>5
      <3>7. 2 - 1 = 1
        OBVIOUS
      <3>8. QED
        BY Zenon, <3>6, <3>7
    <2>4. Len(<<a>>) = 1 /\ Len(<<a, b>>) = 2
      OBVIOUS
    <2>5. QED
      BY <2>1, <2>2, <2>3, <2>4
  <1>3. /\ \A x : val(<<a>>, 2, x) = v /\ val(<<a, b>>, 3, x) = v
        /\ \A x : x # Null => /\ val(<<a>>, 1, x) = With(doc, a, x) /\ val(<<a, b>>, 1, x) = With(doc, a, x)
                             /\ val(<<a, b>>, 2, x) = With(Field(doc, a), b, x)
    <2>1. ValueAt(doc, <<>>) = doc /\ ValueAt(doc, <<a>>) = Field(doc, a)
      BY ValueAtIs
    <2>2. parent(<<a>>, 1) = doc /\ parent(<<a, b>>, 1) = doc /\ parent(<<a, b>>, 2) = Field(doc, a)
      BY <1>2, <2>1
    <2> HIDE DEF parent
    <2>3. /\ <<a>>[1] = a /\ <<a, b>>[1] = a /\ <<a, b>>[2] = b
      OBVIOUS
    <2>4. QED
      BY <1>2, <2>2, <2>3
  <1> HIDE DEF val
  <1>4. SetAt(doc, <<a>>, v) = With(doc, a, v)
    <2> DEFINE p == <<a>>
               g == [i \in 1..2 |-> IF i = 1 THEN With(doc, a, v) ELSE v]
    <2>1. 1..(Len(p) + 1) = 1..2 /\ \A i \in 1..2 : i = 1 \/ i = 2
      BY <1>2
    <2>2. \A i \in 1..2 : g[i] = val(p, i, g[i + 1])
      BY <1>3, <2>1
    <2> HIDE DEF g, p
    <2>3. g = rec(p, g)
      <3>1. g = [i \in 1..2 |-> g[i]]
        BY DEF g
      <3>2. QED
        BY <2>1, <2>2, <3>1
    <2>4. from(p) = rec(p, from(p))
      <3> HIDE DEF rec
      <3>1. QED
        BY <2>3
    <2> HIDE DEF from
    <2>5. from(p)[2] = val(p, 2, from(p)[3]) /\ from(p)[1] = val(p, 1, from(p)[2])
      BY <2>1, <2>4
    <2>6. from(p)[1] = With(doc, a, v)
      BY <1>3, <2>5 DEF p
    <2>7. QED
      BY <1>1, <2>6 DEF p
  <1>5. SetAt(doc, <<a, b>>, v) = With(doc, a, With(Field(doc, a), b, v))
    <2> DEFINE p == <<a, b>>
               inner == With(Field(doc, a), b, v)
               g == [i \in 1..3 |-> IF i = 1 THEN With(doc, a, inner) ELSE IF i = 2 THEN inner ELSE v]
    <2>0. inner # Null
      BY WithIs
    <2> HIDE DEF inner
    <2>1. 1..(Len(p) + 1) = 1..3 /\ \A i \in 1..3 : i = 1 \/ i = 2 \/ i = 3
      BY <1>2
    <2>2. \A i \in 1..3 : g[i] = val(p, i, g[i + 1])
      BY <1>3, <2>0, <2>1 DEF inner
    <2> HIDE DEF g, p
    <2>3. g = rec(p, g)
      <3>1. g = [i \in 1..3 |-> g[i]]
        BY DEF g
      <3>2. QED
        BY <2>1, <2>2, <3>1
    <2>4. from(p) = rec(p, from(p))
      <3> HIDE DEF rec
      <3>1. QED
        BY <2>3
    <2> HIDE DEF from
    <2>5. /\ from(p)[3] = val(p, 3, from(p)[4]) /\ from(p)[2] = val(p, 2, from(p)[3])
          /\ from(p)[1] = val(p, 1, from(p)[2])
      BY <2>1, <2>4
    <2>6. from(p)[2] = inner
      BY <1>3, <2>5 DEF p, inner
    <2>7. from(p)[1] = With(doc, a, inner)
      BY <1>3, <2>0, <2>5, <2>6 DEF p
    <2>8. QED
      BY <1>1, <2>7 DEF p, inner
  <1>6. QED
    BY <1>4, <1>5

\* A document with another value, or none, three keys down
Placed(v, key, field) == IF field = Null THEN Without(v, {key}) ELSE With(v, key, field)

LEMMA SetAtIs3 ==
    ASSUME NEW doc, NEW a, NEW b, NEW c, NEW v
    PROVE  SetAt(doc, <<a, b, c>>, v) = With(doc, a, With(Field(doc, a), b, Placed(Field(Field(doc, a), b), c, v)))
  <1> DEFINE p == <<a, b, c>>
             parent(i) == ValueAt(doc, SubSeq(p, 1, i - 1))
             val(i, field) == IF i > Len(p) THEN v ELSE Placed(parent(i), p[i], field)
             rec(f) == [i \in 1..(Len(p) + 1) |-> val(i, f[i + 1])]
             from == CHOOSE f : f = rec(f)
             low == Placed(Field(Field(doc, a), b), c, v)
             mid == With(Field(doc, a), b, low)
             top == With(doc, a, mid)
  <1>1. SetAt(doc, p, v) = from[1]
    BY Zenon DEF SetAt, Placed
  <1>2. SubSeq(p, 1, 1 - 1) = <<>> /\ SubSeq(p, 1, 2 - 1) = <<a>> /\ SubSeq(p, 1, 3 - 1) = <<a, b>>
    <2>1. PICK s : s = p
      OBVIOUS
    <2>2. s \in Seq({a, b, c}) /\ Len(s) = 3 /\ s[1] = a /\ s[2] = b
      BY <2>1
    <2>3. SubSeq(s, 1, 1 - 1) = <<>> /\ SubSeq(s, 1, 2 - 1) = <<a>> /\ SubSeq(s, 1, 3 - 1) = <<a, b>>
      <3>1. SubSeq(s, 1, 1 - 1) = <<>>
        BY <2>2
      <3>2. SubSeq(s, 1, 2 - 1) = <<a>>
        <4>1. PICK r : r = SubSeq(s, 1, 2 - 1)
          OBVIOUS
        <4>2. r \in Seq({a, b, c}) /\ Len(r) = 1 /\ r[1] = a
          BY <2>2, <4>1
        <4>3. r = <<a>>
          BY <4>2
        <4>4. QED
          BY Zenon, <4>1, <4>3
      <3>3. SubSeq(s, 1, 3 - 1) = <<a, b>>
        <4>1. PICK r : r = SubSeq(s, 1, 3 - 1)
          OBVIOUS
        <4>2. r \in Seq({a, b, c}) /\ Len(r) = 2 /\ r[1] = a /\ r[2] = b
          BY <2>2, <4>1
        <4>3. r = <<a, b>>
          BY <4>2
        <4>4. QED
          BY Zenon, <4>1, <4>3
      <3>4. QED
        BY Zenon, <3>1, <3>2, <3>3
    <2>4. QED
      BY Zenon, <2>1, <2>3
  <1>3. /\ Len(p) = 3 /\ p[1] = a /\ p[2] = b /\ p[3] = c
        /\ parent(1) = doc /\ parent(2) = Field(doc, a) /\ parent(3) = Field(Field(doc, a), b)
    <2>1. Len(p) = 3 /\ p[1] = a /\ p[2] = b /\ p[3] = c
      OBVIOUS
    <2>2. /\ ValueAt(doc, <<>>) = doc
          /\ ValueAt(doc, <<a>>) = Field(doc, a)
          /\ ValueAt(doc, <<a, b>>) = Field(Field(doc, a), b)
      BY ValueAtIs
    <2>3. QED
      BY Zenon, <1>2, <2>1, <2>2
  <1> HIDE DEF p, parent
  <1>4. mid # Null /\ top # Null
    BY WithIs
  <1>5. /\ \A x : val(4, x) = v /\ val(3, x) = Placed(Field(Field(doc, a), b), c, x)
        /\ val(2, low) = Placed(Field(doc, a), b, low) /\ val(1, mid) = top
    <2> HIDE DEF low, mid
    <2>1. \A x : val(1, x) = Placed(doc, a, x)
      BY <1>3
    <2>2. val(1, mid) = top
      BY <1>4, <2>1 DEF Placed
    <2>3. QED
      BY <1>3, <2>2
  <1> HIDE DEF val
  <1>6. low # Null
    BY WithIs DEF low, Placed, Without, Obj, Null
  <1>7. val(2, low) = mid
    BY <1>5, <1>6 DEF Placed
  <1> HIDE DEF low, mid, top
  <1> DEFINE g == [i \in 1..4 |-> IF i = 1 THEN top ELSE IF i = 2 THEN mid ELSE IF i = 3 THEN low ELSE v]
  <1>8. 1..(Len(p) + 1) = 1..4 /\ \A i \in 1..4 : i = 1 \/ i = 2 \/ i = 3 \/ i = 4
    BY <1>3
  <1>9. g[4] = v /\ g[3] = low /\ g[2] = mid /\ g[1] = top
    OBVIOUS
  <1> HIDE DEF g
  <1>10. \A i \in 1..4 : g[i] = val(i, g[i + 1])
    <2>1. val(3, v) = low
      BY <1>5 DEF low
    <2>2. QED
      BY <1>5, <1>7, <1>8, <1>9, <2>1
  <1>11. g = rec(g)
    <2>1. g = [i \in 1..4 |-> g[i]]
      BY DEF g
    <2>2. QED
      BY <1>8, <1>10, <2>1
  <1>12. from = rec(from)
    <2> HIDE DEF rec
    <2>1. QED
      BY <1>11
  <1> HIDE DEF from
  <1>13. \A i \in 1..4 : from[i] = val(i, from[i + 1])
    BY <1>8, <1>12
  <1>14. from[4] = v
    BY <1>5, <1>13
  <1>15. from[3] = low
    <2>1. from[3] = val(3, from[4])
      BY <1>13
    <2>2. QED
      BY <1>5, <1>14, <2>1 DEF low
  <1>16. from[2] = mid /\ from[1] = top
    <2>1. from[2] = val(2, from[3]) /\ from[1] = val(1, from[2])
      BY <1>13
    <2>2. QED
      BY <1>5, <1>7, <1>15, <2>1
  <1>17. QED
    BY <1>1, <1>16 DEF p, top, mid, low

\* An object with one value, one key, two or three down
Only(key, v) == Obj([k \in {key} |-> v])

LEMMA NestedTwo ==
    ASSUME NEW a, NEW b, NEW v
    PROVE  Nested(<<a, b>>, v) = Only(a, Only(b, v))
  <1> DEFINE val(p, i, x) == IF i > Len(p) THEN v ELSE Only(p[i], x)
             rec(p, f) == [i \in 1..(Len(p) + 1) |-> val(p, i, f[i + 1])]
             from(p) == CHOOSE f : f = rec(p, f)
             defined(p) == \E f : \A i \in 1..(Len(p) + 1) : f[i] = val(p, i, f[i + 1])
  <1>1. \A p : Nested(p, v) = from(p)[1]
    BY Zenon DEF Nested, Only
  <1> HIDE DEF val
  <1>2. ASSUME NEW p, Len(p) \in {2, 3}, defined(p)
        PROVE  from(p) = rec(p, from(p))
    <2>0. PICK f : \A i \in 1..(Len(p) + 1) : f[i] = val(p, i, f[i + 1])
      BY <1>2
    <2> DEFINE g == [i \in 1..(Len(p) + 1) |-> f[i]]
    <2>1. \A i \in 1..(Len(p) + 1) : g[i] = val(p, i, g[i + 1])
      <3>1. \A i \in 1..(Len(p) + 1) : i > Len(p) \/ i + 1 \in 1..(Len(p) + 1)
        BY <1>2
      <3>2. \A i \in 1..(Len(p) + 1) : g[i] = f[i]
        OBVIOUS
      <3> HIDE DEF g
      <3>3. QED
        BY <2>0, <3>1, <3>2 DEF val
    <2>2. g = [i \in 1..(Len(p) + 1) |-> g[i]]
      OBVIOUS
    <2> HIDE DEF g
    <2>3. g = rec(p, g)
      BY <2>1, <2>2
    <2> HIDE DEF rec
    <2>4. QED
      BY <2>3
  <1>3. ASSUME NEW p, Len(p) = 2, p[1] = a, p[2] = b
        PROVE  Nested(p, v) = Only(a, Only(b, v))
    <2> DEFINE low == Only(b, v)
               f == [i \in 1..3 |-> IF i = 1 THEN Only(a, low) ELSE IF i = 2 THEN low ELSE v]
    <2>1. \A i \in 1..(Len(p) + 1) : i = 1 \/ i = 2 \/ i = 3
      BY <1>3
    <2>2. (\A x : val(p, 3, x) = v) /\ val(p, 2, v) = low /\ val(p, 1, low) = Only(a, low)
      BY <1>3 DEF val
    <2>3. f[1] = Only(a, low) /\ f[2] = low /\ f[3] = v
      OBVIOUS
    <2> HIDE DEF f, low
    <2>4. \A i \in 1..(Len(p) + 1) : f[i] = val(p, i, f[i + 1])
      BY <2>1, <2>2, <2>3
    <2>4a. defined(p)
      BY <2>4
    <2> HIDE DEF from
    <2>5. from(p) = rec(p, from(p))
      <3> HIDE DEF rec, defined
      <3>1. QED
        BY <1>2, <1>3, <2>4a
    <2>6. \A i \in 1..3 : from(p)[i] = val(p, i, from(p)[i + 1])
      BY <1>3, <2>5
    <2>7. from(p)[3] = v
      <3>1. from(p)[3] = val(p, 3, from(p)[4])
        BY <2>6
      <3>2. QED
        BY <1>3, <3>1 DEF val
    <2>8. from(p)[2] = low /\ from(p)[1] = Only(a, low)
      <3>1. from(p)[2] = val(p, 2, from(p)[3]) /\ from(p)[1] = val(p, 1, from(p)[2])
        BY <2>6
      <3>2. QED
        BY <2>2, <2>7, <3>1
    <2>9. QED
      BY <1>1, <2>8 DEF low
  <1> HIDE DEF from
  <1>4. Len(<<a, b>>) = 2 /\ <<a, b>>[1] = a /\ <<a, b>>[2] = b
    OBVIOUS
  <1>5. QED
    BY Zenon, <1>3, <1>4

LEMMA NestedThree ==
    ASSUME NEW a, NEW b, NEW c, NEW v
    PROVE  Nested(<<a, b, c>>, v) = Only(a, Only(b, Only(c, v)))
  <1> DEFINE val(p, i, x) == IF i > Len(p) THEN v ELSE Only(p[i], x)
             rec(p, f) == [i \in 1..(Len(p) + 1) |-> val(p, i, f[i + 1])]
             from(p) == CHOOSE f : f = rec(p, f)
             defined(p) == \E f : \A i \in 1..(Len(p) + 1) : f[i] = val(p, i, f[i + 1])
  <1>1. \A p : Nested(p, v) = from(p)[1]
    BY Zenon DEF Nested, Only
  <1> HIDE DEF val
  <1>2. ASSUME NEW p, Len(p) \in {2, 3}, defined(p)
        PROVE  from(p) = rec(p, from(p))
    <2>0. PICK f : \A i \in 1..(Len(p) + 1) : f[i] = val(p, i, f[i + 1])
      BY <1>2
    <2> DEFINE g == [i \in 1..(Len(p) + 1) |-> f[i]]
    <2>1. \A i \in 1..(Len(p) + 1) : g[i] = val(p, i, g[i + 1])
      <3>1. \A i \in 1..(Len(p) + 1) : i > Len(p) \/ i + 1 \in 1..(Len(p) + 1)
        BY <1>2
      <3>2. \A i \in 1..(Len(p) + 1) : g[i] = f[i]
        OBVIOUS
      <3> HIDE DEF g
      <3>3. QED
        BY <2>0, <3>1, <3>2 DEF val
    <2>2. g = [i \in 1..(Len(p) + 1) |-> g[i]]
      OBVIOUS
    <2> HIDE DEF g
    <2>3. g = rec(p, g)
      BY <2>1, <2>2
    <2> HIDE DEF rec
    <2>4. QED
      BY <2>3
  <1>3. ASSUME NEW p, Len(p) = 3, p[1] = a, p[2] = b, p[3] = c
        PROVE  Nested(p, v) = Only(a, Only(b, Only(c, v)))
    <2> DEFINE low == Only(c, v)
               mid == Only(b, low)
               top == Only(a, mid)
               f == [i \in 1..4 |-> IF i = 1 THEN top ELSE IF i = 2 THEN mid ELSE IF i = 3 THEN low ELSE v]
    <2>1. \A i \in 1..(Len(p) + 1) : i = 1 \/ i = 2 \/ i = 3 \/ i = 4
      BY <1>3
    <2>2. (\A x : val(p, 4, x) = v) /\ val(p, 3, v) = low /\ val(p, 2, low) = mid /\ val(p, 1, mid) = top
      <3> HIDE DEF f
      <3>1. QED
        BY <1>3 DEF val
    <2> HIDE DEF low, mid, top
    <2>3. f[1] = top /\ f[2] = mid /\ f[3] = low /\ f[4] = v
      OBVIOUS
    <2> HIDE DEF f
    <2>4. \A i \in 1..(Len(p) + 1) : f[i] = val(p, i, f[i + 1])
      BY <2>1, <2>2, <2>3
    <2>4a. defined(p)
      BY <2>4
    <2> HIDE DEF from
    <2>5. from(p) = rec(p, from(p))
      <3> HIDE DEF rec, defined
      <3>1. QED
        BY <1>2, <1>3, <2>4a
    <2>6. \A i \in 1..4 : from(p)[i] = val(p, i, from(p)[i + 1])
      BY <1>3, <2>5
    <2>7. from(p)[4] = v
      <3>1. from(p)[4] = val(p, 4, from(p)[5])
        BY <2>6
      <3>2. QED
        BY <1>3, <3>1 DEF val
    <2>8. from(p)[3] = low /\ from(p)[2] = mid /\ from(p)[1] = top
      <3>1. /\ from(p)[3] = val(p, 3, from(p)[4]) /\ from(p)[2] = val(p, 2, from(p)[3])
            /\ from(p)[1] = val(p, 1, from(p)[2])
        BY <2>6
      <3>2. QED
        BY <2>2, <2>7, <3>1
    <2>9. QED
      BY <1>1, <2>8 DEF low, mid, top
  <1> HIDE DEF from
  <1>4. Len(<<a, b, c>>) = 3 /\ <<a, b, c>>[1] = a /\ <<a, b, c>>[2] = b /\ <<a, b, c>>[3] = c
    OBVIOUS
  <1>5. QED
    BY Zenon, <1>3, <1>4

LEMMA PathsAre ==
    ASSUME NEW doc
    PROVE  /\ Template(doc) = Field(Field(doc, "spec"), "template")
           /\ ValueAt(doc, Replicas) = Field(Field(doc, "spec"), "replicas")
           /\ ValueAt(doc, Rv) = Field(Field(doc, "metadata"), "resourceVersion")
           /\ ValueAt(doc, <<"spec">>) = Field(doc, "spec")
  <1>0. \A a, b : ValueAt(doc, <<a>>) = Field(doc, a) /\ ValueAt(doc, <<a, b>>) = Field(Field(doc, a), b)
    <2> TAKE a, b
    <2>1. /\ ValueAt(doc, <<>>) = doc
          /\ ValueAt(doc, <<a>>) = Field(doc, a)
          /\ ValueAt(doc, <<a, b>>) = Field(Field(doc, a), b)
      BY ValueAtIs
    <2>2. QED
      BY Zenon, <2>1
  <1>1. ValueAt(doc, <<"spec", "template">>) = Field(Field(doc, "spec"), "template")
    <2>1. PICK a, b : a = "spec" /\ b = "template"
      OBVIOUS
    <2>2. ValueAt(doc, <<a, b>>) = Field(Field(doc, a), b)
      BY Zenon, <1>0
    <2>3. QED
      BY Zenon, <2>1, <2>2
  <1>2. ValueAt(doc, <<"spec", "replicas">>) = Field(Field(doc, "spec"), "replicas")
    BY <1>0
  <1>3. ValueAt(doc, <<"metadata", "resourceVersion">>) = Field(Field(doc, "metadata"), "resourceVersion")
    BY <1>0
  <1>4. ValueAt(doc, <<"spec">>) = Field(doc, "spec")
    BY Zenon, <1>0
  <1>5. QED
    BY Zenon, <1>1, <1>2, <1>3, <1>4 DEF Template, Replicas, Rv

LEMMA VersionedAs ==
    ASSUME NEW d, NEW n
    PROVE  Versioned(d, n) = With(With(d, "metadata", With(Field(d, "metadata"), "resourceVersion", Leaf(n))), "status", Leaf(n))
  <1> DEFINE md == With(d, "metadata", With(Field(d, "metadata"), "resourceVersion", Leaf(n)))
  <1>1. Leaf(n) # Null
    BY DEF Leaf, Null
  <1>2. \A x, a, b : /\ SetAt(x, <<a>>, Leaf(n)) = With(x, a, Leaf(n))
                    /\ SetAt(x, <<a, b>>, Leaf(n)) = With(x, a, With(Field(x, a), b, Leaf(n)))
    <2> TAKE x, a, b
    <2>1. QED
      BY <1>1, SetAtIs
  <1>3. SetAt(d, Rv, Leaf(n)) = md
    BY Zenon, <1>2 DEF Rv
  <1> HIDE DEF md
  <1>4. SetAt(md, <<"status">>, Leaf(n)) = With(md, "status", Leaf(n))
    BY Zenon, <1>2
  <1>5. Versioned(d, n) = With(md, "status", Leaf(n))
    BY Zenon, <1>3, <1>4 DEF Versioned
  <1>6. QED
    BY <1>5 DEF md

\* What a write makes of a document: its version is the one given, and of what
\* the properties speak of nothing else differs.
LEMMA VersionedIs ==
    ASSUME NEW doc, NEW n
    PROVE  /\ IsObj(Versioned(doc, n)) /\ Version(Versioned(doc, n)) = n
           /\ Template(Versioned(doc, n)) = Template(doc)
           /\ ValueAt(Versioned(doc, n), Replicas) = ValueAt(doc, Replicas)
  <1> DEFINE md == With(doc, "metadata", With(Field(doc, "metadata"), "resourceVersion", Leaf(n)))
             new == With(md, "status", Leaf(n))
  <1>1. Leaf(n).leaf = n
    BY DEF Leaf
  <1>2. Versioned(doc, n) = new
    BY VersionedAs
  <1>3. IsObj(new) /\ Field(Field(new, "metadata"), "resourceVersion") = Leaf(n) /\ Field(new, "spec") = Field(doc, "spec")
    <2>1. Field(new, "metadata") = Field(md, "metadata") /\ Field(new, "spec") = Field(md, "spec") /\ IsObj(new)
      BY WithIs
    <2>2. /\ Field(md, "metadata") = With(Field(doc, "metadata"), "resourceVersion", Leaf(n))
          /\ Field(md, "spec") = Field(doc, "spec")
      BY WithIs
    <2>3. QED
      BY <2>1, <2>2, WithIs
  <1> HIDE DEF new
  <1>4. Version(new) = n
    BY <1>1, <1>3, PathsAre DEF Version
  <1>5. Template(new) = Template(doc) /\ ValueAt(new, Replicas) = ValueAt(doc, Replicas)
    BY <1>3, PathsAre
  <1>6. QED
    BY <1>2, <1>3, <1>4, <1>5

\* What a rollback sends differs from what it read in the template alone.
LEMMA RolledBackIs ==
    ASSUME NEW read, NEW template
    PROVE  /\ Template(RolledBack(read, template)) = template
           /\ Version(RolledBack(read, template)) = Version(read)
           /\ ValueAt(RolledBack(read, template), Replicas) = ValueAt(read, Replicas)
  <1> DEFINE spec == With(Field(read, "spec"), "template", template)
             new == With(read, "spec", spec)
  <1>1. RolledBack(read, template) = new
    BY PathsAre DEF RolledBack
  <1>2. Field(new, "spec") = spec /\ Field(new, "metadata") = Field(read, "metadata")
    BY WithIs
  <1>3. Field(spec, "template") = template /\ Field(spec, "replicas") = Field(Field(read, "spec"), "replicas")
    BY WithIs
  <1> HIDE DEF new, spec
  <1>4. Version(new) = Version(read)
    BY <1>2, PathsAre DEF Version
  <1>5. QED
    BY <1>1, <1>2, <1>3, <1>4, PathsAre

-----------------------------------------------------------------------------
(* The diff and the patch, level by level                                    *)

LEMMA LeastExists ==
    ASSUME NEW S, S \subseteq Nat, S # {}
    PROVE  \E i \in S : \A j \in S : i <= j
  <1> DEFINE below == {ss \in Nat \X Nat : ss[1] < ss[2]}
  <1>1. IsWellFoundedOn(below, Nat)
    <2>1. below = OpToRel(<, Nat)
      BY Zenon DEF OpToRel
    <2>2. QED
      BY <2>1, NatLessThanWellFounded, Zenon
  <1>2. \E i \in S : \A j \in S : <<j, i>> \notin below
    BY ONLY S \subseteq Nat, S # {}, <1>1, WFMin, Zenon
  <1>3. \A i, j \in Nat : <<j, i>> \notin below => i <= j
    OBVIOUS
  <1> HIDE DEF below
  <1>4. QED
    BY <1>2, <1>3

\* The values of a document, level by level.
Inside(S) == UNION {{x.fields[k] : k \in Keys(x)} : x \in S}

LEMMA ValuesAre ==
    ASSUME NEW v
    PROVE  /\ Values(v)[0] = {v}
           /\ \A n \in 0..MaxDepth : n # 0 => Values(v)[n] = Inside(Values(v)[n - 1])
  <1> DEFINE val(n, f) == IF n = 0 THEN {v} ELSE Inside(f[n - 1])
             rec(m, f) == [n \in 0..m |-> val(n, f)]
             none == {m \in 0..MaxDepth : ~\E f : f = rec(m, f)}
  <1>1. Values(v) = CHOOSE f : f = rec(MaxDepth, f)
    BY Zenon DEF Values, Inside
  <1>2. \E f : f = rec(MaxDepth, f)
    <2>1. SUFFICES ASSUME none # {} PROVE FALSE
      <3>1. MaxDepth \in 0..MaxDepth
        BY MergePatchAssumption
      <3>2. QED
        BY <2>1, <3>1
    <2>2. PICK m \in none : \A j \in none : m <= j
      <3>1. none \subseteq Nat
        BY MergePatchAssumption
      <3> HIDE DEF none
      <3>2. QED
        BY <2>1, <3>1, LeastExists
    <2>3. CASE m = 0
      <3> DEFINE f == [n \in 0..0 |-> {v}]
      <3>1. f = rec(0, f)
        OBVIOUS
      <3>2. QED
        BY <2>2, <2>3, <3>1
    <2>4. CASE m # 0
      <3>0. none \subseteq 0..MaxDepth
        OBVIOUS
      <3>1. m \in Nat /\ m - 1 \in 0..MaxDepth /\ m - 1 \notin none
        <4> HIDE DEF none
        <4>1. QED
          BY <2>2, <2>4, <3>0, MergePatchAssumption
      <3>2. PICK f : f = rec(m - 1, f)
        <4> HIDE DEF rec
        <4>1. QED
          BY <3>1
      <3> DEFINE g == [n \in 0..m |-> IF n = m THEN Inside(f[m - 1]) ELSE f[n]]
      <3>3. \A n \in 0..m : g[n] = val(n, g)
        <4>1. \A n \in 0..(m - 1) : f[n] = val(n, f)
          BY <3>2, Zenon
        <4>2. \A n \in 0..(m - 1) : g[n] = f[n] /\ n \in 0..m
          BY <3>1
        <4>3. \A n \in 0..m : n = m \/ n \in 0..(m - 1)
          BY <3>1
        <4>4. \A n \in 0..m : n # 0 => n - 1 \in 0..(m - 1)
          BY <3>1
        <4> HIDE DEF g
        <4>5. \A n \in 0..m : val(n, g) = val(n, f)
          BY <4>2, <4>4
        <4>6. g[m] = val(m, f)
          BY <2>4, <3>1 DEF g
        <4>7. QED
          BY <4>1, <4>2, <4>3, <4>5, <4>6
      <3>4. g = rec(m, g)
        <4>1. g = [n \in 0..m |-> g[n]]
          BY DEF g
        <4> HIDE DEF g, val
        <4>2. QED
          BY <3>3, <4>1
      <3>5. QED
        BY <2>2, <3>4
    <2>5. QED
      BY <2>3, <2>4
  <1> HIDE DEF rec
  <1>3. Values(v) = rec(MaxDepth, Values(v))
    BY <1>1, <1>2
  <1>4. \A n \in 0..MaxDepth : Values(v)[n] = val(n, Values(v))
    BY <1>3 DEF rec
  <1>5. 0 \in 0..MaxDepth
    BY MergePatchAssumption
  <1>6. QED
    BY <1>4, <1>5

LEMMA ValuesInside ==
    ASSUME NEW v, NEW n \in 0..MaxDepth, n # MaxDepth, NEW x \in Values(v)[n], NEW k \in Keys(x)
    PROVE  n + 1 \in 0..MaxDepth /\ x.fields[k] \in Values(v)[n + 1]
  <1>1. n + 1 \in 0..MaxDepth /\ n + 1 # 0 /\ (n + 1) - 1 = n
    BY MergePatchAssumption
  <1>2. Values(v)[n + 1] = Inside(Values(v)[n])
    BY <1>1, ValuesAre
  <1>3. QED
    BY <1>1, <1>2 DEF Inside

\* The fields two values share, each with what f makes of the pair one level down
Shared(f, at) ==
    [k \in Keys(at[2]) \cap Keys(at[3]) |-> f[<<at[1] + 1, at[2].fields[k], at[3].fields[k]>>]]

DiffAt(f, at) == IF at[1] = MaxDepth THEN at[3] ELSE DiffOf(at[2], at[3], Shared(f, at))

LEMMA PairsAre ==
    ASSUME NEW v, NEW w
    PROVE  /\ \A n, x, y : <<n, x, y>> \in Pairs(v, w) <=> n \in 0..MaxDepth /\ x \in Values(v)[n] /\ y \in Values(w)[n]
           /\ \A at \in Pairs(v, w) : at[1] \in 0..MaxDepth /\ at = <<at[1], at[2], at[3]>>
  BY DEF Pairs

LEMMA PairsInside ==
    ASSUME NEW v, NEW w, NEW at \in Pairs(v, w), at[1] # MaxDepth, NEW k \in Keys(at[2]) \cap Keys(at[3])
    PROVE  <<at[1] + 1, at[2].fields[k], at[3].fields[k]>> \in Pairs(v, w)
  <1>1. PICK n, x, y : n = at[1] /\ x = at[2] /\ y = at[3]
    OBVIOUS
  <1>2. n \in 0..MaxDepth /\ x \in Values(v)[n] /\ y \in Values(w)[n]
    BY <1>1, PairsAre
  <1>3. n + 1 \in 0..MaxDepth /\ x.fields[k] \in Values(v)[n + 1] /\ y.fields[k] \in Values(w)[n + 1]
    BY <1>1, <1>2, ValuesInside
  <1>4. QED
    BY <1>1, <1>3, PairsAre

\* The recursive function that Diff is made of is one: it is built from below, where
\* the documents are cut off.
LEMMA DiffFunction ==
    ASSUME NEW v, NEW w
    PROVE  \E diff : diff = [at \in Pairs(v, w) |-> DiffAt(diff, at)]
  <1> DEFINE from(m, f) == \A at \in Pairs(v, w) : at[1] >= MaxDepth - m => f[at] = DiffAt(f, at)
             none == {m \in 0..MaxDepth : ~\E f : from(m, f)}
  <1>1. ASSUME NEW f, NEW g, NEW at \in Pairs(v, w),
               \A x \in Pairs(v, w) : x[1] = at[1] + 1 => g[x] = f[x]
        PROVE  DiffAt(g, at) = DiffAt(f, at)
    <2>1. CASE at[1] = MaxDepth
      BY <2>1 DEF DiffAt
    <2>2. CASE at[1] # MaxDepth
      <3>1. \A k \in Keys(at[2]) \cap Keys(at[3]) :
                g[<<at[1] + 1, at[2].fields[k], at[3].fields[k]>>] = f[<<at[1] + 1, at[2].fields[k], at[3].fields[k]>>]
        BY <1>1, <2>2, PairsInside
      <3>2. Shared(g, at) = Shared(f, at)
        BY <3>1 DEF Shared
      <3>3. QED
        BY <2>2, <3>2 DEF DiffAt
    <2>3. QED
      BY <2>1, <2>2
  <1>2. \E f : from(MaxDepth, f)
    <2>1. SUFFICES ASSUME none # {} PROVE FALSE
      <3>1. MaxDepth \in 0..MaxDepth
        BY MergePatchAssumption
      <3> HIDE DEF from
      <3>2. QED
        BY <2>1, <3>1
    <2>2. PICK m \in none : \A j \in none : m <= j
      <3>1. none \subseteq Nat
        BY MergePatchAssumption
      <3> HIDE DEF none
      <3>2. QED
        BY <2>1, <3>1, LeastExists
    <2>3. m \in 0..MaxDepth /\ ~\E f : from(m, f)
      <3> HIDE DEF from
      <3>1. QED
        BY <2>2
    <2>4. CASE m = 0
      <3> DEFINE f == [at \in Pairs(v, w) |-> at[3]]
      <3>1. from(0, f)
        <4> SUFFICES ASSUME NEW at \in Pairs(v, w), at[1] >= MaxDepth - 0 PROVE f[at] = DiffAt(f, at)
          OBVIOUS
        <4>1. at[1] \in 0..MaxDepth
          BY PairsAre
        <4>2. at[1] = MaxDepth
          BY <4>1, MergePatchAssumption
        <4>3. QED
          BY <4>2 DEF DiffAt
      <3> HIDE DEF f, from
      <3>2. QED
        BY <2>3, <2>4, <3>1
    <2>5. CASE m # 0
      <3>1. m \in Nat /\ m - 1 \in 0..MaxDepth
        BY <2>3, <2>5, MergePatchAssumption
      <3>2. m - 1 \notin none
        <4> HIDE DEF none
        <4>1. QED
          BY <2>2, <3>1
      <3>3. PICK f : from(m - 1, f)
        <4> HIDE DEF from
        <4>1. QED
          BY <3>1, <3>2
      <3> DEFINE g == [at \in Pairs(v, w) |-> IF at[1] >= MaxDepth - (m - 1) THEN f[at] ELSE DiffAt(f, at)]
      <3>4. ASSUME NEW at \in Pairs(v, w), at[1] >= MaxDepth - m PROVE g[at] = DiffAt(g, at)
        <4>1. at[1] \in 0..MaxDepth
          BY Zenon, PairsAre
        <4>2. \A x \in Pairs(v, w) : x[1] = at[1] + 1 => x[1] >= MaxDepth - (m - 1)
          BY <3>1, <3>4, <4>1, MergePatchAssumption
        <4>3. \A x \in Pairs(v, w) : x[1] = at[1] + 1 => g[x] = f[x]
          BY <4>2
        <4>4. g[at] = DiffAt(f, at)
          BY <3>3
        <4> HIDE DEF g
        <4>5. QED
          BY <1>1, <4>3, <4>4
      <3> HIDE DEF g
      <3>5. from(m, g)
        BY <3>4
      <3> HIDE DEF from
      <3>6. QED
        BY <2>3, <3>5
    <2>6. QED
      BY <2>4, <2>5
  <1>3. PICK f : from(MaxDepth, f)
    <2> HIDE DEF from
    <2>1. QED
      BY <1>2
  <1> DEFINE diff == [at \in Pairs(v, w) |-> f[at]]
  <1>4. ASSUME NEW at \in Pairs(v, w) PROVE f[at] = DiffAt(diff, at)
    <2>1. f[at] = DiffAt(f, at)
      BY <1>3, PairsAre, MergePatchAssumption
    <2>2. \A x \in Pairs(v, w) : diff[x] = f[x]
      OBVIOUS
    <2> HIDE DEF diff
    <2>3. QED
      BY <1>1, <2>1, <2>2
  <1>5. diff = [at \in Pairs(v, w) |-> DiffAt(diff, at)]
    <2>1. diff = [at \in Pairs(v, w) |-> f[at]]
      OBVIOUS
    <2> HIDE DEF diff
    <2>2. QED
      BY <1>4, <2>1
  <1>6. QED
    BY <1>5

\* Diff, level by level
LEMMA DiffIs ==
    ASSUME NEW b, NEW e
    PROVE  \E diff : /\ Diff(b, e) = DiffOf(b, e, Shared(diff, <<0, b, e>>))
                     /\ \A at \in Pairs(b, e) : diff[at] = DiffAt(diff, at)
  <1> DEFINE diff == CHOOSE f : f = [at \in Pairs(b, e) |-> DiffAt(f, at)]
  <1>1. diff = [at \in Pairs(b, e) |-> DiffAt(diff, at)]
    BY DiffFunction
  <1>2. Diff(b, e) = DiffOf(b, e, [k \in Keys(b) \cap Keys(e) |-> diff[<<1, b.fields[k], e.fields[k]>>]])
    BY Zenon DEF Diff, DiffAt, Shared
  <1> HIDE DEF diff
  <1>3. Shared(diff, <<0, b, e>>) = [k \in Keys(b) \cap Keys(e) |-> diff[<<1, b.fields[k], e.fields[k]>>]]
    BY DEF Shared
  <1>4. \A at \in Pairs(b, e) : diff[at] = DiffAt(diff, at)
    BY <1>1, Zenon
  <1>5. QED
    BY <1>2, <1>3, <1>4

\* What the server has where a patch has a field, and what it makes of the two
Met(t, k) == IF k \in Keys(t) THEN t.fields[k] ELSE EmptyObj
Removed(q) == {k \in Keys(q) : q.fields[k] = Null}

Merging(f, at) ==
    Obj([k \in (Keys(at[2]) \cup Keys(at[3])) \ Removed(at[3]) |->
            IF k \in Keys(at[3]) THEN f[<<at[1] + 1, Met(at[2], k), at[3].fields[k]>>] ELSE at[2].fields[k]])

PatchAt(f, at) == IF at[1] = MaxDepth \/ ~IsObj(at[3]) THEN at[3] ELSE Merging(f, at)

Applied(v, w) == UNION {{n} \X (Values(v)[n] \cup {EmptyObj}) \X Values(w)[n] : n \in 0..MaxDepth}

LEMMA AppliedAre ==
    ASSUME NEW v, NEW w
    PROVE  /\ \A n, x, y : <<n, x, y>> \in Applied(v, w) <=>
                  n \in 0..MaxDepth /\ x \in Values(v)[n] \cup {EmptyObj} /\ y \in Values(w)[n]
           /\ \A at \in Applied(v, w) : at[1] \in 0..MaxDepth /\ at = <<at[1], at[2], at[3]>>
  BY DEF Applied

LEMMA AppliedInside ==
    ASSUME NEW v, NEW w, NEW at \in Applied(v, w), at[1] # MaxDepth, NEW k \in Keys(at[3])
    PROVE  <<at[1] + 1, Met(at[2], k), at[3].fields[k]>> \in Applied(v, w)
  <1>1. PICK n, x, y : n = at[1] /\ x = at[2] /\ y = at[3]
    OBVIOUS
  <1>2. n \in 0..MaxDepth /\ x \in Values(v)[n] \cup {EmptyObj} /\ y \in Values(w)[n]
    BY <1>1, AppliedAre
  <1>3. n + 1 \in 0..MaxDepth /\ y.fields[k] \in Values(w)[n + 1]
    BY <1>1, <1>2, ValuesInside
  <1>4. Met(x, k) \in Values(v)[n + 1] \cup {EmptyObj}
    <2>1. CASE k \in Keys(x)
      <3>1. x # EmptyObj
        BY <2>1 DEF EmptyObj, Obj, Keys, IsObj
      <3>2. QED
        BY <1>1, <1>2, <2>1, <3>1, ValuesInside DEF Met
    <2>2. CASE k \notin Keys(x)
      BY <2>2 DEF Met
    <2>3. QED
      BY <2>1, <2>2
  <1>5. QED
    BY <1>1, <1>3, <1>4, AppliedAre

\* The recursive function that Patched is made of is one, too.
LEMMA PatchedFunction ==
    ASSUME NEW v, NEW w
    PROVE  \E done : done = [at \in Applied(v, w) |-> PatchAt(done, at)]
  <1> DEFINE from(m, f) == \A at \in Applied(v, w) : at[1] >= MaxDepth - m => f[at] = PatchAt(f, at)
             none == {m \in 0..MaxDepth : ~\E f : from(m, f)}
  <1>1. ASSUME NEW f, NEW g, NEW at \in Applied(v, w),
               \A x \in Applied(v, w) : x[1] = at[1] + 1 => g[x] = f[x]
        PROVE  PatchAt(g, at) = PatchAt(f, at)
    <2>1. CASE at[1] = MaxDepth \/ ~IsObj(at[3])
      BY <2>1 DEF PatchAt
    <2>2. CASE at[1] # MaxDepth /\ IsObj(at[3])
      <3>1. \A k \in Keys(at[3]) : g[<<at[1] + 1, Met(at[2], k), at[3].fields[k]>>] = f[<<at[1] + 1, Met(at[2], k), at[3].fields[k]>>]
        BY <1>1, <2>2, AppliedInside
      <3>2. Merging(g, at) = Merging(f, at)
        BY <3>1 DEF Merging
      <3>3. QED
        BY <2>2, <3>2 DEF PatchAt
    <2>3. QED
      BY <2>1, <2>2
  <1>2. \E f : from(MaxDepth, f)
    <2>1. SUFFICES ASSUME none # {} PROVE FALSE
      <3>1. MaxDepth \in 0..MaxDepth
        BY MergePatchAssumption
      <3> HIDE DEF from
      <3>2. QED
        BY <2>1, <3>1
    <2>2. PICK m \in none : \A j \in none : m <= j
      <3>1. none \subseteq Nat
        BY MergePatchAssumption
      <3> HIDE DEF none
      <3>2. QED
        BY <2>1, <3>1, LeastExists
    <2>3. m \in 0..MaxDepth /\ ~\E f : from(m, f)
      <3> HIDE DEF from
      <3>1. QED
        BY <2>2
    <2>4. CASE m = 0
      <3> DEFINE f == [at \in Applied(v, w) |-> at[3]]
      <3>1. from(0, f)
        <4> SUFFICES ASSUME NEW at \in Applied(v, w), at[1] >= MaxDepth - 0 PROVE f[at] = PatchAt(f, at)
          OBVIOUS
        <4>1. at[1] \in 0..MaxDepth
          BY AppliedAre
        <4>2. at[1] = MaxDepth
          BY <4>1, MergePatchAssumption
        <4>3. QED
          BY <4>2 DEF PatchAt
      <3> HIDE DEF f, from
      <3>2. QED
        BY <2>3, <2>4, <3>1
    <2>5. CASE m # 0
      <3>1. m \in Nat /\ m - 1 \in 0..MaxDepth
        BY <2>3, <2>5, MergePatchAssumption
      <3>2. m - 1 \notin none
        <4> HIDE DEF none
        <4>1. QED
          BY <2>2, <3>1
      <3>3. PICK f : from(m - 1, f)
        <4> HIDE DEF from
        <4>1. QED
          BY <3>1, <3>2
      <3> DEFINE g == [at \in Applied(v, w) |-> IF at[1] >= MaxDepth - (m - 1) THEN f[at] ELSE PatchAt(f, at)]
      <3>4. ASSUME NEW at \in Applied(v, w), at[1] >= MaxDepth - m PROVE g[at] = PatchAt(g, at)
        <4>1. at[1] \in 0..MaxDepth
          BY Zenon, AppliedAre
        <4>2. \A x \in Applied(v, w) : x[1] = at[1] + 1 => x[1] >= MaxDepth - (m - 1)
          BY <3>1, <3>4, <4>1, MergePatchAssumption
        <4>3. \A x \in Applied(v, w) : x[1] = at[1] + 1 => g[x] = f[x]
          BY <4>2
        <4>4. g[at] = PatchAt(f, at)
          BY <3>3
        <4> HIDE DEF g
        <4>5. QED
          BY <1>1, <4>3, <4>4
      <3> HIDE DEF g
      <3>5. from(m, g)
        BY <3>4
      <3> HIDE DEF from
      <3>6. QED
        BY <2>3, <3>5
    <2>6. QED
      BY <2>4, <2>5
  <1>3. PICK f : from(MaxDepth, f)
    <2> HIDE DEF from
    <2>1. QED
      BY <1>2
  <1> DEFINE done == [at \in Applied(v, w) |-> f[at]]
  <1>4. ASSUME NEW at \in Applied(v, w) PROVE f[at] = PatchAt(done, at)
    <2>1. f[at] = PatchAt(f, at)
      BY <1>3, AppliedAre, MergePatchAssumption
    <2>2. \A x \in Applied(v, w) : done[x] = f[x]
      OBVIOUS
    <2> HIDE DEF done
    <2>3. QED
      BY <1>1, <2>1, <2>2
  <1>5. done = [at \in Applied(v, w) |-> PatchAt(done, at)]
    <2>1. done = [at \in Applied(v, w) |-> f[at]]
      OBVIOUS
    <2> HIDE DEF done
    <2>2. QED
      BY <1>4, <2>1
  <1>6. QED
    BY <1>5

\* Patched, level by level
LEMMA PatchedIs ==
    ASSUME NEW o, NEW q
    PROVE  \E done : /\ Patched(o, q) = PatchAt(done, <<0, o, q>>)
                     /\ \A at \in Applied(o, q) : done[at] = PatchAt(done, at)
  <1> DEFINE done == CHOOSE f : f = [at \in Applied(o, q) |-> PatchAt(f, at)]
  <1>1. done = [at \in Applied(o, q) |-> PatchAt(done, at)]
    BY PatchedFunction
  <1>2. Patched(o, q) = done[<<0, o, q>>]
    BY Zenon DEF Patched, PatchAt, Merging, Met, Removed, Applied
  <1> HIDE DEF done
  <1>3. \A at \in Applied(o, q) : done[at] = PatchAt(done, at)
    BY <1>1, Zenon
  <1>4. <<0, o, q>> \in Applied(o, q)
    <2>1. 0 \in 0..MaxDepth
      BY MergePatchAssumption
    <2>2. QED
      BY <2>1, AppliedAre, ValuesAre
  <1>5. QED
    BY <1>2, <1>3, <1>4

-----------------------------------------------------------------------------
(* The documents of a deployment                                             *)

\* The leaves the edits are about are not objects, and nothing is there as nothing.
LeafAt(v, k) == k \in Keys(v) => ~IsObj(v.fields[k]) /\ v.fields[k] \notin {Null, Absent}

IsTemplate(v) == IsObj(v) /\ LeafAt(v, "image") /\ LeafAt(v, "restartedAt")
IsSpec(v)     == IsObj(v) /\ LeafAt(v, "replicas") /\ IsTemplate(Field(v, "template"))
IsMeta(v)     == IsObj(v) /\ LeafAt(v, "name")
IsDoc(d)      == IsObj(d) /\ IsSpec(Field(d, "spec")) /\ IsMeta(Field(d, "metadata"))

\* In a patch a leaf may be taken away, and an object left out.
ScalarAt(v, k) == k \in Keys(v) => ~IsObj(v.fields[k]) /\ v.fields[k] # Absent
ObjAt(v, k)    == k \in Keys(v) => IsObj(v.fields[k])

IsPatch(q) ==
    /\ IsObj(q) /\ ObjAt(q, "spec") /\ ObjAt(q, "metadata") /\ ObjAt(Field(q, "spec"), "template")
    /\ ScalarAt(Field(q, "metadata"), "name") /\ ScalarAt(Field(q, "spec"), "replicas")
    /\ ScalarAt(Field(Field(q, "spec"), "template"), "image")
    /\ ScalarAt(Field(Field(q, "spec"), "template"), "restartedAt")

LEMMA NothingIs ==
    /\ IsObj(EmptyObj) /\ ~IsObj(Absent) /\ ~IsObj(Null) /\ Null # Absent
    /\ Keys(EmptyObj) = {} /\ Keys(Absent) = {} /\ Keys(Null) = {}
    /\ \A k : Field(EmptyObj, k) = Absent /\ Field(Absent, k) = Absent /\ Field(Null, k) = Absent
  <1>1. IsObj(EmptyObj) /\ ~IsObj(Absent) /\ ~IsObj(Null)
    BY DEF IsObj, EmptyObj, Obj, Absent, Null
  <1>2. Keys(EmptyObj) = {} /\ Keys(Absent) = {} /\ Keys(Null) = {}
    BY <1>1 DEF Keys, EmptyObj, Obj
  <1>3. Null # Absent
    BY DEF Null, Absent
  <1>4. QED
    BY <1>1, <1>2, <1>3 DEF Field

LEMMA LeavesAre ==
    ASSUME NEW n
    PROVE  ~IsObj(Leaf(n)) /\ Leaf(n) \notin {Null, Absent}
  BY DEF IsObj, Leaf, Null, Absent

\* What a patch says of a leaf: nothing, to take it away, or what it becomes
Change(b, e, k) ==
    IF Field(b, k) = Field(e, k) THEN Absent
    ELSE IF k \notin Keys(e) THEN Null ELSE Field(e, k)

LEMMA DiffOfIs ==
    ASSUME NEW b, NEW e, NEW sub, IsObj(b), IsObj(e)
    PROVE  LET d == DiffOf(b, e, sub) IN
           /\ IsObj(d)
           /\ \A k : k \in Keys(d) =>
                  d.fields[k] = IF k \notin Keys(e) THEN Null ELSE IF k \notin Keys(b) THEN e.fields[k] ELSE sub[k]
           /\ \A k \in Keys(b) \cap Keys(e) :
                  k \notin Keys(d) <=> b.fields[k] = e.fields[k] \/ (sub[k] = EmptyObj /\ IsObj(b.fields[k]))
           /\ \A k : k \notin Keys(b) \cap Keys(e) => (k \in Keys(d) <=> k \in Keys(b) \cup Keys(e))
  <1> DEFINE both == Keys(b) \cap Keys(e)
             vacuous(k) == sub[k] = EmptyObj /\ IsObj(b.fields[k])
             changed == {k \in both : b.fields[k] # e.fields[k] /\ ~vacuous(k)}
             keys == changed \cup ((Keys(b) \cup Keys(e)) \ both)
             field(k) == IF k \notin Keys(e) THEN Null ELSE IF k \notin Keys(b) THEN e.fields[k] ELSE sub[k]
  <1>1. DiffOf(b, e, sub) = Obj([k \in keys |-> field(k)])
    BY Zenon DEF DiffOf
  <1> HIDE DEF field
  <1>2. IsObj(DiffOf(b, e, sub))
    BY <1>1 DEF Obj, IsObj
  <1>3. Keys(DiffOf(b, e, sub)) = keys /\ \A k \in keys : DiffOf(b, e, sub).fields[k] = field(k)
    <2> HIDE DEF keys
    <2>1. QED
      BY <1>1, <1>2 DEF Obj, Keys
  <1>4. QED
    BY <1>2, <1>3 DEF field

\* A leaf in the patch
LEMMA DiffLeaf ==
    ASSUME NEW b, NEW e, NEW sub, IsObj(b), IsObj(e), NEW k, LeafAt(b, k), LeafAt(e, k),
           k \in Keys(b) \cap Keys(e) => sub[k] = e.fields[k]
    PROVE  /\ Field(DiffOf(b, e, sub), k) = Change(b, e, k)
           /\ ScalarAt(DiffOf(b, e, sub), k)
  <1> DEFINE d == DiffOf(b, e, sub)
  <1>1. /\ k \in Keys(d) => d.fields[k] = IF k \notin Keys(e) THEN Null ELSE IF k \notin Keys(b) THEN e.fields[k] ELSE sub[k]
        /\ k \in Keys(b) \cap Keys(e) => (k \notin Keys(d) <=> b.fields[k] = e.fields[k] \/ (sub[k] = EmptyObj /\ IsObj(b.fields[k])))
        /\ k \notin Keys(b) \cap Keys(e) => (k \in Keys(d) <=> k \in Keys(b) \cup Keys(e))
    BY DiffOfIs
  <1> HIDE DEF d
  <1>2. CASE k \in Keys(b) \cap Keys(e)
    <2>1. Field(b, k) = b.fields[k] /\ Field(e, k) = e.fields[k] /\ sub[k] = e.fields[k]
      BY <1>2 DEF Field
    <2>2. k \notin Keys(d) <=> b.fields[k] = e.fields[k]
      BY <1>1, <1>2 DEF LeafAt
    <2>3. k \in Keys(d) => d.fields[k] = e.fields[k]
      BY <1>1, <1>2, <2>1
    <2>4. QED
      BY <1>2, <2>1, <2>2, <2>3 DEF LeafAt, Change, Field, ScalarAt, d
  <1>3. CASE k \notin Keys(b) \cap Keys(e)
    <2>1. k \in Keys(d) <=> k \in Keys(b) \/ k \in Keys(e)
      BY <1>1, <1>3
    <2>2. k \in Keys(d) => d.fields[k] = IF k \in Keys(e) THEN e.fields[k] ELSE Null
      BY <1>1, <1>3
    <2>3. QED
      BY <1>3, <2>1, <2>2, NothingIs DEF LeafAt, Change, Field, ScalarAt, d
  <1>4. QED
    BY <1>2, <1>3

\* An object in the patch: it is left out when it would be empty.
LEMMA DiffObj ==
    ASSUME NEW b, NEW e, NEW sub, IsObj(b), IsObj(e), NEW k, IsObj(Field(b, k)), IsObj(Field(e, k)),
           NEW below, sub[k] = DiffOf(Field(b, k), Field(e, k), below)
    PROVE  /\ ObjAt(DiffOf(b, e, sub), k)
           /\ Field(DiffOf(b, e, sub), k) \in {Absent, sub[k]}
           /\ \A j : Field(Field(DiffOf(b, e, sub), k), j) = Field(sub[k], j)
  <1> DEFINE d == DiffOf(b, e, sub)
  <1>1. k \in Keys(b) \cap Keys(e) /\ Field(b, k) = b.fields[k] /\ Field(e, k) = e.fields[k]
    BY NothingIs DEF Field
  <1>2. IsObj(sub[k])
    BY DiffOfIs
  <1>3. /\ k \in Keys(d) => d.fields[k] = sub[k]
        /\ k \notin Keys(d) => b.fields[k] = e.fields[k] \/ sub[k] = EmptyObj
    BY <1>1, DiffOfIs
  <1>4. ASSUME b.fields[k] = e.fields[k] PROVE sub[k] = EmptyObj
    <2>1. PICK x : x = Field(b, k)
      OBVIOUS
    <2>2. IsObj(x) /\ sub[k] = DiffOf(x, x, below)
      BY <1>1, <1>4, <2>1
    <2>3. DiffOf(x, x, below) = EmptyObj
      BY <2>2 DEF DiffOf, Obj, EmptyObj
    <2>4. QED
      BY <2>2, <2>3
  <1> HIDE DEF d
  <1>5. k \notin Keys(d) => sub[k] = EmptyObj
    BY <1>3, <1>4
  <1>6. Field(d, k) = IF k \in Keys(d) THEN sub[k] ELSE Absent
    BY <1>3 DEF Field
  <1>7. QED
    BY <1>2, <1>3, <1>5, <1>6, NothingIs DEF ObjAt, d

\* Of two documents of a deployment the patch says of each leaf what changed.
LEMMA DiffOfDocs ==
    ASSUME MaxDepth >= 3, NEW b, NEW e, IsDoc(b), IsDoc(e)
    PROVE  LET d == Diff(b, e)
               T(v) == Field(Field(v, "spec"), "template")
           IN  /\ IsPatch(d)
               /\ \A k \in {"image", "restartedAt"} : Field(T(d), k) = Change(T(b), T(e), k)
               /\ Field(Field(d, "spec"), "replicas") = Change(Field(b, "spec"), Field(e, "spec"), "replicas")
               /\ Field(Field(d, "metadata"), "name") = Change(Field(b, "metadata"), Field(e, "metadata"), "name")
  <1> DEFINE bs == Field(b, "spec")
             es == Field(e, "spec")
             bm == Field(b, "metadata")
             em == Field(e, "metadata")
             bt == Field(bs, "template")
             et == Field(es, "template")
  <1>1. /\ IsObj(b) /\ IsObj(e) /\ IsObj(bs) /\ IsObj(es) /\ IsObj(bm) /\ IsObj(em) /\ IsObj(bt) /\ IsObj(et)
        /\ "spec" \in Keys(b) \cap Keys(e) /\ "metadata" \in Keys(b) \cap Keys(e) /\ "template" \in Keys(bs) \cap Keys(es)
        /\ bs = b.fields["spec"] /\ es = e.fields["spec"] /\ bm = b.fields["metadata"] /\ em = e.fields["metadata"]
        /\ bt = bs.fields["template"] /\ et = es.fields["template"]
    BY NothingIs DEF IsDoc, IsSpec, IsMeta, IsTemplate, Field
  <1>2. /\ LeafAt(bs, "replicas") /\ LeafAt(es, "replicas") /\ LeafAt(bm, "name") /\ LeafAt(em, "name")
        /\ \A k \in {"image", "restartedAt"} : LeafAt(bt, k) /\ LeafAt(et, k)
    BY DEF IsDoc, IsSpec, IsMeta, IsTemplate
  <1> HIDE DEF bs, es, bm, em, bt, et
  <1>3. PICK diff : /\ Diff(b, e) = DiffOf(b, e, Shared(diff, <<0, b, e>>))
                    /\ \A at \in Pairs(b, e) : diff[at] = DiffAt(diff, at)
    BY DiffIs
  <1>4. 0 # MaxDepth /\ 1 # MaxDepth /\ 2 # MaxDepth /\ {0, 1, 2} \subseteq 0..MaxDepth
    BY MergePatchAssumption
  <1> DEFINE deep(n, x, y) == diff[<<n, x, y>>] = DiffOf(x, y, Shared(diff, <<n, x, y>>))
  <1>5. ASSUME NEW n, NEW x, NEW y, <<n, x, y>> \in Pairs(b, e), n # MaxDepth
        PROVE  deep(n, x, y) /\ \A k \in Keys(x) \cap Keys(y) : <<n + 1, x.fields[k], y.fields[k]>> \in Pairs(b, e)
    <2>1. PICK at : at = <<n, x, y>>
      OBVIOUS
    <2>2. at \in Pairs(b, e) /\ at[1] = n /\ at[2] = x /\ at[3] = y
      BY <1>5, <2>1
    <2>3. \A k \in Keys(x) \cap Keys(y) : <<n + 1, x.fields[k], y.fields[k]>> \in Pairs(b, e)
      BY <1>5, <2>2, PairsInside
    <2>4. diff[at] = DiffOf(x, y, Shared(diff, at))
      BY <1>3, <1>5, <2>2 DEF DiffAt
    <2>5. QED
      BY <2>1, <2>3, <2>4
  <1>6. ASSUME NEW n, NEW x, NEW y, NEW k \in Keys(x) \cap Keys(y)
        PROVE  Shared(diff, <<n, x, y>>)[k] = diff[<<n + 1, x.fields[k], y.fields[k]>>]
    BY DEF Shared
  <1>7. ASSUME NEW n, NEW x, NEW y, <<n, x, y>> \in Pairs(b, e), n # MaxDepth, NEW k, LeafAt(x, k), LeafAt(y, k)
        PROVE  k \in Keys(x) \cap Keys(y) => Shared(diff, <<n, x, y>>)[k] = y.fields[k]
    <2>1. SUFFICES ASSUME k \in Keys(x) \cap Keys(y) PROVE Shared(diff, <<n, x, y>>)[k] = y.fields[k]
      OBVIOUS
    <2>2. PICK at : at = <<n + 1, x.fields[k], y.fields[k]>>
      OBVIOUS
    <2>3. at \in Pairs(b, e) /\ at[2] = x.fields[k] /\ at[3] = y.fields[k]
      BY <1>5, <1>7, <2>1, <2>2
    <2>4. diff[at] = y.fields[k]
      BY <1>3, <1>7, <2>1, <2>3 DEF DiffAt, DiffOf, LeafAt
    <2>5. QED
      BY <1>6, <2>1, <2>2, <2>4
  <1>8. <<0, b, e>> \in Pairs(b, e)
    BY <1>4, PairsAre, ValuesAre
  <1>9. <<1, bs, es>> \in Pairs(b, e) /\ <<1, bm, em>> \in Pairs(b, e)
    <2>1. <<0 + 1, bs, es>> \in Pairs(b, e) /\ <<0 + 1, bm, em>> \in Pairs(b, e)
      BY <1>1, <1>4, <1>5, <1>8
    <2>2. QED
      BY <2>1
  <1>10. <<2, bt, et>> \in Pairs(b, e)
    <2>1. <<1 + 1, bt, et>> \in Pairs(b, e)
      BY <1>1, <1>4, <1>5, <1>9
    <2>2. QED
      BY <2>1
  <1> DEFINE d  == Diff(b, e)
             ds == diff[<<1, bs, es>>]
             dm == diff[<<1, bm, em>>]
             dt == diff[<<2, bt, et>>]
  <1>11. /\ d = DiffOf(b, e, Shared(diff, <<0, b, e>>)) /\ ds = DiffOf(bs, es, Shared(diff, <<1, bs, es>>))
         /\ dm = DiffOf(bm, em, Shared(diff, <<1, bm, em>>)) /\ dt = DiffOf(bt, et, Shared(diff, <<2, bt, et>>))
    BY <1>3, <1>4, <1>5, <1>9, <1>10
  <1>12. Shared(diff, <<0, b, e>>)["spec"] = ds /\ Shared(diff, <<0, b, e>>)["metadata"] = dm
    <2>1. /\ Shared(diff, <<0, b, e>>)["spec"] = diff[<<0 + 1, bs, es>>]
          /\ Shared(diff, <<0, b, e>>)["metadata"] = diff[<<0 + 1, bm, em>>]
      BY <1>1, <1>6
    <2>2. QED
      BY <2>1
  <1>13. Shared(diff, <<1, bs, es>>)["template"] = dt
    <2>1. Shared(diff, <<1, bs, es>>)["template"] = diff[<<1 + 1, bt, et>>]
      BY <1>1, <1>6
    <2>2. QED
      BY <2>1
  <1> HIDE DEF d, ds, dm, dt, deep
  <1>14. ASSUME NEW k \in {"image", "restartedAt"} PROVE Field(dt, k) = Change(bt, et, k) /\ ScalarAt(dt, k)
    BY <1>1, <1>2, <1>4, <1>7, <1>10, <1>11, DiffLeaf
  <1>15. Field(ds, "replicas") = Change(bs, es, "replicas") /\ ScalarAt(ds, "replicas")
    BY <1>1, <1>2, <1>4, <1>7, <1>9, <1>11, DiffLeaf
  <1>16. Field(dm, "name") = Change(bm, em, "name") /\ ScalarAt(dm, "name")
    BY <1>1, <1>2, <1>4, <1>7, <1>9, <1>11, DiffLeaf
  <1>17. /\ ObjAt(ds, "template") /\ Field(ds, "template") \in {Absent, dt}
         /\ \A k : Field(Field(ds, "template"), k) = Field(dt, k)
    BY <1>1, <1>11, <1>13, DiffObj DEF bt, et
  <1>18. /\ ObjAt(d, "spec") /\ Field(d, "spec") \in {Absent, ds}
         /\ \A k : Field(Field(d, "spec"), k) = Field(ds, k)
    BY <1>1, <1>11, <1>12, DiffObj DEF bs, es
  <1>19. /\ ObjAt(d, "metadata") /\ Field(d, "metadata") \in {Absent, dm}
         /\ \A k : Field(Field(d, "metadata"), k) = Field(dm, k)
    BY <1>1, <1>11, <1>12, DiffObj DEF bm, em
  <1>20. IsObj(d)
    BY <1>1, <1>11, DiffOfIs
  <1>21. Field(Field(d, "spec"), "template") \in {Absent, dt}
    BY <1>17, <1>18
  <1>22. IsPatch(d)
    <2>1. ObjAt(Absent, "template") /\ \A k : ScalarAt(Absent, k)
      BY NothingIs DEF ObjAt, ScalarAt
    <2>2. QED
      BY <1>14, <1>15, <1>16, <1>17, <1>18, <1>19, <1>20, <1>21, <2>1 DEF IsPatch
  <1>23. QED
    BY <1>14, <1>15, <1>16, <1>17, <1>18, <1>19, <1>22 DEF d, bs, es, bm, em, bt, et

\* What is stripped of it is the server's.
LEMMA StrippedIs ==
    ASSUME NEW d, IsPatch(d)
    PROVE  /\ IsPatch(Stripped(d)) /\ Field(Stripped(d), "spec") = Field(d, "spec")
           /\ Field(Field(Stripped(d), "metadata"), "name") = Field(Field(d, "metadata"), "name")
  <1> DEFINE p == Without(d, {"status"})
             s == Stripped(d)
  <1>1. ASSUME NEW v, NEW keys
        PROVE  /\ IsObj(Without(v, keys)) /\ Keys(Without(v, keys)) = Keys(v) \ keys
               /\ \A k \in Keys(v) \ keys : Without(v, keys).fields[k] = v.fields[k]
    BY DEF Without, Obj, IsObj, Keys
  <1>2. /\ IsObj(p) /\ ("spec" \in Keys(p) <=> "spec" \in Keys(d)) /\ ("metadata" \in Keys(p) <=> "metadata" \in Keys(d))
        /\ \A k \in Keys(p) : k \in Keys(d) /\ p.fields[k] = d.fields[k]
    BY <1>1
  <1>3. IsObj(d) /\ ("metadata" \in Keys(d) => IsObj(d.fields["metadata"]))
    BY DEF IsPatch, ObjAt
  <1> HIDE DEF p
  <1>4. CASE "metadata" \notin Keys(p)
    <2>1. s = p
      BY <1>3, <1>4 DEF Stripped, p
    <2>2. QED
      BY <1>2, <1>4, <2>1, NothingIs DEF IsPatch, ObjAt, Field
  <1>5. CASE "metadata" \in Keys(p)
    <2> DEFINE md == Without(p.fields["metadata"], ServerOwned)
    <2>1. s = IF Keys(md) = {} THEN Without(p, {"metadata"}) ELSE Obj([p.fields EXCEPT !["metadata"] = md])
      BY <1>2, <1>3, <1>5 DEF Stripped, p
    <2>2. /\ IsObj(md) /\ ("name" \in Keys(md) <=> "name" \in Keys(p.fields["metadata"]))
          /\ "name" \in Keys(md) => md.fields["name"] = p.fields["metadata"].fields["name"]
      BY <1>1 DEF ServerOwned
    <2>3. Field(d, "metadata") = p.fields["metadata"]
      BY <1>2, <1>5 DEF Field
    <2> HIDE DEF md, s
    <2>4. CASE Keys(md) = {}
      <3>1. /\ IsObj(s) /\ "metadata" \notin Keys(s) /\ ("spec" \in Keys(s) <=> "spec" \in Keys(p))
            /\ "spec" \in Keys(s) => s.fields["spec"] = p.fields["spec"]
        BY <1>1, <2>1, <2>4
      <3>2. Field(s, "spec") = Field(d, "spec") /\ Field(s, "metadata") = Absent
        BY <1>2, <3>1 DEF Field
      <3>3. Field(Field(d, "metadata"), "name") = Absent
        BY <2>2, <2>3, <2>4 DEF Field
      <3>4. IsPatch(s)
        BY <1>2, <3>1, <3>2, NothingIs DEF IsPatch, ObjAt, ScalarAt
      <3>5. QED
        BY <3>2, <3>3, <3>4, NothingIs DEF s
    <2>5. CASE Keys(md) # {}
      <3>1. s.fields = [p.fields EXCEPT !["metadata"] = md] /\ IsObj(s)
        BY <2>1, <2>5 DEF Obj, IsObj
      <3>2. Keys(s) = Keys(p)
        BY <1>2, <3>1 DEF Keys
      <3>3. s.fields["metadata"] = md /\ ("spec" \in Keys(s) => s.fields["spec"] = p.fields["spec"])
        BY <1>2, <1>5, <3>1 DEF Keys
      <3>4. Field(s, "spec") = Field(d, "spec") /\ Field(s, "metadata") = md
        BY <1>2, <1>5, <3>2, <3>3 DEF Field
      <3>5. Field(md, "name") = Field(Field(d, "metadata"), "name")
        BY <2>2, <2>3 DEF Field
      <3>6. ScalarAt(md, "name")
        BY <2>2, <2>3 DEF IsPatch, ScalarAt
      <3>7. IsPatch(s)
        BY <1>2, <2>2, <3>1, <3>2, <3>3, <3>4, <3>6 DEF IsPatch, ObjAt
      <3>8. QED
        BY <3>4, <3>5, <3>7 DEF s
    <2>6. QED
      BY <2>4, <2>5
  <1>6. QED
    BY <1>4, <1>5

\* What becomes of a leaf
Put(old, new) == IF new = Absent THEN old ELSE IF new = Null THEN Absent ELSE new

LEMMA MergingIs ==
    ASSUME NEW f, NEW n, NEW t, NEW q
    PROVE  LET m == Merging(f, <<n, t, q>>) IN
           /\ IsObj(m)
           /\ \A k : k \in Keys(m) <=> k \in Keys(t) \cup Keys(q) /\ ~(k \in Keys(q) /\ q.fields[k] = Null)
           /\ \A k \in Keys(m) :
                  m.fields[k] = IF k \in Keys(q) THEN f[<<n + 1, Met(t, k), q.fields[k]>>] ELSE t.fields[k]
  <1> DEFINE keys == (Keys(t) \cup Keys(q)) \ Removed(q)
             field(k) == IF k \in Keys(q) THEN f[<<n + 1, Met(t, k), q.fields[k]>>] ELSE t.fields[k]
             m == Merging(f, <<n, t, q>>)
  <1>1. m = Obj([k \in keys |-> field(k)])
    BY DEF Merging
  <1> HIDE DEF field, m
  <1>2. \A k : k \in keys <=> k \in Keys(t) \cup Keys(q) /\ ~(k \in Keys(q) /\ q.fields[k] = Null)
    BY DEF Removed
  <1> HIDE DEF keys
  <1>3. IsObj(m) /\ Keys(m) = keys /\ \A k \in keys : m.fields[k] = field(k)
    BY <1>1 DEF Obj, Keys, IsObj
  <1>4. QED
    BY <1>2, <1>3 DEF field, m

LEMMA MergeLeaf ==
    ASSUME NEW f, NEW n, NEW t, NEW q, NEW k, LeafAt(t, k), ScalarAt(q, k),
           k \in Keys(q) => f[<<n + 1, Met(t, k), q.fields[k]>>] = q.fields[k]
    PROVE  /\ Field(Merging(f, <<n, t, q>>), k) = Put(Field(t, k), Field(q, k))
           /\ LeafAt(Merging(f, <<n, t, q>>), k)
  <1> DEFINE m == Merging(f, <<n, t, q>>)
  <1>1. /\ k \in Keys(m) <=> k \in Keys(t) \cup Keys(q) /\ ~(k \in Keys(q) /\ q.fields[k] = Null)
        /\ k \in Keys(m) => m.fields[k] = IF k \in Keys(q) THEN q.fields[k] ELSE t.fields[k]
    BY MergingIs
  <1> HIDE DEF m
  <1>2. CASE k \in Keys(q)
    <2>1. Field(q, k) = q.fields[k] /\ q.fields[k] # Absent /\ ~IsObj(q.fields[k])
      BY <1>2 DEF Field, ScalarAt
    <2>2. QED
      BY <1>1, <1>2, <2>1 DEF Field, LeafAt, Put, m
  <1>3. CASE k \notin Keys(q)
    <2>1. Field(q, k) = Absent
      BY <1>3 DEF Field
    <2>2. QED
      BY <1>1, <1>3, <2>1 DEF Field, LeafAt, Put, m
  <1>4. QED
    BY <1>2, <1>3

LEMMA MergeObj ==
    ASSUME NEW f, NEW n, NEW t, NEW q, NEW k, IsObj(Field(t, k)), ObjAt(q, k)
    PROVE  Field(Merging(f, <<n, t, q>>), k) =
               IF k \in Keys(q) THEN f[<<n + 1, Field(t, k), Field(q, k)>>] ELSE Field(t, k)
  <1> DEFINE m == Merging(f, <<n, t, q>>)
  <1>1. k \in Keys(t) /\ Field(t, k) = t.fields[k] /\ Met(t, k) = t.fields[k]
    BY NothingIs DEF Field, Met
  <1>2. k \in Keys(q) => Field(q, k) = q.fields[k] /\ q.fields[k] # Null
    BY NothingIs DEF Field, ObjAt
  <1>3. /\ k \in Keys(m) <=> k \in Keys(t) \cup Keys(q) /\ ~(k \in Keys(q) /\ q.fields[k] = Null)
        /\ k \in Keys(m) => m.fields[k] = IF k \in Keys(q) THEN f[<<n + 1, Met(t, k), q.fields[k]>>] ELSE t.fields[k]
    BY MergingIs
  <1> HIDE DEF m
  <1>4. Field(m, k) = IF k \in Keys(q) THEN f[<<n + 1, Field(t, k), Field(q, k)>>] ELSE Field(t, k)
    <2>1. k \in Keys(m)
      BY <1>1, <1>2, <1>3
    <2>2. Field(m, k) = m.fields[k]
      BY <2>1 DEF Field
    <2>3. CASE k \in Keys(q)
      <3>1. m.fields[k] = f[<<n + 1, Met(t, k), q.fields[k]>>] /\ Met(t, k) = Field(t, k) /\ q.fields[k] = Field(q, k)
        BY <1>1, <1>2, <1>3, <2>1, <2>3
      <3>2. QED
        BY <2>2, <2>3, <3>1
    <2>4. CASE k \notin Keys(q)
      BY <1>1, <1>3, <2>1, <2>2, <2>4
    <2>5. QED
      BY <2>3, <2>4
  <1>5. QED
    BY <1>4 DEF m

\* The server gives each leaf what the patch says of it, and the document stays one.
LEMMA PatchedDoc ==
    ASSUME MaxDepth >= 3, NEW o, NEW q, IsDoc(o), IsPatch(q)
    PROVE  LET p == Patched(o, q)
               T(v) == Field(Field(v, "spec"), "template")
           IN  /\ IsDoc(p)
               /\ \A k \in {"image", "restartedAt"} : Field(T(p), k) = Put(Field(T(o), k), Field(T(q), k))
               /\ Field(Field(p, "spec"), "replicas") = Put(Field(Field(o, "spec"), "replicas"), Field(Field(q, "spec"), "replicas"))
               /\ Field(Field(p, "metadata"), "name") = Put(Field(Field(o, "metadata"), "name"), Field(Field(q, "metadata"), "name"))
  <1> DEFINE os == Field(o, "spec")
             om == Field(o, "metadata")
             ot == Field(os, "template")
             qs == Field(q, "spec")
             qm == Field(q, "metadata")
             qt == Field(qs, "template")
  <1>1. /\ IsObj(os) /\ IsObj(om) /\ IsObj(ot) /\ LeafAt(os, "replicas") /\ LeafAt(om, "name")
        /\ \A k \in {"image", "restartedAt"} : LeafAt(ot, k)
    BY DEF IsDoc, IsSpec, IsMeta, IsTemplate
  <1>2. /\ ObjAt(q, "spec") /\ ObjAt(q, "metadata") /\ ObjAt(qs, "template")
        /\ ScalarAt(qm, "name") /\ ScalarAt(qs, "replicas") /\ \A k \in {"image", "restartedAt"} : ScalarAt(qt, k)
    BY DEF IsPatch
  <1>3. PICK done : /\ Patched(o, q) = PatchAt(done, <<0, o, q>>)
                    /\ \A at \in Applied(o, q) : done[at] = PatchAt(done, at)
    BY PatchedIs
  <1>4. 0 # MaxDepth /\ 1 # MaxDepth /\ 2 # MaxDepth /\ {0, 1, 2} \subseteq 0..MaxDepth
    BY MergePatchAssumption
  <1>5. ASSUME NEW n, NEW t, NEW v, <<n, t, v>> \in Applied(o, q), n # MaxDepth
        PROVE  /\ IsObj(v) => done[<<n, t, v>>] = Merging(done, <<n, t, v>>)
               /\ \A k \in Keys(v) :
                      /\ <<n + 1, Met(t, k), v.fields[k]>> \in Applied(o, q)
                      /\ ~IsObj(v.fields[k]) => done[<<n + 1, Met(t, k), v.fields[k]>>] = v.fields[k]
    <2>1. PICK at : at = <<n, t, v>>
      OBVIOUS
    <2>2. at \in Applied(o, q) /\ at[1] = n /\ at[2] = t /\ at[3] = v
      BY <1>5, <2>1
    <2>3. IsObj(v) => done[at] = Merging(done, at)
      BY <1>3, <1>5, <2>2 DEF PatchAt
    <2>4. ASSUME NEW k \in Keys(v)
          PROVE  /\ <<n + 1, Met(t, k), v.fields[k]>> \in Applied(o, q)
                 /\ ~IsObj(v.fields[k]) => done[<<n + 1, Met(t, k), v.fields[k]>>] = v.fields[k]
      <3>1. <<n + 1, Met(t, k), v.fields[k]>> \in Applied(o, q)
        BY <1>5, <2>2, AppliedInside
      <3>2. PICK below : below = <<n + 1, Met(t, k), v.fields[k]>>
        OBVIOUS
      <3>3. below \in Applied(o, q) /\ below[3] = v.fields[k]
        BY <3>1, <3>2
      <3>4. ~IsObj(v.fields[k]) => done[below] = v.fields[k]
        BY <1>3, <3>3 DEF PatchAt
      <3>5. QED
        BY <3>1, <3>2, <3>4
    <2>5. QED
      BY <2>1, <2>3, <2>4
  <1>6. IsObj(q) /\ <<0, o, q>> \in Applied(o, q)
    BY <1>4, AppliedAre, ValuesAre DEF IsPatch
  <1> DEFINE p == Patched(o, q)
             ps == Field(p, "spec")
             pm == Field(p, "metadata")
             pt == Field(ps, "template")
  <1>7. p = Merging(done, <<0, o, q>>)
    <2>1. PICK at : at = <<0, o, q>>
      OBVIOUS
    <2>2. at[1] = 0 /\ at[3] = q
      BY <2>1
    <2>3. PatchAt(done, at) = Merging(done, at)
      BY <1>4, <1>6, <2>2 DEF PatchAt
    <2>4. QED
      BY <1>3, <2>1, <2>3
  <1> HIDE DEF p
  <1>8. ASSUME NEW n, NEW t, NEW v, <<n, t, v>> \in Applied(o, q), n # MaxDepth, n + 1 # MaxDepth,
               NEW m, m = Merging(done, <<n, t, v>>), NEW k, IsObj(Field(t, k)), ObjAt(v, k)
        PROVE  IF k \in Keys(v)
               THEN /\ <<n + 1, Field(t, k), Field(v, k)>> \in Applied(o, q)
                    /\ Field(m, k) = Merging(done, <<n + 1, Field(t, k), Field(v, k)>>)
               ELSE Field(m, k) = Field(t, k)
    <2>0. Field(m, k) = IF k \in Keys(v) THEN done[<<n + 1, Field(t, k), Field(v, k)>>] ELSE Field(t, k)
      <3>1. Field(Merging(done, <<n, t, v>>), k) =
                IF k \in Keys(v) THEN done[<<n + 1, Field(t, k), Field(v, k)>>] ELSE Field(t, k)
        BY <1>8, MergeObj
      <3>2. QED
        BY <1>8, <3>1
    <2>1. CASE k \notin Keys(v)
      BY <2>0, <2>1
    <2>2. CASE k \in Keys(v)
      <3>1. Field(m, k) = done[<<n + 1, Field(t, k), Field(v, k)>>]
        BY <2>0, <2>2
      <3>2. Field(t, k) = Met(t, k) /\ Field(v, k) = v.fields[k] /\ IsObj(Field(v, k))
        BY <1>8, <2>2, NothingIs DEF Field, Met, ObjAt
      <3>3. <<n + 1, Field(t, k), Field(v, k)>> \in Applied(o, q)
        BY <1>5, <1>8, <2>2, <3>2
      <3>4. done[<<n + 1, Field(t, k), Field(v, k)>>] = Merging(done, <<n + 1, Field(t, k), Field(v, k)>>)
        BY <1>5, <1>8, <3>2, <3>3
      <3>5. QED
        BY <2>2, <3>1, <3>3, <3>4
    <2>3. QED
      BY <2>1, <2>2
  <1>9. ASSUME NEW n, NEW t, NEW v, <<n, t, v>> \in Applied(o, q), n # MaxDepth, NEW k, LeafAt(t, k), ScalarAt(v, k)
        PROVE  /\ Field(Merging(done, <<n, t, v>>), k) = Put(Field(t, k), Field(v, k))
               /\ LeafAt(Merging(done, <<n, t, v>>), k)
    <2>1. k \in Keys(v) => done[<<n + 1, Met(t, k), v.fields[k]>>] = v.fields[k]
      BY <1>5, <1>9 DEF ScalarAt
    <2>2. QED
      BY <1>9, <2>1, MergeLeaf
  <1>10. ASSUME NEW t, NEW v, NEW k, v = Absent PROVE Put(Field(t, k), Field(v, k)) = Field(t, k)
    BY <1>10, NothingIs DEF Put
  <1> HIDE DEF os, om, ot, qs, qm, qt, ps, pm, pt
  <1>11. IF "metadata" \in Keys(q)
         THEN <<1, om, qm>> \in Applied(o, q) /\ pm = Merging(done, <<1, om, qm>>)
         ELSE pm = om /\ qm = Absent
    <2>1. IF "metadata" \in Keys(q)
          THEN <<0 + 1, om, qm>> \in Applied(o, q) /\ pm = Merging(done, <<0 + 1, om, qm>>)
          ELSE pm = om /\ qm = Absent
      BY <1>1, <1>2, <1>4, <1>6, <1>7, <1>8 DEF om, qm, pm, Field
    <2>2. QED
      BY <2>1
  <1>12. IsMeta(pm) /\ Field(pm, "name") = Put(Field(om, "name"), Field(qm, "name"))
    <2>1. CASE "metadata" \in Keys(q)
      BY <1>1, <1>2, <1>4, <1>9, <1>11, <2>1, MergingIs DEF IsMeta
    <2>2. CASE "metadata" \notin Keys(q)
      BY <1>1, <1>10, <1>11, <2>2 DEF IsMeta
    <2>3. QED
      BY <2>1, <2>2
  <1>13. IF "spec" \in Keys(q)
         THEN <<1, os, qs>> \in Applied(o, q) /\ ps = Merging(done, <<1, os, qs>>)
         ELSE ps = os /\ qs = Absent
    <2>1. IF "spec" \in Keys(q)
          THEN <<0 + 1, os, qs>> \in Applied(o, q) /\ ps = Merging(done, <<0 + 1, os, qs>>)
          ELSE ps = os /\ qs = Absent
      BY <1>1, <1>2, <1>4, <1>6, <1>7, <1>8 DEF os, qs, ps, Field
    <2>2. QED
      BY <2>1
  <1>14. IsObj(ps) /\ LeafAt(ps, "replicas") /\ Field(ps, "replicas") = Put(Field(os, "replicas"), Field(qs, "replicas"))
    <2>1. CASE "spec" \in Keys(q)
      BY <1>1, <1>2, <1>4, <1>9, <1>13, <2>1, MergingIs
    <2>2. CASE "spec" \notin Keys(q)
      BY <1>1, <1>10, <1>13, <2>2
    <2>3. QED
      BY <2>1, <2>2
  <1>15. \/ <<2, ot, qt>> \in Applied(o, q) /\ pt = Merging(done, <<2, ot, qt>>)
         \/ pt = ot /\ qt = Absent
    <2>1. CASE "spec" \in Keys(q)
      <3>1. IF "template" \in Keys(qs)
            THEN <<1 + 1, ot, qt>> \in Applied(o, q) /\ pt = Merging(done, <<1 + 1, ot, qt>>)
            ELSE pt = ot
        BY <1>1, <1>2, <1>4, <1>8, <1>13, <2>1 DEF ot, qt, pt
      <3>2. "template" \notin Keys(qs) => qt = Absent
        BY DEF qt, Field
      <3>3. QED
        BY <3>1, <3>2
    <2>2. CASE "spec" \notin Keys(q)
      BY <1>13, <2>2, NothingIs DEF pt, ot, qt
    <2>3. QED
      BY <2>1, <2>2
  <1>16. IsTemplate(pt) /\ \A k \in {"image", "restartedAt"} : Field(pt, k) = Put(Field(ot, k), Field(qt, k))
    <2>1. CASE <<2, ot, qt>> \in Applied(o, q) /\ pt = Merging(done, <<2, ot, qt>>)
      BY <1>1, <1>2, <1>4, <1>9, <2>1, MergingIs DEF IsTemplate
    <2>2. CASE pt = ot /\ qt = Absent
      BY <1>1, <1>10, <2>2 DEF IsTemplate
    <2>3. QED
      BY <1>15, <2>1, <2>2
  <1>17. IsObj(p)
    BY <1>7, MergingIs
  <1>18. IsDoc(p)
    BY <1>12, <1>14, <1>16, <1>17 DEF IsDoc, IsSpec, ps, pm, pt
  <1>19. QED
    BY <1>12, <1>14, <1>16, <1>18 DEF p, ps, pm, pt, os, om, ot, qs, qm, qt

LEMMA DeepPathsAre ==
    ASSUME NEW d
    PROVE  /\ ValueAt(d, Image) = Field(Field(Field(d, "spec"), "template"), "image")
           /\ ValueAt(d, RestartedAt) = Field(Field(Field(d, "spec"), "template"), "restartedAt")
           /\ ValueAt(d, Replicas) = Field(Field(d, "spec"), "replicas")
           /\ ValueAt(d, <<"metadata", "name">>) = Field(Field(d, "metadata"), "name")
           /\ Template(d) = Field(Field(d, "spec"), "template")
  <1>1. \A a, b, c : ValueAt(d, <<a, b, c>>) = Field(Field(Field(d, a), b), c)
    <2> TAKE a, b, c
    <2>1. /\ ValueAt(d, <<>>) = d
          /\ ValueAt(d, <<a>>) = Field(d, a)
          /\ ValueAt(d, <<a, b>>) = Field(Field(d, a), b)
          /\ ValueAt(d, <<a, b, c>>) = Field(Field(Field(d, a), b), c)
      BY ValueAtIs3
    <2>2. QED
      BY Zenon, <2>1
  <1>2. ValueAt(d, Image) = Field(Field(Field(d, "spec"), "template"), "image")
    BY <1>1 DEF Image
  <1>3. ValueAt(d, RestartedAt) = Field(Field(Field(d, "spec"), "template"), "restartedAt")
    BY <1>1 DEF RestartedAt
  <1>4. ValueAt(d, <<"metadata", "name">>) = Field(Field(d, "metadata"), "name")
    <2>1. \A a, b : ValueAt(d, <<a, b>>) = Field(Field(d, a), b)
      <3> TAKE a, b
      <3>1. /\ ValueAt(d, <<>>) = d
            /\ ValueAt(d, <<a>>) = Field(d, a)
            /\ ValueAt(d, <<a, b>>) = Field(Field(d, a), b)
        BY ValueAtIs
      <3>2. QED
        BY Zenon, <3>1
    <2>2. QED
      BY <2>1
  <1>5. QED
    BY Zenon, <1>2, <1>3, <1>4, PathsAre

\* A value set or taken away leaves the others what they were.
LEMMA PlacedIs ==
    ASSUME NEW v, NEW key, NEW x
    PROVE  /\ IsObj(Placed(v, key, x)) /\ IsObj(With(v, key, x))
           /\ \A k : k # key /\ LeafAt(v, k) => LeafAt(Placed(v, key, x), k) /\ LeafAt(With(v, key, x), k)
           /\ ~IsObj(x) /\ x # Absent => LeafAt(Placed(v, key, x), key)
           /\ ~IsObj(x) /\ x \notin {Null, Absent} => LeafAt(With(v, key, x), key)
  <1>1. IsObj(With(v, key, x)) /\ IsObj(Without(v, {key}))
    BY DEF IsObj, With, Without, Obj
  <1>2. /\ Keys(With(v, key, x)) = Keys(v) \cup {key}
        /\ \A k \in Keys(v) \cup {key} : With(v, key, x).fields[k] = IF k = key THEN x ELSE v.fields[k]
    BY <1>1 DEF Keys, With, Obj
  <1>3. /\ Keys(Without(v, {key})) = Keys(v) \ {key}
        /\ \A k \in Keys(v) \ {key} : Without(v, {key}).fields[k] = v.fields[k]
    BY <1>1 DEF Keys, Without, Obj
  <1>4. \A k : k # key /\ LeafAt(v, k) => LeafAt(With(v, key, x), k) /\ LeafAt(Without(v, {key}), k)
    BY <1>2, <1>3 DEF LeafAt
  <1>5. LeafAt(Without(v, {key}), key) /\ (~IsObj(x) /\ x \notin {Null, Absent} => LeafAt(With(v, key, x), key))
    BY <1>2, <1>3 DEF LeafAt
  <1>6. QED
    BY <1>1, <1>4, <1>5 DEF Placed

LEMMA WithDoc ==
    ASSUME NEW d, IsDoc(d), NEW x
    PROVE  /\ IsSpec(x) => IsDoc(With(d, "spec", x))
           /\ IsMeta(x) => IsDoc(With(d, "metadata", x))
           /\ IsDoc(With(d, "status", x))
  BY WithIs DEF IsDoc

LEMMA SetAtDoc ==
    ASSUME NEW d, IsDoc(d), NEW x, ~IsObj(x), x # Absent
    PROVE  /\ IsDoc(SetAt(d, Image, x))
           /\ x # Null => /\ IsDoc(SetAt(d, Replicas, x)) /\ IsDoc(SetAt(d, <<"status">>, x))
                          /\ IsDoc(SetAt(d, <<"metadata", "name">>, x)) /\ IsDoc(SetAt(d, Rv, x))
  <1> DEFINE s == Field(d, "spec")
             t == Field(s, "template")
             m == Field(d, "metadata")
  <1>1. /\ IsObj(s) /\ LeafAt(s, "replicas") /\ IsTemplate(t) /\ IsObj(t) /\ LeafAt(t, "image") /\ LeafAt(t, "restartedAt")
        /\ IsObj(m) /\ LeafAt(m, "name")
    BY DEF IsDoc, IsSpec, IsTemplate, IsMeta
  <1>2. IsDoc(SetAt(d, Image, x))
    <2>1. SetAt(d, Image, x) = With(d, "spec", With(s, "template", Placed(t, "image", x)))
      BY Zenon, SetAtIs3 DEF Image
    <2>2. IsTemplate(Placed(t, "image", x))
      BY <1>1, PlacedIs DEF IsTemplate
    <2> HIDE DEF s, t
    <2>3. IsSpec(With(s, "template", Placed(t, "image", x)))
      BY <1>1, <2>2, PlacedIs, WithIs DEF IsSpec
    <2>4. QED
      BY <2>1, <2>3, WithDoc
  <1>3. ASSUME x # Null
        PROVE  /\ IsDoc(SetAt(d, Replicas, x)) /\ IsDoc(SetAt(d, <<"status">>, x))
               /\ IsDoc(SetAt(d, <<"metadata", "name">>, x)) /\ IsDoc(SetAt(d, Rv, x))
    <2>1. \A a, b : /\ SetAt(d, <<a>>, x) = With(d, a, x)
                    /\ SetAt(d, <<a, b>>, x) = With(d, a, With(Field(d, a), b, x))
      <3> TAKE a, b
      <3>1. QED
        BY <1>3, SetAtIs
    <2>2. SetAt(d, Replicas, x) = With(d, "spec", With(s, "replicas", x))
      BY Zenon, <2>1 DEF Replicas
    <2>3. SetAt(d, <<"status">>, x) = With(d, "status", x)
      BY Zenon, <2>1
    <2>4. SetAt(d, <<"metadata", "name">>, x) = With(d, "metadata", With(m, "name", x))
      BY Zenon, <2>1
    <2>5. SetAt(d, Rv, x) = With(d, "metadata", With(m, "resourceVersion", x))
      BY Zenon, <2>1 DEF Rv
    <2> HIDE DEF s, m
    <2>6. IsSpec(With(s, "replicas", x))
      <3>1. Field(With(s, "replicas", x), "template") = t
        BY WithIs DEF s
      <3>2. QED
        BY <1>1, <1>3, <3>1, PlacedIs DEF IsSpec
    <2>7. IsMeta(With(m, "name", x)) /\ IsMeta(With(m, "resourceVersion", x))
      BY <1>1, <1>3, PlacedIs DEF IsMeta
    <2>8. QED
      BY <2>2, <2>3, <2>4, <2>5, <2>6, <2>7, WithDoc
  <1>4. QED
    BY <1>2, <1>3

\* A new version is of the same document.
LEMMA VersionedDoc ==
    ASSUME NEW d, NEW n, IsDoc(d)
    PROVE  /\ IsDoc(Versioned(d, n)) /\ Field(Versioned(d, n), "spec") = Field(d, "spec")
           /\ Field(Field(Versioned(d, n), "metadata"), "name") = Field(Field(d, "metadata"), "name")
  <1>1. ~IsObj(Leaf(n)) /\ Leaf(n) \notin {Null, Absent}
    BY LeavesAre
  <1>2. IsDoc(Versioned(d, n))
    BY <1>1, SetAtDoc DEF Versioned
  <1> DEFINE md == With(d, "metadata", With(Field(d, "metadata"), "resourceVersion", Leaf(n)))
             new == With(md, "status", Leaf(n))
  <1>3. Versioned(d, n) = new
    BY VersionedAs
  <1>4. Field(new, "spec") = Field(md, "spec") /\ Field(new, "metadata") = Field(md, "metadata")
    BY WithIs
  <1>5. Field(md, "spec") = Field(d, "spec") /\ Field(md, "metadata") = With(Field(d, "metadata"), "resourceVersion", Leaf(n))
    BY WithIs
  <1>6. Field(Field(md, "metadata"), "name") = Field(Field(d, "metadata"), "name")
    BY <1>5, WithIs
  <1> HIDE DEF md, new
  <1>7. QED
    BY <1>2, <1>3, <1>4, <1>5, <1>6

LEMMA DraftsAreDocs ==
    ASSUME NEW d, IsDoc(d), NEW e \in Drafts(d)
    PROVE  IsDoc(e)
  <1>1. ~IsObj(Leaf(2)) /\ ~IsObj(Leaf(0)) /\ ~IsObj(Null) /\ Leaf(2) \notin {Null, Absent} /\ Leaf(0) \notin {Null, Absent} /\ Null # Absent
    BY LeavesAre, NothingIs
  <1>2. \/ \E v \in {Leaf(2), Null} : e = SetAt(d, Image, v)
        \/ e = SetAt(d, Replicas, Leaf(2))
        \/ e = SetAt(d, <<"status">>, Leaf(0))
        \/ e = SetAt(d, <<"metadata", "name">>, Leaf(2))
    BY Zenon DEF Drafts
  <1>3. QED
    BY <1>1, <1>2, SetAtDoc

LEMMA RolledBackDoc ==
    ASSUME NEW d, NEW t, IsDoc(d), IsTemplate(t)
    PROVE  IsDoc(RolledBack(d, t))
  <1>1. RolledBack(d, t) = With(d, "spec", With(Field(d, "spec"), "template", t))
    BY PathsAre DEF RolledBack
  <1>2. IsSpec(With(Field(d, "spec"), "template", t))
    BY WithIs, PlacedIs DEF IsDoc, IsSpec
  <1>3. QED
    BY <1>1, <1>2, WithDoc

LEMMA CreatedDoc ==
    ASSUME NEW n
    PROVE  IsDoc(Created(n))
  <1> DEFINE one == Leaf(1)
             named == With(EmptyObj, "metadata", With(Absent, "name", one))
             scaled == With(named, "spec", With(Absent, "replicas", one))
             full == With(scaled, "spec", With(With(Absent, "replicas", one), "template", Placed(Absent, "image", one)))
  <1>1. ~IsObj(one) /\ one \notin {Null, Absent}
    BY LeavesAre
  <1> HIDE DEF one
  <1>2. \A d, a, b : SetAt(d, <<a, b>>, one) = With(d, a, With(Field(d, a), b, one))
    <2> TAKE d, a, b
    <2>1. one # Null
      BY <1>1
    <2>2. /\ SetAt(d, <<a>>, one) = With(d, a, one)
          /\ SetAt(d, <<a, b>>, one) = With(d, a, With(Field(d, a), b, one))
      BY <2>1, SetAtIs
    <2>3. QED
      BY Zenon, <2>2
  <1>3. Field(EmptyObj, "metadata") = Absent /\ Field(EmptyObj, "spec") = Absent
    BY NothingIs
  <1>4. SetAt(EmptyObj, <<"metadata", "name">>, one) = named
    BY Zenon, <1>2, <1>3
  <1>5. Field(named, "spec") = Absent
    BY <1>3, WithIs
  <1>6. SetAt(named, Replicas, one) = scaled
    <2> HIDE DEF named
    <2>1. QED
      BY Zenon, <1>2, <1>5 DEF Replicas
  <1>7. Field(scaled, "spec") = With(Absent, "replicas", one) /\ Field(scaled, "metadata") = Field(named, "metadata")
    BY WithIs
  <1>8. Field(With(Absent, "replicas", one), "template") = Absent
    <2>1. Field(Absent, "template") = Absent
      BY NothingIs
    <2>2. QED
      BY <2>1, WithIs
  <1>9. SetAt(scaled, Image, one) = full
    <2> HIDE DEF scaled
    <2>1. SetAt(scaled, Image, one) =
              With(scaled, "spec", With(Field(scaled, "spec"), "template", Placed(Field(Field(scaled, "spec"), "template"), "image", one)))
      BY Zenon, SetAtIs3 DEF Image
    <2>2. QED
      BY <1>7, <1>8, <2>1
  <1>10. \A k : LeafAt(Absent, k)
    BY NothingIs DEF LeafAt
  <1>11. IsTemplate(Placed(Absent, "image", one))
    BY <1>1, <1>10, PlacedIs DEF IsTemplate
  <1>12. IsSpec(With(With(Absent, "replicas", one), "template", Placed(Absent, "image", one)))
    <2>1. LeafAt(With(Absent, "replicas", one), "replicas")
      BY <1>1, PlacedIs
    <2>2. QED
      BY <1>11, <2>1, PlacedIs, WithIs DEF IsSpec
  <1>13. IsMeta(Field(named, "metadata"))
    <2>1. Field(named, "metadata") = With(Absent, "name", one)
      BY WithIs
    <2>2. IsMeta(With(Absent, "name", one))
      BY <1>1, PlacedIs DEF IsMeta
    <2>3. QED
      BY <2>1, <2>2
  <1>14. IsDoc(full)
    <2> HIDE DEF scaled, named
    <2>1. IsObj(full) /\ Field(full, "metadata") = Field(scaled, "metadata")
      BY WithIs
    <2>2. Field(full, "spec") = With(With(Absent, "replicas", one), "template", Placed(Absent, "image", one))
      BY WithIs
    <2>3. QED
      BY <1>7, <1>12, <1>13, <2>1, <2>2 DEF IsDoc
  <1> HIDE DEF full, scaled, named
  <1>15. Created(n) = Versioned(full, n)
    BY <1>4, <1>6, <1>9 DEF Created, one
  <1>16. QED
    BY <1>14, <1>15, VersionedDoc

LEMMA MergesArePatches ==
    ASSUME NEW q \in MergePatches
    PROVE  IsPatch(q)
  <1>1. ASSUME NEW key, NEW x
        PROVE  IsObj(Only(key, x)) /\ Keys(Only(key, x)) = {key} /\ Only(key, x).fields[key] = x
    BY DEF Only, Obj, IsObj, Keys, Field
  <1>2. ASSUME NEW n PROVE ~IsObj(Leaf(n)) /\ Leaf(n) # Absent
    BY LeavesAre
  <1>3. CASE q = Nested(Replicas, Leaf(2))
    <2> DEFINE s == Only("replicas", Leaf(2))
    <2>1. q = Only("spec", s)
      <3>1. \A a, b, v : Nested(<<a, b>>, v) = Only(a, Only(b, v))
        BY NestedTwo
      <3>2. QED
        BY <1>3, <3>1 DEF Replicas
    <2>2. IsObj(s) /\ Keys(s) = {"replicas"} /\ s.fields["replicas"] = Leaf(2)
      BY <1>1
    <2> HIDE DEF s
    <2>3. IsObj(q) /\ Keys(q) = {"spec"} /\ q.fields["spec"] = s
      BY <1>1, <2>1
    <2>4. Field(q, "spec") = s /\ Field(q, "metadata") = Absent /\ Field(s, "template") = Absent
      BY <2>2, <2>3 DEF Field
    <2>5. QED
      BY <1>2, <2>2, <2>3, <2>4, NothingIs DEF IsPatch, ObjAt, ScalarAt
  <1>4. CASE q = Nested(RestartedAt, Leaf(1))
    <2> DEFINE t == Only("restartedAt", Leaf(1))
               s == Only("template", t)
    <2>1. q = Only("spec", s)
      <3>1. \A a, b, c, v : Nested(<<a, b, c>>, v) = Only(a, Only(b, Only(c, v)))
        BY NestedThree
      <3>2. QED
        BY <1>4, <3>1 DEF RestartedAt
    <2>2. IsObj(t) /\ Keys(t) = {"restartedAt"} /\ t.fields["restartedAt"] = Leaf(1)
      BY <1>1
    <2> HIDE DEF t
    <2>3. IsObj(s) /\ Keys(s) = {"template"} /\ s.fields["template"] = t
      BY <1>1
    <2> HIDE DEF s
    <2>4. IsObj(q) /\ Keys(q) = {"spec"} /\ q.fields["spec"] = s
      BY <1>1, <2>1
    <2>5. Field(q, "spec") = s /\ Field(q, "metadata") = Absent /\ Field(s, "template") = t
      BY <2>3, <2>4 DEF Field
    <2>6. QED
      BY <1>2, <2>2, <2>3, <2>4, <2>5, NothingIs DEF IsPatch, ObjAt, ScalarAt
  <1>5. QED
    BY <1>3, <1>4 DEF MergePatches

-----------------------------------------------------------------------------
(* The invariant                                                             *)

\* A function with the arguments of S
IsOn(f, S) == f = [x \in S |-> f[x]]

WindowOK ==
    /\ IsOn(window, {"open", "base", "saved", "draft", "at", "dry", "patch", "late"})
    /\ {window.open, window.dry, window.late} \subseteq BOOLEAN
    /\ window.at \in {"idle", "reading", "patching", "fetching", "unchanged", "error"}

Stages(op) ==
    CASE op = "edit"    -> {"start", "editor", "reading", "patching", "fetching", "unchanged", "applied", "error", "done"}
      [] op = "undo"    -> {"start", "listing", "replacing", "done"}
      [] op = "drain"   -> {"start", "listing", "evicting", "done"}
      [] op = "trigger" -> {"start", "creating", "done"}
      [] OTHER          -> {"start", "done"}

\* What a task of an operation keeps while it is at a stage
Fields(op, at) ==
    IF at = "done" THEN {"failed"}
    ELSE CASE op = "edit"    -> IF at = "start" THEN {} ELSE {"base", "current", "noted", "patch", "dry"}
           [] op = "undo"    -> {"revision", "read", "template"}
           [] op = "drain"   -> {"left", "failed"}
           [] op = "trigger" -> {"job"}
           [] op = "merge"   -> {"patch"}
           [] op = "cordon"  -> {"on"}
           [] op = "delete"  -> {}

TaskOK(t) ==
    /\ IsOn(t, {"op", "at", "how"} \cup Fields(t.op, t.at))
    /\ t.op \in {"edit", "delete", "trigger", "drain", "merge", "cordon", "undo"}
    /\ t.at \in Stages(t.op)
    /\ t.how \in (IF t.at = "done" THEN {"applied", "unchanged", "error"} ELSE {None})
    /\ t.op = "edit" /\ t.at \notin {"start", "done"} => {t.noted, t.dry} \subseteq BOOLEAN
    /\ t.op = "drain" => t.failed \subseteq Pods /\ (t.at # "done" => t.left \subseteq Pods)
    /\ t.op = "trigger" /\ t.at # "done" => t.job \in 0..MaxTasks
    /\ t.op = "cordon" /\ t.at # "done" => t.on \in BOOLEAN

TasksOK ==
    /\ tasks \in Seq({tasks[i] : i \in DOMAIN tasks}) /\ Len(tasks) <= MaxTasks
    /\ \A i \in DOMAIN tasks : TaskOK(tasks[i])

ClusterOK ==
    /\ object # None => IsObj(object)
    /\ IsOn(revisions, DOMAIN revisions)
    /\ node \in [cordoned : BOOLEAN, lifted : SUBSET (1..Len(tasks))]
    /\ pods \in [Pods -> {"waiting", "running", "terminating", "gone"}]
    /\ jobs \subseteq 0..MaxTasks /\ clock \in 0..MaxTasks

BudgetOK == budget \in [typing : 0..MaxTyping, others : 0..MaxOthers, failures : 0..MaxFailures]

TypeOK == TasksOK /\ ClusterOK /\ WindowOK /\ BudgetOK /\ menu \in Menus

\* The window's editor: what is saved is what was read, as far as a patch can
\* tell, and what a request found nothing to write in is, too.
SavedIsRead ==
    window.open /\ ~window.late =>
        /\ Vacuous(window.base, window.saved)
        /\ window.at = "unchanged" /\ ~window.dry => Vacuous(window.base, window.draft)

\* What was compared has not changed since.
NotStale(e, by) ==
    e.at = "patching" /\ by \notin raced /\ object # None => Stale(e.base, object, e.patch) = {}

ComparedIsThere ==
    /\ NotStale(window, Win)
    /\ \A i \in DOMAIN tasks : tasks[i].op = "edit" => NotStale(tasks[i], i)

\* A drain that nobody lifted the cordon of: the node takes no pod, and what runs on
\* it and does not terminate is left alone, still to be evicted or could not be.
EvictsAll(i) ==
    tasks[i].op = "drain" /\ i \notin node.lifted =>
        /\ tasks[i].at \in {"listing", "evicting"} => node.cordoned
        /\ tasks[i].at = "evicting" =>
               \A p \in Pods : pods[p] = "running" => p \in Daemons \cup tasks[i].left \cup tasks[i].failed
        /\ tasks[i].how = "applied" =>
               node.cordoned /\ \A p \in Pods : pods[p] = "running" => p \in Daemons \cup tasks[i].failed

Inv == TypeOK /\ SavedIsRead /\ ComparedIsThere /\ \A i \in DOMAIN tasks : EvictsAll(i)

-----------------------------------------------------------------------------
(* What the steps are made of                                                *)

\* A task moves on, and the others stay as they are.
LEMMA TaskMoves ==
    ASSUME TasksOK, NEW i \in DOMAIN tasks, NEW t, TaskOK(t), Task(i, t)
    PROVE  /\ TasksOK' /\ Len(tasks') = Len(tasks) /\ DOMAIN tasks' = DOMAIN tasks
           /\ tasks'[i] = t /\ \A j \in DOMAIN tasks \ {i} : tasks'[j] = tasks[j]
  <1>1. tasks \in Seq({tasks[j] : j \in DOMAIN tasks}) /\ DOMAIN tasks = 1..Len(tasks) /\ Len(tasks) \in Nat
    BY DEF TasksOK
  <1>2. tasks' = [j \in 1..Len(tasks) |-> IF j = i THEN t ELSE tasks[j]]
    BY <1>1 DEF Task
  <1>3. DOMAIN tasks' = 1..Len(tasks) /\ tasks'[i] = t /\ \A j \in DOMAIN tasks \ {i} : tasks'[j] = tasks[j]
    BY <1>1, <1>2
  <1>4. tasks' \in Seq({tasks'[j] : j \in DOMAIN tasks'}) /\ Len(tasks') = Len(tasks)
    <2> DEFINE S == {tasks'[j] : j \in DOMAIN tasks'}
    <2>1. \A j \in 1..Len(tasks) : tasks'[j] \in S
      BY <1>3
    <2>2. tasks' \in [1..Len(tasks) -> S]
      <3> HIDE DEF S
      <3>1. QED
        BY <1>1, <1>2, <2>1
    <2> HIDE DEF S
    <2>3. tasks' \in Seq(S) /\ Len(tasks') = Len(tasks)
      BY <1>1, <2>2
    <2>4. QED
      BY <2>3 DEF S
  <1>5. \A j \in DOMAIN tasks' : TaskOK(tasks'[j])
    BY <1>1, <1>3 DEF TasksOK
  <1>6. QED
    BY <1>1, <1>3, <1>4, <1>5 DEF TasksOK

\* A task that ends keeps what it could not do, no more.
LEMMA TaskEnds ==
    ASSUME TasksOK, NEW i \in DOMAIN tasks, NEW how \in {"applied", "unchanged", "error"},
           NEW failed \in SUBSET Pods, Ended(i, how, failed)
    PROVE  LET t == [op |-> tasks[i].op, at |-> "done", how |-> how, failed |-> failed]
           IN  Task(i, t) /\ TaskOK(t)
  <1> DEFINE t == [op |-> tasks[i].op, at |-> "done", how |-> how, failed |-> failed]
  <1>1. Task(i, t)
    BY DEF Ended, Task
  <1>2. t.op \in {"edit", "delete", "trigger", "drain", "merge", "cordon", "undo"}
    BY DEF TasksOK, TaskOK
  <1>3. IsOn(t, {"op", "at", "how"} \cup Fields(t.op, t.at))
    <2>1. {"op", "at", "how"} \cup Fields(t.op, t.at) = {"op", "at", "how", "failed"}
      BY DEF Fields
    <2>2. IsOn(t, {"op", "at", "how", "failed"})
      BY DEF IsOn
    <2>3. QED
      BY <2>1, <2>2
  <1>4. t.at \in Stages(t.op)
    BY <1>2 DEF Stages
  <1>5. TaskOK(t)
    BY <1>2, <1>3, <1>4 DEF TaskOK
  <1>6. QED
    BY <1>1, <1>5

\* A request takes from the bounds, or nothing.
LEMMA BudgetStays ==
    ASSUME BudgetOK, Fails \/ Works \/ Typing \/ Other
    PROVE  BudgetOK'
  BY ClusterActionsAssumption DEF BudgetOK, Fails, Works, Typing, Other

\* What a step of "by" does to the object: a comparison of somebody else is
\* recorded as raced, unless the object is as it was or gone.
ObjectMoves(by) ==
    /\ object' = object \/ object' = None \/ Compared \ {by} \subseteq raced'
    /\ raced \ {by} \subseteq raced'
    /\ object' # None => IsObj(object')

LEMMA WriteMoves ==
    ASSUME ClusterOK, object # None, NEW by, NEW doc, Write(doc, by)
    PROVE  ObjectMoves(by)
  BY VersionedIs DEF ClusterOK, Write, ObjectMoves

LEMMA NothingMoves ==
    ASSUME ClusterOK, NEW by, object' = object, raced \ {by} \subseteq raced'
    PROVE  ObjectMoves(by)
  BY DEF ClusterOK, ObjectMoves

\* Whoever compared before and does not move: what it will send is not stale.
LEMMA OthersStayCompared ==
    ASSUME ComparedIsThere, NEW by, ObjectMoves(by)
    PROVE  /\ window' = window /\ by # Win => NotStale(window, Win)'
           /\ \A j \in DOMAIN tasks :
                  tasks[j].op = "edit" /\ tasks'[j] = tasks[j] /\ j # by => NotStale(tasks[j], j)'
  <1>1. ASSUME window' = window, by # Win PROVE NotStale(window, Win)'
    BY <1>1 DEF ComparedIsThere, NotStale, ObjectMoves, Compared
  <1>2. ASSUME NEW j \in DOMAIN tasks, tasks[j].op = "edit", tasks'[j] = tasks[j], j # by
        PROVE  NotStale(tasks[j], j)'
    BY <1>2 DEF ComparedIsThere, NotStale, ObjectMoves, Compared
  <1>3. QED
    BY <1>1, <1>2

\* A task that is no drain takes a step.
LEMMA TaskKeeps ==
    ASSUME Inv, NEW i \in DOMAIN tasks, NEW t, Task(i, t), TaskOK(t), t.op = tasks[i].op, t.op # "drain",
           UNCHANGED <<window, menu, machine>>, BudgetOK', ObjectMoves(i), IsOn(revisions', DOMAIN revisions'),
           jobs' \subseteq 0..MaxTasks, clock' \in 0..MaxTasks,
           t.op = "edit" => NotStale(t, i)'
    PROVE  Inv'
  <1>1. /\ TasksOK' /\ Len(tasks') = Len(tasks) /\ DOMAIN tasks' = DOMAIN tasks
        /\ tasks'[i] = t /\ \A j \in DOMAIN tasks \ {i} : tasks'[j] = tasks[j]
    BY TaskMoves DEF Inv, TypeOK
  <1>2. TypeOK'
    BY <1>1 DEF Inv, TypeOK, ClusterOK, WindowOK, ObjectMoves, machine
  <1>3. SavedIsRead'
    BY DEF Inv, SavedIsRead
  <1>4. ComparedIsThere'
    <2>1. i # Win
      BY DEF Inv, TypeOK, TasksOK, Win
    <2>2. NotStale(window, Win)'
      BY <2>1, OthersStayCompared DEF Inv
    <2>3. ASSUME NEW j \in DOMAIN tasks', tasks'[j].op = "edit" PROVE NotStale(tasks[j], j)'
      <3>1. CASE j = i
        BY <1>1, <2>3, <3>1 DEF NotStale
      <3>2. CASE j # i
        BY <1>1, <2>3, <3>2, OthersStayCompared DEF Inv
      <3>3. QED
        BY <3>1, <3>2
    <2>4. QED
      BY <2>2, <2>3 DEF ComparedIsThere
  <1>5. \A j \in DOMAIN tasks' : EvictsAll(j)'
    BY <1>1 DEF Inv, EvictsAll, machine
  <1>6. QED
    BY <1>2, <1>3, <1>4, <1>5 DEF Inv

\* A task that is no drain ends.
LEMMA DoneKeeps ==
    ASSUME Inv, NEW i \in DOMAIN tasks, NEW how \in {"applied", "unchanged", "error"}, Done(i, how),
           tasks[i].op # "drain", UNCHANGED <<window, menu, machine>>, BudgetOK', ObjectMoves(i),
           IsOn(revisions', DOMAIN revisions'), jobs' \subseteq 0..MaxTasks, clock' \in 0..MaxTasks
    PROVE  Inv'
  <1>0. PICK t : t = [op |-> tasks[i].op, at |-> "done", how |-> how, failed |-> {}]
    OBVIOUS
  <1>1. Task(i, t) /\ TaskOK(t)
    BY <1>0, TaskEnds DEF Inv, TypeOK, Done
  <1>2. t.op = tasks[i].op /\ NotStale(t, i)'
    BY <1>0 DEF NotStale
  <1>3. QED
    BY <1>1, <1>2, TaskKeeps

\* Most steps leave the replica sets and the jobs as they are.
LEMMA RestStays ==
    ASSUME Inv
    PROVE  /\ UNCHANGED revisions => IsOn(revisions', DOMAIN revisions')
           /\ UNCHANGED batch => jobs' \subseteq 0..MaxTasks /\ clock' \in 0..MaxTasks
  BY DEF Inv, TypeOK, ClusterOK, batch, IsOn

\* The window takes a step.
LEMMA WindowKeeps ==
    ASSUME Inv, UNCHANGED <<tasks, menu, revisions, machine, batch>>, BudgetOK', ObjectMoves(Win),
           WindowOK', SavedIsRead', NotStale(window, Win)'
    PROVE  Inv'
  <1>1. TypeOK'
    BY DEF Inv, TypeOK, TasksOK, ClusterOK, ObjectMoves, machine, batch
  <1>2. ComparedIsThere'
    <2>1. \A j \in DOMAIN tasks : j # Win
      BY DEF Inv, TypeOK, TasksOK, Win
    <2>2. \A j \in DOMAIN tasks : tasks[j].op = "edit" => NotStale(tasks[j], j)'
      BY <2>1, OthersStayCompared DEF Inv
    <2>3. QED
      BY <2>2 DEF ComparedIsThere
  <1>3. \A j \in DOMAIN tasks' : EvictsAll(j)'
    BY DEF Inv, EvictsAll, machine
  <1>4. QED
    BY <1>1, <1>2, <1>3 DEF Inv

\* Somebody else takes a step.
LEMMA OthersKeep ==
    ASSUME Inv, UNCHANGED <<tasks, window, menu>>, BudgetOK', ClusterOK', ObjectMoves(None),
           \A j \in DOMAIN tasks : EvictsAll(j)'
    PROVE  Inv'
  <1>1. TypeOK' /\ SavedIsRead'
    BY DEF Inv, TypeOK, TasksOK, WindowOK, SavedIsRead
  <1>2. ComparedIsThere'
    <2>1. None # Win /\ \A j \in DOMAIN tasks : j # None
      BY ClusterActionsAssumption DEF Inv, TypeOK, TasksOK, Win
    <2>2. \A j \in DOMAIN tasks : tasks[j].op = "edit" => NotStale(tasks[j], j)'
      BY <2>1, OthersStayCompared DEF Inv
    <2>3. NotStale(window, Win)'
      BY <2>1, OthersStayCompared DEF Inv
    <2>4. QED
      BY <2>2, <2>3 DEF ComparedIsThere
  <1>3. QED
    BY <1>1, <1>2 DEF Inv

-----------------------------------------------------------------------------
(* The window's editor                                                       *)

\* The window with another of its fields is one, too.
LEMMA SeededIs ==
    ASSUME Inv, object # None, object' = object, window' = Seeded(window)
    PROVE  WindowOK' /\ SavedIsRead' /\ window'.at = "idle"
  <1>1. IsOn(window, {"open", "base", "saved", "draft", "at", "dry", "patch", "late"})
    BY DEF Inv, TypeOK, WindowOK
  <1>2. /\ window'.open = TRUE /\ window'.late = FALSE /\ window'.dry = FALSE /\ window'.at = "idle"
        /\ window'.base = object /\ window'.saved = object
        /\ IsOn(window', {"open", "base", "saved", "draft", "at", "dry", "patch", "late"})
    BY <1>1 DEF Seeded, IsOn
  <1>3. Vacuous(object, object)
    BY SameIsVacuous DEF Inv, TypeOK, ClusterOK
  <1>4. QED
    BY <1>2, <1>3 DEF WindowOK, SavedIsRead

LEMMA OpenEditorKeeps ==
    ASSUME Inv, OpenEditor \/ Reload, UNCHANGED menu
    PROVE  Inv'
  <1>1. object # None /\ window' = Seeded(window)
    BY DEF OpenEditor, Reload
  <1>2. UNCHANGED <<deployment, machine, batch, tasks, budget>>
    BY DEF OpenEditor, Reload
  <1>3. WindowOK' /\ SavedIsRead' /\ NotStale(window, Win)'
    BY <1>1, <1>2, SeededIs DEF deployment, NotStale
  <1>4. ObjectMoves(Win)
    BY <1>2, NothingMoves DEF Inv, TypeOK, deployment
  <1>5. QED
    BY <1>2, <1>3, <1>4, WindowKeeps DEF Inv, TypeOK, BudgetOK, deployment

LEMMA CloseEditorKeeps ==
    ASSUME Inv, CloseEditor, UNCHANGED menu
    PROVE  Inv'
  <1>1. UNCHANGED <<deployment, machine, batch, tasks, budget>> /\ window' = Closed
    BY DEF CloseEditor
  <1>2. WindowOK' /\ SavedIsRead' /\ NotStale(window, Win)'
    BY <1>1 DEF Closed, WindowOK, IsOn, SavedIsRead, NotStale
  <1>3. ObjectMoves(Win)
    BY <1>1, NothingMoves DEF Inv, TypeOK, deployment
  <1>4. QED
    BY <1>1, <1>2, <1>3, WindowKeeps DEF Inv, TypeOK, BudgetOK, deployment

\* What is typed changes the draft, not what is saved.
LEMMA TypeKeeps ==
    ASSUME Inv, Type, UNCHANGED menu
    PROVE  Inv'
  <1>1. UNCHANGED <<deployment, machine, batch, tasks>> /\ BudgetOK'
    BY BudgetStays DEF Type, Inv, TypeOK
  <1>2. PICK d : window' = [window EXCEPT !.draft = d, !.late = @ \/ window.at # "idle"]
    BY DEF Type
  <1>3. IsOn(window, {"open", "base", "saved", "draft", "at", "dry", "patch", "late"}) /\ window.late \in BOOLEAN
    BY DEF Inv, TypeOK, WindowOK
  <1>4. /\ window'.open = window.open /\ window'.dry = window.dry /\ window'.at = window.at
        /\ window'.base = window.base /\ window'.saved = window.saved /\ window'.patch = window.patch
        /\ window'.late = (window.late \/ window.at # "idle")
        /\ IsOn(window', {"open", "base", "saved", "draft", "at", "dry", "patch", "late"})
    BY <1>2, <1>3 DEF IsOn
  <1>5. WindowOK' /\ SavedIsRead'
    BY <1>3, <1>4 DEF Inv, TypeOK, WindowOK, SavedIsRead
  <1>6. ObjectMoves(Win) /\ NotStale(window, Win)'
    BY <1>1, <1>4, NothingMoves DEF Inv, TypeOK, deployment, ComparedIsThere, NotStale
  <1>7. QED
    BY <1>1, <1>5, <1>6, WindowKeeps DEF deployment

\* A request is made of what the user has now; it is vacuous when there is nothing to send.
LEMMA SubmitKeeps ==
    ASSUME Inv, NEW dry \in BOOLEAN, Submit(dry), UNCHANGED menu
    PROVE  Inv'
  <1>1. UNCHANGED <<deployment, machine, batch, tasks, budget>>
    BY DEF Submit
  <1> DEFINE asked == Asked(window.base, window.draft)
  <1>2. window' = [window EXCEPT !.at = asked.at, !.patch = asked.patch, !.dry = dry] /\ window.at = "idle"
    BY DEF Submit
  <1>3. /\ asked.at \in {"error", "unchanged", "reading"}
        /\ asked.at = "unchanged" => Vacuous(window.base, window.draft)
    BY DEF Asked, Vacuous
  <1> HIDE DEF asked
  <1>4. IsOn(window, {"open", "base", "saved", "draft", "at", "dry", "patch", "late"})
    BY DEF Inv, TypeOK, WindowOK
  <1>5. /\ window'.open = window.open /\ window'.dry = dry /\ window'.at = asked.at
        /\ window'.base = window.base /\ window'.saved = window.saved /\ window'.draft = window.draft
        /\ window'.late = window.late
        /\ IsOn(window', {"open", "base", "saved", "draft", "at", "dry", "patch", "late"})
    BY <1>2, <1>4 DEF IsOn
  <1>6. WindowOK' /\ SavedIsRead' /\ NotStale(window, Win)'
    BY <1>3, <1>5 DEF Inv, TypeOK, WindowOK, SavedIsRead, NotStale
  <1>7. ObjectMoves(Win)
    BY <1>1, NothingMoves DEF Inv, TypeOK, deployment
  <1>8. QED
    BY <1>1, <1>6, <1>7, WindowKeeps DEF Inv, TypeOK, BudgetOK, deployment

LEMMA WindowAnsweredKeeps ==
    ASSUME Inv, WindowAnswered, UNCHANGED menu
    PROVE  Inv'
  <1>1. UNCHANGED <<deployment, machine, batch, tasks, budget>> /\ window' = Answered
    BY DEF WindowAnswered
  <1>2. IsOn(window, {"open", "base", "saved", "draft", "at", "dry", "patch", "late"})
    BY DEF Inv, TypeOK, WindowOK
  <1>3. /\ window'.open = window.open /\ window'.dry = FALSE /\ window'.at = "idle"
        /\ window'.base = window.base /\ window'.late = window.late
        /\ window'.saved = IF window.at = "unchanged" /\ ~window.dry THEN window.draft ELSE window.saved
        /\ IsOn(window', {"open", "base", "saved", "draft", "at", "dry", "patch", "late"})
    BY <1>1, <1>2 DEF IsOn, Answered
  <1>4. WindowOK' /\ SavedIsRead' /\ NotStale(window, Win)'
    BY <1>3 DEF Inv, TypeOK, WindowOK, SavedIsRead, NotStale
  <1>5. ObjectMoves(Win)
    BY <1>1, NothingMoves DEF Inv, TypeOK, deployment
  <1>6. QED
    BY <1>1, <1>4, <1>5, WindowKeeps DEF Inv, TypeOK, BudgetOK, deployment

-----------------------------------------------------------------------------
(* Requests                                                                  *)

\* The steps of apply_edit: what each does to the object, and where it can lead.
LEMMA ApplyMoves ==
    ASSUME Inv, NEW e, NEW by, NEW to, Apply(e, by, to)
    PROVE  /\ BudgetOK' /\ ObjectMoves(by) /\ UNCHANGED revisions
           /\ e.at \in {"reading", "patching", "fetching"}
           /\ to \in {"patching", "fetching", "unchanged", "applied", "error"}
           /\ to = "patching" => object' = object /\ Stale(e.base, object, e.patch) = {}
           /\ to = "unchanged" => e.dry
           /\ to = "applied" => object # None /\ object' = object
  <1>1. CASE e.at = "reading" /\ ReadsLatest(e.base, e.patch, to)
    <2>1. UNCHANGED deployment /\ (Works \/ Fails)
      BY <1>1 DEF ReadsLatest, Missing
    <2>2. to = "error" \/ to = Checked(e.base, e.patch)
      BY <1>1 DEF ReadsLatest
    <2>3. to = "error" \/ (to = "patching" /\ Stale(e.base, object, e.patch) = {})
      BY <2>2 DEF Checked
    <2>4. BudgetOK' /\ ObjectMoves(by)
      BY <2>1, BudgetStays, NothingMoves DEF Inv, TypeOK, deployment
    <2>5. QED
      BY <1>1, <2>1, <2>3, <2>4 DEF deployment
  <1>2. CASE e.at = "patching" /\ Sends(e.patch, e.dry, by, to)
    <2>1. UNCHANGED revisions /\ (Works \/ Fails)
      BY <1>2 DEF Sends, Missing
    <2>2. BudgetOK'
      BY <2>1, BudgetStays DEF Inv, TypeOK
    <2>3. CASE object # None /\ ~e.dry /\ Write(Patched(object, e.patch), by) /\ to = "fetching"
      BY <1>2, <2>1, <2>2, <2>3, WriteMoves DEF Inv, TypeOK
    <2>4. CASE object' = object /\ raced' = raced \ {by} /\ (to = "error" \/ (to = "unchanged" /\ e.dry))
      BY <1>2, <2>1, <2>2, <2>4, NothingMoves DEF Inv, TypeOK
    <2>5. QED
      BY <1>2, <2>3, <2>4 DEF Sends
  <1>3. CASE e.at = "fetching" /\ Fetches(to)
    <2>1. UNCHANGED deployment /\ (Works \/ Fails)
      BY <1>3 DEF Fetches, Missing
    <2>2. to = "error" \/ (to = "applied" /\ object # None)
      BY <1>3 DEF Fetches
    <2>3. BudgetOK' /\ ObjectMoves(by)
      BY <2>1, BudgetStays, NothingMoves DEF Inv, TypeOK, deployment
    <2>4. QED
      BY <1>3, <2>1, <2>2, <2>3 DEF deployment
  <1>4. QED
    BY <1>1, <1>2, <1>3 DEF Apply

LEMMA WindowRequestKeeps ==
    ASSUME Inv, WindowRequest, UNCHANGED menu
    PROVE  Inv'
  <1>1. PICK to \in Ends :
            /\ Apply(window, Win, to) /\ UNCHANGED <<machine, batch, tasks>>
            /\ window' = IF to = "applied" THEN Seeded(window) ELSE [window EXCEPT !.at = to]
    BY DEF WindowRequest
  <1>2. /\ BudgetOK' /\ ObjectMoves(Win) /\ UNCHANGED revisions
        /\ to \in {"patching", "fetching", "unchanged", "applied", "error"}
        /\ to = "patching" => object' = object /\ Stale(window.base, object, window.patch) = {}
        /\ to = "unchanged" => window.dry
        /\ to = "applied" => object # None /\ object' = object
    BY <1>1, ApplyMoves
  <1>3. WindowOK' /\ SavedIsRead' /\ NotStale(window, Win)'
    <2>1. CASE to = "applied"
      BY <1>1, <1>2, <2>1, SeededIs DEF NotStale
    <2>2. CASE to # "applied"
      <3>1. IsOn(window, {"open", "base", "saved", "draft", "at", "dry", "patch", "late"})
        BY DEF Inv, TypeOK, WindowOK
      <3>2. /\ window'.open = window.open /\ window'.dry = window.dry /\ window'.at = to
            /\ window'.base = window.base /\ window'.late = window.late /\ window'.patch = window.patch
            /\ window'.saved = window.saved
            /\ IsOn(window', {"open", "base", "saved", "draft", "at", "dry", "patch", "late"})
        BY <1>1, <2>2, <3>1 DEF IsOn
      <3>3. QED
        BY <1>2, <2>2, <3>2 DEF Inv, TypeOK, WindowOK, SavedIsRead, NotStale
    <2>3. QED
      BY <2>1, <2>2
  <1>4. QED
    BY <1>1, <1>2, <1>3, WindowKeeps

-----------------------------------------------------------------------------
(* The terminal's editor                                                     *)

LEMMA EditOpensKeeps ==
    ASSUME Inv, NEW i \in DOMAIN tasks, EditOpens(i), UNCHANGED menu
    PROVE  Inv'
  <1>1. UNCHANGED <<deployment, machine, batch, window>> /\ (Works \/ Fails) /\ tasks[i].op = "edit"
    BY DEF EditOpens, Missing
  <1>2. BudgetOK' /\ ObjectMoves(i)
    BY <1>1, BudgetStays, NothingMoves DEF Inv, TypeOK, deployment
  <1> DEFINE t == [op |-> "edit", at |-> "editor", how |-> None, base |-> object,
                   current |-> object, noted |-> FALSE, patch |-> None, dry |-> FALSE]
  <1>3. CASE Task(i, t)
    <2>1. {"op", "at", "how"} \cup Fields("edit", "editor")
              = {"op", "at", "how", "base", "current", "noted", "patch", "dry"}
      BY DEF Fields
    <2>2. IsOn(t, {"op", "at", "how", "base", "current", "noted", "patch", "dry"})
      BY DEF IsOn
    <2>3. TaskOK(t) /\ NotStale(t, i)'
      BY <2>1, <2>2 DEF TaskOK, Stages, NotStale
    <2> HIDE DEF t
    <2>4. QED
      BY <1>1, <1>2, <1>3, <2>3, TaskKeeps, RestStays DEF t, deployment
  <1>4. CASE Done(i, "error")
    BY <1>1, <1>2, <1>4, DoneKeeps, RestStays DEF deployment
  <1>5. QED
    BY <1>3, <1>4 DEF EditOpens

\* The copy of an edit with another of its fields is one, too.
LEMMA EditGoesOn ==
    ASSUME Inv, NEW i \in DOMAIN tasks, tasks[i].op = "edit", tasks[i].at \notin {"start", "done"}
    PROVE  /\ IsOn(tasks[i], {"op", "at", "how", "base", "current", "noted", "patch", "dry"})
           /\ \A t :
                  /\ IsOn(t, {"op", "at", "how", "base", "current", "noted", "patch", "dry"})
                  /\ t.op = "edit" /\ t.how = tasks[i].how /\ t.dry = tasks[i].dry /\ t.noted \in BOOLEAN
                  /\ t.at \in Stages("edit") \ {"start", "done"}
                  => TaskOK(t)
  <1>1. \A at : at \notin {"start", "done"} =>
            {"op", "at", "how"} \cup Fields("edit", at) = {"op", "at", "how", "base", "current", "noted", "patch", "dry"}
    BY DEF Fields
  <1>2. TaskOK(tasks[i])
    BY DEF Inv, TypeOK, TasksOK
  <1>3. QED
    BY <1>1, <1>2 DEF TaskOK

LEMMA EditAbortedKeeps ==
    ASSUME Inv, NEW i \in DOMAIN tasks, EditAborted(i), UNCHANGED menu
    PROVE  Inv'
  <1>1. /\ UNCHANGED <<deployment, machine, batch, window, budget>>
        /\ Done(i, "unchanged") /\ tasks[i].op = "edit"
    BY DEF EditAborted
  <1>2. BudgetOK' /\ ObjectMoves(i)
    BY <1>1, NothingMoves DEF Inv, TypeOK, BudgetOK, deployment
  <1>3. QED
    BY <1>1, <1>2, DoneKeeps, RestStays DEF deployment

LEMMA EditSavedKeeps ==
    ASSUME Inv, NEW i \in DOMAIN tasks, EditSaved(i), UNCHANGED menu
    PROVE  Inv'
  <1>1. /\ UNCHANGED <<deployment, machine, batch, window>> /\ (Works \/ Typing)
        /\ tasks[i].op = "edit" /\ tasks[i].at = "editor"
    BY DEF EditSaved
  <1>2. BudgetOK' /\ ObjectMoves(i)
    BY <1>1, BudgetStays, NothingMoves DEF Inv, TypeOK, deployment
  <1>3. \A base, d : Asked(base, d).at \in {"error", "unchanged", "reading"}
    BY DEF Asked
  <1>4. PICK asked, d, t :
            /\ asked.at \in {"error", "unchanged", "reading"} /\ Task(i, t)
            /\ t = [tasks[i] EXCEPT !.at = asked.at, !.patch = asked.patch, !.current = d, !.noted = FALSE]
    <2>1. CASE \E d : LET asked == Asked(tasks[i].base, d) IN
                      Task(i, [tasks[i] EXCEPT !.at = asked.at, !.patch = asked.patch, !.current = d, !.noted = FALSE])
      BY <1>3, <2>1
    <2>2. CASE LET asked == Asked(tasks[i].base, tasks[i].current) IN
               Task(i, [tasks[i] EXCEPT !.at = asked.at, !.patch = asked.patch, !.noted = FALSE])
      <3>1. IsOn(tasks[i], {"op", "at", "how", "base", "current", "noted", "patch", "dry"})
        BY <1>1, EditGoesOn
      <3>2. \A asked : [tasks[i] EXCEPT !.at = asked.at, !.patch = asked.patch, !.noted = FALSE]
                = [tasks[i] EXCEPT !.at = asked.at, !.patch = asked.patch, !.current = tasks[i].current, !.noted = FALSE]
        BY <3>1 DEF IsOn
      <3>3. PICK asked : asked = Asked(tasks[i].base, tasks[i].current)
        OBVIOUS
      <3>4. Task(i, [tasks[i] EXCEPT !.at = asked.at, !.patch = asked.patch, !.current = tasks[i].current, !.noted = FALSE])
        BY <2>2, <3>2, <3>3
      <3>5. asked.at \in {"error", "unchanged", "reading"}
        BY <1>3, <3>3
      <3>6. QED
        BY <3>4, <3>5
    <2>3. QED
      BY <2>1, <2>2 DEF EditSaved
  <1>5. /\ IsOn(t, {"op", "at", "how", "base", "current", "noted", "patch", "dry"})
        /\ t.op = "edit" /\ t.how = tasks[i].how /\ t.dry = tasks[i].dry /\ t.noted = FALSE /\ t.at = asked.at
    BY <1>1, <1>4, EditGoesOn DEF IsOn
  <1>6. TaskOK(t) /\ NotStale(t, i)'
    <2>1. t.at \in Stages("edit") \ {"start", "done"} /\ t.at # "patching"
      BY <1>4, <1>5 DEF Stages
    <2>2. TaskOK(t)
      BY <1>1, <1>5, <2>1, EditGoesOn
    <2>3. QED
      BY <2>1, <2>2 DEF NotStale
  <1>7. QED
    BY <1>1, <1>2, <1>4, <1>5, <1>6, TaskKeeps, RestStays DEF deployment

LEMMA EditRequestKeeps ==
    ASSUME Inv, NEW i \in DOMAIN tasks, EditRequest(i), UNCHANGED menu
    PROVE  Inv'
  <1>1. PICK to \in Ends :
            /\ Apply(tasks[i], i, to) /\ Task(i, [tasks[i] EXCEPT !.at = to])
            /\ tasks[i].op = "edit" /\ UNCHANGED <<machine, batch, window>>
    BY DEF EditRequest
  <1>2. /\ BudgetOK' /\ ObjectMoves(i) /\ UNCHANGED revisions
        /\ tasks[i].at \in {"reading", "patching", "fetching"}
        /\ to \in {"patching", "fetching", "unchanged", "applied", "error"}
        /\ to = "patching" => object' = object /\ Stale(tasks[i].base, object, tasks[i].patch) = {}
    BY <1>1, ApplyMoves
  <1>3. PICK t : t = [tasks[i] EXCEPT !.at = to]
    OBVIOUS
  <1>4. IsOn(tasks[i], {"op", "at", "how", "base", "current", "noted", "patch", "dry"}) /\ tasks[i].noted \in BOOLEAN
    BY <1>1, <1>2, EditGoesOn DEF Inv, TypeOK, TasksOK, TaskOK
  <1>5. /\ IsOn(t, {"op", "at", "how", "base", "current", "noted", "patch", "dry"})
        /\ t.op = "edit" /\ t.how = tasks[i].how /\ t.dry = tasks[i].dry /\ t.noted = tasks[i].noted
        /\ t.at = to /\ t.base = tasks[i].base /\ t.patch = tasks[i].patch
    BY <1>1, <1>3, <1>4 DEF IsOn
  <1>6. TaskOK(t) /\ NotStale(t, i)'
    BY <1>1, <1>2, <1>4, <1>5, EditGoesOn DEF NotStale, Stages
  <1>7. QED
    BY <1>1, <1>2, <1>3, <1>5, <1>6, TaskKeeps, RestStays

LEMMA EditAnsweredKeeps ==
    ASSUME Inv, NEW i \in DOMAIN tasks, EditAnswered(i), UNCHANGED menu
    PROVE  Inv'
  <1>1. UNCHANGED <<deployment, machine, batch, window, budget>> /\ tasks[i].op = "edit"
    BY DEF EditAnswered
  <1>2. BudgetOK' /\ ObjectMoves(i)
    BY <1>1, NothingMoves DEF Inv, TypeOK, BudgetOK, deployment
  <1>3. CASE tasks[i].at \in {"unchanged", "applied"} /\ Done(i, tasks[i].at)
    BY <1>1, <1>2, <1>3, DoneKeeps, RestStays DEF deployment
  <1>4. CASE tasks[i].at = "error" /\ Task(i, [tasks[i] EXCEPT !.at = "editor", !.noted = TRUE])
    <2>1. PICK t : t = [tasks[i] EXCEPT !.at = "editor", !.noted = TRUE]
      OBVIOUS
    <2>2. /\ IsOn(t, {"op", "at", "how", "base", "current", "noted", "patch", "dry"})
          /\ t.op = "edit" /\ t.how = tasks[i].how /\ t.dry = tasks[i].dry /\ t.noted = TRUE /\ t.at = "editor"
      BY <1>1, <1>4, <2>1, EditGoesOn DEF IsOn
    <2>3. TaskOK(t) /\ NotStale(t, i)'
      BY <1>1, <1>4, <2>2, EditGoesOn DEF NotStale, Stages
    <2>4. QED
      BY <1>1, <1>2, <1>4, <2>1, <2>2, <2>3, TaskKeeps, RestStays DEF deployment
  <1>5. QED
    BY <1>3, <1>4 DEF EditAnswered

-----------------------------------------------------------------------------
(* Merges, deletion, rollback, triggers                                      *)

LEMMA MergesKeeps ==
    ASSUME Inv, NEW i \in DOMAIN tasks, Merges(i), UNCHANGED menu
    PROVE  Inv'
  <1>1. UNCHANGED <<machine, batch, window, revisions>> /\ tasks[i].op # "drain" /\ (Works \/ Fails)
    BY DEF Merges, Missing, deployment
  <1>2. BudgetOK'
    BY <1>1, BudgetStays DEF Inv, TypeOK
  <1>3. CASE object # None /\ Write(Patched(object, tasks[i].patch), i) /\ Done(i, "applied")
    BY <1>1, <1>2, <1>3, WriteMoves, DoneKeeps, RestStays DEF Inv, TypeOK
  <1>4. CASE Done(i, "error") /\ UNCHANGED deployment
    BY <1>1, <1>2, <1>4, NothingMoves, DoneKeeps, RestStays DEF Inv, TypeOK, deployment
  <1>5. QED
    BY <1>3, <1>4 DEF Merges

LEMMA DeletesKeeps ==
    ASSUME Inv, NEW i \in DOMAIN tasks, Deletes(i), UNCHANGED menu
    PROVE  Inv'
  <1>1. UNCHANGED <<machine, batch, window>> /\ tasks[i].op # "drain" /\ (Works \/ Fails)
    BY DEF Deletes, Missing
  <1>2. BudgetOK'
    BY <1>1, BudgetStays DEF Inv, TypeOK
  <1>3. CASE object' = None /\ revisions' = [r \in {} |-> None] /\ raced' = raced \cup Compared /\ Done(i, "applied")
    <2>1. ObjectMoves(i)
      BY <1>3 DEF ObjectMoves
    <2>2. IsOn(revisions', DOMAIN revisions')
      BY <1>3 DEF IsOn
    <2>3. QED
      BY <1>1, <1>2, <1>3, <2>1, <2>2, DoneKeeps, RestStays
  <1>4. CASE Done(i, "error") /\ UNCHANGED deployment
    BY <1>1, <1>2, <1>4, NothingMoves, DoneKeeps, RestStays DEF Inv, TypeOK, deployment
  <1>5. QED
    BY <1>3, <1>4 DEF Deletes

LEMMA UndoReadsKeeps ==
    ASSUME Inv, NEW i \in DOMAIN tasks, UndoReads(i) \/ UndoLists(i), UNCHANGED menu
    PROVE  Inv'
  <1>1. UNCHANGED <<deployment, machine, batch, window>> /\ tasks[i].op = "undo" /\ tasks[i].at # "done" /\ (Works \/ Fails)
    BY DEF UndoReads, UndoLists, Missing
  <1>2. BudgetOK' /\ ObjectMoves(i)
    BY <1>1, BudgetStays, NothingMoves DEF Inv, TypeOK, deployment
  <1>3. CASE Done(i, "error")
    BY <1>1, <1>2, <1>3, DoneKeeps, RestStays DEF deployment
  <1>4. CASE \E x : \/ Task(i, [tasks[i] EXCEPT !.at = "listing", !.read = x])
                    \/ Task(i, [tasks[i] EXCEPT !.at = "replacing", !.template = x])
    <2>1. PICK x, t : /\ Task(i, t)
                      /\ \/ t = [tasks[i] EXCEPT !.at = "listing", !.read = x]
                         \/ t = [tasks[i] EXCEPT !.at = "replacing", !.template = x]
      BY <1>4
    <2>2. \A at : at # "done" => {"op", "at", "how"} \cup Fields("undo", at)
                                    = {"op", "at", "how", "revision", "read", "template"}
      BY DEF Fields
    <2>3. TaskOK(tasks[i])
      BY DEF Inv, TypeOK, TasksOK
    <2>4. IsOn(tasks[i], {"op", "at", "how", "revision", "read", "template"}) /\ tasks[i].how = None
      BY <1>1, <2>2, <2>3 DEF TaskOK
    <2>5. /\ IsOn(t, {"op", "at", "how", "revision", "read", "template"})
          /\ t.op = "undo" /\ t.how = None /\ t.at \in {"listing", "replacing"}
      BY <1>1, <2>1, <2>4 DEF IsOn
    <2>6. TaskOK(t)
      BY <2>2, <2>5 DEF TaskOK, Stages
    <2>7. QED
      BY <1>1, <1>2, <2>1, <2>5, <2>6, TaskKeeps, RestStays DEF deployment
  <1>5. QED
    BY <1>3, <1>4 DEF UndoReads, UndoLists

LEMMA UndoReplacesKeeps ==
    ASSUME Inv, NEW i \in DOMAIN tasks, UndoReplaces(i), UNCHANGED menu
    PROVE  Inv'
  <1>1. UNCHANGED <<machine, batch, window, revisions>> /\ tasks[i].op # "drain" /\ (Works \/ Fails)
    BY DEF UndoReplaces, deployment
  <1>2. BudgetOK'
    BY <1>1, BudgetStays DEF Inv, TypeOK
  <1>3. CASE \E doc : Accepts(doc) /\ Write(doc, i) /\ Done(i, "applied")
    BY <1>1, <1>2, <1>3, WriteMoves, DoneKeeps, RestStays DEF Accepts, Inv, TypeOK
  <1>4. CASE Done(i, "error") /\ UNCHANGED deployment
    BY <1>1, <1>2, <1>4, NothingMoves, DoneKeeps, RestStays DEF Inv, TypeOK, deployment
  <1>5. QED
    BY <1>3, <1>4 DEF UndoReplaces

LEMMA TriggerReadsKeeps ==
    ASSUME Inv, NEW i \in DOMAIN tasks, TriggerReads(i), UNCHANGED menu
    PROVE  Inv'
  <1>1. UNCHANGED <<deployment, machine, batch, window>> /\ tasks[i].op = "trigger" /\ tasks[i].at = "start" /\ (Works \/ Fails)
    BY DEF TriggerReads
  <1>2. BudgetOK' /\ ObjectMoves(i)
    BY <1>1, BudgetStays, NothingMoves DEF Inv, TypeOK, deployment
  <1>3. CASE Done(i, "error")
    BY <1>1, <1>2, <1>3, DoneKeeps, RestStays DEF deployment
  <1>4. CASE Task(i, [tasks[i] EXCEPT !.at = "creating", !.job = clock])
    <2>1. PICK t : t = [tasks[i] EXCEPT !.at = "creating", !.job = clock]
      OBVIOUS
    <2>2. \A at : at # "done" => {"op", "at", "how"} \cup Fields("trigger", at) = {"op", "at", "how", "job"}
      BY DEF Fields
    <2>3. TaskOK(tasks[i])
      BY DEF Inv, TypeOK, TasksOK
    <2>4. IsOn(tasks[i], {"op", "at", "how", "job"}) /\ tasks[i].how = None
      BY <1>1, <2>2, <2>3 DEF TaskOK
    <2>5. /\ IsOn(t, {"op", "at", "how", "job"})
          /\ t.op = "trigger" /\ t.how = None /\ t.at = "creating" /\ t.job = clock
      BY <1>1, <2>1, <2>4 DEF IsOn
    <2>6. TaskOK(t)
      BY <2>2, <2>5 DEF TaskOK, Stages, Inv, TypeOK, ClusterOK
    <2>7. QED
      BY <1>1, <1>2, <1>4, <2>1, <2>5, <2>6, TaskKeeps, RestStays DEF deployment
  <1>5. QED
    BY <1>3, <1>4 DEF TriggerReads

LEMMA TriggerCreatesKeeps ==
    ASSUME Inv, NEW i \in DOMAIN tasks, TriggerCreates(i), UNCHANGED menu
    PROVE  Inv'
  <1>1. /\ UNCHANGED <<deployment, machine, clock, window>> /\ (Works \/ Fails)
        /\ tasks[i].op = "trigger" /\ tasks[i].at = "creating"
        /\ jobs' = jobs \/ jobs' = jobs \cup {tasks[i].job}
        /\ Done(i, "applied") \/ Done(i, "error")
    BY DEF TriggerCreates
  <1>2. BudgetOK' /\ ObjectMoves(i)
    BY <1>1, BudgetStays, NothingMoves DEF Inv, TypeOK, deployment
  <1>3. jobs' \subseteq 0..MaxTasks /\ clock' \in 0..MaxTasks
    BY <1>1 DEF Inv, TypeOK, TasksOK, TaskOK, ClusterOK
  <1>4. QED
    BY <1>1, <1>2, <1>3, DoneKeeps, RestStays DEF deployment

-----------------------------------------------------------------------------
(* The node                                                                  *)

\* A task changes the node or its pods.
LEMMA MachineKeeps ==
    ASSUME Inv, NEW i \in DOMAIN tasks, NEW t, Task(i, t), TaskOK(t), t.op = tasks[i].op, t.op # "edit",
           UNCHANGED <<deployment, batch, window, menu>>, BudgetOK',
           node' \in [cordoned : BOOLEAN, lifted : SUBSET (1..Len(tasks))],
           pods' \in [Pods -> {"waiting", "running", "terminating", "gone"}],
           \A j \in DOMAIN tasks : EvictsAll(j)'
    PROVE  Inv'
  <1>1. /\ TasksOK' /\ Len(tasks') = Len(tasks) /\ DOMAIN tasks' = DOMAIN tasks
        /\ tasks'[i] = t /\ \A j \in DOMAIN tasks \ {i} : tasks'[j] = tasks[j]
    BY TaskMoves DEF Inv, TypeOK
  <1>2. TypeOK'
    BY <1>1 DEF Inv, TypeOK, ClusterOK, WindowOK, deployment, batch
  <1>3. SavedIsRead'
    BY DEF Inv, SavedIsRead
  <1>4. ComparedIsThere'
    BY <1>1 DEF Inv, ComparedIsThere, NotStale, deployment
  <1>5. QED
    BY <1>1, <1>2, <1>3, <1>4 DEF Inv

LEMMA SetsCordonKeeps ==
    ASSUME Inv, NEW i \in DOMAIN tasks, SetsCordon(i), UNCHANGED menu
    PROVE  Inv'
  <1>1. /\ UNCHANGED <<deployment, pods, batch, window>> /\ (Works \/ Fails)
        /\ tasks[i].op = "cordon" /\ tasks[i].at = "start"
    BY DEF SetsCordon
  <1>2. BudgetOK'
    BY <1>1, BudgetStays DEF Inv, TypeOK
  <1>3. CASE Done(i, "error") /\ UNCHANGED node
    BY <1>1, <1>2, <1>3, NothingMoves, DoneKeeps, RestStays DEF Inv, TypeOK, machine, deployment
  <1>4. CASE /\ Done(i, "applied")
             /\ node' = [cordoned |-> tasks[i].on, lifted |-> IF tasks[i].on THEN node.lifted ELSE DOMAIN tasks]
    <2>1. PICK t : t = [op |-> tasks[i].op, at |-> "done", how |-> "applied", failed |-> {}]
      OBVIOUS
    <2>2. Task(i, t) /\ TaskOK(t)
      BY <1>4, <2>1, TaskEnds DEF Inv, TypeOK, Done
    <2>3. /\ DOMAIN tasks' = DOMAIN tasks /\ tasks'[i] = t
          /\ \A j \in DOMAIN tasks \ {i} : tasks'[j] = tasks[j]
      BY <2>2, TaskMoves DEF Inv, TypeOK
    <2>4. tasks[i].on \in BOOLEAN
      BY <1>1 DEF Inv, TypeOK, TasksOK, TaskOK
    <2>5. DOMAIN tasks = 1..Len(tasks)
      BY DEF Inv, TypeOK, TasksOK
    <2>6. node' \in [cordoned : BOOLEAN, lifted : SUBSET (1..Len(tasks))]
      BY <1>4, <2>4, <2>5 DEF Inv, TypeOK, ClusterOK
    <2>7. ASSUME NEW j \in DOMAIN tasks PROVE EvictsAll(j)'
      <3>1. CASE tasks[i].on
        BY <1>1, <1>4, <2>1, <2>3, <3>1 DEF Inv, EvictsAll
      <3>2. CASE ~tasks[i].on
        BY <1>4, <2>3, <3>2 DEF EvictsAll
      <3>3. QED
        BY <2>4, <3>1, <3>2
    <2>8. pods' \in [Pods -> {"waiting", "running", "terminating", "gone"}]
      BY <1>1 DEF Inv, TypeOK, ClusterOK
    <2>9. QED
      BY <1>1, <1>2, <2>1, <2>2, <2>6, <2>7, <2>8, MachineKeeps
  <1>5. QED
    BY <1>3, <1>4 DEF SetsCordon

\* A drain with another of its fields is one, too.
LEMMA DrainGoesOn ==
    ASSUME Inv, NEW i \in DOMAIN tasks, tasks[i].op = "drain", tasks[i].at # "done"
    PROVE  /\ IsOn(tasks[i], {"op", "at", "how", "left", "failed"})
           /\ tasks[i].how = None /\ tasks[i].left \subseteq Pods /\ tasks[i].failed \subseteq Pods
           /\ \A t :
                  /\ IsOn(t, {"op", "at", "how", "left", "failed"})
                  /\ t.op = "drain" /\ t.how = None /\ t.at \in {"start", "listing", "evicting"}
                  /\ t.left \subseteq Pods /\ t.failed \subseteq Pods
                  => TaskOK(t)
  <1>1. \A at : at # "done" => {"op", "at", "how"} \cup Fields("drain", at) = {"op", "at", "how", "left", "failed"}
    BY DEF Fields
  <1>2. TaskOK(tasks[i])
    BY DEF Inv, TypeOK, TasksOK
  <1>3. Stages("drain") = {"start", "listing", "evicting", "done"}
    BY DEF Stages
  <1>4. IsOn(tasks[i], {"op", "at", "how", "left", "failed"})
    BY <1>1, <1>2 DEF TaskOK
  <1>5. tasks[i].how = None /\ tasks[i].left \subseteq Pods /\ tasks[i].failed \subseteq Pods
    BY <1>2 DEF TaskOK
  <1>6. ASSUME NEW t, IsOn(t, {"op", "at", "how", "left", "failed"}), t.op = "drain", t.how = None,
               t.at \in {"start", "listing", "evicting"}, t.left \subseteq Pods, t.failed \subseteq Pods
        PROVE  TaskOK(t)
    BY <1>1, <1>3, <1>6 DEF TaskOK
  <1>7. QED
    BY <1>4, <1>5, <1>6

\* A step of a drain that goes on.
LEMMA DrainMoves ==
    ASSUME Inv, NEW i \in DOMAIN tasks, tasks[i].op = "drain", tasks[i].at # "done",
           NEW t, Task(i, t), IsOn(t, {"op", "at", "how", "left", "failed"}), t.op = "drain", t.how = None,
           t.at \in {"listing", "evicting"}, t.left \subseteq Pods, t.failed \subseteq Pods,
           UNCHANGED <<deployment, batch, window, menu>>, BudgetOK',
           node' = node \/ node' = [cordoned |-> TRUE, lifted |-> node.lifted \ {i}],
           pods' \in [Pods -> {"waiting", "running", "terminating", "gone"}],
           \A p \in Pods : pods'[p] = "running" => pods[p] = "running",
           i \notin node'.lifted =>
               /\ node'.cordoned
               /\ t.at = "evicting" => \A p \in Pods : pods'[p] = "running" => p \in Daemons \cup t.left \cup t.failed
    PROVE  Inv'
  <1>1. TaskOK(t)
    BY DrainGoesOn
  <1>2. DOMAIN tasks' = DOMAIN tasks /\ tasks'[i] = t /\ \A j \in DOMAIN tasks \ {i} : tasks'[j] = tasks[j]
    BY <1>1, TaskMoves DEF Inv, TypeOK
  <1>3. node \in [cordoned : BOOLEAN, lifted : SUBSET (1..Len(tasks))]
    BY DEF Inv, TypeOK, ClusterOK
  <1>4. node' \in [cordoned : BOOLEAN, lifted : SUBSET (1..Len(tasks))]
    <2>1. node.lifted \ {i} \in SUBSET (1..Len(tasks))
      BY <1>3
    <2>2. [cordoned |-> TRUE, lifted |-> node.lifted \ {i}] \in [cordoned : BOOLEAN, lifted : SUBSET (1..Len(tasks))]
      BY <2>1
    <2>3. QED
      BY <1>3, <2>2, Zenon
  <1>5. ASSUME NEW j \in DOMAIN tasks PROVE EvictsAll(j)'
    <2>1. CASE j = i
      BY <1>2, <2>1, ClusterActionsAssumption DEF EvictsAll
    <2>2. CASE j # i
      <3>1. j \notin node'.lifted => j \notin node.lifted
        BY <1>3, <2>2
      <3>2. node.cordoned => node'.cordoned
        BY <1>3
      <3>3. tasks'[j] = tasks[j] /\ EvictsAll(j)
        BY <1>2, <2>2 DEF Inv
      <3>4. QED
        BY <3>1, <3>2, <3>3 DEF EvictsAll
    <2>3. QED
      BY <2>1, <2>2
  <1>6. QED
    BY <1>1, <1>4, <1>5, MachineKeeps

\* A drain that fails claims nothing.
LEMMA DrainFails ==
    ASSUME Inv, NEW i \in DOMAIN tasks, tasks[i].op = "drain", Done(i, "error"),
           UNCHANGED <<deployment, machine, batch, window, menu>>, BudgetOK'
    PROVE  Inv'
  <1>1. PICK t : t = [op |-> "drain", at |-> "done", how |-> "error", failed |-> {}]
    OBVIOUS
  <1>2. Task(i, t) /\ TaskOK(t)
    BY <1>1, TaskEnds DEF Inv, TypeOK, Done
  <1>3. DOMAIN tasks' = DOMAIN tasks /\ tasks'[i] = t /\ \A j \in DOMAIN tasks \ {i} : tasks'[j] = tasks[j]
    BY <1>2, TaskMoves DEF Inv, TypeOK
  <1>4. \A j \in DOMAIN tasks : EvictsAll(j)'
    BY <1>1, <1>3 DEF Inv, EvictsAll, machine
  <1>5. QED
    BY <1>1, <1>2, <1>4, MachineKeeps DEF Inv, TypeOK, ClusterOK, machine

LEMMA DrainCordonsKeeps ==
    ASSUME Inv, NEW i \in DOMAIN tasks, DrainCordons(i), UNCHANGED menu
    PROVE  Inv'
  <1>1. /\ UNCHANGED <<deployment, pods, batch, window>> /\ (Works \/ Fails)
        /\ tasks[i].op = "drain" /\ tasks[i].at = "start"
    BY DEF DrainCordons
  <1>2. BudgetOK'
    BY <1>1, BudgetStays DEF Inv, TypeOK
  <1>3. CASE Done(i, "error") /\ UNCHANGED node
    BY <1>1, <1>2, <1>3, DrainFails DEF machine
  <1>4. CASE node' = [cordoned |-> TRUE, lifted |-> node.lifted \ {i}] /\ Task(i, [tasks[i] EXCEPT !.at = "listing"])
    <2>1. PICK t : t = [tasks[i] EXCEPT !.at = "listing"]
      OBVIOUS
    <2>2. /\ IsOn(t, {"op", "at", "how", "left", "failed"}) /\ t.op = "drain" /\ t.how = None /\ t.at = "listing"
          /\ t.left \subseteq Pods /\ t.failed \subseteq Pods
      BY <1>1, <2>1, DrainGoesOn DEF IsOn
    <2>3. node'.cordoned /\ pods' \in [Pods -> {"waiting", "running", "terminating", "gone"}]
      BY <1>1, <1>4 DEF Inv, TypeOK, ClusterOK
    <2>4. QED
      BY <1>1, <1>2, <1>4, <2>1, <2>2, <2>3, DrainMoves
  <1>5. QED
    BY <1>3, <1>4 DEF DrainCordons

\* What is listed is all that is on the node.
LEMMA DrainListsKeeps ==
    ASSUME Inv, NEW i \in DOMAIN tasks, DrainLists(i), UNCHANGED menu
    PROVE  Inv'
  <1>1. /\ UNCHANGED <<deployment, machine, batch, window>> /\ (Works \/ Fails)
        /\ tasks[i].op = "drain" /\ tasks[i].at = "listing"
    BY DEF DrainLists
  <1>2. BudgetOK'
    BY <1>1, BudgetStays DEF Inv, TypeOK
  <1>3. CASE Done(i, "error")
    BY <1>1, <1>2, <1>3, DrainFails
  <1>4. CASE Task(i, [tasks[i] EXCEPT !.at = "evicting", !.left = {p \in Pods : OnNode(p)}])
    <2>1. PICK t : t = [tasks[i] EXCEPT !.at = "evicting", !.left = {p \in Pods : OnNode(p)}]
      OBVIOUS
    <2>2. /\ IsOn(t, {"op", "at", "how", "left", "failed"}) /\ t.op = "drain" /\ t.how = None /\ t.at = "evicting"
          /\ t.left = {p \in Pods : OnNode(p)} /\ t.failed \subseteq Pods
      BY <1>1, <2>1, DrainGoesOn DEF IsOn
    <2>3. /\ i \notin node.lifted => node.cordoned
          /\ pods' \in [Pods -> {"waiting", "running", "terminating", "gone"}]
      BY <1>1 DEF Inv, TypeOK, ClusterOK, EvictsAll, machine
    <2>4. \A p \in Pods : pods'[p] = "running" => p \in t.left
      BY <1>1, <2>2 DEF OnNode, machine
    <2>5. QED
      BY <1>1, <1>2, <1>4, <2>1, <2>2, <2>3, <2>4, DrainMoves DEF machine
  <1>5. QED
    BY <1>3, <1>4 DEF DrainLists

\* A pod that leaves the list is a daemon's, terminates, or could not be evicted.
LEMMA DrainEvictsKeeps ==
    ASSUME Inv, NEW i \in DOMAIN tasks, DrainEvicts(i), UNCHANGED menu
    PROVE  Inv'
  <1>1. /\ UNCHANGED <<deployment, node, batch, window>> /\ tasks[i].op = "drain" /\ tasks[i].at = "evicting"
    BY DEF DrainEvicts
  <1>2. PICK p \in tasks[i].left :
           \/ p \in Daemons /\ Works /\ Task(i, [tasks[i] EXCEPT !.left = @ \ {p}]) /\ UNCHANGED pods
           \/ /\ p \notin Daemons /\ OnNode(p) /\ Works
              /\ pods' = [pods EXCEPT ![p] = "terminating"] /\ Task(i, [tasks[i] EXCEPT !.left = @ \ {p}])
           \/ /\ p \notin Daemons /\ (Fails \/ (~OnNode(p) /\ Works))
              /\ Refused(i, p) /\ UNCHANGED pods
    BY DEF DrainEvicts
  <1>3. BudgetOK'
    BY <1>2, BudgetStays DEF Inv, TypeOK
  <1>4. PICK failed, t : /\ Task(i, t) /\ t = [tasks[i] EXCEPT !.left = @ \ {p}, !.failed = failed]
                         /\ \/ p \in Daemons /\ UNCHANGED pods /\ failed = tasks[i].failed
                            \/ pods' = [pods EXCEPT ![p] = "terminating"] /\ failed = tasks[i].failed
                            \/ UNCHANGED pods /\ failed = tasks[i].failed \cup {p}
    <2>1. [tasks[i] EXCEPT !.left = @ \ {p}] = [tasks[i] EXCEPT !.left = @ \ {p}, !.failed = tasks[i].failed]
      BY <1>1, DrainGoesOn DEF IsOn
    <2>2. QED
      BY <1>2, <2>1 DEF Refused
  <1>5. /\ IsOn(t, {"op", "at", "how", "left", "failed"}) /\ t.op = "drain" /\ t.how = None /\ t.at = "evicting"
        /\ t.left = tasks[i].left \ {p} /\ t.failed = failed
    BY <1>1, <1>4, DrainGoesOn DEF IsOn
  <1>6. t.left \subseteq Pods /\ t.failed \subseteq Pods /\ p \in Pods
    BY <1>1, <1>4, <1>5, DrainGoesOn
  <1>7. pods \in [Pods -> {"waiting", "running", "terminating", "gone"}]
    BY DEF Inv, TypeOK, ClusterOK
  <1>8. /\ pods' \in [Pods -> {"waiting", "running", "terminating", "gone"}]
        /\ \A q \in Pods : pods'[q] = "running" => pods[q] = "running"
        /\ pods'[p] = "running" => p \in Daemons \cup failed
    BY <1>4, <1>6, <1>7
  <1>9. i \notin node.lifted =>
            /\ node.cordoned
            /\ \A q \in Pods : pods[q] = "running" => q \in Daemons \cup tasks[i].left \cup tasks[i].failed
    BY <1>1 DEF Inv, EvictsAll
  <1>10. tasks[i].failed \subseteq failed
    BY <1>4
  <1>11. i \notin node.lifted =>
            \A q \in Pods : pods'[q] = "running" => q \in Daemons \cup t.left \cup t.failed
    BY <1>5, <1>8, <1>9, <1>10
  <1>12. QED
    BY <1>1, <1>3, <1>4, <1>5, <1>6, <1>8, <1>9, <1>11, DrainMoves

LEMMA DrainEndsKeeps ==
    ASSUME Inv, NEW i \in DOMAIN tasks, DrainEnds(i), UNCHANGED menu
    PROVE  Inv'
  <1>1. /\ UNCHANGED <<deployment, machine, batch, window, budget>> /\ tasks[i].left = {}
        /\ tasks[i].op = "drain" /\ tasks[i].at = "evicting" /\ Ended(i, "applied", tasks[i].failed)
    BY DEF DrainEnds
  <1>2. PICK t : t = [op |-> "drain", at |-> "done", how |-> "applied", failed |-> tasks[i].failed]
    OBVIOUS
  <1>3. Task(i, t) /\ TaskOK(t)
    BY <1>1, <1>2, DrainGoesOn, TaskEnds DEF Inv, TypeOK
  <1>4. DOMAIN tasks' = DOMAIN tasks /\ tasks'[i] = t /\ \A j \in DOMAIN tasks \ {i} : tasks'[j] = tasks[j]
    BY <1>3, TaskMoves DEF Inv, TypeOK
  <1>5. ASSUME NEW j \in DOMAIN tasks PROVE EvictsAll(j)'
    <2>1. CASE j = i
      BY <1>1, <1>2, <1>4, <2>1 DEF Inv, EvictsAll, machine
    <2>2. CASE j # i
      BY <1>1, <1>4, <2>2 DEF Inv, EvictsAll, machine
    <2>3. QED
      BY <2>1, <2>2
  <1>6. QED
    BY <1>1, <1>2, <1>3, <1>5, MachineKeeps DEF Inv, TypeOK, ClusterOK, BudgetOK, machine

-----------------------------------------------------------------------------
(* What the user starts, and everybody else                                  *)

Started(o) == [k \in DOMAIN o \cup {"at", "how"} |->
                  IF k = "at" THEN "start" ELSE IF k = "how" THEN None ELSE o[k]]

LEMMA StartedIs ==
    ASSUME NEW o \in Ops
    PROVE  TaskOK(Started(o)) /\ Started(o).at = "start" /\ Started(o).how = None
  <1> DEFINE t == Started(o)
  <1>1. t.at = "start" /\ t.how = None /\ IsOn(t, DOMAIN o \cup {"at", "how"})
    BY DEF Started, IsOn
  <1>2. CASE o = [op |-> "edit"] \/ o = [op |-> "delete"]
    <2>1. DOMAIN o = {"op"} /\ t.op = o.op /\ t.op \in {"edit", "delete"}
      BY <1>2 DEF Started
    <2>2. Fields(t.op, t.at) = {} /\ t.at \in Stages(t.op)
      BY <1>1, <2>1 DEF Fields, Stages
    <2>3. DOMAIN o \cup {"at", "how"} = {"op", "at", "how"} \cup Fields(t.op, t.at)
      BY <2>1, <2>2
    <2>4. QED
      BY <1>1, <2>1, <2>2, <2>3 DEF TaskOK
  <1>3. CASE o = [op |-> "trigger", job |-> 0]
    <2>1. DOMAIN o = {"op", "job"} /\ t.op = "trigger" /\ t.job = 0
      BY <1>3 DEF Started
    <2>2. Fields(t.op, t.at) = {"job"} /\ t.at \in Stages(t.op)
      BY <1>1, <2>1 DEF Fields, Stages
    <2>3. DOMAIN o \cup {"at", "how"} = {"op", "at", "how"} \cup Fields(t.op, t.at)
      BY <2>1, <2>2
    <2>4. QED
      BY <1>1, <2>1, <2>2, <2>3, ClusterActionsAssumption DEF TaskOK
  <1>4. CASE o = [op |-> "drain", left |-> {}, failed |-> {}]
    <2>1. DOMAIN o = {"op", "left", "failed"} /\ t.op = "drain" /\ t.left = {} /\ t.failed = {}
      BY <1>4 DEF Started
    <2>2. Fields(t.op, t.at) = {"left", "failed"} /\ t.at \in Stages(t.op)
      BY <1>1, <2>1 DEF Fields, Stages
    <2>3. DOMAIN o \cup {"at", "how"} = {"op", "at", "how"} \cup Fields(t.op, t.at)
      BY <2>1, <2>2
    <2>4. QED
      BY <1>1, <2>1, <2>2, <2>3 DEF TaskOK
  <1>5. CASE \E p : o = [op |-> "merge", patch |-> p]
    <2>1. DOMAIN o = {"op", "patch"} /\ t.op = "merge"
      BY <1>5 DEF Started
    <2>2. Fields(t.op, t.at) = {"patch"} /\ t.at \in Stages(t.op)
      BY <1>1, <2>1 DEF Fields, Stages
    <2>3. DOMAIN o \cup {"at", "how"} = {"op", "at", "how"} \cup Fields(t.op, t.at)
      BY <2>1, <2>2
    <2>4. QED
      BY <1>1, <2>1, <2>2, <2>3 DEF TaskOK
  <1>6. CASE \E b \in BOOLEAN : o = [op |-> "cordon", on |-> b]
    <2>1. DOMAIN o = {"op", "on"} /\ t.op = "cordon" /\ t.on \in BOOLEAN
      BY <1>6 DEF Started
    <2>2. Fields(t.op, t.at) = {"on"} /\ t.at \in Stages(t.op)
      BY <1>1, <2>1 DEF Fields, Stages
    <2>3. DOMAIN o \cup {"at", "how"} = {"op", "at", "how"} \cup Fields(t.op, t.at)
      BY <2>1, <2>2
    <2>4. QED
      BY <1>1, <2>1, <2>2, <2>3 DEF TaskOK
  <1>7. CASE \E r : o = [op |-> "undo", revision |-> r, read |-> None, template |-> None]
    <2>1. DOMAIN o = {"op", "revision", "read", "template"} /\ t.op = "undo"
      BY <1>7 DEF Started
    <2>2. Fields(t.op, t.at) = {"revision", "read", "template"} /\ t.at \in Stages(t.op)
      BY <1>1, <2>1 DEF Fields, Stages
    <2>3. DOMAIN o \cup {"at", "how"} = {"op", "at", "how"} \cup Fields(t.op, t.at)
      BY <2>1, <2>2
    <2>4. QED
      BY <1>1, <2>1, <2>2, <2>3 DEF TaskOK
  <1>8. QED
    BY <1>1, <1>2, <1>3, <1>4, <1>5, <1>6, <1>7 DEF Ops

LEMMA StartKeeps ==
    ASSUME Inv, Start
    PROVE  Inv'
  <1>1. UNCHANGED <<deployment, machine, batch, window, budget, menu>> /\ Len(tasks) < MaxTasks
    BY DEF Start
  <1>2. PICK o \in Ops : tasks' = Append(tasks, Started(o))
    BY DEF Start, Started
  <1>3. PICK t : t = Started(o)
    OBVIOUS
  <1>4. TaskOK(t) /\ t.at = "start" /\ t.how = None
    BY <1>2, <1>3, StartedIs
  <1> DEFINE S == {tasks[i] : i \in DOMAIN tasks} \cup {t}
  <1>5. tasks \in Seq(S) /\ t \in S /\ Len(tasks) \in Nat
    <2>1. tasks \in Seq({tasks[i] : i \in DOMAIN tasks})
      BY DEF Inv, TypeOK, TasksOK
    <2>2. QED
      BY <2>1
  <1>6. /\ tasks' \in Seq(S) /\ Len(tasks') = Len(tasks) + 1 /\ tasks'[Len(tasks) + 1] = t
        /\ DOMAIN tasks' = 1..(Len(tasks) + 1) /\ DOMAIN tasks = 1..Len(tasks)
        /\ \A i \in DOMAIN tasks : tasks'[i] = tasks[i]
    <2> HIDE DEF S
    <2>1. QED
      BY <1>2, <1>3, <1>5
  <1>7. tasks' \in Seq({tasks'[i] : i \in DOMAIN tasks'})
    <2>1. tasks' \in [1..(Len(tasks) + 1) -> {tasks'[i] : i \in DOMAIN tasks'}]
      BY <1>5, <1>6
    <2>2. Len(tasks) + 1 \in Nat
      BY <1>5
    <2>3. QED
      BY <2>1, <2>2
  <1>8. \A i \in DOMAIN tasks' : i \in DOMAIN tasks \/ i = Len(tasks) + 1
    BY <1>5, <1>6
  <1>9. TasksOK'
    <2>1. \A i \in DOMAIN tasks' : TaskOK(tasks'[i])
      BY <1>4, <1>6, <1>8 DEF Inv, TypeOK, TasksOK
    <2>2. Len(tasks') <= MaxTasks
      BY <1>1, <1>5, <1>6, ClusterActionsAssumption
    <2>3. QED
      BY <1>7, <2>1, <2>2 DEF TasksOK
  <1>10. ClusterOK'
    <2>1. 1..Len(tasks) \subseteq 1..Len(tasks')
      BY <1>5, <1>6
    <2>2. node \in [cordoned : BOOLEAN, lifted : SUBSET (1..Len(tasks'))]
      BY <2>1 DEF Inv, TypeOK, ClusterOK
    <2>3. QED
      BY <1>1, <2>2 DEF Inv, TypeOK, ClusterOK, deployment, machine, batch, IsOn
  <1>11. ComparedIsThere'
    <2>1. ObjectMoves(None)
      BY <1>1, NothingMoves DEF Inv, TypeOK, deployment
    <2>2. NotStale(window, Win)'
      BY <1>1 DEF Inv, ComparedIsThere, NotStale, deployment
    <2>3. ASSUME NEW i \in DOMAIN tasks', tasks'[i].op = "edit" PROVE NotStale(tasks[i], i)'
      BY <1>1, <1>4, <1>6, <1>8, <2>3 DEF Inv, ComparedIsThere, NotStale, deployment
    <2>4. QED
      BY <2>2, <2>3 DEF ComparedIsThere
  <1>12. ASSUME NEW i \in DOMAIN tasks' PROVE EvictsAll(i)'
    BY <1>1, <1>4, <1>6, <1>8, ClusterActionsAssumption DEF Inv, EvictsAll, machine
  <1>13. QED
    BY <1>1, <1>9, <1>10, <1>11, <1>12 DEF Inv, TypeOK, WindowOK, BudgetOK, SavedIsRead

LEMMA OthersWriteKeeps ==
    ASSUME Inv, OthersWrite, UNCHANGED menu
    PROVE  Inv'
  <1>1. UNCHANGED <<revisions, machine, batch, tasks, window>> /\ Other /\ object # None
    BY DEF OthersWrite
  <1>2. BudgetOK'
    BY <1>1, BudgetStays DEF Inv, TypeOK
  <1>3. ObjectMoves(None)
    BY <1>1, WriteMoves DEF OthersWrite, Inv, TypeOK
  <1>4. ClusterOK'
    BY <1>1, <1>3 DEF ObjectMoves, Inv, TypeOK, ClusterOK, IsOn, machine, batch
  <1>5. QED
    BY <1>1, <1>2, <1>3, <1>4, OthersKeep DEF Inv, EvictsAll, machine

LEMMA RecreatedKeeps ==
    ASSUME Inv, Recreated, UNCHANGED menu
    PROVE  Inv'
  <1>1. /\ UNCHANGED <<machine, batch, tasks, window>> /\ Other /\ object' = Created(version + 1)
        /\ revisions' = [r \in {1} |-> Template(object')] /\ raced' = raced \cup Compared
    BY DEF Recreated
  <1>2. BudgetOK'
    BY <1>1, BudgetStays DEF Inv, TypeOK
  <1>3. ObjectMoves(None)
    BY <1>1, VersionedIs DEF ObjectMoves, Created
  <1>4. IsOn(revisions', DOMAIN revisions')
    BY <1>1 DEF IsOn
  <1>5. ClusterOK'
    BY <1>1, <1>3, <1>4 DEF ObjectMoves, Inv, TypeOK, ClusterOK, machine, batch
  <1>6. QED
    BY <1>1, <1>2, <1>3, <1>5, OthersKeep DEF Inv, EvictsAll, machine

LEMMA RollsOutKeeps ==
    ASSUME Inv, RollsOut, UNCHANGED menu
    PROVE  Inv'
  <1>1. UNCHANGED <<object, raced, machine, batch, tasks, window, budget>>
    BY DEF RollsOut
  <1>2. IsOn(revisions', DOMAIN revisions')
    BY DEF RollsOut, IsOn
  <1>3. ObjectMoves(None) /\ BudgetOK'
    BY <1>1, NothingMoves DEF Inv, TypeOK, BudgetOK
  <1>4. ClusterOK'
    BY <1>1, <1>2 DEF Inv, TypeOK, ClusterOK, machine, batch
  <1>5. QED
    BY <1>1, <1>3, <1>4, OthersKeep DEF Inv, EvictsAll, machine

\* The scheduler, pods that end, and whoever lifts the cordon.
LEMMA NodeKeeps ==
    ASSUME Inv, Schedules \/ PodEnds \/ OthersUncordon, UNCHANGED menu
    PROVE  Inv'
  <1>1. UNCHANGED <<deployment, batch, tasks, window>>
    BY DEF Schedules, PodEnds, OthersUncordon
  <1>2. ObjectMoves(None)
    BY <1>1, NothingMoves DEF Inv, TypeOK, deployment
  <1>3. CASE Schedules
    <2>1. PICK p \in Pods : /\ ~node.cordoned \/ p \in Daemons
                            /\ pods' = [pods EXCEPT ![p] = "running"]
      BY <1>3 DEF Schedules
    <2>2. UNCHANGED <<node, budget>>
      BY <1>3 DEF Schedules
    <2>3. pods \in [Pods -> {"waiting", "running", "terminating", "gone"}]
      BY DEF Inv, TypeOK, ClusterOK
    <2>4. ClusterOK' /\ BudgetOK'
      BY <1>1, <2>1, <2>2, <2>3 DEF Inv, TypeOK, ClusterOK, BudgetOK, deployment, batch, IsOn
    <2>5. \A q \in Pods : pods'[q] = "running" => pods[q] = "running" \/ ~node.cordoned \/ q \in Daemons
      BY <2>1, <2>3
    <2>6. \A j \in DOMAIN tasks : EvictsAll(j)'
      BY <1>1, <2>2, <2>5 DEF Inv, EvictsAll
    <2>7. QED
      BY <1>1, <1>2, <2>4, <2>6, OthersKeep
  <1>4. CASE OthersUncordon
    <2>1. UNCHANGED pods /\ Other /\ node' = [cordoned |-> FALSE, lifted |-> DOMAIN tasks]
      BY <1>4 DEF OthersUncordon
    <2>2. BudgetOK'
      BY <2>1, BudgetStays DEF Inv, TypeOK
    <2>3. ClusterOK'
      BY <1>1, <2>1 DEF Inv, TypeOK, TasksOK, ClusterOK, deployment, batch, IsOn
    <2>4. \A j \in DOMAIN tasks : EvictsAll(j)'
      BY <1>1, <2>1 DEF EvictsAll
    <2>5. QED
      BY <1>1, <1>2, <2>2, <2>3, <2>4, OthersKeep
  <1>5. CASE PodEnds
    <2>1. PICK p \in Pods : pods' = [pods EXCEPT ![p] = "gone"]
      BY <1>5 DEF PodEnds
    <2>2. UNCHANGED <<node, budget>>
      BY <1>5 DEF PodEnds
    <2>3. pods \in [Pods -> {"waiting", "running", "terminating", "gone"}]
      BY DEF Inv, TypeOK, ClusterOK
    <2>4. ClusterOK' /\ BudgetOK'
      BY <1>1, <2>1, <2>2, <2>3 DEF Inv, TypeOK, ClusterOK, BudgetOK, deployment, batch, IsOn
    <2>5. \A q \in Pods : pods'[q] = "running" => pods[q] = "running"
      BY <2>1, <2>3
    <2>6. \A j \in DOMAIN tasks : EvictsAll(j)'
      BY <1>1, <2>2, <2>5 DEF Inv, EvictsAll
    <2>7. QED
      BY <1>1, <1>2, <2>4, <2>6, OthersKeep
  <1>6. QED
    BY <1>3, <1>4, <1>5

LEMMA TicksKeeps ==
    ASSUME Inv, Ticks, UNCHANGED menu
    PROVE  Inv'
  <1>1. UNCHANGED <<deployment, machine, jobs, tasks, window, budget>> /\ clock' \in 0..MaxTasks
    BY ClusterActionsAssumption DEF Ticks, Inv, TypeOK, ClusterOK
  <1>2. ObjectMoves(None) /\ BudgetOK'
    BY <1>1, NothingMoves DEF Inv, TypeOK, BudgetOK, deployment
  <1>3. ClusterOK'
    BY <1>1 DEF Inv, TypeOK, ClusterOK, deployment, machine, IsOn
  <1>4. QED
    BY <1>1, <1>2, <1>3, OthersKeep DEF Inv, EvictsAll, machine

-----------------------------------------------------------------------------
(* The copy a rollback works on                                              *)

\* A step of the server gives the object a version it never had, takes it away
\* or leaves it alone.
ServerMoves ==
    \/ UNCHANGED <<object, version>>
    \/ object' = None /\ version' = version
    \/ version' = version + 1 /\ Version(object') = version'

\* What was read is older than the object, or the same.
IsCopy(doc) ==
    Version(doc) \in 0..version /\ (object # None /\ Version(object) = Version(doc) => doc = object)

Copies(i) == tasks[i].op = "undo" /\ tasks[i].at \in {"listing", "replacing"}

CopiesOK ==
    /\ version \in Nat /\ (object # None => Version(object) \in 0..version)
    /\ \A i \in DOMAIN tasks : Copies(i) => IsCopy(tasks[i].read)

LEMMA WriteIsNumbered ==
    ASSUME NEW doc, NEW by, Write(doc, by)
    PROVE  ServerMoves
  BY VersionedIs DEF Write, ServerMoves

LEMMA CreatedIs == ASSUME NEW n PROVE Version(Created(n)) = n
  BY VersionedIs DEF Created

LEMMA ApplyIsNumbered ==
    ASSUME NEW e, NEW by, NEW to, Apply(e, by, to)
    PROVE  ServerMoves
  <1>1. CASE ReadsLatest(e.base, e.patch, to) \/ Fetches(to)
    BY <1>1 DEF ReadsLatest, Fetches, deployment, ServerMoves
  <1>2. CASE Sends(e.patch, e.dry, by, to)
    BY <1>2, WriteIsNumbered DEF Sends, ServerMoves
  <1>3. QED
    BY <1>1, <1>2 DEF Apply

LEMMA ServerSteps == ASSUME [Next]_vars PROVE ServerMoves
  <1>1. CASE Window
    BY <1>1, ApplyIsNumbered DEF Window, OpenEditor, Type, Submit, Reload, CloseEditor, WindowRequest, WindowAnswered,
        deployment, ServerMoves
  <1>2. CASE Start
    BY <1>2 DEF Start, deployment, ServerMoves
  <1>3. ASSUME NEW i \in DOMAIN tasks, Runs(i) PROVE ServerMoves
    <2>1. CASE Editing(i)
      BY <2>1, ApplyIsNumbered DEF Editing, EditOpens, EditAborted, EditSaved, EditRequest, EditAnswered,
          deployment, ServerMoves
    <2>2. CASE Merges(i) \/ UndoReplaces(i)
      BY <2>2, WriteIsNumbered DEF Merges, UndoReplaces, deployment, ServerMoves
    <2>3. CASE Deletes(i)
      BY <2>3 DEF Deletes, deployment, ServerMoves
    <2>4. CASE SetsCordon(i) \/ UndoReads(i) \/ UndoLists(i) \/ Draining(i) \/ TriggerReads(i) \/ TriggerCreates(i)
      BY <2>4 DEF SetsCordon, UndoReads, UndoLists, Draining, DrainCordons, DrainLists, DrainEvicts, DrainEnds,
          TriggerReads, TriggerCreates, deployment, ServerMoves
    <2>5. QED
      BY <1>3, <2>1, <2>2, <2>3, <2>4 DEF Runs, Undoing
  <1>4. CASE Others
    <2>1. CASE OthersWrite
      BY <2>1, WriteIsNumbered DEF OthersWrite
    <2>2. CASE Recreated
      BY <2>2, CreatedIs DEF Recreated, ServerMoves
    <2>3. CASE RollsOut \/ Schedules \/ PodEnds \/ OthersUncordon \/ Ticks
      BY <2>3 DEF RollsOut, Schedules, PodEnds, OthersUncordon, Ticks, deployment, ServerMoves
    <2>4. QED
      BY <1>4, <2>1, <2>2, <2>3 DEF Others
  <1>5. CASE UNCHANGED vars
    BY <1>5 DEF vars, ServerMoves
  <1>6. QED
    BY <1>1, <1>2, <1>3, <1>4, <1>5 DEF Next

LEMMA CopyStaysOne ==
    ASSUME CopiesOK, ServerMoves, NEW doc, IsCopy(doc)
    PROVE  IsCopy(doc)'
  BY DEF CopiesOK, ServerMoves, IsCopy

\* What a task becomes: one of the same operation, whose copy, if it has one, is
\* the one it had or was read just now.
Becomes(i, t) ==
    /\ Task(i, t) /\ t.op = tasks[i].op
    /\ t.op = "undo" /\ t.at \in {"listing", "replacing"} =>
           \/ Copies(i) /\ t.read = tasks[i].read
           \/ object # None /\ UNCHANGED <<object, version>> /\ t.read = object

LEMMA EndedBecomes ==
    ASSUME NEW i \in DOMAIN tasks, NEW how, NEW failed, Ended(i, how, failed)
    PROVE  \E t : Becomes(i, t)
  <1>1. PICK t : t = [op |-> tasks[i].op, at |-> "done", how |-> how, failed |-> failed]
    OBVIOUS
  <1>2. Task(i, t) /\ t.op = tasks[i].op /\ t.at = "done"
    BY <1>1 DEF Ended, Task
  <1>3. QED
    BY <1>2 DEF Becomes

LEMMA RunsBecomes ==
    ASSUME Inv, NEW i \in DOMAIN tasks, Runs(i)
    PROVE  \E t : Becomes(i, t)
  <1>0. ASSUME NEW how, Done(i, how) PROVE \E t : Becomes(i, t)
    BY <1>0, EndedBecomes DEF Done
  <1>1. {"op", "at", "how"} \subseteq DOMAIN tasks[i] /\ IsOn(tasks[i], DOMAIN tasks[i])
    BY DEF Inv, TypeOK, TasksOK, TaskOK, IsOn
  <1>2. CASE EditOpens(i)
    <2>1. CASE Done(i, "error")
      BY <1>0, <2>1
    <2>2. CASE Task(i, [op |-> "edit", at |-> "editor", how |-> None, base |-> object,
                        current |-> object, noted |-> FALSE, patch |-> None, dry |-> FALSE])
      BY <1>2, <2>2 DEF EditOpens, Becomes
    <2>3. QED
      BY <1>2, <2>1, <2>2 DEF EditOpens
  <1>3. CASE EditAborted(i) \/ Merges(i) \/ Deletes(i) \/ SetsCordon(i) \/ UndoReplaces(i) \/ TriggerCreates(i)
    BY <1>0, <1>3 DEF EditAborted, Merges, Deletes, SetsCordon, UndoReplaces, TriggerCreates
  <1>4. CASE EditSaved(i)
    <2>1. PICK at, patch, current, t :
              /\ tasks[i].op = "edit" /\ Task(i, t)
              /\ \/ t = [tasks[i] EXCEPT !.at = at, !.patch = patch, !.current = current, !.noted = FALSE]
                 \/ t = [tasks[i] EXCEPT !.at = at, !.patch = patch, !.noted = FALSE]
      BY <1>4 DEF EditSaved
    <2>2. t.op = tasks[i].op
      BY <1>1, <2>1
    <2>3. QED
      BY <2>1, <2>2 DEF Becomes
  <1>5. CASE EditRequest(i)
    <2>1. PICK to, t : tasks[i].op = "edit" /\ Task(i, t) /\ t = [tasks[i] EXCEPT !.at = to]
      BY <1>5 DEF EditRequest
    <2>2. t.op = tasks[i].op
      BY <1>1, <2>1
    <2>3. QED
      BY <2>1, <2>2 DEF Becomes
  <1>6. CASE EditAnswered(i)
    <2>1. CASE Done(i, tasks[i].at)
      BY <1>0, <2>1
    <2>2. CASE Task(i, [tasks[i] EXCEPT !.at = "editor", !.noted = TRUE])
      <3>1. PICK t : t = [tasks[i] EXCEPT !.at = "editor", !.noted = TRUE]
        OBVIOUS
      <3>2. t.op = tasks[i].op /\ tasks[i].op = "edit"
        BY <1>1, <1>6, <3>1 DEF EditAnswered
      <3>3. QED
        BY <2>2, <3>1, <3>2 DEF Becomes
    <2>3. QED
      BY <1>6, <2>1, <2>2 DEF EditAnswered
  <1>7. CASE UndoReads(i)
    <2>1. CASE Done(i, "error")
      BY <1>0, <2>1
    <2>2. CASE object # None /\ Task(i, [tasks[i] EXCEPT !.at = "listing", !.read = object])
      <3>1. PICK t : t = [tasks[i] EXCEPT !.at = "listing", !.read = object]
        OBVIOUS
      <3>2. "read" \in DOMAIN tasks[i]
        <4>1. Fields("undo", "start") = {"revision", "read", "template"} /\ tasks[i].op = "undo" /\ tasks[i].at = "start"
          BY <1>7 DEF Fields, UndoReads
        <4>2. TaskOK(tasks[i])
          BY DEF Inv, TypeOK, TasksOK
        <4>3. QED
          BY <4>1, <4>2 DEF TaskOK, IsOn
      <3>3. t.op = tasks[i].op /\ t.read = object
        BY <1>1, <3>1, <3>2
      <3>4. UNCHANGED <<object, version>>
        BY <1>7 DEF UndoReads, deployment
      <3>5. QED
        BY <2>2, <3>1, <3>3, <3>4 DEF Becomes
    <2>3. QED
      BY <1>7, <2>1, <2>2 DEF UndoReads
  <1>8. CASE UndoLists(i)
    <2>1. CASE Done(i, "error")
      BY <1>0, <2>1
    <2>2. CASE \E template : Task(i, [tasks[i] EXCEPT !.at = "replacing", !.template = template])
      <3>1. PICK template, t : t = [tasks[i] EXCEPT !.at = "replacing", !.template = template] /\ Task(i, t)
        BY <2>2
      <3>2. "read" \in DOMAIN tasks[i] /\ Copies(i)
        <4>1. Fields("undo", "listing") = {"revision", "read", "template"} /\ tasks[i].op = "undo" /\ tasks[i].at = "listing"
          BY <1>8 DEF Fields, UndoLists
        <4>2. TaskOK(tasks[i])
          BY DEF Inv, TypeOK, TasksOK
        <4>3. QED
          BY <4>1, <4>2 DEF TaskOK, IsOn, Copies
      <3>3. t.op = tasks[i].op /\ t.read = tasks[i].read
        BY <1>1, <3>1, <3>2
      <3>4. QED
        BY <3>1, <3>2, <3>3 DEF Becomes
    <2>3. QED
      BY <1>8, <2>1, <2>2 DEF UndoLists
  <1>9. CASE DrainEnds(i)
    BY <1>9, EndedBecomes DEF DrainEnds
  <1>10. CASE DrainCordons(i) \/ DrainLists(i) \/ TriggerReads(i)
    <2>1. CASE Done(i, "error")
      BY <1>0, <2>1
    <2>2. CASE \E left, job : \/ Task(i, [tasks[i] EXCEPT !.at = "listing"])
                              \/ Task(i, [tasks[i] EXCEPT !.at = "evicting", !.left = left])
                              \/ Task(i, [tasks[i] EXCEPT !.at = "creating", !.job = job])
      <3>1. PICK left, job, t : /\ Task(i, t)
                                /\ \/ t = [tasks[i] EXCEPT !.at = "listing"]
                                   \/ t = [tasks[i] EXCEPT !.at = "evicting", !.left = left]
                                   \/ t = [tasks[i] EXCEPT !.at = "creating", !.job = job]
        BY <2>2
      <3>2. t.op = tasks[i].op /\ tasks[i].op # "undo"
        BY <1>1, <1>10, <3>1 DEF DrainCordons, DrainLists, TriggerReads
      <3>3. QED
        BY <3>1, <3>2 DEF Becomes
    <2>3. QED
      BY <1>10, <2>1, <2>2 DEF DrainCordons, DrainLists, TriggerReads
  <1>11. CASE DrainEvicts(i)
    <2>1. PICK p, t : /\ Task(i, t)
                      /\ \/ t = [tasks[i] EXCEPT !.left = @ \ {p}]
                         \/ t = [tasks[i] EXCEPT !.left = @ \ {p}, !.failed = @ \cup {p}]
      BY <1>11 DEF DrainEvicts, Refused
    <2>2. t.op = tasks[i].op /\ tasks[i].op # "undo"
      BY <1>1, <1>11, <2>1 DEF DrainEvicts
    <2>3. QED
      BY <2>1, <2>2 DEF Becomes
  <1>12. QED
    BY <1>2, <1>3, <1>4, <1>5, <1>6, <1>7, <1>8, <1>9, <1>10, <1>11 DEF Runs, Editing, Undoing, Draining

LEMMA CopiesNext == Inv /\ CopiesOK /\ [Next]_vars => CopiesOK'
  <1> SUFFICES ASSUME Inv, CopiesOK, [Next]_vars PROVE CopiesOK'
    OBVIOUS
  <1>1. ServerMoves
    BY ServerSteps
  <1>2. version' \in Nat /\ (object' # None => Version(object') \in 0..version')
    BY <1>1 DEF CopiesOK, ServerMoves
  <1>3. ASSUME UNCHANGED tasks PROVE \A i \in DOMAIN tasks' : Copies(i)' => IsCopy(tasks[i].read)'
    <2>1. ASSUME NEW i \in DOMAIN tasks, Copies(i) PROVE IsCopy(tasks[i].read)'
      <3>1. PICK doc : doc = tasks[i].read
        OBVIOUS
      <3>2. IsCopy(doc)'
        BY <1>1, <2>1, <3>1, CopyStaysOne DEF CopiesOK
      <3>3. QED
        BY <1>3, <3>1, <3>2
    <2>2. QED
      BY <1>3, <2>1 DEF Copies
  <1>4. CASE Start
    <2>1. PICK o \in Ops : tasks' = Append(tasks, Started(o))
      BY <1>4 DEF Start, Started
    <2>2. PICK t : t = Started(o)
      OBVIOUS
    <2>3. t.at = "start"
      BY <2>1, <2>2, StartedIs
    <2>4. tasks \in Seq({tasks[j] : j \in DOMAIN tasks})
      BY DEF Inv, TypeOK, TasksOK
    <2>5. ASSUME NEW i \in DOMAIN tasks' PROVE (i \in DOMAIN tasks /\ tasks'[i] = tasks[i]) \/ tasks'[i] = t
      BY <2>1, <2>2, <2>4
    <2>6. ASSUME NEW i \in DOMAIN tasks', Copies(i)' PROVE IsCopy(tasks[i].read)'
      <3>1. i \in DOMAIN tasks /\ tasks'[i] = tasks[i] /\ Copies(i)
        BY <2>3, <2>5, <2>6 DEF Copies
      <3>2. PICK doc : doc = tasks[i].read
        OBVIOUS
      <3>3. IsCopy(doc)'
        BY <1>1, <3>1, <3>2, CopyStaysOne DEF CopiesOK
      <3>4. QED
        BY <3>1, <3>2, <3>3
    <2>7. QED
      BY <1>2, <2>6 DEF CopiesOK
  <1>5. ASSUME NEW i \in DOMAIN tasks, Runs(i) PROVE CopiesOK'
    <2>1. PICK t : Becomes(i, t)
      BY <1>5, RunsBecomes
    <2>2. /\ DOMAIN tasks' = DOMAIN tasks /\ tasks'[i] = t
          /\ \A j \in DOMAIN tasks \ {i} : tasks'[j] = tasks[j]
      BY <2>1 DEF Becomes, Task, Inv, TypeOK, TasksOK
    <2>3. ASSUME NEW j \in DOMAIN tasks', Copies(j)' PROVE IsCopy(tasks[j].read)'
      <3>1. PICK doc : doc = tasks'[j].read
        OBVIOUS
      <3>2. \/ IsCopy(doc) /\ ServerMoves
            \/ doc = object /\ object # None /\ UNCHANGED <<object, version>>
        <4>0. \A k \in DOMAIN tasks : Copies(k) => IsCopy(tasks[k].read)
          BY DEF CopiesOK
        <4>1. CASE j = i
          <5>1. t.op = "undo" /\ t.at \in {"listing", "replacing"} /\ doc = t.read
            BY <2>2, <2>3, <3>1, <4>1 DEF Copies
          <5>2. \/ Copies(i) /\ doc = tasks[i].read
                \/ object # None /\ UNCHANGED <<object, version>> /\ doc = object
            BY <2>1, <5>1 DEF Becomes
          <5>3. QED
            BY <1>1, <4>0, <5>2
        <4>2. CASE j # i
          <5>1. j \in DOMAIN tasks /\ tasks'[j] = tasks[j]
            BY <2>2, <4>2
          <5>2. Copies(j) /\ doc = tasks[j].read
            BY <2>3, <3>1, <5>1 DEF Copies
          <5>3. QED
            BY <1>1, <4>0, <5>1, <5>2
        <4>3. QED
          BY <4>1, <4>2
      <3>3. IsCopy(doc)'
        BY <3>2, CopyStaysOne DEF IsCopy, CopiesOK
      <3>4. QED
        BY <3>1, <3>3
    <2>4. QED
      BY <1>2, <2>3 DEF CopiesOK
  <1>6. CASE Window
    BY <1>2, <1>3, <1>6 DEF Window, OpenEditor, Type, Submit, Reload, CloseEditor, WindowRequest, WindowAnswered,
        CopiesOK
  <1>7. CASE Others
    BY <1>2, <1>3, <1>7 DEF Others, OthersWrite, Recreated, RollsOut, Schedules, PodEnds, OthersUncordon, Ticks, CopiesOK
  <1>8. CASE UNCHANGED vars
    BY <1>2, <1>3, <1>8 DEF vars, CopiesOK
  <1>9. QED
    BY <1>4, <1>5, <1>6, <1>7, <1>8 DEF Next

LEMMA CopiesInit == Init => CopiesOK
  BY CreatedIs DEF Init, CopiesOK

\* A task changes in a step of its own.
LEMMA OnlyRunning ==
    ASSUME Inv, [Next]_vars, NEW i \in DOMAIN tasks, tasks'[i] # tasks[i]
    PROVE  Runs(i)
  <1>1. ~UNCHANGED tasks
    OBVIOUS
  <1>2. ~Window /\ ~Others /\ ~UNCHANGED vars
    BY <1>1 DEF Window, OpenEditor, Type, Submit, Reload, CloseEditor, WindowRequest, WindowAnswered,
        Others, OthersWrite, Recreated, RollsOut, Schedules, PodEnds, OthersUncordon, Ticks, vars
  <1>3. ~Start
    <2>1. SUFFICES ASSUME Start PROVE FALSE
      OBVIOUS
    <2>2. PICK t : tasks' = Append(tasks, t)
      BY <2>1 DEF Start
    <2>3. tasks \in Seq({tasks[j] : j \in DOMAIN tasks})
      BY DEF Inv, TypeOK, TasksOK
    <2>4. QED
      BY <2>2, <2>3
  <1>4. PICK j \in DOMAIN tasks : Runs(j)
    BY <1>2, <1>3 DEF Next
  <1>5. PICK t : Becomes(j, t)
    BY <1>4, RunsBecomes
  <1>6. j # i => tasks'[i] = tasks[i]
    BY <1>5 DEF Becomes, Task, Inv, TypeOK, TasksOK
  <1>7. QED
    BY <1>4, <1>6

\* A rollback that is accepted leaves the template of its revision and the
\* replicas that are there: what it read is what it replaces.
LEMMA ReplacesWhole ==
    ASSUME Inv, CopiesOK, [Next]_vars, NEW i \in DOMAIN tasks,
           tasks[i].op = "undo", tasks[i].at = "replacing", tasks'[i].how = "applied"
    PROVE  Template(object') = tasks[i].template /\ ValueAt(object', Replicas) = ValueAt(object, Replicas)
  <1>1. TaskOK(tasks[i])
    BY DEF Inv, TypeOK, TasksOK
  <1>2. tasks[i].how = None
    BY <1>1 DEF TaskOK
  <1>3. Runs(i)
    BY <1>2, OnlyRunning, ClusterActionsAssumption
  <1>4. UndoReplaces(i)
    BY <1>3 DEF Runs, Editing, EditOpens, EditAborted, EditSaved, EditRequest, EditAnswered, Merges, Deletes, SetsCordon,
        Undoing, UndoReads, UndoLists, Draining, DrainCordons, DrainLists, DrainEvicts, DrainEnds, TriggerReads, TriggerCreates
  <1>5. ~Done(i, "error")
    <2>1. SUFFICES ASSUME Done(i, "error") PROVE FALSE
      OBVIOUS
    <2>2. tasks'[i].how = "error"
      BY <2>1 DEF Done, Ended, Inv, TypeOK, TasksOK
    <2>3. QED
      BY <2>2
  <1>6. PICK doc : /\ doc = RolledBack(tasks[i].read, tasks[i].template)
                   /\ Accepts(doc) /\ Write(doc, i)
    BY <1>4, <1>5 DEF UndoReplaces
  <1>7. /\ Template(doc) = tasks[i].template /\ Version(doc) = Version(tasks[i].read)
        /\ ValueAt(doc, Replicas) = ValueAt(tasks[i].read, Replicas)
    BY <1>6, RolledBackIs
  <1>8. tasks[i].read = object
    BY <1>6, <1>7 DEF CopiesOK, Copies, IsCopy, Accepts
  <1>9. Template(object') = Template(doc) /\ ValueAt(object', Replicas) = ValueAt(doc, Replicas)
    BY <1>6, VersionedIs DEF Write
  <1>10. QED
    BY <1>7, <1>8, <1>9

-----------------------------------------------------------------------------
(* The documents stay documents                                              *)

WindowDocs(w) ==
    /\ w.at # "idle" => w.open
    /\ w.open => IsDoc(w.base) /\ IsDoc(w.draft)
    /\ w.at \in {"reading", "patching"} => IsPatch(w.patch)

\* What an edit sends is what it changed of what it read.
TaskDocs(t) ==
    /\ t.op = "edit" /\ t.at \notin {"start", "done"} => IsDoc(t.base) /\ IsDoc(t.current)
    /\ t.op = "edit" /\ t.at \in {"reading", "patching"} =>
           t.patch = Stripped(Diff(t.base, t.current)) /\ Identity(t.base) = Identity(t.current)
    /\ t.op = "merge" /\ t.at = "start" => IsPatch(t.patch)
    /\ t.op = "undo" /\ t.at \in {"listing", "replacing"} => IsDoc(t.read)
    /\ t.op = "undo" /\ t.at = "replacing" => IsTemplate(t.template)

DocsOK ==
    /\ object # None => IsDoc(object)
    /\ \A r \in DOMAIN revisions : IsTemplate(revisions[r])
    /\ WindowDocs(window)
    /\ \A i \in DOMAIN tasks : TaskDocs(tasks[i])

LEMMA EditIsPatch ==
    ASSUME MaxDepth >= 3, NEW b, NEW e, IsDoc(b), IsDoc(e)
    PROVE  IsPatch(Stripped(Diff(b, e)))
  BY DiffOfDocs, StrippedIs

LEMMA AskedIs ==
    ASSUME NEW b, NEW e
    PROVE  /\ Asked(b, e).at \in {"error", "unchanged", "reading"}
           /\ Asked(b, e).at = "reading" => Asked(b, e).patch = Stripped(Diff(b, e)) /\ Identity(b) = Identity(e)
  BY DEF Asked

LEMMA TemplateOfDoc ==
    ASSUME NEW d, IsDoc(d)
    PROVE  IsTemplate(Template(d))
  BY PathsAre DEF IsDoc, IsSpec

LEMMA WriteKeepsDoc ==
    ASSUME NEW doc, NEW by, IsDoc(doc), Write(doc, by), object # None => IsDoc(object)
    PROVE  object' # None => IsDoc(object')
  BY VersionedDoc DEF Write

\* What a request does to the documents
LEMMA ApplyKeepsDoc ==
    ASSUME MaxDepth >= 3, NEW e, NEW by, NEW to, Apply(e, by, to), object # None => IsDoc(object),
           e.at \in {"reading", "patching"} => IsPatch(e.patch)
    PROVE  /\ UNCHANGED revisions /\ (object' # None => IsDoc(object'))
           /\ to \in {"patching", "fetching", "unchanged", "applied", "error"} /\ (to = "patching" => e.at = "reading")
           /\ to = "applied" => object # None /\ object' = object
           /\ e.at \in {"reading", "patching", "fetching"}
  <1>1. CASE e.at = "reading" /\ ReadsLatest(e.base, e.patch, to)
    BY <1>1 DEF ReadsLatest, Checked, deployment
  <1>2. CASE e.at = "patching" /\ Sends(e.patch, e.dry, by, to)
    <2>1. CASE object # None /\ Write(Patched(object, e.patch), by) /\ to = "fetching"
      <3>1. IsDoc(Patched(object, e.patch))
        BY <1>2, <2>1, PatchedDoc
      <3>2. QED
        BY <1>2, <2>1, <3>1, WriteKeepsDoc DEF Sends
    <2>2. CASE UNCHANGED object /\ to \in {"unchanged", "error"}
      BY <1>2, <2>2 DEF Sends
    <2>3. QED
      BY <1>2, <2>1, <2>2 DEF Sends
  <1>3. CASE e.at = "fetching" /\ Fetches(to)
    BY <1>3 DEF Fetches, deployment
  <1>4. QED
    BY <1>1, <1>2, <1>3 DEF Apply

LEMMA WindowStepDocs ==
    ASSUME MaxDepth >= 3, Inv, DocsOK, Window
    PROVE  UNCHANGED revisions /\ (object' # None => IsDoc(object')) /\ WindowDocs(window')
  <1>1. IsOn(window, {"open", "base", "saved", "draft", "at", "dry", "patch", "late"})
    BY DEF Inv, TypeOK, WindowOK
  <1>2. WindowDocs(window) /\ (object # None => IsDoc(object))
    BY DEF DocsOK
  <1>3. ASSUME object # None, window' = Seeded(window) PROVE WindowDocs(window')
    <2>1. window'.at = "idle" /\ window'.base = object /\ window'.draft = object
      BY <1>1, <1>3 DEF Seeded, IsOn
    <2>2. QED
      BY <1>2, <1>3, <2>1 DEF WindowDocs
  <1>4. CASE OpenEditor \/ Reload
    BY <1>2, <1>3, <1>4 DEF OpenEditor, Reload, deployment
  <1>5. CASE CloseEditor
    BY <1>2, <1>5 DEF CloseEditor, Closed, WindowDocs, deployment
  <1>6. CASE Type
    <2>1. PICK d \in Drafts(window.draft) : window' = [window EXCEPT !.draft = d, !.late = @ \/ window.at # "idle"]
      BY <1>6 DEF Type
    <2>2. window.open /\ UNCHANGED <<object, revisions>>
      BY <1>6 DEF Type, deployment
    <2>3. /\ window'.at = window.at /\ window'.open = window.open /\ window'.base = window.base
          /\ window'.draft = d /\ window'.patch = window.patch
      BY <1>1, <2>1 DEF IsOn
    <2>4. IsDoc(d)
      BY <1>2, <2>1, <2>2, DraftsAreDocs DEF WindowDocs
    <2>5. QED
      BY <1>2, <2>2, <2>3, <2>4 DEF WindowDocs
  <1>7. CASE Submit(TRUE) \/ Submit(FALSE)
    <2>1. PICK dry, asked : asked = Asked(window.base, window.draft)
                            /\ window' = [window EXCEPT !.at = asked.at, !.patch = asked.patch, !.dry = dry]
      BY <1>7 DEF Submit
    <2>2. window.open /\ UNCHANGED <<object, revisions>>
      BY <1>7 DEF Submit, deployment
    <2>3. /\ window'.at = asked.at /\ window'.open = window.open /\ window'.base = window.base
          /\ window'.draft = window.draft /\ window'.patch = asked.patch
      BY <1>1, <2>1 DEF IsOn
    <2>4. /\ asked.at \in {"error", "unchanged", "reading"}
          /\ asked.at = "reading" => asked.patch = Stripped(Diff(window.base, window.draft))
      BY <2>1, AskedIs
    <2>5. IsPatch(Stripped(Diff(window.base, window.draft)))
      BY <1>2, <2>2, EditIsPatch DEF WindowDocs
    <2>6. QED
      BY <1>2, <2>2, <2>3, <2>4, <2>5 DEF WindowDocs
  <1>8. CASE WindowRequest
    <2>1. PICK to : /\ Apply(window, Win, to)
                    /\ window' = IF to = "applied" THEN Seeded(window) ELSE [window EXCEPT !.at = to]
      BY <1>8 DEF WindowRequest
    <2>2. /\ UNCHANGED revisions /\ (object' # None => IsDoc(object'))
          /\ to \in {"patching", "fetching", "unchanged", "applied", "error"} /\ (to = "patching" => window.at = "reading")
          /\ to = "applied" => object # None
          /\ window.at \in {"reading", "patching", "fetching"}
      BY <1>2, <2>1, ApplyKeepsDoc DEF WindowDocs
    <2>3. CASE to = "applied"
      BY <1>3, <2>1, <2>2, <2>3
    <2>4. CASE to # "applied"
      <3>1. /\ window'.at = to /\ window'.open = window.open /\ window'.base = window.base
            /\ window'.draft = window.draft /\ window'.patch = window.patch
        BY <1>1, <2>1, <2>4 DEF IsOn
      <3>2. QED
        BY <1>2, <2>2, <3>1 DEF WindowDocs
    <2>5. QED
      BY <2>3, <2>4
  <1>9. CASE WindowAnswered
    <2>1. window'.at = "idle" /\ window'.open = window.open /\ window'.base = window.base /\ window'.draft = window.draft
      BY <1>1, <1>9 DEF WindowAnswered, Answered, IsOn
    <2>2. QED
      BY <1>2, <1>9, <2>1 DEF WindowAnswered, WindowDocs, deployment
  <1>10. QED
    BY <1>4, <1>5, <1>6, <1>7, <1>8, <1>9 DEF Window

\* What a task becomes
Moves(i) == \E t : Task(i, t) /\ TaskDocs(t)

LEMMA EndedDocs ==
    ASSUME NEW i \in DOMAIN tasks, NEW how, NEW failed, Ended(i, how, failed)
    PROVE  Moves(i)
  <1>1. PICK t : t = [op |-> tasks[i].op, at |-> "done", how |-> how, failed |-> failed]
    OBVIOUS
  <1>2. Task(i, t) /\ t.at = "done"
    BY <1>1 DEF Ended, Task
  <1>3. TaskDocs(t)
    BY <1>2 DEF TaskDocs
  <1>4. QED
    BY <1>2, <1>3 DEF Moves

LEMMA EditingDocs ==
    ASSUME MaxDepth >= 3, Inv, DocsOK, NEW i \in DOMAIN tasks, Editing(i)
    PROVE  UNCHANGED revisions /\ (object' # None => IsDoc(object')) /\ Moves(i)
  <1>0. ASSUME NEW how, Done(i, how) PROVE Moves(i)
    BY <1>0, EndedDocs DEF Done
  <1>1. TaskDocs(tasks[i]) /\ (object # None => IsDoc(object))
    BY DEF DocsOK
  <1>2. ASSUME tasks[i].op = "edit", tasks[i].at \notin {"start", "done"}
        PROVE  IsOn(tasks[i], {"op", "at", "how", "base", "current", "noted", "patch", "dry"})
    BY <1>2, EditGoesOn
  <1>3. CASE EditOpens(i)
    <2>1. UNCHANGED <<object, revisions>>
      BY <1>3 DEF EditOpens, deployment
    <2>2. CASE Done(i, "error")
      BY <1>0, <1>1, <2>1, <2>2
    <2>3. CASE object # None /\ Task(i, [op |-> "edit", at |-> "editor", how |-> None, base |-> object,
                                        current |-> object, noted |-> FALSE, patch |-> None, dry |-> FALSE])
      <3>1. TaskDocs([op |-> "edit", at |-> "editor", how |-> None, base |-> object,
                      current |-> object, noted |-> FALSE, patch |-> None, dry |-> FALSE])
        BY <1>1, <2>3 DEF TaskDocs
      <3>2. QED
        BY <1>1, <2>1, <2>3, <3>1 DEF Moves
    <2>4. QED
      BY <1>3, <2>2, <2>3 DEF EditOpens
  <1>4. CASE EditAborted(i)
    BY <1>0, <1>1, <1>4 DEF EditAborted, deployment
  <1>5. CASE EditSaved(i)
    <2>1. UNCHANGED <<object, revisions>> /\ tasks[i].op = "edit" /\ tasks[i].at = "editor"
      BY <1>5 DEF EditSaved, deployment
    <2>2. IsDoc(tasks[i].base) /\ IsDoc(tasks[i].current)
      BY <1>1, <2>1 DEF TaskDocs
    <2>3. PICK d, asked, t :
              /\ IsDoc(d) /\ asked = Asked(tasks[i].base, d) /\ Task(i, t)
              /\ \/ t = [tasks[i] EXCEPT !.at = asked.at, !.patch = asked.patch, !.current = d, !.noted = FALSE]
                 \/ d = tasks[i].current /\ t = [tasks[i] EXCEPT !.at = asked.at, !.patch = asked.patch, !.noted = FALSE]
      BY <1>5, <2>2, DraftsAreDocs DEF EditSaved
    <2>4. t.op = "edit" /\ t.at = asked.at /\ t.patch = asked.patch /\ t.base = tasks[i].base /\ t.current = d
      BY <1>2, <2>1, <2>3 DEF IsOn
    <2>5. TaskDocs(t)
      BY <2>2, <2>3, <2>4, AskedIs DEF TaskDocs
    <2>6. QED
      BY <1>1, <2>1, <2>3, <2>5 DEF Moves
  <1>6. CASE EditRequest(i)
    <2>1. PICK to, t : Apply(tasks[i], i, to) /\ Task(i, t) /\ t = [tasks[i] EXCEPT !.at = to] /\ tasks[i].op = "edit"
      BY <1>6 DEF EditRequest
    <2>2. tasks[i].at \in {"reading", "patching"} => IsPatch(tasks[i].patch)
      BY <1>1, <2>1, EditIsPatch DEF TaskDocs
    <2>3. /\ UNCHANGED revisions /\ (object' # None => IsDoc(object'))
          /\ to \in {"patching", "fetching", "unchanged", "applied", "error"} /\ (to = "patching" => tasks[i].at = "reading")
          /\ tasks[i].at \in {"reading", "patching", "fetching"}
      BY <1>1, <2>1, <2>2, ApplyKeepsDoc
    <2>4. /\ t.op = "edit" /\ t.at = to /\ t.patch = tasks[i].patch /\ t.base = tasks[i].base
          /\ t.current = tasks[i].current
      BY <1>2, <2>1, <2>3 DEF IsOn
    <2>5. TaskDocs(t)
      BY <1>1, <2>1, <2>3, <2>4 DEF TaskDocs
    <2>6. QED
      BY <2>1, <2>3, <2>5 DEF Moves
  <1>7. CASE EditAnswered(i)
    <2>1. UNCHANGED <<object, revisions>> /\ tasks[i].op = "edit"
      BY <1>7 DEF EditAnswered, deployment
    <2>2. CASE Done(i, tasks[i].at)
      BY <1>0, <1>1, <2>1, <2>2
    <2>3. CASE tasks[i].at = "error" /\ Task(i, [tasks[i] EXCEPT !.at = "editor", !.noted = TRUE])
      <3>1. PICK t : t = [tasks[i] EXCEPT !.at = "editor", !.noted = TRUE] /\ Task(i, t)
        BY <2>3
      <3>2. t.op = "edit" /\ t.at = "editor" /\ t.base = tasks[i].base /\ t.current = tasks[i].current
        BY <1>2, <2>1, <2>3, <3>1 DEF IsOn
      <3>3. TaskDocs(t)
        BY <1>1, <2>1, <2>3, <3>2 DEF TaskDocs
      <3>4. QED
        BY <1>1, <2>1, <3>1, <3>3 DEF Moves
    <2>4. QED
      BY <1>7, <2>2, <2>3 DEF EditAnswered
  <1>8. QED
    BY <1>3, <1>4, <1>5, <1>6, <1>7 DEF Editing

LEMMA UndoingDocs ==
    ASSUME Inv, DocsOK, NEW i \in DOMAIN tasks, Undoing(i)
    PROVE  UNCHANGED revisions /\ (object' # None => IsDoc(object')) /\ Moves(i)
  <1>0. ASSUME NEW how, Done(i, how) PROVE Moves(i)
    BY <1>0, EndedDocs DEF Done
  <1>1. TaskDocs(tasks[i]) /\ (object # None => IsDoc(object)) /\ \A r \in DOMAIN revisions : IsTemplate(revisions[r])
    BY DEF DocsOK
  <1>2. ASSUME tasks[i].op = "undo", tasks[i].at # "done"
        PROVE  IsOn(tasks[i], {"op", "at", "how", "revision", "read", "template"})
    <2>1. TaskOK(tasks[i])
      BY DEF Inv, TypeOK, TasksOK
    <2>2. {"op", "at", "how"} \cup Fields("undo", tasks[i].at) = {"op", "at", "how", "revision", "read", "template"}
      BY <1>2 DEF Fields
    <2>3. QED
      BY <1>2, <2>1, <2>2 DEF TaskOK
  <1>3. CASE UndoReads(i)
    <2>1. UNCHANGED <<object, revisions>> /\ tasks[i].op = "undo" /\ tasks[i].at = "start"
      BY <1>3 DEF UndoReads, deployment
    <2>2. CASE Done(i, "error")
      BY <1>0, <1>1, <2>1, <2>2
    <2>3. CASE object # None /\ Task(i, [tasks[i] EXCEPT !.at = "listing", !.read = object])
      <3>1. PICK t : t = [tasks[i] EXCEPT !.at = "listing", !.read = object] /\ Task(i, t)
        BY <2>3
      <3>2. t.op = "undo" /\ t.at = "listing" /\ t.read = object
        BY <1>2, <2>1, <3>1 DEF IsOn
      <3>3. TaskDocs(t)
        BY <1>1, <2>3, <3>2 DEF TaskDocs
      <3>4. QED
        BY <1>1, <2>1, <3>1, <3>3 DEF Moves
    <2>4. QED
      BY <1>3, <2>2, <2>3 DEF UndoReads
  <1>4. CASE UndoLists(i)
    <2>1. UNCHANGED <<object, revisions>> /\ tasks[i].op = "undo" /\ tasks[i].at = "listing"
      BY <1>4 DEF UndoLists, deployment
    <2>2. CASE Done(i, "error")
      BY <1>0, <1>1, <2>1, <2>2
    <2>3. CASE \E r \in DOMAIN revisions : Task(i, [tasks[i] EXCEPT !.at = "replacing", !.template = revisions[r]])
      <3>1. PICK r, t :
               r \in DOMAIN revisions /\ t = [tasks[i] EXCEPT !.at = "replacing", !.template = revisions[r]] /\ Task(i, t)
        BY <2>3
      <3>2. t.op = "undo" /\ t.at = "replacing" /\ t.read = tasks[i].read /\ t.template = revisions[r]
        BY <1>2, <2>1, <3>1 DEF IsOn
      <3>3. TaskDocs(t)
        BY <1>1, <2>1, <3>1, <3>2 DEF TaskDocs
      <3>4. QED
        BY <1>1, <2>1, <3>1, <3>3 DEF Moves
    <2>4. QED
      BY <1>4, <2>2, <2>3 DEF UndoLists
  <1>5. CASE UndoReplaces(i)
    <2>1. Moves(i)
      BY <1>0, <1>5 DEF UndoReplaces
    <2>2. CASE UNCHANGED deployment
      BY <1>1, <2>1, <2>2 DEF deployment
    <2>3. CASE Write(RolledBack(tasks[i].read, tasks[i].template), i) /\ UNCHANGED revisions
      <3>1. IsDoc(RolledBack(tasks[i].read, tasks[i].template))
        BY <1>1, <1>5, RolledBackDoc DEF UndoReplaces, TaskDocs
      <3>2. QED
        BY <1>1, <2>1, <2>3, <3>1, WriteKeepsDoc
    <2>4. QED
      BY <1>5, <2>2, <2>3 DEF UndoReplaces
  <1>6. QED
    BY <1>3, <1>4, <1>5 DEF Undoing

LEMMA RunsDocs ==
    ASSUME MaxDepth >= 3, Inv, DocsOK, NEW i \in DOMAIN tasks, Runs(i)
    PROVE  /\ object' # None => IsDoc(object')
           /\ \A r \in DOMAIN revisions' : IsTemplate(revisions'[r])
           /\ UNCHANGED window /\ Moves(i)
  <1>0. ASSUME NEW how, NEW failed, Ended(i, how, failed) PROVE Moves(i)
    BY <1>0, EndedDocs
  <1>1. TaskDocs(tasks[i]) /\ (object # None => IsDoc(object)) /\ \A r \in DOMAIN revisions : IsTemplate(revisions[r])
    BY DEF DocsOK
  <1>2. CASE Editing(i) \/ Undoing(i)
    <2>1. UNCHANGED window
      BY <1>2 DEF Editing, EditOpens, EditAborted, EditSaved, EditRequest, EditAnswered, Undoing, UndoReads, UndoLists, UndoReplaces
    <2>2. QED
      BY <1>1, <1>2, <2>1, EditingDocs, UndoingDocs
  <1>3. CASE Merges(i)
    <2>1. Moves(i) /\ UNCHANGED window
      BY <1>0, <1>3 DEF Merges, Done
    <2>2. CASE UNCHANGED deployment
      BY <1>1, <2>1, <2>2 DEF deployment
    <2>3. CASE object # None /\ Write(Patched(object, tasks[i].patch), i) /\ UNCHANGED revisions
      <3>1. IsDoc(Patched(object, tasks[i].patch))
        BY <1>1, <1>3, <2>3, PatchedDoc DEF Merges, TaskDocs
      <3>2. QED
        BY <1>1, <2>1, <2>3, <3>1, WriteKeepsDoc
    <2>4. QED
      BY <1>3, <2>2, <2>3 DEF Merges
  <1>4. CASE Deletes(i)
    BY <1>0, <1>1, <1>4 DEF Deletes, Done, deployment
  <1>5. CASE SetsCordon(i) \/ TriggerCreates(i) \/ DrainEnds(i)
    BY <1>0, <1>1, <1>5 DEF SetsCordon, TriggerCreates, DrainEnds, Done, deployment
  <1>6. CASE DrainCordons(i) \/ DrainLists(i) \/ DrainEvicts(i) \/ TriggerReads(i)
    <2>1. UNCHANGED <<object, revisions, window>> /\ tasks[i].op \in {"drain", "trigger"}
      BY <1>6 DEF DrainCordons, DrainLists, DrainEvicts, TriggerReads, deployment
    <2>2. PICK t : Becomes(i, t)
      BY RunsBecomes
    <2>3. Task(i, t) /\ TaskDocs(t)
      BY <2>1, <2>2 DEF Becomes, TaskDocs
    <2>4. QED
      BY <1>1, <2>1, <2>3 DEF Moves
  <1>7. QED
    BY <1>2, <1>3, <1>4, <1>5, <1>6 DEF Runs, Draining

LEMMA StartDocs ==
    ASSUME NEW o \in Ops
    PROVE  TaskDocs(Started(o))
  <1> DEFINE t == Started(o)
  <1>1. t.at = "start"
    BY StartedIs
  <1>2. CASE \E p \in MergePatches : o = [op |-> "merge", patch |-> p]
    <2>1. PICK p \in MergePatches : o = [op |-> "merge", patch |-> p]
      BY <1>2
    <2>2. t.op = "merge" /\ t.patch = p
      BY <2>1 DEF Started
    <2>3. QED
      BY <1>1, <2>1, <2>2, MergesArePatches DEF TaskDocs
  <1>3. CASE o.op # "merge" /\ "op" \in DOMAIN o
    <2>1. t.op = o.op
      BY <1>3 DEF Started
    <2>2. QED
      BY <1>1, <1>3, <2>1 DEF TaskDocs
  <1>4. QED
    BY <1>2, <1>3 DEF Ops

LEMMA OthersDocs ==
    ASSUME DocsOK, Others
    PROVE  /\ object' # None => IsDoc(object')
           /\ \A r \in DOMAIN revisions' : IsTemplate(revisions'[r])
           /\ UNCHANGED <<tasks, window>>
  <1>1. (object # None => IsDoc(object)) /\ \A r \in DOMAIN revisions : IsTemplate(revisions[r])
    BY DEF DocsOK
  <1>2. CASE OthersWrite
    <2>1. PICK d \in {SetAt(object, Image, Leaf(3)), SetAt(object, Replicas, Leaf(3)), SetAt(object, <<"status">>, Leaf(0))} :
              Write(d, None)
      BY <1>2 DEF OthersWrite
    <2>2. object # None /\ UNCHANGED <<revisions, tasks, window>>
      BY <1>2 DEF OthersWrite
    <2>3. ~IsObj(Leaf(3)) /\ Leaf(3) \notin {Null, Absent} /\ ~IsObj(Leaf(0)) /\ Leaf(0) \notin {Null, Absent}
      BY LeavesAre
    <2>4. IsDoc(d)
      BY <1>1, <2>1, <2>2, <2>3, SetAtDoc
    <2>5. QED
      BY <1>1, <2>1, <2>2, <2>4, WriteKeepsDoc
  <1>3. CASE Recreated
    <2>1. /\ object' = Created(version + 1) /\ revisions' = [r \in {1} |-> Template(object')]
          /\ UNCHANGED <<tasks, window>>
      BY <1>3 DEF Recreated
    <2>2. IsDoc(object') /\ IsTemplate(Template(object'))
      BY <2>1, CreatedDoc, TemplateOfDoc
    <2>3. \A r \in DOMAIN revisions' : revisions'[r] = Template(object')
      BY <2>1
    <2>4. QED
      BY <2>1, <2>2, <2>3
  <1>4. CASE RollsOut
    <2>1. UNCHANGED <<object, tasks, window>> /\ object # None
      BY <1>4 DEF RollsOut
    <2>2. \A r \in DOMAIN revisions' : revisions'[r] = Template(object) \/ \E s \in DOMAIN revisions : revisions'[r] = revisions[s]
      BY <1>4 DEF RollsOut
    <2>3. QED
      BY <1>1, <2>1, <2>2, TemplateOfDoc
  <1>5. CASE Schedules \/ PodEnds \/ OthersUncordon \/ Ticks
    BY <1>1, <1>5 DEF Schedules, PodEnds, OthersUncordon, Ticks, deployment
  <1>6. QED
    BY <1>2, <1>3, <1>4, <1>5 DEF Others

LEMMA DocsInit == Init => DocsOK
  <1> SUFFICES ASSUME Init PROVE DocsOK
    OBVIOUS
  <1>1. IsDoc(object) /\ IsTemplate(Template(object))
    BY CreatedDoc, TemplateOfDoc DEF Init
  <1>2. \A r \in DOMAIN revisions : revisions[r] = Template(object)
    BY DEF Init
  <1>3. WindowDocs(window) /\ DOMAIN tasks = {}
    BY DEF Init, Closed, WindowDocs
  <1>4. QED
    BY <1>1, <1>2, <1>3 DEF DocsOK

LEMMA DocsNext ==
    ASSUME MaxDepth >= 3
    PROVE  Inv /\ DocsOK /\ [Next]_vars => DocsOK'
  <1> SUFFICES ASSUME Inv, DocsOK, [Next]_vars PROVE DocsOK'
    OBVIOUS
  <1>1. CASE Window
    <2>1. UNCHANGED tasks
      BY <1>1 DEF Window, OpenEditor, Type, Submit, Reload, CloseEditor, WindowRequest, WindowAnswered
    <2>2. QED
      BY <1>1, <2>1, WindowStepDocs DEF DocsOK
  <1>2. CASE Start
    <2>1. PICK o \in Ops : tasks' = Append(tasks, Started(o))
      BY <1>2 DEF Start, Started
    <2>2. PICK t : t = Started(o) /\ TaskDocs(t)
      BY StartDocs
    <2>3. tasks \in Seq({tasks[j] : j \in DOMAIN tasks})
      BY DEF Inv, TypeOK, TasksOK
    <2>4. ASSUME NEW i \in DOMAIN tasks' PROVE (i \in DOMAIN tasks /\ tasks'[i] = tasks[i]) \/ tasks'[i] = t
      BY <2>1, <2>2, <2>3
    <2>5. \A i \in DOMAIN tasks' : TaskDocs(tasks'[i])
      BY <2>2, <2>4 DEF DocsOK
    <2>6. QED
      BY <1>2, <2>5 DEF Start, DocsOK, deployment
  <1>3. ASSUME NEW i \in DOMAIN tasks, Runs(i) PROVE DocsOK'
    <2>1. /\ object' # None => IsDoc(object')
          /\ \A r \in DOMAIN revisions' : IsTemplate(revisions'[r])
          /\ UNCHANGED window /\ Moves(i)
      BY <1>3, RunsDocs
    <2>2. PICK t : Task(i, t) /\ TaskDocs(t)
      BY <2>1 DEF Moves
    <2>3. DOMAIN tasks' = DOMAIN tasks /\ tasks'[i] = t /\ \A j \in DOMAIN tasks \ {i} : tasks'[j] = tasks[j]
      BY <2>2 DEF Task, Inv, TypeOK, TasksOK
    <2>4. \A j \in DOMAIN tasks' : TaskDocs(tasks'[j])
      BY <2>2, <2>3 DEF DocsOK
    <2>5. QED
      BY <2>1, <2>4 DEF DocsOK
  <1>4. CASE Others
    BY <1>4, OthersDocs DEF DocsOK
  <1>5. CASE UNCHANGED vars
    BY <1>5 DEF vars, DocsOK
  <1>6. QED
    BY <1>1, <1>2, <1>3, <1>4, <1>5 DEF Next

LEMMA PutChange ==
    ASSUME NEW b, NEW e, NEW k, LeafAt(e, k), NEW old
    PROVE  Put(old, Change(b, e, k)) = IF Field(b, k) # Field(e, k) THEN Field(e, k) ELSE old
  BY NothingIs DEF Put, Change, LeafAt, Field

\* What is sent does to the object what the user did to the document, no more.
LEMMA PatchedAsEdited ==
    ASSUME MaxDepth >= 3, NEW o, NEW b, NEW e, IsDoc(o), IsDoc(b), IsDoc(e), Identity(b) = Identity(e)
    PROVE  LET p == Patched(o, Stripped(Diff(b, e))) IN
           /\ IsDoc(p)
           /\ \A path \in {Image, RestartedAt, Replicas} :
                  ValueAt(p, path) = IF ValueAt(b, path) # ValueAt(e, path) THEN ValueAt(e, path) ELSE ValueAt(o, path)
           /\ ValueAt(p, <<"metadata", "name">>) = ValueAt(o, <<"metadata", "name">>)
  <1> DEFINE T(v) == Field(Field(v, "spec"), "template")
             d == Diff(b, e)
             q == Stripped(d)
             p == Patched(o, q)
  <1>1. /\ IsPatch(d)
        /\ \A k \in {"image", "restartedAt"} : Field(T(d), k) = Change(T(b), T(e), k)
        /\ Field(Field(d, "spec"), "replicas") = Change(Field(b, "spec"), Field(e, "spec"), "replicas")
        /\ Field(Field(d, "metadata"), "name") = Change(Field(b, "metadata"), Field(e, "metadata"), "name")
    BY DiffOfDocs
  <1>2. /\ IsPatch(q) /\ Field(q, "spec") = Field(d, "spec")
        /\ Field(Field(q, "metadata"), "name") = Field(Field(d, "metadata"), "name")
    BY <1>1, StrippedIs
  <1> HIDE DEF d, q
  <1>3. /\ IsDoc(p)
        /\ \A k \in {"image", "restartedAt"} : Field(T(p), k) = Put(Field(T(o), k), Field(T(q), k))
        /\ Field(Field(p, "spec"), "replicas") = Put(Field(Field(o, "spec"), "replicas"), Field(Field(q, "spec"), "replicas"))
        /\ Field(Field(p, "metadata"), "name") = Put(Field(Field(o, "metadata"), "name"), Field(Field(q, "metadata"), "name"))
    BY <1>2, PatchedDoc
  <1> HIDE DEF p
  <1>4. /\ \A k \in {"image", "restartedAt"} : LeafAt(T(e), k)
        /\ LeafAt(Field(e, "spec"), "replicas") /\ LeafAt(Field(e, "metadata"), "name")
    BY DEF IsDoc, IsSpec, IsMeta, IsTemplate
  <1>5. \A k \in {"image", "restartedAt"} :
            Field(T(p), k) = IF Field(T(b), k) # Field(T(e), k) THEN Field(T(e), k) ELSE Field(T(o), k)
    <2> TAKE k \in {"image", "restartedAt"}
    <2>1. Field(T(p), k) = Put(Field(T(o), k), Change(T(b), T(e), k))
      BY <1>1, <1>2, <1>3
    <2> HIDE DEF T
    <2>2. QED
      BY <1>4, <2>1, PutChange
  <1>6. Field(Field(p, "spec"), "replicas") =
            IF Field(Field(b, "spec"), "replicas") # Field(Field(e, "spec"), "replicas")
            THEN Field(Field(e, "spec"), "replicas") ELSE Field(Field(o, "spec"), "replicas")
    BY <1>1, <1>2, <1>3, <1>4, PutChange
  <1>7. Field(Field(b, "metadata"), "name") = Field(Field(e, "metadata"), "name")
    <2>1. Identity(b)[<<"metadata", "name">>] = ValueAt(b, <<"metadata", "name">>)
          /\ Identity(e)[<<"metadata", "name">>] = ValueAt(e, <<"metadata", "name">>)
      BY DEF Identity
    <2>2. QED
      BY <2>1, DeepPathsAre
  <1>8. Field(Field(p, "metadata"), "name") = Field(Field(o, "metadata"), "name")
    BY <1>1, <1>2, <1>3, <1>4, <1>7, PutChange
  <1>9. ValueAt(p, Image) = IF ValueAt(b, Image) # ValueAt(e, Image) THEN ValueAt(e, Image) ELSE ValueAt(o, Image)
    BY <1>5, DeepPathsAre
  <1>10. ValueAt(p, RestartedAt) =
            IF ValueAt(b, RestartedAt) # ValueAt(e, RestartedAt) THEN ValueAt(e, RestartedAt) ELSE ValueAt(o, RestartedAt)
    BY <1>5, DeepPathsAre
  <1>11. ValueAt(p, Replicas) = IF ValueAt(b, Replicas) # ValueAt(e, Replicas) THEN ValueAt(e, Replicas) ELSE ValueAt(o, Replicas)
    BY <1>6, DeepPathsAre
  <1>12. ValueAt(p, <<"metadata", "name">>) = ValueAt(o, <<"metadata", "name">>)
    BY <1>8, DeepPathsAre
  <1>13. QED
    BY <1>3, <1>9, <1>10, <1>11, <1>12 DEF p, q, d

LEMMA SendsWhatChanged ==
    ASSUME MaxDepth >= 3, Inv, DocsOK, [Next]_vars, NEW i \in DOMAIN tasks,
           tasks[i].op = "edit", tasks[i].at = "patching", tasks'[i].at = "fetching"
    PROVE  /\ \A p \in {Image, RestartedAt, Replicas} :
                  ValueAt(object', p) =
                      IF ValueAt(tasks[i].base, p) # ValueAt(tasks[i].current, p) THEN ValueAt(tasks[i].current, p)
                      ELSE ValueAt(object, p)
           /\ ValueAt(object', <<"metadata", "name">>) = ValueAt(object, <<"metadata", "name">>)
  <1>1. Runs(i)
    BY OnlyRunning
  <1>2. EditRequest(i)
    BY <1>1 DEF Runs, Editing, EditOpens, EditAborted, EditSaved, EditAnswered, Merges, Deletes, SetsCordon,
        Undoing, UndoReads, UndoLists, UndoReplaces, Draining, DrainCordons, DrainLists, DrainEvicts, DrainEnds,
        TriggerReads, TriggerCreates
  <1>3. PICK to \in Ends : Apply(tasks[i], i, to) /\ Task(i, [tasks[i] EXCEPT !.at = to])
    BY <1>2 DEF EditRequest
  <1>4. to = "fetching"
    <2>1. PICK t : t = [tasks[i] EXCEPT !.at = to]
      OBVIOUS
    <2>2. IsOn(tasks[i], {"op", "at", "how", "base", "current", "noted", "patch", "dry"})
      BY EditGoesOn
    <2>3. t.at = to
      BY <2>1, <2>2 DEF IsOn
    <2>4. tasks'[i] = t
      BY <1>3, <2>1 DEF Task, Inv, TypeOK, TasksOK
    <2>5. QED
      BY <2>3, <2>4
  <1>5. object # None /\ Write(Patched(object, tasks[i].patch), i)
    BY <1>3, <1>4 DEF Apply, Sends
  <1> DEFINE b == tasks[i].base
             e == tasks[i].current
             p == Patched(object, Stripped(Diff(b, e)))
  <1>6. /\ IsDoc(object) /\ IsDoc(b) /\ IsDoc(e) /\ Identity(b) = Identity(e)
        /\ tasks[i].patch = Stripped(Diff(b, e))
    BY <1>5 DEF DocsOK, TaskDocs
  <1> HIDE DEF b, e
  <1>7. /\ IsDoc(p)
        /\ \A path \in {Image, RestartedAt, Replicas} :
               ValueAt(p, path) = IF ValueAt(b, path) # ValueAt(e, path) THEN ValueAt(e, path) ELSE ValueAt(object, path)
        /\ ValueAt(p, <<"metadata", "name">>) = ValueAt(object, <<"metadata", "name">>)
    BY <1>6, PatchedAsEdited
  <1>8. Write(p, i)
    BY <1>5, <1>6
  <1> HIDE DEF p
  <1>9. /\ Field(object', "spec") = Field(p, "spec")
        /\ Field(Field(object', "metadata"), "name") = Field(Field(p, "metadata"), "name")
    BY <1>7, <1>8, VersionedDoc DEF Write
  <1>10. /\ \A path \in {Image, RestartedAt, Replicas} : ValueAt(object', path) = ValueAt(p, path)
         /\ ValueAt(object', <<"metadata", "name">>) = ValueAt(p, <<"metadata", "name">>)
    BY <1>9, DeepPathsAre
  <1>11. QED
    BY <1>7, <1>10 DEF b, e

-----------------------------------------------------------------------------
(* The theorems                                                              *)

LEMMA InitInv == Init => Inv
  <1> SUFFICES ASSUME Init PROVE Inv
    OBVIOUS
  <1>1. IsObj(object)
    BY VersionedIs DEF Init, Created
  <1>2. IsOn(revisions, DOMAIN revisions)
    BY DEF Init, IsOn
  <1>3. tasks = <<>> /\ Len(tasks) = 0 /\ DOMAIN tasks = {} /\ tasks \in Seq({tasks[i] : i \in DOMAIN tasks})
    BY DEF Init
  <1>4. TasksOK /\ ClusterOK
    BY <1>1, <1>2, <1>3, ClusterActionsAssumption DEF Init, TasksOK, ClusterOK
  <1>5. WindowOK /\ SavedIsRead /\ ~window.open /\ window.at = "idle"
    BY DEF Init, Closed, WindowOK, IsOn, SavedIsRead
  <1>6. BudgetOK /\ menu \in Menus
    BY ClusterActionsAssumption DEF Init, BudgetOK
  <1>7. ComparedIsThere
    BY <1>3, <1>5 DEF ComparedIsThere, NotStale
  <1>8. QED
    BY <1>3, <1>4, <1>5, <1>6, <1>7 DEF Inv, TypeOK

LEMMA NextInv == Inv /\ [Next]_vars => Inv'
  <1> SUFFICES ASSUME Inv, [Next]_vars PROVE Inv'
    OBVIOUS
  <1>1. CASE Window
    <2>1. ASSUME Submit(TRUE) \/ Submit(FALSE), UNCHANGED menu PROVE Inv'
      <3>1. TRUE \in BOOLEAN /\ FALSE \in BOOLEAN
        OBVIOUS
      <3>2. QED
        BY <2>1, <3>1, SubmitKeeps
    <2>2. QED
      BY <1>1, <2>1, OpenEditorKeeps, TypeKeeps, CloseEditorKeeps, WindowRequestKeeps, WindowAnsweredKeeps DEF Window
  <1>2. CASE Start
    BY <1>2, StartKeeps
  <1>3. CASE \E i \in DOMAIN tasks : Runs(i)
    <2>1. PICK i \in DOMAIN tasks : Runs(i)
      BY <1>3
    <2>2. UNCHANGED menu
      BY <2>1 DEF Runs
    <2>3. CASE Editing(i)
      BY <2>2, <2>3, EditOpensKeeps, EditAbortedKeeps, EditSavedKeeps, EditRequestKeeps, EditAnsweredKeeps DEF Editing
    <2>4. CASE Undoing(i)
      BY <2>2, <2>4, UndoReadsKeeps, UndoReplacesKeeps DEF Undoing
    <2>5. CASE Draining(i)
      BY <2>2, <2>5, DrainCordonsKeeps, DrainListsKeeps, DrainEvictsKeeps, DrainEndsKeeps DEF Draining
    <2>6. QED
      BY <2>1, <2>2, <2>3, <2>4, <2>5, MergesKeeps, DeletesKeeps, SetsCordonKeeps, TriggerReadsKeeps,
         TriggerCreatesKeeps DEF Runs
  <1>4. CASE Others
    BY <1>4, OthersWriteKeeps, RecreatedKeeps, RollsOutKeeps, NodeKeeps, TicksKeeps DEF Others
  <1>5. CASE UNCHANGED vars
    <2>1. ObjectMoves(None) /\ UNCHANGED <<deployment, machine, batch, tasks, window, menu, budget>>
      BY <1>5, NothingMoves DEF Inv, TypeOK, vars, deployment, machine, batch
    <2>2. ClusterOK' /\ BudgetOK'
      BY <2>1 DEF Inv, TypeOK, ClusterOK, BudgetOK, deployment, machine, batch, IsOn
    <2>3. QED
      BY <2>1, <2>2, OthersKeep DEF Inv, EvictsAll, machine
  <1>6. QED
    BY <1>1, <1>2, <1>3, <1>4, <1>5 DEF Next

LEMMA Invariance == Spec => []Inv
  BY InitInv, NextInv, PTL DEF Spec

\* Every task keeps what its stage needs, within the bounds of the model.
THEOREM ActionsTypeCorrect == Spec => []TypeOK
  <1>1. Inv => TypeOK
    BY DEF Inv
  <1>2. QED
    BY Invariance, <1>1, PTL

\* What a patch overwrites is what the user saw, however many editors, merges,
\* rollbacks and others write: only a write between the comparison and the patch
\* is not seen.
THEOREM SeenBeforeOverwritten == Spec => []NoBlindOverwrite
  <1>1. Inv => NoBlindOverwrite
    BY DEF Inv, ComparedIsThere, NotStale, NoBlindOverwrite, Edits
  <1>2. QED
    BY Invariance, <1>1, PTL

\* The editor of the window says "unsaved" whenever there is something to send.
THEOREM CleanIsSaved == Spec => []CleanMeansSaved
  <1>1. Inv => CleanMeansSaved
    BY DEF Inv, SavedIsRead, Vacuous, CleanMeansSaved
  <1>2. QED
    BY Invariance, <1>1, PTL

\* A drain that ends without a failure leaves on the node only daemons and pods
\* that are terminating.
THEOREM DrainsEvictAll == Spec => []DrainEvictsAll
  <1>1. Inv => DrainEvictsAll
    BY DEF Inv, EvictsAll, DrainEvictsAll
  <1>2. QED
    BY Invariance, <1>1, PTL

\* A rollback takes the template of the revision whole and nothing else of the
\* deployment changes, whoever wrote to it since it was read.
THEOREM UndoIsWhole == Spec => UndoRestores
  <1>1. Inv /\ CopiesOK /\ [Next]_vars =>
            [\A i \in DOMAIN tasks :
                tasks[i].op = "undo" /\ tasks[i].at = "replacing" /\ tasks'[i].how = "applied" =>
                    /\ Template(object') = tasks[i].template
                    /\ ValueAt(object', Replicas) = ValueAt(object, Replicas)]_vars
    BY ReplacesWhole
  <1>2. QED
    BY Invariance, CopiesInit, CopiesNext, <1>1, PTL DEF Spec, UndoRestores

\* Whatever the server holds by the time an edit is sent, it changes the paths the
\* user changed, to what the user made of them, and none besides the server's own.
\* The documents must be looked at as deep as the paths are.
THEOREM EditsChangeOnly ==
    ASSUME MaxDepth >= 3
    PROVE  Spec => EditsOnlyWhatChanged
  <1>1. Inv /\ DocsOK /\ [Next]_vars =>
            [\A i \in DOMAIN tasks :
                LET t == tasks[i] IN
                t.op = "edit" /\ t.at = "patching" /\ tasks'[i].at = "fetching" =>
                    /\ \A p \in {Image, RestartedAt, Replicas} :
                           ValueAt(object', p) =
                               IF ValueAt(t.base, p) # ValueAt(t.current, p) THEN ValueAt(t.current, p)
                               ELSE ValueAt(object, p)
                    /\ ValueAt(object', <<"metadata", "name">>) = ValueAt(object, <<"metadata", "name">>)]_vars
    BY SendsWhatChanged
  <1>2. Inv /\ DocsOK /\ [Next]_vars => DocsOK'
    BY DocsNext
  <1>3. QED
    BY Invariance, DocsInit, <1>1, <1>2, PTL DEF Spec, EditsOnlyWhatChanged
=============================================================================
