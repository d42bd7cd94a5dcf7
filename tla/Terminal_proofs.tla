---------------------------- MODULE Terminal_proofs ----------------------------
(*****************************************************************************)
(* What the terminal app keeps together, proved for every sitting: what its  *)
(* tables watch, what it remembers and what it waits for, that esc leads     *)
(* home, and that a selected row stays selected.  The invariant is about a   *)
(* state with a list of commands that are still to be executed (Sound), so   *)
(* that each operator of the model, which changes the state and adds         *)
(* commands, has a lemma of its own, and so has each command that is         *)
(* executed.  The folds by which messages and commands are worked off are    *)
(* taken apart into trails of single stages.                                 *)
(*****************************************************************************)
EXTENDS Terminal, FiniteSetTheorems, WellFoundedInduction, TLAPS

-----------------------------------------------------------------------------
(* Sequences *)

IsSeq(s) == Len(s) \in Nat /\ s = [i \in 1..Len(s) |-> s[i]]

\* A function on 1..n is a sequence of length n.
LEMMA SeqIs ==
    ASSUME NEW n \in Nat, NEW s, s = [i \in 1..n |-> s[i]]
    PROVE  IsSeq(s) /\ Len(s) = n /\ DOMAIN s = 1..n /\ s \in Seq(Range(s))
  <1>1. DOMAIN s = 1..n
    OBVIOUS
  <1>2. \A i \in 1..n : s[i] \in Range(s)
    BY <1>1 DEF Range
  <1>3. s \in [1..n -> Range(s)]
    BY <1>2
  <1>4. s \in Seq(Range(s)) /\ Len(s) = n
    BY <1>3
  <1>5. QED
    BY <1>1, <1>4 DEF IsSeq

\* What a sequence is as a function.
LEMMA SeqHas ==
    ASSUME NEW s, IsSeq(s)
    PROVE  /\ DOMAIN s = 1..Len(s) /\ Len(s) \in Nat /\ s \in Seq(Range(s))
           /\ \A i \in DOMAIN s : s[i] \in Range(s)
  <1>1. QED
    BY SeqIs DEF IsSeq, Range

\* A member of Seq(S) is a sequence, and its elements are in S.
LEMMA SeqFrom ==
    ASSUME NEW S, NEW s \in Seq(S)
    PROVE  IsSeq(s) /\ Range(s) \subseteq S /\ DOMAIN s = 1..Len(s)
  <1>1. Len(s) \in Nat /\ s \in [1..Len(s) -> S] /\ DOMAIN s = 1..Len(s)
    OBVIOUS
  <1>2. s = [i \in 1..Len(s) |-> s[i]]
    BY <1>1
  <1>3. QED
    BY <1>1, <1>2 DEF IsSeq, Range

\* The empty sequence.
LEMMA EmptyIsSeq == IsSeq(<<>>) /\ Len(<<>>) = 0 /\ Range(<<>>) = {}
  BY DEF IsSeq, Range

\* A sequence of one element.
LEMMA OneIsSeq ==
    ASSUME NEW x
    PROVE  IsSeq(<<x>>) /\ Len(<<x>>) = 1 /\ <<x>>[1] = x
  BY DEF IsSeq

\* The elements of a concatenation are those of its parts, in their order.
LEMMA ConcatIs ==
    ASSUME NEW s, NEW u, IsSeq(s), IsSeq(u)
    PROVE  /\ IsSeq(s \o u) /\ Len(s \o u) = Len(s) + Len(u)
           /\ \A i \in 1..Len(s) : (s \o u)[i] = s[i]
           /\ \A i \in 1..Len(u) : (s \o u)[Len(s) + i] = u[i]
           /\ \A i \in DOMAIN (s \o u) : (i \in 1..Len(s) \/ (i - Len(s) \in 1..Len(u) /\ (s \o u)[i] = u[i - Len(s)]))
  <1> DEFINE S == Range(s) \cup Range(u)
  <1>1. s \in Seq(S) /\ u \in Seq(S)
    BY SeqHas
  <1>2. s \o u \in Seq(S) /\ Len(s \o u) = Len(s) + Len(u)
    BY <1>1
  <1>3. /\ \A i \in 1..Len(s) : (s \o u)[i] = s[i]
        /\ \A i \in 1..(Len(s) + Len(u)) : i > Len(s) => (s \o u)[i] = u[i - Len(s)]
    BY <1>1
  <1>4. IsSeq(s \o u) /\ DOMAIN (s \o u) = 1..(Len(s) + Len(u))
    BY <1>2, SeqFrom
  <1>5. Len(s) \in Nat /\ Len(u) \in Nat
    BY DEF IsSeq
  <1> HIDE DEF S
  <1>6. QED
    BY <1>2, <1>3, <1>4, <1>5

\* One more element at the end.
LEMMA AppendIs ==
    ASSUME NEW s, IsSeq(s), NEW x
    PROVE  /\ IsSeq(Append(s, x)) /\ Len(Append(s, x)) = Len(s) + 1
           /\ \A i \in 1..Len(s) : Append(s, x)[i] = s[i]
           /\ Append(s, x)[Len(s) + 1] = x
  <1> DEFINE S == Range(s) \cup {x}
  <1>1. s \in Seq(S) /\ x \in S
    BY SeqHas
  <1>2. Append(s, x) \in Seq(S) /\ Len(Append(s, x)) = Len(s) + 1
    BY <1>1
  <1>3. IsSeq(Append(s, x))
    BY <1>2, SeqFrom
  <1>4. QED
    BY <1>1, <1>2, <1>3

\* The first n elements.
LEMMA SubSeqIs ==
    ASSUME NEW s, IsSeq(s), NEW n \in 0..Len(s)
    PROVE  /\ IsSeq(SubSeq(s, 1, n)) /\ Len(SubSeq(s, 1, n)) = n
           /\ \A i \in 1..n : SubSeq(s, 1, n)[i] = s[i]
  <1>1. s \in Seq(Range(s)) /\ Len(s) \in Nat
    BY SeqHas
  <1>2. SubSeq(s, 1, n) \in Seq(Range(s)) /\ Len(SubSeq(s, 1, n)) = n /\ \A i \in 1..n : SubSeq(s, 1, n)[i] = s[i]
    BY <1>1
  <1>3. QED
    BY <1>2, SeqFrom

-----------------------------------------------------------------------------
(* Folds *)

\* A set of naturals has a least element.
LEMMA LeastExists ==
    ASSUME NEW S, S \subseteq Nat, S # {}
    PROVE  \E i \in S : \A j \in S : i <= j
  <1> DEFINE below == {ss \in Nat \X Nat : ss[1] < ss[2]}
  <1>1. IsWellFoundedOn(below, Nat)
    <2>1. below = OpToRel(<, Nat)
      BY Zenon DEF OpToRel
    <2>2. QED
      BY <2>1, NatLessThanWellFounded, Zenon
  <1>2. \E i \in S : \A j \in S : <<j, i>> \notin below
    BY ONLY S \subseteq Nat, S # {}, <1>1, WFMin, Zenon
  <1>3. \A i, j \in Nat : <<j, i>> \notin below => i <= j
    OBVIOUS
  <1> HIDE DEF below
  <1>4. QED
    BY <1>2, <1>3

\* Max of a set of positions, by which the folds take their last element.
LEMMA GreatestIs ==
    ASSUME NEW n \in Nat, NEW x, x \subseteq 1..n, x # {}
    PROVE  Max(x) \in x /\ \A i \in x : i <= Max(x)
  <1> DEFINE S == {n - i : i \in x}
  <1>1. S \subseteq Nat /\ S # {}
    <2>1. \A i \in x : i \in 1..n
      OBVIOUS
    <2>2. \A i \in x : n - i \in Nat
      BY <2>1
    <2>3. QED
      BY <2>2
  <1> HIDE DEF S
  <1>2. PICK j \in S : \A k \in S : j <= k
    BY <1>1, LeastExists
  <1>3. PICK m \in x : j = n - m
    BY <1>2 DEF S
  <1>4. \A i \in x : n - i \in S
    BY DEF S
  <1>5. \A i \in x : m >= i
    BY <1>2, <1>3, <1>4
  <1>6. \E m1 \in x : \A i \in x : m1 >= i
    BY <1>3, <1>5
  <1>7. Max(x) \in x /\ \A i \in x : Max(x) >= i
    BY <1>6, Zenon DEF Max
  <1>8. QED
    BY <1>7

\* Min of a set of naturals, by which a message finds its view.
LEMMA LeastIs ==
    ASSUME NEW x, x \subseteq Nat, x # {}
    PROVE  Min(x) \in x /\ \A i \in x : Min(x) <= i
  <1>1. \E m \in x : \A i \in x : m <= i
    BY LeastExists
  <1>2. QED
    BY <1>1, Zenon DEF Min

\* The steps the folds of the model are made of: a command that is executed, one
\* of those another command leads to, a context that is pinged, a row that a filter
\* lets through or not, a view that is told.
Stage(how, p, x) ==
    CASE how.fold = "execute" -> Execute(p, x)
      [] how.fold = "execute1" -> Execute1(p, x)
      [] how.fold = "ask" -> Asked(p, x)
      [] how.fold = "pass" -> Passed(p, x, how.names, how.faults)
      [] how.fold = "tell" -> Told(p, x, OnMsg(p.t.views[x], how.msg, p.t))

Folded(how, base, seq, f) ==
    [x \in SUBSET DOMAIN seq |-> IF x = {} THEN base ELSE Stage(how, f[x \ {Max(x)}], seq[Max(x)])]

\* The recursive function that a fold is made of is one.
LEMMA FoldExists ==
    ASSUME NEW how, NEW base, NEW seq, IsSeq(seq)
    PROVE  \E f : f = Folded(how, base, seq, f)
  <1> DEFINE val(x, f) == IF x = {} THEN base ELSE Stage(how, f[x \ {Max(x)}], seq[Max(x)])
             rec(m, f) == \A x \in SUBSET (1..m) : f[x] = val(x, f)
             none == {m \in 0..Len(seq) : ~\E f : rec(m, f)}
  <1>0. Len(seq) \in Nat /\ DOMAIN seq = 1..Len(seq)
    BY SeqHas
  <1>1. \E f : rec(Len(seq), f)
    <2>1. SUFFICES ASSUME none # {} PROVE FALSE
      <3> HIDE DEF rec
      <3>1. QED
        BY <1>0, <2>1
    <2>2. PICK m \in none : \A j \in none : m <= j
      <3>1. none \subseteq Nat
        BY <1>0
      <3> HIDE DEF none
      <3>2. QED
        BY <2>1, <3>1, LeastExists
    <2>3. m \in 0..Len(seq) /\ ~\E f : rec(m, f)
      <3> HIDE DEF rec
      <3>1. QED
        BY <2>2
    <2>4. CASE m = 0
      <3> DEFINE f == [x \in SUBSET (1..0) |-> base]
      <3>1. \A x \in SUBSET (1..0) : x = {}
        OBVIOUS
      <3>2. rec(0, f)
        BY <3>1
      <3> HIDE DEF f, rec
      <3>3. QED
        BY <2>3, <2>4, <3>2
    <2>5. CASE m # 0
      <3>1. m \in Nat /\ m - 1 \in 0..Len(seq) /\ m - 1 \in Nat
        BY <1>0, <2>3, <2>5
      <3>2. m - 1 \notin none
        <4> HIDE DEF none
        <4>1. QED
          BY <2>2, <3>1
      <3>3. PICK f : rec(m - 1, f)
        <4> HIDE DEF rec
        <4>1. QED
          BY <3>1, <3>2
      <3> DEFINE g == [x \in SUBSET (1..m) |-> IF m \in x THEN Stage(how, f[x \ {m}], seq[m]) ELSE f[x]]
      <3>4. ASSUME NEW x \in SUBSET (1..m) PROVE g[x] = val(x, g)
        <4>1. CASE m \in x
          <5>1. x \ {m} \in SUBSET (1..(m - 1)) /\ x \ {m} \in SUBSET (1..m) /\ m \notin x \ {m}
            BY <3>1
          <5>2. Max(x) = m
            <6>1. Max(x) \in x /\ \A i \in x : i <= Max(x)
              BY <3>1, <4>1, GreatestIs
            <6>2. Max(x) \in 1..m /\ m <= Max(x)
              BY <4>1, <6>1
            <6>3. QED
              BY <3>1, <6>2
          <5>3. g[x \ {m}] = f[x \ {m}] /\ g[x] = Stage(how, f[x \ {m}], seq[m])
            BY <4>1, <5>1
          <5> HIDE DEF g
          <5>4. QED
            BY <4>1, <5>2, <5>3
        <4>2. CASE m \notin x
          <5>1. x \in SUBSET (1..(m - 1))
            BY <3>1, <4>2
          <5>2. g[x] = f[x] /\ f[x] = val(x, f)
            BY <3>3, <4>2, <5>1
          <5>3. CASE x = {}
            <6> HIDE DEF g
            <6>1. QED
              BY <5>2, <5>3
          <5>4. CASE x # {}
            <6>1. x \ {Max(x)} \in SUBSET (1..m) /\ m \notin x \ {Max(x)}
              BY <4>2
            <6>2. g[x \ {Max(x)}] = f[x \ {Max(x)}]
              BY <6>1
            <6> HIDE DEF g
            <6>3. QED
              BY <5>2, <5>4, <6>2
          <5>5. QED
            BY <5>3, <5>4
        <4>3. QED
          BY <4>1, <4>2
      <3> HIDE DEF g
      <3>5. rec(m, g)
        BY <3>4
      <3> HIDE DEF rec
      <3>6. QED
        BY <2>3, <3>5
    <2>6. QED
      BY <2>4, <2>5
  <1>2. QED
    <2>1. PICK f : rec(Len(seq), f)
      <3> HIDE DEF rec
      <3>1. QED
        BY <1>1
    <2> DEFINE g == [x \in SUBSET (1..Len(seq)) |-> f[x]]
    <2>2. \A x \in SUBSET (1..Len(seq)) : g[x] = f[x] /\ x \ {Max(x)} \in SUBSET (1..Len(seq))
      OBVIOUS
    <2>3. \A x \in SUBSET (1..Len(seq)) : g[x] = val(x, g)
      <3> HIDE DEF g
      <3>1. QED
        BY <2>1, <2>2
    <2>4. g = Folded(how, base, seq, g)
      <3>1. Folded(how, base, seq, g) = [x \in SUBSET (1..Len(seq)) |-> val(x, g)]
        BY <1>0 DEF Folded
      <3>2. g = [x \in SUBSET (1..Len(seq)) |-> g[x]]
        OBVIOUS
      <3> HIDE DEF g, val
      <3>3. QED
        BY <2>3, <3>1, <3>2
    <2> HIDE DEF g
    <2>5. QED
      BY <2>4

\* What it makes of a sequence it makes one step at a time.
LEMMA FoldTrail ==
    ASSUME NEW how, NEW base, NEW seq, IsSeq(seq), NEW f, f = Folded(how, base, seq, f)
    PROVE  \E g : /\ g[0] = base
                  /\ \A i \in 1..Len(seq) : g[i] = Stage(how, g[i - 1], seq[i])
                  /\ f[DOMAIN seq] = g[Len(seq)]
  <1> DEFINE val(x) == IF x = {} THEN base ELSE Stage(how, f[x \ {Max(x)}], seq[Max(x)])
  <1>0. Len(seq) \in Nat /\ DOMAIN seq = 1..Len(seq)
    BY SeqHas
  <1>4. \A x \in SUBSET (1..Len(seq)) : f[x] = val(x)
    <2>1. f = [x \in SUBSET (1..Len(seq)) |-> val(x)]
      BY <1>0 DEF Folded
    <2> HIDE DEF val
    <2>2. QED
      BY <2>1
  <1> DEFINE g == [i \in 0..Len(seq) |-> f[1..i]]
  <1>5. g[0] = base
    <2>1. (1..0) = {} /\ {} \in SUBSET (1..Len(seq)) /\ 0 \in 0..Len(seq)
      BY <1>0
    <2>2. f[{}] = base
      BY <1>4, <2>1
    <2>3. QED
      BY <2>1, <2>2
  <1>6. ASSUME NEW i \in 1..Len(seq) PROVE g[i] = Stage(how, g[i - 1], seq[i])
    <2>0. i \in Nat /\ i \in 0..Len(seq) /\ i - 1 \in 0..Len(seq) /\ i >= 1 /\ i <= Len(seq)
      <3> HIDE DEF g
      <3>1. QED
        BY <1>0
    <2>1. (1..i) \in SUBSET (1..Len(seq)) /\ (1..i) # {} /\ i \in 1..i
      <3> HIDE DEF g
      <3>1. QED
        BY <1>0, <2>0
    <2>2. Max(1..i) = i
      <3>1. Max(1..i) \in 1..i /\ \A j \in 1..i : j <= Max(1..i)
        BY <2>0, <2>1, GreatestIs
      <3>2. QED
        BY <2>0, <2>1, <3>1
    <2>3. (1..i) \ {i} = 1..(i - 1)
      BY <2>0
    <2>4. f[1..i] = Stage(how, f[1..(i - 1)], seq[i])
      BY <1>4, <2>1, <2>2, <2>3
    <2>5. QED
      BY <2>0, <2>4
  <1>7. f[DOMAIN seq] = g[Len(seq)]
    <2>1. Len(seq) \in 0..Len(seq)
      BY <1>0
    <2>2. QED
      BY <1>0, <2>1
  <1> HIDE DEF g
  <1>8. QED
    BY <1>5, <1>6, <1>7

\* Run executes the commands one after the other.
LEMMA RunTrail ==
    ASSUME NEW p, IsSeq(p.cmds)
    PROVE  \E g : /\ g[0] = p.t
                  /\ \A i \in 1..Len(p.cmds) : g[i] = Execute(g[i - 1], p.cmds[i])
                  /\ Run(p) = g[Len(p.cmds)]
  <1> DEFINE how == [fold |-> "execute"]
             rec(f) == [x \in SUBSET DOMAIN p.cmds |-> IF x = {} THEN p.t ELSE Execute(f[x \ {Max(x)}], p.cmds[Max(x)])]
             f == CHOOSE f : f = rec(f)
  <1>1. Run(p) = f[DOMAIN p.cmds]
    BY Zenon DEF Run, FoldLeft, MapThenFoldSet
  <1>2. \A h : Folded(how, p.t, p.cmds, h) = rec(h) /\ \A q, x : Stage(how, q, x) = Execute(q, x)
    BY DEF Folded, Stage
  <1> HIDE DEF how, rec
  <1>3. \E h : h = rec(h)
    BY <1>2, FoldExists
  <1>4. f = rec(f)
    BY <1>3, Zenon
  <1> HIDE DEF f
  <1>5. f = Folded(how, p.t, p.cmds, f)
    BY <1>2, <1>4
  <1>6. PICK g : /\ g[0] = p.t /\ \A i \in 1..Len(p.cmds) : g[i] = Stage(how, g[i - 1], p.cmds[i])
                 /\ f[DOMAIN p.cmds] = g[Len(p.cmds)]
    BY <1>5, FoldTrail
  <1>7. QED
    BY <1>1, <1>2, <1>6

\* So does RunAll, without what they lead to.
LEMMA RunAllTrail ==
    ASSUME NEW p, IsSeq(p.cmds)
    PROVE  \E g : /\ g[0] = p.t
                  /\ \A i \in 1..Len(p.cmds) : g[i] = Execute1(g[i - 1], p.cmds[i])
                  /\ RunAll(p) = g[Len(p.cmds)]
  <1> DEFINE how == [fold |-> "execute1"]
             rec(f) == [x \in SUBSET DOMAIN p.cmds |-> IF x = {} THEN p.t ELSE Execute1(f[x \ {Max(x)}], p.cmds[Max(x)])]
             f == CHOOSE f : f = rec(f)
  <1>1. RunAll(p) = f[DOMAIN p.cmds]
    BY Zenon DEF RunAll, FoldLeft, MapThenFoldSet
  <1>2. \A h : Folded(how, p.t, p.cmds, h) = rec(h) /\ \A q, x : Stage(how, q, x) = Execute1(q, x)
    BY DEF Folded, Stage
  <1> HIDE DEF how, rec
  <1>3. \E h : h = rec(h)
    BY <1>2, FoldExists
  <1>4. f = rec(f)
    BY <1>3, Zenon
  <1> HIDE DEF f
  <1>5. f = Folded(how, p.t, p.cmds, f)
    BY <1>2, <1>4
  <1>6. PICK g : /\ g[0] = p.t /\ \A i \in 1..Len(p.cmds) : g[i] = Stage(how, g[i - 1], p.cmds[i])
                 /\ f[DOMAIN p.cmds] = g[Len(p.cmds)]
    BY <1>5, FoldTrail
  <1>7. QED
    BY <1>1, <1>2, <1>6

\* ping_missing asks for the contexts one after the other.
LEMMA AskTrail ==
    ASSUME NEW v, IsSeq(v.items)
    PROVE  \E g : /\ g[0] = Kept(v, <<>>)
                  /\ \A i \in 1..Len(v.items) : g[i] = Asked(g[i - 1], v.items[i])
                  /\ PingMissing(v) = g[Len(v.items)]
  <1> DEFINE how == [fold |-> "ask"]
             none == Kept(v, <<>>)
             rec(f) == [x \in SUBSET DOMAIN v.items |-> IF x = {} THEN none ELSE Asked(f[x \ {Max(x)}], v.items[Max(x)])]
             f == CHOOSE f : f = rec(f)
  <1>1. PingMissing(v) = f[DOMAIN v.items]
    BY Zenon DEF PingMissing, FoldLeft, MapThenFoldSet
  <1>2. \A q, x : Stage(how, q, x) = Asked(q, x)
    BY DEF Stage
  <1>a. \A h : Folded(how, none, v.items, h) = rec(h)
    <2> HIDE DEF how, none
    <2>1. QED
      BY <1>2 DEF Folded
  <1> HIDE DEF how, rec, none
  <1>3. \E h : h = rec(h)
    BY <1>a, FoldExists
  <1>4. f = rec(f)
    BY <1>3, Zenon
  <1> HIDE DEF f
  <1>5. f = Folded(how, none, v.items, f)
    BY <1>a, <1>4
  <1>6. PICK g : /\ g[0] = none /\ \A i \in 1..Len(v.items) : g[i] = Stage(how, g[i - 1], v.items[i])
                 /\ f[DOMAIN v.items] = g[Len(v.items)]
    BY <1>5, FoldTrail
  <1>7. QED
    BY <1>1, <1>2, <1>6 DEF none

\* A message reaches the views one after the other.
LEMMA TellTrail ==
    ASSUME NEW s, NEW places, NEW m, IsSeq(places)
    PROVE  \E g : /\ g[0] = Pair(s, <<>>)
                  /\ \A i \in 1..Len(places) :
                        g[i] = Told(g[i - 1], places[i], OnMsg(g[i - 1].t.views[places[i]], m, g[i - 1].t))
                  /\ Tell(s, places, m) = g[Len(places)]
  <1> DEFINE how == [fold |-> "tell", msg |-> m]
             none == Pair(s, <<>>)
             go(p, x) == Told(p, x, OnMsg(p.t.views[x], m, p.t))
             rec(f) == [x \in SUBSET DOMAIN places |-> IF x = {} THEN none ELSE go(f[x \ {Max(x)}], places[Max(x)])]
             f == CHOOSE f : f = rec(f)
  <1>1. Tell(s, places, m) = f[DOMAIN places]
    BY Zenon DEF Tell, FoldLeft, MapThenFoldSet
  <1>2. \A p, x : Stage(how, p, x) = go(p, x)
    BY DEF Stage
  <1>a. \A h : Folded(how, none, places, h) = rec(h)
    <2> HIDE DEF go, how, none
    <2>1. QED
      BY <1>2 DEF Folded
  <1> HIDE DEF how, rec, go, none
  <1>3. \E h : h = rec(h)
    BY <1>a, FoldExists
  <1>4. f = rec(f)
    BY <1>3, Zenon
  <1> HIDE DEF f
  <1>5. f = Folded(how, none, places, f)
    BY <1>a, <1>4
  <1>6. PICK g : /\ g[0] = none /\ \A i \in 1..Len(places) : g[i] = Stage(how, g[i - 1], places[i])
                 /\ f[DOMAIN places] = g[Len(places)]
    BY <1>5, FoldTrail
  <1>7. QED
    BY <1>1, <1>2, <1>6 DEF go, none

-----------------------------------------------------------------------------
(* What holds between the steps of a message *)

Fields == {"views", "dialogs", "full", "session", "shown", "config", "saved", "theme", "history", "at",
           "pending", "next", "tasks", "watching", "forwards", "forward", "did", "dropped", "quit"}

\* Views, each with what its kind needs: a filter, the contexts, targets and handles
IsTable(v) ==
    /\ {"shows", "ns", "selector", "awaiting", "filter", "rows", "faults", "sort", "metrics", "selected"} \subseteq DOMAIN v
    /\ IsFilter(v.filter) /\ (v.shows = "Event" => v.filter.labels = None)
IsContexts(v) ==
    /\ {"items", "pings", "pending"} \subseteq DOMAIN v
    /\ IsSeq(v.items)
IsLogs(v) == {"targets", "handles"} \subseteq DOMAIN v /\ IsSeq(v.targets) /\ IsSeq(v.handles)
IsView(v) ==
    /\ {"kind", "id", "filter"} \subseteq DOMAIN v
    /\ WantsFilter(v) \/ v.filter = AnyName
    /\ v.kind = "table" => IsTable(v)
    /\ v.kind = "contexts" => IsContexts(v)
    /\ v.kind = "logs" => IsLogs(v)

\* The stack: every view has a number of its own, given out before.
Stack(s) ==
    /\ s.next \in Nat /\ IsSeq(s.views)
    /\ \A i \in DOMAIN s.views : IsView(s.views[i]) /\ s.views[i].id \in Nat /\ s.views[i].id < s.next
    /\ \A i, j \in DOMAIN s.views : s.views[i].id = s.views[j].id => i = j

\* What is remembered, and the header's copy of it
Remembers(s) ==
    /\ DOMAIN s.config = {"theme", "of"} /\ DOMAIN s.config.of = DOMAIN scene.config.of
    /\ \A c \in DOMAIN s.config.of : IsMemory(s.config.of[c])
    /\ DOMAIN s.session = {"context", "ns"} /\ s.session.context \in {None} \cup DOMAIN s.config.of
    /\ DOMAIN s.shown = {"context", "favorites"}
    /\ s.shown.context \in DOMAIN s.config.of => s.shown.favorites = s.config.of[s.shown.context].favorites

\* The history, and the command that waits for a connect
Recalls(s) ==
    /\ IsSeq(s.history) /\ \A i \in DOMAIN s.history : IsCommand(s.history[i])
    /\ s.at \in Int
    /\ s.pending = None \/ (IsCommand(s.pending) /\ s.pending.cmd = "kind")

Shaped(s) == DOMAIN s = Fields /\ DOMAIN s.dialogs = DOMAIN NoDialogs /\ Stack(s) /\ Remembers(s) /\ Recalls(s)

\* The commands that are executed by themselves, without others to follow
PlainKinds == {"Fetch", "Ping", "Connect", "Forward", "StartLogs", "Watch", "Mutate", "Suspend", "StopForward", "Pick",
               "ConfirmUndo", "PreviewTheme", "SetTheme", "SaveConfig", "PopView", "Stop", "PollMetrics", "SaveResource"}
Plain(cmds) == IsSeq(cmds) /\ \A i \in DOMAIN cmds : cmds[i].cmd \in PlainKinds

\* A table's watch, once the commands from k + 1 on are executed
WatchFor(c, id) == c.cmd = "Watch" /\ c.view = id
Shows(v) == <<v.ns, <<v.selector, v.filter.labels>>>>
Asks(v, cmds, k) ==
    \E j \in DOMAIN cmds : j > k /\ cmds[j] = Watch(v) /\ \A l \in DOMAIN cmds : l > j => ~WatchFor(cmds[l], v.id)
Has(v, s, cmds, k) ==
    /\ \A l \in DOMAIN cmds : l > k => ~WatchFor(cmds[l], v.id)
    /\ \/ v.id \in DOMAIN s.watching /\ s.watching[v.id] = Shows(v)
       \/ \E c \in s.dropped : WatchFor(c, v.id)
Live(v) == v.kind = "table" /\ ~v.awaiting
Watched(s, cmds, k) ==
    \A i \in DOMAIN s.views : Live(s.views[i]) => Asks(s.views[i], cmds, k) \/ Has(s.views[i], s, cmds, k)

\* The namespace of a table; a connect that succeeded is about to replace it.
Landed == [cmd |-> "Connected", ok |-> TRUE]
InNs(v, ns) == Live(v) => v.shows \in ClusterScoped \/ v.ns = ns
Current(s) == Landed \in BagToSet(s.tasks) \/ \A i \in DOMAIN s.views : InNs(s.views[i], Ns(s))

\* The pings of what is pending, but for those that are lost
PingOf(n) == [cmd |-> "Ping", context |-> n]
Pinging(s, cmds, k, lost) ==
    \A i \in DOMAIN s.views : s.views[i].kind = "contexts" =>
        \A n \in s.views[i].pending :
            n \in lost \/ PingOf(n) \in BagToSet(s.tasks) \/ \E j \in DOMAIN cmds : j > k /\ cmds[j] = PingOf(n)

Saves(s, cmds, k) == s.saved = s.config \/ Save \in s.dropped \/ \E j \in DOMAIN cmds : j > k /\ cmds[j] = Save

\* A state whose commands from k + 1 on are still to be executed.  What is owed: the
\* file is to be written, the tables are to follow the namespace, pings were answered,
\* the first view is to come.
Settled == [save |-> FALSE, ns |-> FALSE, lost |-> {}, empty |-> FALSE]
Sound(s, cmds, k, owed) ==
    /\ Shaped(s) /\ ~s.quit /\ Plain(cmds)
    /\ Watched(s, cmds, k) /\ Pinging(s, cmds, k, owed.lost)
    /\ owed.save \/ Saves(s, cmds, k)
    /\ owed.ns \/ Current(s)
    /\ owed.empty \/ Len(s.views) > 0

\* What holds between the messages
Good(s) ==
    /\ Shaped(s) /\ Len(s.views) > 0
    /\ s.saved = s.config \/ Save \in s.dropped
    /\ \A i \in DOMAIN s.views : Live(s.views[i]) =>
            \/ s.views[i].id \in DOMAIN s.watching /\ s.watching[s.views[i].id] = Shows(s.views[i])
            \/ \E c \in s.dropped : WatchFor(c, s.views[i].id)
    /\ Pinging(s, <<>>, 0, {}) /\ Current(s)

GoodInv == scene \in Scenes /\ Good(t)

-----------------------------------------------------------------------------
(* Commands and views *)

Quiet(cmds) == \A i \in DOMAIN cmds : cmds[i].cmd # "Watch"

\* No command at all.
LEMMA PlainNone == Plain(<<>>) /\ Quiet(<<>>)
  BY EmptyIsSeq DEF Plain, Quiet

\* One command that nothing follows.
LEMMA PlainOne ==
    ASSUME NEW c, c.cmd \in PlainKinds
    PROVE  Plain(<<c>>) /\ (c.cmd # "Watch" => Quiet(<<c>>))
  <1>1. IsSeq(<<c>>) /\ DOMAIN <<c>> = {1} /\ <<c>>[1] = c
    BY OneIsSeq
  <1>2. QED
    BY <1>1 DEF Plain, Quiet

\* What all views make of a key, a tick or an answer: the view is still the one it was;
\* what a table shows changes with a watch only, what a list of contexts waits for with pings.
SameShow(v, w) ==
    w.awaiting = v.awaiting /\ w.ns = v.ns /\ w.selector = v.selector /\ w.filter.labels = v.filter.labels
Goes(v, did, ns) ==
    /\ IsView(did.view) /\ did.view.id = v.id /\ did.view.kind = v.kind
    /\ Plain(did.cmds)
    /\ v.kind = "table" =>
          /\ did.view.shows = v.shows
          /\ did.cmds = <<Watch(did.view)>> \/ (Quiet(did.cmds) /\ SameShow(v, did.view))
          /\ did.view.ns = ns \/ (did.view.ns = v.ns /\ did.view.awaiting = v.awaiting)
    /\ v.kind # "table" => Quiet(did.cmds)
    /\ v.kind = "contexts" =>
          \A n \in did.view.pending : n \in v.pending \/ \E j \in DOMAIN did.cmds : did.cmds[j] = PingOf(n)

TableFields == {"kind", "id", "shows", "ns", "selector", "awaiting", "filter"}
Keeps(v, w, F) == DOMAIN w = DOMAIN v /\ \A f \in F : w[f] = v[f]

\* The command that starts a table's watch.
LEMMA WatchIsPlain ==
    ASSUME NEW v
    PROVE  Watch(v).cmd = "Watch" /\ Watch(v).view = v.id /\ Plain(<<Watch(v)>>)
  <1>1. Watch(v).cmd = "Watch" /\ Watch(v).view = v.id
    BY DEF Watch
  <1>2. QED
    BY <1>1, PlainOne DEF PlainKinds

\* A table goes on as it should if it keeps what it shows, or asks for its watch again.
LEMMA TableGoes ==
    ASSUME NEW v, IsView(v), v.kind = "table", NEW w, Keeps(v, w, TableFields), NEW ns, NEW cmds,
           (Plain(cmds) /\ Quiet(cmds)) \/ cmds = <<Watch(w)>>
    PROVE  Goes(v, Kept(w, cmds), ns)
  <1>1. /\ w.kind = v.kind /\ w.id = v.id /\ w.shows = v.shows /\ w.ns = v.ns /\ w.selector = v.selector
        /\ w.awaiting = v.awaiting /\ w.filter = v.filter /\ DOMAIN w = DOMAIN v
    BY DEF Keeps, TableFields
  <1>2. IsView(w)
    BY <1>1 DEF IsView, WantsFilter, IsTable
  <1>3. Plain(cmds)
    BY WatchIsPlain
  <1>4. Kept(w, cmds).view = w /\ Kept(w, cmds).cmds = cmds
    BY DEF Kept
  <1>5. QED
    BY <1>1, <1>2, <1>3, <1>4 DEF Goes, SameShow

\* A list goes on as it should whatever it changes but its kind and number.
LEMMA ListGoes ==
    ASSUME NEW v, IsView(v), v.kind \notin {"table", "contexts", "logs"},
           NEW w, Keeps(v, w, {"kind", "id"}), WantsFilter(v) \/ w.filter = v.filter, NEW ns, NEW cmds, Plain(cmds), Quiet(cmds)
    PROVE  Goes(v, Kept(w, cmds), ns)
  <1>1. w.kind = v.kind /\ w.id = v.id /\ DOMAIN w = DOMAIN v
    BY DEF Keeps
  <1>2. IsView(w)
    BY <1>1 DEF IsView, WantsFilter
  <1>4. Kept(w, cmds).view = w /\ Kept(w, cmds).cmds = cmds
    BY DEF Kept
  <1>5. QED
    BY <1>1, <1>2, <1>4 DEF Goes

\* A log does if its targets and handles stay sequences.
LEMMA LogsGoes ==
    ASSUME NEW v, IsView(v), v.kind = "logs", NEW w, Keeps(v, w, {"kind", "id"}),
           IsSeq(w.targets), IsSeq(w.handles), NEW ns, NEW cmds, Plain(cmds), Quiet(cmds)
    PROVE  Goes(v, Kept(w, cmds), ns)
  <1>1. w.kind = v.kind /\ w.id = v.id /\ DOMAIN w = DOMAIN v
    BY DEF Keeps
  <1>2. IsView(w)
    BY <1>1 DEF IsView, WantsFilter, IsLogs
  <1>4. Kept(w, cmds).view = w /\ Kept(w, cmds).cmds = cmds
    BY DEF Kept
  <1>5. QED
    BY <1>1, <1>2, <1>4 DEF Goes

\* The contexts do if what is pending was so before, or is pinged now.
LEMMA ContextsGoes ==
    ASSUME NEW v, IsView(v), v.kind = "contexts", NEW w, Keeps(v, w, {"kind", "id", "items"}),
           NEW ns, NEW cmds, Plain(cmds), Quiet(cmds),
           \A n \in w.pending : n \in v.pending \/ \E j \in DOMAIN cmds : cmds[j] = PingOf(n)
    PROVE  Goes(v, Kept(w, cmds), ns)
  <1>1. w.kind = v.kind /\ w.id = v.id /\ w.items = v.items /\ DOMAIN w = DOMAIN v
    BY DEF Keeps
  <1>2. IsView(w)
    BY <1>1 DEF IsView, WantsFilter, IsContexts
  <1>4. Kept(w, cmds).view = w /\ Kept(w, cmds).cmds = cmds
    BY DEF Kept
  <1>5. QED
    BY <1>1, <1>2, <1>4 DEF Goes

\* Only view and commands count.
LEMMA GoesKept ==
    ASSUME NEW v, NEW did, NEW ns, Goes(v, Kept(did.view, did.cmds), ns)
    PROVE  Goes(v, did, ns)
  <1>1. Kept(did.view, did.cmds).view = did.view /\ Kept(did.view, did.cmds).cmds = did.cmds
    BY DEF Kept
  <1>2. QED
    BY <1>1 DEF Goes

\* A view that is left as it is
LEMMA StaysGoes ==
    ASSUME NEW v, IsView(v), NEW ns, NEW cmds, Plain(cmds), Quiet(cmds)
    PROVE  Goes(v, Kept(v, cmds), ns)
  <1>1. Kept(v, cmds).view = v /\ Kept(v, cmds).cmds = cmds
    BY DEF Kept
  <1>2. QED
    BY <1>1 DEF Goes, SameShow

-----------------------------------------------------------------------------
(* Tables *)

\* What two changes keep, both of them together keep.
LEMMA KeepsTrans ==
    ASSUME NEW u, NEW v, NEW w, NEW F, Keeps(u, v, F), Keeps(v, w, F)
    PROVE  Keeps(u, w, F)
  BY DEF Keeps

\* The fields of a table.
LEMMA TableHas ==
    ASSUME NEW v, IsView(v), v.kind = "table"
    PROVE  TableFields \subseteq DOMAIN v
  BY DEF IsView, WantsFilter, IsTable, TableFields

\* The selection is all that fix_selection changes.
LEMMA FixKeeps ==
    ASSUME NEW v, TableFields \subseteq DOMAIN v
    PROVE  Keeps(v, FixSelection(v), TableFields)
  <1>1. \A ks : Keeps(v, SelectFirst(v, ks), TableFields)
    BY DEF Keeps, SelectFirst, TableFields
  <1>2. \A ks : Keeps(v, KeepSelection(v, ks), TableFields)
    BY <1>1 DEF KeepSelection, Keeps
  <1>3. QED
    BY <1>2 DEF FixSelection

\* Moving changes the selection at most.
LEMMA MoveKeeps ==
    ASSUME NEW v, TableFields \subseteq DOMAIN v, NEW delta
    PROVE  Keeps(v, Move(v, delta), TableFields)
  <1>1. \A x : Keeps(v, [v EXCEPT !.selected = x], TableFields)
    BY DEF Keeps, TableFields
  <1>2. \A ks : \E x : MoveAmong(v, ks, delta) = [v EXCEPT !.selected = x]
    BY Zenon DEF MoveAmong
  <1>3. QED
    BY <1>1, <1>2, Zenon DEF Move

\* The keys of pods, resources and events (handle_key of the three views).
LEMMA TableKeyGoes ==
    ASSUME NEW v, IsView(v), v.kind = "table", NEW k, NEW ns
    PROVE  Goes(v, TableKey(v, k), ns)
  <1>1. TableFields \subseteq DOMAIN v
    BY TableHas
  <1>2. Goes(v, Kept(v, <<>>), ns)
    BY StaysGoes, PlainNone
  <1>3. \A delta : Goes(v, Kept(Move(v, delta), <<>>), ns)
    BY <1>1, MoveKeeps, TableGoes, PlainNone
  <1>4. Goes(v, Kept(v, <<Watch(v)>>), ns)
    <2>1. Keeps(v, v, TableFields)
      BY DEF Keeps
    <2>2. QED
      BY <2>1, TableGoes
  <1>5. Goes(v, BrowseKey(v, k), ns)
    BY <1>2, <1>3, <1>4 DEF BrowseKey
  <1>6. \A column : Goes(v, SortBy(v, column), ns)
    <2>1. ASSUME NEW column PROVE Goes(v, SortBy(v, column), ns)
      <3>1. \A x : Keeps(v, [v EXCEPT !.sort = x], TableFields)
        BY <1>1 DEF Keeps, TableFields
      <3>2. QED
        BY <3>1, TableGoes, PlainNone DEF SortBy
    <2>2. QED
      BY <2>1
  <1>7. QED
    BY <1>5, <1>6 DEF TableKey, PodsKey, EventsKey, ResourcesKey

\* sync_namespace: after it the table is in the namespace, and has asked for its watch if it was not.
LEMMA FollowGoes ==
    ASSUME NEW v, IsView(v), v.kind = "table", NEW ns
    PROVE  /\ Goes(v, FollowNamespace(v, ns), ns)
           /\ InNs(FollowNamespace(v, ns).view, ns)
  <1> DEFINE w == [v EXCEPT !.ns = ns, !.rows = <<>>, !.selected = None, !.loaded = FALSE]
  <1>1. TableFields \subseteq DOMAIN v
    BY TableHas
  <1>2. CASE v.awaiting \/ v.shows \in ClusterScoped \/ v.ns = ns
    <2>1. FollowNamespace(v, ns) = Kept(v, <<>>) /\ Kept(v, <<>>).view = v
      BY <1>2 DEF FollowNamespace, Kept
    <2>2. QED
      BY <1>2, <2>1, StaysGoes, PlainNone DEF InNs, Live
  <1>3. CASE ~(v.awaiting \/ v.shows \in ClusterScoped \/ v.ns = ns)
    <2>1. FollowNamespace(v, ns) = Kept(w, <<Watch(w)>>)
      BY <1>3 DEF FollowNamespace
    <2>2. /\ DOMAIN w = DOMAIN v /\ w.ns = ns
          /\ \A f \in TableFields \ {"ns"} : w[f] = v[f]
      BY <1>1 DEF TableFields
    <2> HIDE DEF w
    <2>3. /\ w.kind = v.kind /\ w.id = v.id /\ w.shows = v.shows /\ w.filter = v.filter
      BY <2>2 DEF TableFields
    <2>4. IsView(w)
      BY <2>2, <2>3 DEF IsView, WantsFilter, IsTable
    <2>5. Kept(w, <<Watch(w)>>).view = w /\ Kept(w, <<Watch(w)>>).cmds = <<Watch(w)>>
      BY DEF Kept
    <2>6. QED
      BY <2>1, <2>2, <2>3, <2>4, <2>5, WatchIsPlain DEF Goes, InNs, Live
  <1>4. QED
    BY <1>2, <1>3

\* set_filter asks for the watch again if the labels change.
LEMMA SetFilterGoes ==
    ASSUME NEW v, IsView(v), v.kind = "table", NEW filter, IsFilter(filter), NEW ns
    PROVE  Goes(v, SetFilter(v, filter), ns)
  <1> DEFINE u == [v EXCEPT !.filter = filter]
             w == FixSelection(u)
  <1>1. TableFields \subseteq DOMAIN v
    BY TableHas
  <1>2. DOMAIN u = DOMAIN v /\ u.filter = filter /\ \A f \in TableFields \ {"filter"} : u[f] = v[f]
    BY <1>1 DEF TableFields
  <1>3. DOMAIN w = DOMAIN v /\ \A f \in TableFields : w[f] = u[f]
    <2>1. TableFields \subseteq DOMAIN u
      BY <1>1, <1>2
    <2> HIDE DEF u
    <2>2. Keeps(u, w, TableFields)
      BY <2>1, FixKeeps
    <2>3. QED
      BY <1>2, <2>2 DEF Keeps
  <1>4. SetFilter(v, filter) = Refiltered(w, v.filter.labels)
    BY DEF SetFilter
  <1> HIDE DEF u, w
  <1>5. /\ w.kind = v.kind /\ w.id = v.id /\ w.shows = v.shows /\ w.ns = v.ns /\ w.selector = v.selector
        /\ w.awaiting = v.awaiting /\ w.filter = filter
    BY <1>2, <1>3 DEF TableFields
  <1>6. CASE w.shows = "Event"
    <2> DEFINE x == [w EXCEPT !.filter.labels = None]
    <2>1. DOMAIN x = DOMAIN v /\ \A f \in TableFields \ {"filter"} : x[f] = w[f]
      BY <1>1, <1>3 DEF TableFields
    <2>2. x.filter = [w.filter EXCEPT !.labels = None]
      BY <1>1, <1>3 DEF TableFields
    <2>3. IsFilter(x.filter) /\ x.filter.labels = None
      BY <1>5, <2>2 DEF IsFilter
    <2>4. SetFilter(v, filter) = Kept(x, <<>>)
      BY <1>4, <1>6 DEF Refiltered, FilterEvents
    <2> HIDE DEF x
    <2>5. x.kind = v.kind /\ x.id = v.id /\ x.shows = v.shows /\ x.ns = v.ns /\ x.selector = v.selector /\ x.awaiting = v.awaiting
      BY <1>5, <2>1 DEF TableFields
    <2>6. IsView(x)
      BY <1>1, <2>1, <2>3, <2>5 DEF IsView, WantsFilter, IsTable, TableFields
    <2>7. v.filter.labels = None
      BY <1>5, <1>6 DEF IsView, WantsFilter, IsTable
    <2>8. Kept(x, <<>>).view = x /\ Kept(x, <<>>).cmds = <<>>
      BY DEF Kept
    <2>9. QED
      BY <2>3, <2>4, <2>5, <2>6, <2>7, <2>8, PlainNone DEF Goes, SameShow
  <1>7. CASE w.shows # "Event"
    <2>1. SetFilter(v, filter) = Rewatched(w, v.filter.labels)
      BY <1>4, <1>7 DEF Refiltered
    <2>2. IsView(w)
      BY <1>1, <1>3, <1>5, <1>7 DEF IsView, WantsFilter, IsTable, TableFields
    <2>3. CASE w.filter.labels = v.filter.labels
      <3>1. SetFilter(v, filter) = Kept(w, <<>>)
        BY <2>1, <2>3 DEF Rewatched
      <3>2. Kept(w, <<>>).view = w /\ Kept(w, <<>>).cmds = <<>>
        BY DEF Kept
      <3>3. QED
        BY <1>5, <2>2, <2>3, <3>1, <3>2, PlainNone DEF Goes, SameShow
    <2>4. CASE w.filter.labels # v.filter.labels
      <3> DEFINE x == [w EXCEPT !.rows = <<>>, !.loaded = FALSE]
      <3>1. SetFilter(v, filter) = Kept(x, <<Watch(w)>>)
        BY <2>1, <2>4 DEF Rewatched
      <3>2. Keeps(w, x, TableFields)
        BY <1>1, <1>3 DEF Keeps, TableFields
      <3> HIDE DEF x
      <3>3. /\ x.kind = w.kind /\ x.id = w.id /\ x.shows = w.shows /\ x.ns = w.ns /\ x.selector = w.selector
            /\ x.awaiting = w.awaiting /\ x.filter = w.filter
        BY <3>2 DEF Keeps, TableFields
      <3>4. Watch(w) = Watch(x)
        BY <3>3 DEF Watch
      <3>5. IsView(x)
        BY <1>5, <2>2, <3>2, <3>3 DEF IsView, WantsFilter, IsTable, Keeps
      <3>6. Kept(x, <<Watch(x)>>).view = x /\ Kept(x, <<Watch(x)>>).cmds = <<Watch(x)>>
        BY DEF Kept
      <3>7. QED
        BY <1>5, <3>1, <3>3, <3>4, <3>5, <3>6, WatchIsPlain DEF Goes
    <2>5. QED
      BY <2>3, <2>4
  <1>8. QED
    BY <1>6, <1>7

\* Rows that arrive change what is listed, not what is watched.
LEMMA RowsGoes ==
    ASSUME NEW v, IsView(v), v.kind = "table", NEW e, NEW ns
    PROVE  Goes(v, Kept(OnRows(v, e), <<>>), ns)
  <1>1. TableFields \subseteq DOMAIN v
    BY TableHas
  <1>2. ASSUME NEW rows PROVE Keeps(v, FixSelection([v EXCEPT !.loaded = TRUE, !.rows = rows]), TableFields)
    <2> DEFINE u == [v EXCEPT !.loaded = TRUE, !.rows = rows]
    <2>1. Keeps(v, u, TableFields) /\ TableFields \subseteq DOMAIN u
      BY <1>1 DEF Keeps, TableFields
    <2> HIDE DEF u
    <2>2. Keeps(u, FixSelection(u), TableFields)
      BY <2>1, FixKeeps
    <2>3. Keeps(v, FixSelection(u), TableFields)
      BY <2>1, <2>2, KeepsTrans
    <2>4. QED
      BY <2>3 DEF u
  <1>3. \E rows : OnRows(v, e) = FixSelection([v EXCEPT !.loaded = TRUE, !.rows = rows])
    BY Zenon DEF OnRows
  <1>4. Keeps(v, OnRows(v, e), TableFields)
    BY <1>2, <1>3, Zenon
  <1>5. QED
    BY <1>4, TableGoes, PlainNone

\* Nor do metrics.
LEMMA MetricsGoes ==
    ASSUME NEW v, IsView(v), v.kind = "table", NEW polled, NEW ns
    PROVE  Goes(v, Kept(OnMetrics(v, polled), <<>>), ns)
  <1>1. TableFields \subseteq DOMAIN v
    BY TableHas
  <1>2. \A x : Keeps(v, [v EXCEPT !.metrics = x], TableFields) /\ Keeps(v, v, TableFields)
    BY <1>1 DEF Keeps, TableFields
  <1>3. OnMetrics(v, polled) = v \/ \E x : OnMetrics(v, polled) = [v EXCEPT !.metrics = x]
    BY Zenon DEF OnMetrics
  <1>4. Keeps(v, OnMetrics(v, polled), TableFields)
    BY <1>2, <1>3, Zenon
  <1>5. QED
    BY <1>4, TableGoes, PlainNone

\* Nor does the fault filter.
LEMMA FaultsGoes ==
    ASSUME NEW v, IsView(v), v.kind = "table", NEW ns
    PROVE  Goes(v, Kept(ToggleFaults(v), <<>>), ns)
  <1> DEFINE u == [v EXCEPT !.faults = ~@]
  <1>1. TableFields \subseteq DOMAIN v
    BY TableHas
  <1>2. Keeps(v, u, TableFields) /\ TableFields \subseteq DOMAIN u
    BY <1>1 DEF Keeps, TableFields
  <1>3. ToggleFaults(v) = FixSelection(u)
    BY DEF ToggleFaults
  <1> HIDE DEF u
  <1>4. Keeps(v, FixSelection(u), TableFields)
    BY <1>2, FixKeeps, KeepsTrans
  <1>5. QED
    BY <1>3, <1>4, TableGoes, PlainNone

\* Flags of what is fetched and picked, a shell, a forward, a pick
LEMMA AsideGoes ==
    ASSUME NEW v, IsView(v), v.kind = "table", NEW w, NEW ns, NEW cmds, Plain(cmds), Quiet(cmds),
           DOMAIN w = DOMAIN v, \A f \in DOMAIN v \ {"exec", "attach", "pf", "of", "svc"} : w[f] = v[f]
    PROVE  Goes(v, Kept(w, cmds), ns)
  <1>1. Keeps(v, w, TableFields)
    BY TableHas DEF Keeps, TableFields
  <1>2. QED
    BY <1>1, TableGoes

\* The commands of shells and forwards lead to no watch.
LEMMA TableCmds ==
    ASSUME NEW v, NEW x, NEW y, NEW z
    PROVE  /\ Plain(<<Suspend(x, y, z)>>) /\ Quiet(<<Suspend(x, y, z)>>)
           /\ Plain(<<StartForward(v, x, y)>>) /\ Quiet(<<StartForward(v, x, y)>>)
           /\ Plain(<<PickFrom(v, x, y)>>) /\ Quiet(<<PickFrom(v, x, y)>>)
           /\ Plain(<<Endpoint(v, x, y)>>) /\ Quiet(<<Endpoint(v, x, y)>>)
  <1>1. /\ Suspend(x, y, z).cmd = "Suspend" /\ StartForward(v, x, y).cmd = "Forward"
        /\ PickFrom(v, x, y).cmd = "Pick" /\ Endpoint(v, x, y).cmd = "Fetch"
    BY DEF Suspend, StartForward, PickFrom, Endpoint
  <1>2. QED
    BY <1>1, PlainOne DEF PlainKinds

\* on_msg: the containers for a shell or an attach.
LEMMA ContainersGoes ==
    ASSUME NEW v, IsView(v), v.kind = "table", NEW what \in {"exec", "attach"}, NEW pod, NEW found, NEW ns
    PROVE  Goes(v, OnContainers(v, what, pod, found), ns)
  <1> DEFINE w == [v EXCEPT !.of = pod, ![what] = FALSE]
             x == [w EXCEPT ![what] = TRUE]
  <1>1. DOMAIN w = DOMAIN v /\ \A f \in DOMAIN v \ {"exec", "attach", "pf", "of", "svc"} : w[f] = v[f]
    OBVIOUS
  <1>2. DOMAIN x = DOMAIN v /\ \A f \in DOMAIN v \ {"exec", "attach", "pf", "of", "svc"} : x[f] = v[f]
    <2> HIDE DEF w
    <2>1. QED
      BY <1>1
  <1>3. OnContainers(v, what, pod, found) \in {Kept(w, <<>>), Kept(w, <<Suspend(what, pod, found[1])>>),
                                               Kept(x, <<PickFrom(v, <<what, pod>>, found)>>)}
    <2>1. \/ OnContainers(v, what, pod, found) = Kept(w, <<>>)
          \/ OnContainers(v, what, pod, found) = Kept(w, <<Suspend(what, pod, found[1])>>)
          \/ OnContainers(v, what, pod, found) = Kept(x, <<PickFrom(v, <<what, pod>>, found)>>)
      BY DEF OnContainers
    <2>2. QED
      BY <2>1, Zenon
  <1> HIDE DEF w, x
  <1>4. QED
    BY <1>1, <1>2, <1>3, AsideGoes, TableCmds, PlainNone

\* on_msg: the ports for a forward.
LEMMA PortsGoes ==
    ASSUME NEW v, IsView(v), v.kind = "table", NEW x, NEW found, NEW ns
    PROVE  Goes(v, OnForwardPorts(v, x, found), ns) /\ Goes(v, OnServicePorts(v, x, found), ns)
  <1> DEFINE w == [v EXCEPT !.of = x, !.pf = FALSE]
             u == [w EXCEPT !.pf = TRUE]
             y == [v EXCEPT !.svc = x]
  <1>1. /\ DOMAIN w = DOMAIN v /\ \A f \in DOMAIN v \ {"exec", "attach", "pf", "of", "svc"} : w[f] = v[f]
        /\ DOMAIN u = DOMAIN v /\ \A f \in DOMAIN v \ {"exec", "attach", "pf", "of", "svc"} : u[f] = v[f]
        /\ DOMAIN y = DOMAIN v /\ \A f \in DOMAIN v \ {"exec", "attach", "pf", "of", "svc"} : y[f] = v[f]
    OBVIOUS
  <1>2. \/ OnForwardPorts(v, x, found) = Kept(w, <<StartForward(v, x, found[1])>>)
        \/ OnForwardPorts(v, x, found) = Kept(u, <<PickFrom(v, <<"exec", x>>, found)>>)
    BY Zenon DEF OnForwardPorts
  <1>3. \/ OnServicePorts(v, x, found) = Kept(v, <<>>)
        \/ OnServicePorts(v, x, found) = Kept(v, <<Endpoint(v, x, found[1])>>)
        \/ OnServicePorts(v, x, found) = Kept(y, <<PickFrom(v, <<"container", x>>, found)>>)
    BY DEF OnServicePorts
  <1> HIDE DEF w, u, y
  <1>4. QED
    BY <1>1, <1>2, <1>3, AsideGoes, TableCmds, PlainNone, StaysGoes

\* on_msg: the selector that was waited for starts the watch of a drill-down.
LEMMA SelectorGoes ==
    ASSUME NEW v, IsView(v), v.kind = "table", NEW selector, NEW ns
    PROVE  Goes(v, OnSelector(v, selector, ns), ns)
  <1> DEFINE w == [v EXCEPT !.selector = selector, !.awaiting = FALSE, !.ns = ns]
  <1>1. TableFields \subseteq DOMAIN v
    BY TableHas
  <1>2. DOMAIN w = DOMAIN v /\ w.ns = ns /\ w.kind = v.kind /\ w.id = v.id /\ w.shows = v.shows /\ w.filter = v.filter
    BY <1>1 DEF TableFields
  <1>3. OnSelector(v, selector, ns) = Kept(w, <<Watch(w)>>)
    BY DEF OnSelector
  <1> HIDE DEF w
  <1>4. IsView(w)
    BY <1>2 DEF IsView, WantsFilter, IsTable
  <1>5. Kept(w, <<Watch(w)>>).view = w /\ Kept(w, <<Watch(w)>>).cmds = <<Watch(w)>>
    BY DEF Kept
  <1>6. QED
    BY <1>2, <1>3, <1>4, <1>5, WatchIsPlain DEF Goes

\* Any answer to a table.
LEMMA TableAnswerGoes ==
    ASSUME NEW v, IsView(v), v.kind = "table", NEW a, NEW ns
    PROVE  Goes(v, OnAnswer(v, a, ns), ns)
  <1>1. Goes(v, Kept(v, <<>>), ns)
    BY StaysGoes, PlainNone
  <1>2. CASE a.what \in {"exec", "attach"}
    <2>1. OnAnswer(v, a, ns) = OnContainers(v, a.what, a.of, a.found)
      BY <1>2 DEF OnAnswer
    <2>2. QED
      BY <1>2, <2>1, ContainersGoes
  <1>3. CASE a.what = "Endpoint"
    <2> DEFINE w == [v EXCEPT !.pf = IF v.shows = "Pod" THEN FALSE ELSE @]
    <2>1. OnAnswer(v, a, ns) = Kept(w, <<StartForward(v, a.of, a.found[1])>>)
      BY <1>3 DEF OnAnswer
    <2>2. DOMAIN w = DOMAIN v /\ \A f \in DOMAIN v \ {"exec", "attach", "pf", "of", "svc"} : w[f] = v[f]
      OBVIOUS
    <2> HIDE DEF w
    <2>3. QED
      BY <2>1, <2>2, AsideGoes, TableCmds
  <1>4. CASE a.what \notin {"exec", "attach", "Endpoint"}
    <2>1. \/ OnAnswer(v, a, ns) = Kept(v, <<>>)
          \/ OnAnswer(v, a, ns) = OnForwardPorts(v, a.of, a.found)
          \/ OnAnswer(v, a, ns) = OnServicePorts(v, a.of, a.found)
          \/ OnAnswer(v, a, ns) = OnSelector(v, a.found, ns)
      BY <1>4 DEF OnAnswer
    <2>2. QED
      BY <1>1, <2>1, PortsGoes, SelectorGoes
  <1>5. QED
    BY <1>2, <1>3, <1>4

\* What was picked for a shell or a forward.
LEMMA TablePickedGoes ==
    ASSUME NEW v, IsView(v), v.kind = "table", NEW choice, NEW port, NEW ns
    PROVE  Goes(v, OnPicked(v, choice, port), ns)
  <1> DEFINE F == {"exec", "attach", "pf", "of", "svc"}
             aside(w) == DOMAIN w = DOMAIN v /\ \A f \in DOMAIN v \ F : w[f] = v[f]
             a == [v EXCEPT !.svc = None]
             b == [v EXCEPT !.exec = FALSE, !.attach = FALSE, !.pf = FALSE]
             c == [v EXCEPT !.attach = FALSE]
             d == [v EXCEPT !.exec = FALSE]
             e == [v EXCEPT !.pf = FALSE]
  <1>1. aside(a) /\ aside(b) /\ aside(c) /\ aside(d) /\ aside(e) /\ aside(v)
    OBVIOUS
  <1>2. \/ OnPicked(v, choice, port) = Kept(a, <<Endpoint(v, v.svc, choice)>>)
        \/ OnPicked(v, choice, port) = Kept(a, <<>>)
        \/ OnPicked(v, choice, port) = Kept(b, <<>>)
        \/ OnPicked(v, choice, port) = Kept(c, <<Suspend("attach", v.of, choice)>>)
        \/ OnPicked(v, choice, port) = Kept(d, <<Suspend("exec", v.of, choice)>>)
        \/ OnPicked(v, choice, port) = Kept(e, <<StartForward(v, v.of, choice)>>)
        \/ OnPicked(v, choice, port) = Kept(e, <<>>)
        \/ OnPicked(v, choice, port) = Kept(v, <<>>)
    <2> HIDE DEF F
    <2>1. QED
      BY DEF OnPicked
  <1> HIDE DEF a, b, c, d, e
  <1>3. QED
    BY <1>1, <1>2, AsideGoes, TableCmds, PlainNone

-----------------------------------------------------------------------------
(* Counting up, and commands in a row *)

\* Counting from 0 to n, in place of a theorem of induction.
LEMMA CountUp ==
    ASSUME NEW n \in Nat, NEW S, 0 \in S, \A i \in 1..n : i - 1 \in S => i \in S
    PROVE  n \in S
  <1> DEFINE out == {i \in 0..n : i \notin S}
  <1>1. SUFFICES ASSUME out # {} PROVE FALSE
    OBVIOUS
  <1>2. PICK m \in out : \A j \in out : m <= j
    <2>1. out \subseteq Nat
      OBVIOUS
    <2> HIDE DEF out
    <2>2. QED
      BY <1>1, <2>1, LeastExists
  <1>3. m \in 1..n /\ m - 1 \in 0..n /\ ~(m <= m - 1)
    OBVIOUS
  <1>4. m - 1 \in S
    BY <1>2, <1>3
  <1>5. QED
    BY <1>3, <1>4

\* Commands in a row are plain, or without a watch, if each part is.
LEMMA PlainConcat ==
    ASSUME NEW a, NEW b, Plain(a), Plain(b)
    PROVE  Plain(a \o b) /\ (Quiet(a) /\ Quiet(b) => Quiet(a \o b))
  <1>1. /\ IsSeq(a \o b)
        /\ \A i \in 1..Len(a) : (a \o b)[i] = a[i]
        /\ \A i \in DOMAIN (a \o b) : (i \in 1..Len(a) \/ (i - Len(a) \in 1..Len(b) /\ (a \o b)[i] = b[i - Len(a)]))
    BY ConcatIs DEF Plain
  <1>2. DOMAIN a = 1..Len(a) /\ DOMAIN b = 1..Len(b)
    BY SeqHas DEF Plain
  <1>3. QED
    BY <1>1, <1>2 DEF Plain, Quiet

-----------------------------------------------------------------------------
(* The list of contexts *)

\* ping_missing: what became pending is pinged.
LEMMA PingFacts ==
    ASSUME NEW v, IsView(v), v.kind = "contexts"
    PROVE  /\ Keeps(v, PingMissing(v).view, {"kind", "id", "items"})
           /\ Plain(PingMissing(v).cmds) /\ Quiet(PingMissing(v).cmds)
           /\ \A n \in PingMissing(v).view.pending :
                 n \in v.pending \/ \E j \in DOMAIN PingMissing(v).cmds : PingMissing(v).cmds[j] = PingOf(n)
  <1> DEFINE Asking(p) ==
                 /\ Keeps(v, p.view, {"kind", "id", "items"})
                 /\ Plain(p.cmds) /\ Quiet(p.cmds)
                 /\ \A n \in p.view.pending : n \in v.pending \/ \E j \in DOMAIN p.cmds : p.cmds[j] = PingOf(n)
  <1>1. {"kind", "id", "items", "pings", "pending"} \subseteq DOMAIN v /\ IsSeq(v.items)
    BY DEF IsView, WantsFilter, IsContexts
  <1>2. Asking(Kept(v, <<>>))
    <2>1. Kept(v, <<>>).view = v /\ Kept(v, <<>>).cmds = <<>>
      BY DEF Kept
    <2>2. QED
      BY <1>1, <2>1, PlainNone DEF Keeps
  <1>3. ASSUME NEW p, Asking(p), NEW name PROVE Asking(Asked(p, name))
    <2>1. CASE Cardinality(p.view.pending) >= MaxPings \/ name \in p.view.pings \cup p.view.pending
      <3>1. Asked(p, name) = p
        BY <2>1 DEF Asked
      <3>2. QED
        BY <1>3, <3>1
    <2>2. CASE ~(Cardinality(p.view.pending) >= MaxPings \/ name \in p.view.pings \cup p.view.pending)
      <3> DEFINE w == [p.view EXCEPT !.pending = @ \cup {name}]
                 c == [cmd |-> "Ping", context |-> name]
                 cs == Append(p.cmds, c)
      <3>1. Asked(p, name) = Kept(w, cs) /\ Kept(w, cs).view = w /\ Kept(w, cs).cmds = cs
        BY <2>2 DEF Asked, Kept
      <3>2. DOMAIN w = DOMAIN v /\ w.pending = p.view.pending \cup {name} /\ Keeps(v, w, {"kind", "id", "items"})
        BY <1>1, <1>3 DEF Keeps
      <3>4. /\ IsSeq(cs) /\ DOMAIN cs = 1..(Len(p.cmds) + 1) /\ DOMAIN p.cmds = 1..Len(p.cmds) /\ Len(p.cmds) \in Nat
            /\ \A i \in DOMAIN p.cmds : cs[i] = p.cmds[i]
            /\ cs[Len(p.cmds) + 1] = c
        <4>1. IsSeq(p.cmds)
          BY <1>3 DEF Plain
        <4>2. QED
          BY <4>1, AppendIs, SeqHas
      <3>5. c.cmd = "Ping" /\ c = PingOf(name)
        BY DEF PingOf
      <3> HIDE DEF w, c, cs
      <3>6. Plain(cs) /\ Quiet(cs)
        BY <1>3, <3>4, <3>5 DEF Plain, Quiet, PlainKinds
      <3>7. \A n \in w.pending : n \in v.pending \/ \E j \in DOMAIN cs : cs[j] = PingOf(n)
        BY <1>3, <3>2, <3>4, <3>5
      <3>8. QED
        BY <3>1, <3>2, <3>6, <3>7
    <2>3. QED
      BY <2>1, <2>2
  <1>4. PICK g : /\ g[0] = Kept(v, <<>>)
                 /\ \A i \in 1..Len(v.items) : g[i] = Asked(g[i - 1], v.items[i])
                 /\ PingMissing(v) = g[Len(v.items)]
    BY <1>1, AskTrail
  <1> DEFINE S == {i \in 0..Len(v.items) : Asking(g[i])}
  <1>5. Len(v.items) \in Nat
    BY <1>1 DEF IsSeq
  <1> HIDE DEF Asking
  <1>a. 0 \in S
    BY <1>2, <1>4, <1>5
  <1>6. \A i \in 1..Len(v.items) : i - 1 \in S => i \in S
    BY <1>3, <1>4, <1>5
  <1>7. Len(v.items) \in S
    <2> HIDE DEF S
    <2>1. QED
      BY <1>5, <1>a, <1>6, CountUp
  <1>8. Asking(PingMissing(v))
    BY <1>4, <1>7
  <1>9. QED
    BY <1>8 DEF Asking

\* So the list of contexts goes on as it should.
LEMMA PingGoes ==
    ASSUME NEW v, IsView(v), v.kind = "contexts", NEW ns
    PROVE  Goes(v, PingMissing(v), ns)
  <1>1. QED
    BY PingFacts, GoesKept, ContextsGoes

\* An answer to a ping takes its context from what is pending.
LEMMA PingedGoes ==
    ASSUME NEW v, IsView(v), v.kind = "contexts", NEW name, NEW ns
    PROVE  Goes(v, Kept(Pinged(v, name), <<>>), ns) /\ Pinged(v, name).pending = v.pending \ {name}
  <1> DEFINE w == Pinged(v, name)
  <1>1. {"kind", "id", "items", "pings", "pending"} \subseteq DOMAIN v
    BY DEF IsView, WantsFilter, IsContexts
  <1>2. Keeps(v, w, {"kind", "id", "items"}) /\ w.pending = v.pending \ {name}
    BY <1>1 DEF Keeps, Pinged
  <1> HIDE DEF w
  <1>6. Goes(v, Kept(w, <<>>), ns)
    BY <1>2, ContextsGoes, PlainNone
  <1>7. QED
    BY <1>2, <1>6 DEF w

\* The selection and the filter of the contexts matter to no ping.
LEMMA SelectedGoes ==
    ASSUME NEW v, IsView(v), v.kind = "contexts", NEW w, NEW ns, DOMAIN w = DOMAIN v,
           \A f \in DOMAIN v \ {"selected", "filter"} : w[f] = v[f]
    PROVE  Goes(v, Kept(w, <<>>), ns)
  <1>1. {"kind", "id", "items", "pings", "pending"} \subseteq DOMAIN v
    BY DEF IsView, WantsFilter, IsContexts
  <1>2. Keeps(v, w, {"kind", "id", "items"}) /\ w.pending = v.pending
    BY <1>1 DEF Keeps
  <1>3. QED
    BY <1>1, <1>2, ContextsGoes, PlainNone

\* The keys of the contexts, with the refresh that keeps what is pending.
LEMMA ContextsKeyGoes ==
    ASSUME NEW v, IsView(v), v.kind = "contexts", NEW k, NEW ns
    PROVE  Goes(v, ContextsKey(v, k), ns)
  <1> DEFINE u == [v EXCEPT !.pings = {}, !.pending = {}]
             c == [cmd |-> "Connect", context |-> v.selected]
  <1>1. Goes(v, Kept(v, <<>>), ns)
    BY StaysGoes, PlainNone
  <1>2. \A x : Goes(v, Kept([v EXCEPT !.selected = x], <<>>), ns)
    <2>1. \A x : LET w == [v EXCEPT !.selected = x] IN
                 DOMAIN w = DOMAIN v /\ \A f \in DOMAIN v \ {"selected", "filter"} : w[f] = v[f]
      OBVIOUS
    <2>2. QED
      BY <2>1, SelectedGoes
  <1>3. Goes(v, Kept(v, <<c>>), ns)
    <2>1. c.cmd = "Connect"
      OBVIOUS
    <2> HIDE DEF c
    <2>2. QED
      BY <2>1, StaysGoes, PlainOne DEF PlainKinds
  <1>4. Goes(v, PingMissing(u), ns)
    <2>1. {"kind", "id", "items", "pings", "pending"} \subseteq DOMAIN v /\ IsSeq(v.items)
      BY DEF IsView, WantsFilter, IsContexts
    <2>2. Keeps(v, u, {"kind", "id", "items"}) /\ u.pending = {} /\ DOMAIN u = DOMAIN v
      BY <2>1 DEF Keeps
    <2> HIDE DEF u
    <2>3. u.kind = "contexts" /\ u.items = v.items
      BY <2>2 DEF Keeps
    <2>4. IsView(u)
      BY <2>1, <2>2, <2>3 DEF IsView, WantsFilter, IsContexts
    <2> DEFINE w == PingMissing(u).view
               cs == PingMissing(u).cmds
    <2>5. /\ Keeps(u, w, {"kind", "id", "items"})
          /\ Plain(cs) /\ Quiet(cs)
          /\ \A n \in w.pending : n \in u.pending \/ \E j \in DOMAIN cs : cs[j] = PingOf(n)
      BY <2>3, <2>4, PingFacts
    <2>6. Keeps(v, w, {"kind", "id", "items"})
      BY <2>2, <2>5, KeepsTrans
    <2> HIDE DEF w, cs
    <2>7. Goes(v, Kept(w, cs), ns)
      BY <2>2, <2>5, <2>6, ContextsGoes
    <2>8. QED
      BY <2>7, GoesKept DEF w, cs
  <1>5. \/ ContextsKey(v, k) = Kept(v, <<>>) \/ ContextsKey(v, k) = Kept(v, <<c>>)
        \/ ContextsKey(v, k) = PingMissing(u) \/ \E x : ContextsKey(v, k) = Kept([v EXCEPT !.selected = x], <<>>)
    <2> HIDE DEF u
    <2>1. CASE k.key = "down"
      BY <2>1, Zenon DEF ContextsKey
    <2>2. CASE k.key = "up"
      BY <2>2 DEF ContextsKey
    <2>3. CASE k.key = "home"
      BY <2>3 DEF ContextsKey
    <2>4. CASE k.key = "end"
      BY <2>4 DEF ContextsKey
    <2>5. CASE k.key \notin {"down", "up", "home", "end"}
      BY <2>5 DEF ContextsKey, u
    <2>6. QED
      BY <2>1, <2>2, <2>3, <2>4, <2>5
  <1> HIDE DEF u, c
  <1>6. QED
    BY <1>1, <1>2, <1>3, <1>4, <1>5

\* The filter of the contexts.
LEMMA FilterContextsGoes ==
    ASSUME NEW v, IsView(v), v.kind = "contexts", NEW names, NEW ns
    PROVE  Goes(v, FilterContexts(v, names), ns)
  <1> DEFINE w == [v EXCEPT !.filter = names]
  <1>1. DOMAIN w = DOMAIN v /\ \A f \in DOMAIN v \ {"selected", "filter"} : w[f] = v[f]
    OBVIOUS
  <1>2. \/ FilterContexts(v, names) = Kept(w, <<>>)
        \/ \E x : FilterContexts(v, names) = Kept([w EXCEPT !.selected = x], <<>>)
    BY Zenon DEF FilterContexts
  <1> HIDE DEF w
  <1>3. \A x : LET y == [w EXCEPT !.selected = x] IN
               DOMAIN y = DOMAIN v /\ \A f \in DOMAIN v \ {"selected", "filter"} : y[f] = v[f]
    BY <1>1
  <1>4. \A x : Goes(v, Kept([w EXCEPT !.selected = x], <<>>), ns)
    BY <1>3, SelectedGoes
  <1>5. QED
    BY <1>1, <1>2, <1>4, SelectedGoes

-----------------------------------------------------------------------------
(* Logs *)

\* The fields of a log.
LEMMA LogsHas ==
    ASSUME NEW v, IsView(v), v.kind = "logs"
    PROVE  {"kind", "id", "targets", "handles"} \subseteq DOMAIN v /\ IsSeq(v.targets) /\ IsSeq(v.handles)
  BY DEF IsView, WantsFilter, IsLogs

\* The commands that start the streams of a log.
LEMMA StreamsArePlain ==
    ASSUME NEW v, NEW from \in Int, Len(v.targets) \in Nat
    PROVE  Plain(StreamCmds(v, from)) /\ Quiet(StreamCmds(v, from))
  <1> DEFINE cs == StreamCmds(v, from)
             n == IF Len(v.targets) - from >= 0 THEN Len(v.targets) - from ELSE 0
  <1>1. n \in Nat /\ 1..(Len(v.targets) - from) = 1..n
    OBVIOUS
  <1>2. /\ DOMAIN cs = 1..n /\ cs = [i \in 1..n |-> cs[i]]
        /\ \A i \in 1..n : cs[i].cmd = "StartLogs"
    <2>1. cs = [i \in 1..n |-> [cmd |-> "StartLogs", view |-> v.id, target |-> v.targets[from + i], mode |-> v.mode]]
      BY <1>1 DEF StreamCmds
    <2> HIDE DEF cs, n
    <2>2. QED
      BY <2>1
  <1> HIDE DEF cs, n
  <1>3. IsSeq(cs)
    BY <1>1, <1>2, SeqIs
  <1>4. Plain(cs) /\ Quiet(cs)
    BY <1>2, <1>3 DEF Plain, Quiet, PlainKinds
  <1>5. QED
    BY <1>4 DEF cs

\* The commands that stop them.
LEMMA StopsArePlain ==
    ASSUME NEW v, IsSeq(v.handles)
    PROVE  Plain(StopStreams(v)) /\ Quiet(StopStreams(v))
  <1> DEFINE cs == StopStreams(v)
             n == Len(v.handles)
  <1>1. n \in Nat /\ DOMAIN v.handles = 1..n
    BY SeqHas
  <1>2. /\ DOMAIN cs = 1..n /\ cs = [i \in 1..n |-> cs[i]]
        /\ \A i \in 1..n : cs[i].cmd = "Stop"
    <2>1. cs = [i \in 1..n |-> [cmd |-> "Stop", stream |-> v.handles[i]]]
      BY <1>1 DEF StopStreams
    <2> HIDE DEF cs, n
    <2>2. QED
      BY <2>1
  <1> HIDE DEF cs, n
  <1>3. IsSeq(cs)
    BY <1>1, <1>2, SeqIs
  <1>4. Plain(cs) /\ Quiet(cs)
    BY <1>2, <1>3 DEF Plain, Quiet, PlainKinds
  <1>5. QED
    BY <1>4 DEF cs

\* A request.
LEMMA FetchIsPlain ==
    ASSUME NEW v, NEW what, NEW of
    PROVE  Fetch(v, what, of).cmd = "Fetch" /\ Plain(<<Fetch(v, what, of)>>) /\ Quiet(<<Fetch(v, what, of)>>)
  <1>1. Fetch(v, what, of).cmd = "Fetch"
    BY DEF Fetch
  <1>2. QED
    BY <1>1, PlainOne DEF PlainKinds

\* What is on screen and the flags of what was asked for
LEMMA ScreenGoes ==
    ASSUME NEW v, IsView(v), v.kind = "logs", NEW w, NEW ns, NEW cmds, Plain(cmds), Quiet(cmds), DOMAIN w = DOMAIN v,
           \A f \in {"kind", "id", "targets", "handles"} : w[f] = v[f]
    PROVE  Goes(v, Kept(w, cmds), ns)
  <1>1. Keeps(v, w, {"kind", "id"}) /\ IsSeq(w.targets) /\ IsSeq(w.handles)
    BY LogsHas DEF Keeps
  <1>2. QED
    BY <1>1, LogsGoes

\* A log that starts its streams again.
LEMMA RestartGoes ==
    ASSUME NEW v, IsView(v), v.kind = "logs", NEW u, NEW ns, DOMAIN u = DOMAIN v,
           \A f \in {"kind", "id", "targets", "handles"} : u[f] = v[f]
    PROVE  Goes(v, RestartLogs(u), ns)
  <1> DEFINE w == [u EXCEPT !.handles = <<>>, !.lines = <<>>, !.back = 0, !.failed = FALSE]
             cs == StopStreams(u) \o StreamCmds(w, 0)
  <1>1. RestartLogs(u) = Kept(w, cs)
    BY DEF RestartLogs
  <1>2. {"kind", "id", "targets", "handles"} \subseteq DOMAIN v /\ IsSeq(v.targets) /\ IsSeq(v.handles)
    BY LogsHas
  <1>3. Keeps(v, w, {"kind", "id"}) /\ w.targets = v.targets /\ w.handles = <<>>
    BY <1>2 DEF Keeps
  <1> HIDE DEF w
  <1>4. Plain(cs) /\ Quiet(cs)
    <2>1. Plain(StopStreams(u)) /\ Quiet(StopStreams(u))
      BY <1>2, StopsArePlain
    <2>2. Plain(StreamCmds(w, 0)) /\ Quiet(StreamCmds(w, 0))
      BY <1>2, <1>3, StreamsArePlain DEF IsSeq
    <2>3. QED
      BY <2>1, <2>2, PlainConcat
  <1> HIDE DEF cs
  <1>5. QED
    BY <1>1, <1>2, <1>3, <1>4, LogsGoes, EmptyIsSeq

\* Scrolling changes the place on the screen only.
LEMMA ScrollKeeps ==
    ASSUME NEW v, NEW delta
    PROVE  \E x, y : ScrollBy(v, delta) = [v EXCEPT !.back = x, !.auto = y]
  BY Zenon DEF ScrollBy

\* The keys of a log.
LEMMA LogsKeyGoes ==
    ASSUME NEW v, IsView(v), v.kind = "logs", NEW k, NEW ns
    PROVE  Goes(v, LogsKey(v, k), ns)
  <1> DEFINE like(w) == DOMAIN w = DOMAIN v /\ \A f \in {"kind", "id", "targets", "handles"} : w[f] = v[f]
  <1>1. {"kind", "id", "targets", "handles"} \subseteq DOMAIN v
    BY LogsHas
  <1>2. /\ \A x, y : like([v EXCEPT !.back = x, !.auto = y])
        /\ \A x : like([v EXCEPT !.lines = x]) /\ like([v EXCEPT !.mode = x])
        /\ like(v)
    BY <1>1
  <1>3. \A delta : like(ScrollBy(v, delta)) /\ like([ScrollBy(v, delta) EXCEPT !.auto = FALSE])
    <2>1. \A w : like(w) => like([w EXCEPT !.auto = FALSE])
      BY <1>1
    <2>2. ASSUME NEW delta PROVE like(ScrollBy(v, delta))
      <3>1. PICK x, y : ScrollBy(v, delta) = [v EXCEPT !.back = x, !.auto = y]
        BY ScrollKeeps
      <3>2. like([v EXCEPT !.back = x, !.auto = y])
        BY <1>2
      <3> HIDE DEF like
      <3>3. QED
        BY <3>1, <3>2
    <2> HIDE DEF like
    <2>3. QED
      BY <2>1, <2>2
  <1>4. Goes(v, RestartLogs([v EXCEPT !.mode = 1 - @]), ns)
    BY <1>2, RestartGoes
  <1>5. \A w : like(w) => Goes(v, Kept(w, <<>>), ns)
    BY ScreenGoes, PlainNone
  <1> HIDE DEF like
  <1>6. CASE k.key = "s"
    <2> DEFINE w == [v EXCEPT !.auto = ~@, !.back = IF v.auto THEN @ ELSE 0]
    <2>1. LogsKey(v, k) = Kept(w, <<>>)
      BY <1>6 DEF LogsKey
    <2>2. like(w)
      BY <1>1 DEF like
    <2> HIDE DEF w
    <2>3. QED
      BY <1>5, <2>1, <2>2
  <1>7. CASE k.key \in {"up", "home", "down"}
    <2>1. \/ LogsKey(v, k) = Kept([ScrollBy(v, 1) EXCEPT !.auto = FALSE], <<>>)
          \/ LogsKey(v, k) = Kept([ScrollBy(v, Ring) EXCEPT !.auto = FALSE], <<>>)
          \/ LogsKey(v, k) = Kept(ScrollBy(v, -1), <<>>)
      BY <1>7 DEF LogsKey
    <2>2. Goes(v, Kept([ScrollBy(v, 1) EXCEPT !.auto = FALSE], <<>>), ns)
      BY <1>3, <1>5, Zenon
    <2>3. Goes(v, Kept([ScrollBy(v, Ring) EXCEPT !.auto = FALSE], <<>>), ns)
      BY <1>3, <1>5, Zenon
    <2>4. Goes(v, Kept(ScrollBy(v, -1), <<>>), ns)
      BY <1>3, <1>5, Zenon
    <2>5. QED
      BY <2>1, <2>2, <2>3, <2>4, Zenon
  <1>8. CASE k.key \in {"end", "c"}
    <2>1. \/ LogsKey(v, k) = Kept([v EXCEPT !.back = 0, !.auto = TRUE], <<>>)
          \/ LogsKey(v, k) = Kept([v EXCEPT !.lines = <<>>], <<>>)
      BY <1>8 DEF LogsKey
    <2>2. Goes(v, Kept([v EXCEPT !.back = 0, !.auto = TRUE], <<>>), ns)
      BY <1>2, <1>5, Zenon
    <2>3. Goes(v, Kept([v EXCEPT !.lines = <<>>], <<>>), ns)
      BY <1>2, <1>5, Zenon
    <2>4. QED
      BY <2>1, <2>2, <2>3, Zenon
  <1>9. CASE k.key = "t"
    BY <1>4, <1>9 DEF LogsKey
  <1>10. CASE k.key \notin {"s", "up", "home", "down", "end", "c", "t"}
    BY <1>2, <1>5, <1>10 DEF LogsKey
  <1>11. QED
    BY <1>6, <1>7, <1>8, <1>9, <1>10

\* The first tick of a log asks for its containers or pods.
LEMMA LogsTickGoes ==
    ASSUME NEW v, IsView(v), v.kind = "logs", NEW ns
    PROVE  Goes(v, OnTick(v), ns)
  <1> DEFINE a == [v EXCEPT !.workload = None]
             b == [v EXCEPT !.picking = TRUE]
  <1>1. {"kind", "id", "targets", "handles"} \subseteq DOMAIN v /\ IsSeq(v.targets) /\ Len(v.targets) \in Nat
    BY LogsHas DEF IsSeq
  <1>2. /\ DOMAIN a = DOMAIN v /\ \A f \in {"kind", "id", "targets", "handles"} : a[f] = v[f]
        /\ DOMAIN b = DOMAIN v /\ \A f \in {"kind", "id", "targets", "handles"} : b[f] = v[f]
    BY <1>1
  <1>3. \/ OnTick(v) = Kept(v, <<>>)
        \/ OnTick(v) = Kept(a, <<Fetch(v, "pods", v.workload)>>)
        \/ OnTick(v) = Kept(b, <<Fetch(v, "containers", v.targets[1].pod)>>)
        \/ OnTick(v) = Kept(v, StreamCmds(v, 0))
    BY DEF OnTick, StartStreams
  <1> HIDE DEF a, b
  <1>4. QED
    BY <1>1, <1>2, <1>3, ScreenGoes, StaysGoes, PlainNone, FetchIsPlain, StreamsArePlain

\* One target for each container.
LEMMA EachIsSeq ==
    ASSUME NEW pod, NEW found, IsSeq(found)
    PROVE  IsSeq(Each(pod, found)) /\ Len(Each(pod, found)) = Len(found)
  <1>1. DOMAIN found = 1..Len(found) /\ Len(found) \in Nat
    BY SeqHas
  <1> DEFINE s == [i \in 1..Len(found) |-> [pod |-> pod, container |-> found[i]]]
  <1>2. s = [i \in 1..Len(found) |-> s[i]]
    OBVIOUS
  <1>3. Each(pod, found) = s
    BY <1>1 DEF Each
  <1> HIDE DEF s
  <1>4. QED
    BY <1>1, <1>2, <1>3, SeqIs

\* Streams of other targets than before
LEMMA TargetsGoes ==
    ASSUME NEW v, IsView(v), v.kind = "logs", NEW w, NEW ns, NEW from \in Int, DOMAIN w = DOMAIN v,
           \A f \in {"kind", "id", "handles"} : w[f] = v[f], IsSeq(w.targets)
    PROVE  Goes(v, Kept(w, StreamCmds(w, from)), ns)
  <1>1. Keeps(v, w, {"kind", "id"}) /\ IsSeq(w.targets) /\ IsSeq(w.handles)
    BY LogsHas DEF Keeps
  <1>2. Plain(StreamCmds(w, from)) /\ Quiet(StreamCmds(w, from))
    BY StreamsArePlain DEF IsSeq
  <1>3. QED
    BY <1>1, <1>2, LogsGoes

\* The first target gets another container.
LEMMA FirstChanged ==
    ASSUME NEW s, IsSeq(s), NEW x
    PROVE  IsSeq([s EXCEPT ![1].container = x])
  <1> DEFINE r == [s EXCEPT ![1].container = x]
  <1>1. DOMAIN s = 1..Len(s) /\ Len(s) \in Nat
    BY SeqHas
  <1>2. r = [i \in 1..Len(s) |-> r[i]]
    BY <1>1
  <1> HIDE DEF r
  <1>3. IsSeq(r)
    BY <1>1, <1>2, SeqIs
  <1>4. QED
    BY <1>3 DEF r

\* on_msg: the containers of the pod of a log.
LEMMA PodContainersGoes ==
    ASSUME NEW v, IsView(v), v.kind = "logs", NEW found, IsSeq(found), NEW ns
    PROVE  Goes(v, OnPodContainers(v, found), ns)
  <1> DEFINE a == [v EXCEPT !.picking = FALSE, !.targets = Each(v.targets[1].pod, found)]
             b == [v EXCEPT !.picking = FALSE, !.targets[1].container = IF found = <<>> THEN None ELSE found[1]]
             c == [v EXCEPT !.picking = TRUE]
             d == [cmd |-> "Pick", view |-> v.id, title |-> <<"container", v.targets[1].pod>>, options |-> found]
  <1>1. {"kind", "id", "targets", "handles"} \subseteq DOMAIN v /\ IsSeq(v.targets) /\ IsSeq(v.handles)
    BY LogsHas
  <1>2. DOMAIN a = DOMAIN v /\ (\A f \in {"kind", "id", "handles"} : a[f] = v[f]) /\ IsSeq(a.targets)
    BY <1>1, EachIsSeq
  <1>3. DOMAIN b = DOMAIN v /\ (\A f \in {"kind", "id", "handles"} : b[f] = v[f]) /\ IsSeq(b.targets)
    <2> DEFINE x == IF found = <<>> THEN None ELSE found[1]
    <2>1. DOMAIN b = DOMAIN v /\ (\A f \in {"kind", "id", "handles"} : b[f] = v[f])
      BY <1>1
    <2>2. b.targets = [v.targets EXCEPT ![1].container = x]
      BY <1>1
    <2> HIDE DEF b, x
    <2>3. QED
      BY <1>1, <2>1, <2>2, FirstChanged
  <1>4. DOMAIN c = DOMAIN v /\ \A f \in {"kind", "id", "targets", "handles"} : c[f] = v[f]
    BY <1>1
  <1>5. d.cmd = "Pick"
    OBVIOUS
  <1>6. \/ OnPodContainers(v, found) = Kept(a, StreamCmds(a, 0))
        \/ OnPodContainers(v, found) = Kept(b, StreamCmds(b, 0))
        \/ OnPodContainers(v, found) = Kept(c, <<d>>)
    BY Zenon DEF OnPodContainers, StartStreams
  <1> HIDE DEF a, b, c, d
  <1>7. Plain(<<d>>) /\ Quiet(<<d>>)
    BY <1>5, PlainOne DEF PlainKinds
  <1>8. QED
    BY <1>2, <1>3, <1>4, <1>6, <1>7, TargetsGoes, ScreenGoes

\* on_msg: the pods of a workload.
LEMMA PodsGoes ==
    ASSUME NEW v, IsView(v), v.kind = "logs", NEW pods, IsSeq(pods), NEW ns
    PROVE  Goes(v, OnPods(v, pods), ns)
  <1> DEFINE w == [v EXCEPT !.targets = <<>>]
             cs == [i \in DOMAIN pods |-> Fetch(v, "exec", pods[i])]
  <1>1. {"kind", "id", "targets", "handles"} \subseteq DOMAIN v /\ IsSeq(v.handles)
    BY LogsHas
  <1>2. Keeps(v, w, {"kind", "id"}) /\ w.targets = <<>> /\ w.handles = v.handles
    BY <1>1 DEF Keeps
  <1>3. DOMAIN pods = 1..Len(pods) /\ Len(pods) \in Nat
    BY SeqHas
  <1>4. cs = [i \in 1..Len(pods) |-> cs[i]] /\ DOMAIN cs = 1..Len(pods) /\ \A i \in DOMAIN cs : cs[i].cmd = "Fetch"
    <2>1. \A x : Fetch(v, "exec", x).cmd = "Fetch"
      BY FetchIsPlain
    <2>2. cs = [i \in 1..Len(pods) |-> Fetch(v, "exec", pods[i])]
      BY <1>3
    <2> HIDE DEF cs
    <2>3. QED
      BY <2>1, <2>2
  <1>5. OnPods(v, pods) = Kept(w, cs)
    BY DEF OnPods
  <1> HIDE DEF w, cs
  <1>6. Plain(cs) /\ Quiet(cs)
    BY <1>3, <1>4, SeqIs DEF Plain, Quiet, PlainKinds
  <1>7. QED
    BY <1>1, <1>2, <1>5, <1>6, LogsGoes, EmptyIsSeq

\* on_msg: the containers of one of these pods.
LEMMA ItsContainersGoes ==
    ASSUME NEW v, IsView(v), v.kind = "logs", NEW pod, NEW found, IsSeq(found), NEW ns
    PROVE  Goes(v, OnItsContainers(v, pod, found), ns)
  <1> DEFINE w == [v EXCEPT !.targets = @ \o Each(pod, found)]
  <1>1. {"kind", "id", "targets", "handles"} \subseteq DOMAIN v /\ IsSeq(v.targets) /\ Len(v.targets) \in Int
    <2>1. {"kind", "id", "targets", "handles"} \subseteq DOMAIN v /\ IsSeq(v.targets)
      BY LogsHas
    <2>2. QED
      BY <2>1 DEF IsSeq
  <1>2. IsSeq(v.targets \o Each(pod, found))
    BY <1>1, EachIsSeq, ConcatIs
  <1>3. DOMAIN w = DOMAIN v /\ (\A f \in {"kind", "id", "handles"} : w[f] = v[f]) /\ IsSeq(w.targets)
    BY <1>1, <1>2
  <1>4. OnItsContainers(v, pod, found) = Kept(w, StreamCmds(w, Len(v.targets)))
    BY DEF OnItsContainers
  <1> HIDE DEF w
  <1>5. QED
    BY <1>1, <1>3, <1>4, TargetsGoes

Lists(a) == a.what \in {"containers", "pods", "exec"} => IsSeq(a.found)

\* Any answer to a log.
LEMMA LogsAnswerGoes ==
    ASSUME NEW v, IsView(v), v.kind = "logs", NEW a, Lists(a), NEW ns
    PROVE  Goes(v, LogsAnswer(v, a), ns)
  <1>1. CASE a.what = "error"
    <2> DEFINE w == [v EXCEPT !.picking = FALSE, !.failed = TRUE]
    <2>1. DOMAIN w = DOMAIN v /\ \A f \in {"kind", "id", "targets", "handles"} : w[f] = v[f]
      BY LogsHas
    <2>2. LogsAnswer(v, a) = Kept(w, <<>>)
      BY <1>1 DEF LogsAnswer
    <2> HIDE DEF w
    <2>3. QED
      BY <2>1, <2>2, ScreenGoes, PlainNone
  <1>2. CASE a.what = "containers"
    BY <1>2, PodContainersGoes DEF LogsAnswer, Lists
  <1>3. CASE a.what = "pods"
    BY <1>3, PodsGoes DEF LogsAnswer, Lists
  <1>4. CASE a.what = "exec"
    BY <1>4, ItsContainersGoes DEF LogsAnswer, Lists
  <1>5. CASE a.what \notin {"error", "containers", "pods", "exec"}
    BY <1>5, StaysGoes, PlainNone DEF LogsAnswer
  <1>6. QED
    BY <1>1, <1>2, <1>3, <1>4, <1>5

\* The container that was picked.
LEMMA LogsPickedGoes ==
    ASSUME NEW v, IsView(v), v.kind = "logs", NEW choice, NEW ns
    PROVE  Goes(v, LogsPicked(v, choice), ns)
  <1> DEFINE a == [v EXCEPT !.picking = FALSE]
             b == [v EXCEPT !.picking = FALSE, !.targets[1].container = choice]
             c == [cmd |-> "PopView"]
  <1>1. {"kind", "id", "targets", "handles"} \subseteq DOMAIN v /\ IsSeq(v.targets) /\ IsSeq(v.handles)
    BY LogsHas
  <1>2. DOMAIN a = DOMAIN v /\ \A f \in {"kind", "id", "targets", "handles"} : a[f] = v[f]
    BY <1>1
  <1>3. DOMAIN b = DOMAIN v /\ (\A f \in {"kind", "id", "handles"} : b[f] = v[f]) /\ IsSeq(b.targets)
    <2>1. DOMAIN b = DOMAIN v /\ (\A f \in {"kind", "id", "handles"} : b[f] = v[f])
      BY <1>1
    <2>2. b.targets = [v.targets EXCEPT ![1].container = choice]
      BY <1>1
    <2> HIDE DEF b
    <2>3. QED
      BY <1>1, <2>1, <2>2, FirstChanged
  <1>4. Plain(<<c>>) /\ Quiet(<<c>>)
    <2>1. c.cmd = "PopView"
      OBVIOUS
    <2> HIDE DEF c
    <2>2. QED
      BY <2>1, PlainOne DEF PlainKinds
  <1>5. LogsPicked(v, choice) = Kept(a, <<c>>) \/ LogsPicked(v, choice) = Kept(b, StreamCmds(b, 0))
    BY Zenon DEF LogsPicked, StartStreams
  <1> HIDE DEF a, b, c
  <1>6. QED
    BY <1>2, <1>3, <1>4, <1>5, ScreenGoes, TargetsGoes

\* Lines, filters and started streams of a log.
LEMMA LinesGoes ==
    ASSUME NEW v, IsView(v), v.kind = "logs", NEW x, NEW ns
    PROVE  /\ Goes(v, Kept(PushLines(v, x), <<>>), ns)
           /\ Goes(v, FilterLines(v, x), ns)
           /\ Goes(v, Kept(LogsStarted(v, x), <<>>), ns)
  <1> DEFINE a == PushLines(v, x)
             b == [v EXCEPT !.filter = x]
             c == LogsStarted(v, x)
  <1>1. {"kind", "id", "targets", "handles"} \subseteq DOMAIN v /\ IsSeq(v.targets) /\ IsSeq(v.handles)
    BY LogsHas
  <1>2. /\ DOMAIN b = DOMAIN v /\ \A f \in {"kind", "id", "targets", "handles"} : b[f] = v[f]
    BY <1>1
  <1>3. /\ DOMAIN a = DOMAIN v /\ \A f \in {"kind", "id", "targets", "handles"} : a[f] = v[f]
    BY <1>1 DEF PushLines
  <1>4. Keeps(v, c, {"kind", "id"}) /\ c.targets = v.targets /\ c.handles = Append(v.handles, x)
    BY <1>1 DEF LogsStarted, Keeps
  <1>5. FilterLines(v, x) = Kept(b, <<>>)
    BY DEF FilterLines
  <1> HIDE DEF a, b, c
  <1>6. Goes(v, Kept(a, <<>>), ns) /\ Goes(v, Kept(b, <<>>), ns)
    BY <1>2, <1>3, ScreenGoes, PlainNone
  <1>7. Goes(v, Kept(c, <<>>), ns)
    <2>1. IsSeq(c.targets) /\ IsSeq(c.handles)
      BY <1>1, <1>4, AppendIs
    <2>2. QED
      BY <1>4, <2>1, LogsGoes, PlainNone
  <1>8. QED
    BY <1>5, <1>6, <1>7 DEF a, c

-----------------------------------------------------------------------------
(* Lists *)

\* What lists do: the place, the items, the flags change, and nothing that is needed of them.
LEMMA PlaceGoes ==
    ASSUME NEW v, IsView(v), v.kind \notin {"table", "contexts", "logs"}, NEW w, NEW ns, NEW cmds, Plain(cmds), Quiet(cmds),
           DOMAIN w = DOMAIN v, \A f \in {"kind", "id", "filter"} : w[f] = v[f]
    PROVE  Goes(v, Kept(w, cmds), ns)
  BY ListGoes DEF Keeps

\* The commands of the lists lead to no watch.
LEMMA ListCmds ==
    ASSUME NEW x, NEW y, NEW z, NEW u
    PROVE  /\ Plain(<<Preview(x)>>) /\ Quiet(<<Preview(x)>>)
           /\ Plain(<<Preview(x), [cmd |-> "PopView"]>>) /\ Quiet(<<Preview(x), [cmd |-> "PopView"]>>)
           /\ Plain(<<[cmd |-> "SetTheme", theme |-> x]>>) /\ Quiet(<<[cmd |-> "SetTheme", theme |-> x]>>)
           /\ Plain(<<[cmd |-> "PollMetrics"]>>) /\ Quiet(<<[cmd |-> "PollMetrics"]>>)
           /\ Plain(<<[cmd |-> "StopForward", id |-> x]>>) /\ Quiet(<<[cmd |-> "StopForward", id |-> x]>>)
           /\ Plain(<<[cmd |-> "ConfirmUndo", view |-> x, of |-> y, revision |-> z]>>)
           /\ Quiet(<<[cmd |-> "ConfirmUndo", view |-> x, of |-> y, revision |-> z]>>)
  <1>1. Preview(x).cmd = "PreviewTheme"
    BY DEF Preview
  <1>2. Plain(<<Preview(x)>>) /\ Quiet(<<Preview(x)>>)
    BY <1>1, PlainOne DEF PlainKinds
  <1>3. \A c : c.cmd \in {"PopView", "SetTheme", "PollMetrics", "StopForward", "ConfirmUndo"} => Plain(<<c>>) /\ Quiet(<<c>>)
    BY PlainOne DEF PlainKinds
  <1>4. /\ Plain(<<[cmd |-> "PopView"]>>) /\ Quiet(<<[cmd |-> "PopView"]>>)
        /\ Plain(<<[cmd |-> "SetTheme", theme |-> x]>>) /\ Quiet(<<[cmd |-> "SetTheme", theme |-> x]>>)
        /\ Plain(<<[cmd |-> "PollMetrics"]>>) /\ Quiet(<<[cmd |-> "PollMetrics"]>>)
        /\ Plain(<<[cmd |-> "StopForward", id |-> x]>>) /\ Quiet(<<[cmd |-> "StopForward", id |-> x]>>)
    BY <1>3
  <1>5. /\ Plain(<<[cmd |-> "ConfirmUndo", view |-> x, of |-> y, revision |-> z]>>)
        /\ Quiet(<<[cmd |-> "ConfirmUndo", view |-> x, of |-> y, revision |-> z]>>)
    BY <1>3
  <1>6. Plain(<<Preview(x), [cmd |-> "PopView"]>>) /\ Quiet(<<Preview(x), [cmd |-> "PopView"]>>)
    <2> DEFINE a == Preview(x)
               b == [cmd |-> "PopView"]
    <2>1. a.cmd = "PreviewTheme" /\ b.cmd = "PopView"
      BY <1>1
    <2> HIDE DEF a, b
    <2>2. IsSeq(<<a, b>>) /\ DOMAIN <<a, b>> = {1, 2} /\ <<a, b>>[1] = a /\ <<a, b>>[2] = b
      BY DEF IsSeq, Range
    <2> DEFINE ab == <<a, b>>
    <2> HIDE DEF ab
    <2>3. Plain(ab) /\ Quiet(ab)
      BY <2>1, <2>2 DEF Plain, Quiet, PlainKinds, ab
    <2>4. QED
      BY <2>3 DEF a, b, ab
  <1>7. QED
    BY <1>2, <1>4, <1>5, <1>6

\* Moving through a list or a text keeps its kind and number.
LEMMA MovesKeep ==
    ASSUME NEW v, {"kind", "id", "filter"} \subseteq DOMAIN v, NEW k
    PROVE  /\ DOMAIN ListMove(v, k) = DOMAIN v /\ \A f \in {"kind", "id", "filter"} : ListMove(v, k)[f] = v[f]
           /\ DOMAIN ScrollMove(v, k) = DOMAIN v /\ \A f \in {"kind", "id", "filter"} : ScrollMove(v, k)[f] = v[f]
           /\ DOMAIN TextKey(v, k) = DOMAIN v /\ \A f \in {"kind", "id", "filter"} : TextKey(v, k)[f] = v[f]
           /\ DOMAIN Reveal(v) = DOMAIN v /\ \A f \in {"kind", "id", "filter"} : Reveal(v)[f] = v[f]
  <1>1. \A x : LET w == [v EXCEPT !.at = x] IN DOMAIN w = DOMAIN v /\ \A f \in {"kind", "id", "filter"} : w[f] = v[f]
    OBVIOUS
  <1>2. \E x : ListMove(v, k) = [v EXCEPT !.at = x]
    BY Zenon DEF ListMove
  <1>3. \E x : ScrollMove(v, k) = [v EXCEPT !.at = x]
    BY Zenon DEF ScrollMove
  <1>4. \E x : TextKey(v, k) = [v EXCEPT !.at = x]
    BY Zenon DEF TextKey
  <1>5. DOMAIN Reveal(v) = DOMAIN v /\ \A f \in {"kind", "id", "filter"} : Reveal(v)[f] = v[f]
    BY DEF Reveal
  <1>6. QED
    BY <1>1, <1>2, <1>3, <1>4, <1>5, Zenon

\* The keys of the theme picker.
LEMMA ThemesKeyGoes ==
    ASSUME NEW v, IsView(v), v.kind \notin {"table", "contexts", "logs"}, NEW k, NEW ns
    PROVE  Goes(v, ThemesKey(v, k), ns)
  <1> DEFINE w == ListMove(v, k)
             u == [v EXCEPT !.of = Highlighted(v)]
             x == Highlighted(v)
             y == Highlighted(ListMove(v, k))
             z == v.of
  <1>1. {"kind", "id", "filter"} \subseteq DOMAIN v
    BY DEF IsView
  <1>2. /\ DOMAIN w = DOMAIN v /\ \A f \in {"kind", "id", "filter"} : w[f] = v[f]
        /\ DOMAIN u = DOMAIN v /\ \A f \in {"kind", "id", "filter"} : u[f] = v[f]
    BY <1>1, MovesKeep
  <1>3. \/ ThemesKey(v, k) = Kept(u, <<[cmd |-> "SetTheme", theme |-> x]>>)
        \/ ThemesKey(v, k) = Kept(v, <<Preview(z), [cmd |-> "PopView"]>>)
        \/ ThemesKey(v, k) = Kept(w, <<Preview(y)>>)
        \/ ThemesKey(v, k) = Kept(v, <<Preview(x)>>)
    BY DEF ThemesKey
  <1> HIDE DEF w, u, x, y, z
  <1>4. QED
    BY <1>2, <1>3, ListCmds, PlaceGoes, StaysGoes

\* Of the keys of a list, two lead to a command that others follow.
Leads(v, did) ==
    /\ did.view = v
    /\ \/ \E ns : did.cmds = <<[cmd |-> "SwitchNamespace", ns |-> ns], [cmd |-> "PopView"]>>
       \/ \E kind : did.cmds = <<[cmd |-> "OpenKind", kind |-> kind]>>

\* Enter: a list goes on, or leads to another namespace or kind.
LEMMA EnterGoes ==
    ASSUME NEW v, IsView(v), v.kind \notin {"table", "contexts", "logs"}, NEW ns
    PROVE  /\ Goes(v, NamespacesEnter(v), ns) \/ Leads(v, NamespacesEnter(v))
           /\ Goes(v, AliasesEnter(v), ns) \/ Leads(v, AliasesEnter(v))
           /\ Goes(v, RolloutEnter(v), ns)
           /\ Goes(v, ForwardsStop(v), ns)
  <1> DEFINE x == Highlighted(v)
             a == <<[cmd |-> "SwitchNamespace", ns |-> x], [cmd |-> "PopView"]>>
             b == <<[cmd |-> "OpenKind", kind |-> x]>>
  <1>1. Goes(v, Kept(v, <<>>), ns)
    BY StaysGoes, PlainNone
  <1>2. Leads(v, Kept(v, a)) /\ Leads(v, Kept(v, b))
    <2>1. \A cs : Kept(v, cs).view = v /\ Kept(v, cs).cmds = cs
      BY DEF Kept
    <2> HIDE DEF x
    <2>2. QED
      BY <2>1 DEF Leads
  <1>3. NamespacesEnter(v) = Kept(v, a) \/ NamespacesEnter(v) = Kept(v, <<>>)
    BY Zenon DEF NamespacesEnter
  <1>4. AliasesEnter(v) = Kept(v, b) \/ AliasesEnter(v) = Kept(v, <<>>)
    BY Zenon DEF AliasesEnter
  <1>5. Goes(v, RolloutEnter(v), ns)
    <2> DEFINE r == v.items[v.at].revision
    <2>1. \/ RolloutEnter(v) = Kept(v, <<[cmd |-> "ConfirmUndo", view |-> v.id, of |-> v.of, revision |-> r]>>)
          \/ RolloutEnter(v) = Kept(v, <<>>)
      BY Zenon DEF RolloutEnter
    <2> HIDE DEF r
    <2>2. QED
      BY <1>1, <2>1, ListCmds, StaysGoes
  <1>6. Goes(v, ForwardsStop(v), ns)
    <2> DEFINE r == v.items[v.at].id
    <2>1. \/ ForwardsStop(v) = Kept(v, <<[cmd |-> "StopForward", id |-> r]>>)
          \/ ForwardsStop(v) = Kept(v, <<>>)
      BY Zenon DEF ForwardsStop
    <2> HIDE DEF r
    <2>2. QED
      BY <1>1, <2>1, ListCmds, StaysGoes
  <1> HIDE DEF a, b
  <1>7. QED
    BY <1>1, <1>2, <1>3, <1>4, <1>5, <1>6

\* So does any key of a list.
LEMMA ListKeyGoes ==
    ASSUME NEW v, IsView(v), v.kind \notin {"table", "contexts", "logs"}, NEW k, NEW ns
    PROVE  Goes(v, ListKey(v, k), ns) \/ Leads(v, ListKey(v, k))
  <1>1. {"kind", "id", "filter"} \subseteq DOMAIN v
    BY DEF IsView
  <1>2. \A w : DOMAIN w = DOMAIN v /\ (\A f \in {"kind", "id", "filter"} : w[f] = v[f]) => Goes(v, Kept(w, <<>>), ns)
    BY PlaceGoes, PlainNone
  <1>3. Goes(v, Kept(ListMove(v, k), <<>>), ns) /\ Goes(v, Kept(ScrollMove(v, k), <<>>), ns)
            /\ Goes(v, Kept(TextKey(v, k), <<>>), ns) /\ Goes(v, Kept(Reveal(v), <<>>), ns)
    BY <1>1, <1>2, MovesKeep
  <1>4. Goes(v, Kept(v, <<[cmd |-> "PollMetrics"]>>), ns) /\ Goes(v, Kept(v, <<>>), ns)
    BY ListCmds, StaysGoes, PlainNone
  <1>5. ListKey(v, k) \in {ThemesKey(v, k), Kept(v, <<[cmd |-> "PollMetrics"]>>), Kept(ScrollMove(v, k), <<>>),
                          Kept(TextKey(v, k), <<>>), Kept(ListMove(v, k), <<>>), NamespacesEnter(v), AliasesEnter(v),
                          RolloutEnter(v), Kept(Reveal(v), <<>>), ForwardsStop(v), Kept(v, <<>>)}
    <2> DEFINE a == Kept(v, <<[cmd |-> "PollMetrics"]>>)
               b == Kept(ScrollMove(v, k), <<>>)
               c == Kept(TextKey(v, k), <<>>)
               d == Kept(ListMove(v, k), <<>>)
               e == Kept(Reveal(v), <<>>)
               f == Kept(v, <<>>)
    <2>1. ListKey(v, k) \in {ThemesKey(v, k), a, b, c, d, NamespacesEnter(v), AliasesEnter(v), RolloutEnter(v), e,
                            ForwardsStop(v), f}
      <3> HIDE DEF a, b, c, d, e, f
      <3>1. QED
        BY SMT DEF ListKey, a, b, c, d, e, f
    <2>2. QED
      BY <2>1
  <1>6. QED
    BY <1>3, <1>4, <1>5, ThemesKeyGoes, EnterGoes

\* The forwards are read again with every tick.
LEMMA ListTickGoes ==
    ASSUME NEW v, IsView(v), v.kind \notin {"table", "contexts", "logs"}, NEW forwards, NEW ns
    PROVE  Goes(v, ListTick(v, forwards), ns)
  <1> DEFINE a == [v EXCEPT !.asked = TRUE]
             b == [v EXCEPT !.items = forwards]
             c == [b EXCEPT !.at = Within(b, @)]
  <1>1. {"kind", "id", "filter"} \subseteq DOMAIN v
    BY DEF IsView
  <1>2. DOMAIN a = DOMAIN v /\ \A f \in {"kind", "id", "filter"} : a[f] = v[f]
    BY <1>1
  <1>3. DOMAIN c = DOMAIN v /\ \A f \in {"kind", "id", "filter"} : c[f] = v[f]
    BY <1>1
  <1>4. \/ ListTick(v, forwards) = Kept(a, <<Fetch(v, Question(v), v.of)>>)
        \/ ListTick(v, forwards) = Kept(a, <<[cmd |-> "PollMetrics"]>>)
        \/ ListTick(v, forwards) = Kept(c, <<>>)
        \/ ListTick(v, forwards) = Kept(v, <<>>)
    BY DEF ListTick
  <1> HIDE DEF a, b, c
  <1>5. QED
    BY <1>2, <1>3, <1>4, PlaceGoes, StaysGoes, PlainNone, FetchIsPlain, ListCmds

\* An answer to a list.
LEMMA ListAnswerGoes ==
    ASSUME NEW v, IsView(v), v.kind \notin {"table", "contexts", "logs"}, NEW a, NEW ns
    PROVE  Goes(v, Kept(ListAnswer(v, a), <<>>), ns)
  <1> DEFINE like(u) == DOMAIN u = DOMAIN v /\ \A f \in {"kind", "id", "filter"} : u[f] = v[f]
             w == [v EXCEPT !.asked = FALSE, !.answered = TRUE]
             x == [w EXCEPT !.items = a.found]
             y == [x EXCEPT !.at = IF @ > Len(a.found) THEN Within(x, @) ELSE @]
  <1>1. {"kind", "id", "filter"} \subseteq DOMAIN v
    BY DEF IsView
  <1>2. like(w) /\ like(v)
    BY <1>1
  <1>3. \A u, z : like(u) => like([u EXCEPT !.items = z]) /\ like([u EXCEPT !.at = z])
    BY <1>1
  <1> HIDE DEF like, w
  <1>4. like(x) /\ like([w EXCEPT !.items = <<None>> \o a.found]) /\ like([w EXCEPT !.items = <<>>])
        /\ like([v EXCEPT !.items = a.found])
    BY <1>2, <1>3, Zenon
  <1> HIDE DEF x
  <1>5. like(y)
    BY <1>3, <1>4, Zenon
  <1> HIDE DEF y
  <1>6. ListAnswer(v, a) \in {w, x, y, v, [w EXCEPT !.items = <<None>> \o a.found], [w EXCEPT !.items = <<>>],
                              [v EXCEPT !.items = a.found]}
    BY DEF ListAnswer, w, x, y
  <1>7. like(ListAnswer(v, a))
    BY <1>2, <1>4, <1>5, <1>6, Zenon
  <1>8. QED
    BY <1>7, PlaceGoes, PlainNone DEF like

\* The filter of a list and the search in a text.
LEMMA ListFilterGoes ==
    ASSUME NEW v, IsView(v), v.kind \notin {"table", "contexts", "logs"}, WantsFilter(v), NEW names, NEW ns
    PROVE  Goes(v, FilterList(v, names), ns) /\ Goes(v, SearchText(v, names), ns)
  <1> DEFINE w == [v EXCEPT !.filter = names]
             x == [w EXCEPT !.at = IF @ > Len(Listed(w)) THEN Within(w, @) ELSE @]
  <1>1. {"kind", "id", "filter"} \subseteq DOMAIN v
    BY DEF IsView
  <1>2. DOMAIN x = DOMAIN v /\ \A f \in {"kind", "id"} : x[f] = v[f]
    BY <1>1
  <1>3. FilterList(v, names) = Kept(x, <<>>)
    BY Zenon DEF FilterList
  <1> DEFINE hits == {i \in 0..(Len(v.items) - 1) : names # AnyName /\ v.items[i + 1] \in names}
             u == [v EXCEPT !.filter = names, !.hits = hits,
                            !.at = IF hits = {} THEN @ ELSE Min({Min(hits), MaxScroll(Len(v.items))})]
  <1>4. DOMAIN u = DOMAIN v /\ \A f \in {"kind", "id"} : u[f] = v[f]
    BY <1>1
  <1>5. SearchText(v, names) = Kept(u, <<>>)
    BY Zenon DEF SearchText
  <1> HIDE DEF w, x, u
  <1>6. QED
    BY <1>2, <1>3, <1>4, <1>5, ListGoes, PlainNone DEF Keeps

-----------------------------------------------------------------------------
(* All kinds of views *)

\* Every view is a table, a log, the contexts or a list.
LEMMA KindsAre ==
    ASSUME NEW v
    PROVE  /\ Kinds(v) \in {"table", "contexts", "logs"} => v.kind = Kinds(v)
           /\ Kinds(v) = "list" <=> v.kind \notin {"table", "contexts", "logs"}
           /\ Kinds(v) \in {"table", "contexts", "logs", "list"}
  BY DEF Kinds

\* Rows, lines and handles are no part of what is needed of other views.
LEMMA LooseGoes ==
    ASSUME NEW v, IsView(v), NEW w, NEW ns, DOMAIN w = DOMAIN v,
           \A f \in DOMAIN v \ {"lines", "back", "rows", "loaded", "selected", "handles"} : w[f] = v[f],
           v.kind = "logs" => w.handles = v.handles
    PROVE  Goes(v, Kept(w, <<>>), ns)
  <1>1. CASE v.kind = "table"
    <2>1. Keeps(v, w, TableFields)
      BY <1>1, TableHas DEF Keeps, TableFields
    <2>2. QED
      BY <1>1, <2>1, TableGoes, PlainNone
  <1>2. CASE v.kind = "logs"
    BY <1>2, LogsHas, ScreenGoes, PlainNone
  <1>3. CASE v.kind = "contexts"
    <2>1. {"kind", "id", "items", "pending"} \subseteq DOMAIN v
      BY <1>3 DEF IsView, WantsFilter, IsContexts
    <2>2. Keeps(v, w, {"kind", "id", "items"}) /\ w.pending = v.pending
      BY <2>1 DEF Keeps
    <2>3. QED
      BY <1>3, <2>2, ContextsGoes, PlainNone
  <1>4. CASE v.kind \notin {"table", "contexts", "logs"}
    <2>1. {"kind", "id", "filter"} \subseteq DOMAIN v
      BY DEF IsView
    <2>2. QED
      BY <1>4, <2>1, PlaceGoes, PlainNone
  <1>5. QED
    BY <1>1, <1>2, <1>3, <1>4

\* Rows, for any view.
LEMMA ViewRowsGoes ==
    ASSUME NEW v, IsView(v), NEW e, NEW ns
    PROVE  Goes(v, Kept(OnRows(v, e), <<>>), ns)
  <1> DEFINE r == CASE e.event = "Snapshot" -> e.rows
                    [] e.event = "Upsert" -> FoldLeft(Replaced, v.rows, e.rows)
                    [] e.event = "Delete" -> SelectSeq(v.rows, LAMBDA x : x.key \notin e.keys)
             w == [v EXCEPT !.loaded = TRUE, !.rows = r]
             at == IF Keys(w) = <<>> THEN None ELSE Keys(w)[1]
             u == [w EXCEPT !.selected = at]
  <1>1. OnRows(v, e) = FixSelection(w)
    BY Zenon DEF OnRows
  <1> HIDE DEF r
  <1>2. DOMAIN w = DOMAIN v /\ \A f \in DOMAIN v \ {"lines", "back", "rows", "loaded", "selected", "handles"} : w[f] = v[f]
    OBVIOUS
  <1>3. v.kind = "logs" => w.handles = v.handles
    BY LogsHas
  <1> HIDE DEF w, at
  <1>4. DOMAIN u = DOMAIN v /\ \A f \in DOMAIN v \ {"lines", "back", "rows", "loaded", "selected", "handles"} : u[f] = v[f]
    BY <1>2
  <1>5. v.kind = "logs" => u.handles = v.handles
    BY <1>3
  <1>6. FixSelection(w) = w \/ FixSelection(w) = u
    BY Zenon DEF FixSelection, KeepSelection, SelectFirst, at
  <1> HIDE DEF u
  <1>7. QED
    BY <1>1, <1>2, <1>3, <1>4, <1>5, <1>6, LooseGoes

\* Lines and started streams, for any view.
LEMMA ViewLinesGoes ==
    ASSUME NEW v, IsView(v), NEW x, NEW ns
    PROVE  Goes(v, Kept(PushLines(v, x), <<>>), ns) /\ Goes(v, Kept(LogsStarted(v, x), <<>>), ns)
  <1>1. CASE v.kind = "logs"
    BY <1>1, LinesGoes
  <1>2. CASE v.kind # "logs"
    <2> DEFINE all == v.lines \o x
               p == SubSeq(all, AtLeast0(Len(all) - Ring) + 1, Len(all))
               q == IF v.auto THEN v.back ELSE v.back + Len(Matching(v, x))
               h == Append(v.handles, x)
               w == [v EXCEPT !.lines = p, !.back = q]
               u == [v EXCEPT !.handles = h]
    <2>1. PushLines(v, x) = w /\ LogsStarted(v, x) = u
      BY Zenon DEF PushLines, LogsStarted
    <2> HIDE DEF p, q, h
    <2>2. /\ DOMAIN w = DOMAIN v
          /\ \A f \in DOMAIN v \ {"lines", "back", "rows", "loaded", "selected", "handles"} : w[f] = v[f]
          /\ DOMAIN u = DOMAIN v
          /\ \A f \in DOMAIN v \ {"lines", "back", "rows", "loaded", "selected", "handles"} : u[f] = v[f]
      OBVIOUS
    <2> HIDE DEF w, u
    <2>3. QED
      BY <1>2, <2>1, <2>2, LooseGoes
  <1>3. QED
    BY <1>1, <1>2

\* The first tick: a table that knows what it selects is watched, and is as it was.
LEMMA FirstTickGoes ==
    ASSUME NEW v, IsView(v), NEW s, NEW ns
    PROVE  /\ Goes(v, FirstTick(v, s), ns)
           /\ v.kind = "table" => /\ FirstTick(v, s).view = v
                                  /\ Live(v) => FirstTick(v, s).cmds = <<Watch(v)>>
  <1>1. CASE v.kind = "table"
    <2>1. FirstTick(v, s) = Kept(v, IF v.awaiting THEN <<>> ELSE <<Watch(v)>>)
      BY <1>1 DEF FirstTick, Kinds
    <2>2. \A cs : Kept(v, cs).view = v /\ Kept(v, cs).cmds = cs
      BY DEF Kept
    <2>3. Keeps(v, v, TableFields)
      BY DEF Keeps
    <2>4. Goes(v, Kept(v, <<>>), ns) /\ Goes(v, Kept(v, <<Watch(v)>>), ns)
      BY <1>1, <2>3, TableGoes, PlainNone
    <2>5. QED
      BY <1>1, <2>1, <2>2, <2>4 DEF Live
  <1>2. CASE v.kind = "logs"
    <2>1. FirstTick(v, s) = OnTick(v)
      BY <1>2 DEF FirstTick, Kinds
    <2>2. QED
      BY <1>2, <2>1, LogsTickGoes
  <1>3. CASE v.kind = "contexts"
    <2>1. FirstTick(v, s) = PingMissing(v)
      BY <1>3 DEF FirstTick, Kinds
    <2>2. QED
      BY <1>3, <2>1, PingGoes
  <1>4. CASE v.kind \notin {"table", "contexts", "logs"}
    <2>1. FirstTick(v, s) = ListTick(v, s.forwards)
      BY <1>4 DEF FirstTick, Kinds
    <2>2. QED
      BY <1>4, <2>1, ListTickGoes
  <1>5. QED
    BY <1>1, <1>2, <1>3, <1>4

\* A tick brings a table into the namespace of the session.
LEMMA ViewTickGoes ==
    ASSUME NEW v, IsView(v), NEW s
    PROVE  Goes(v, ViewTick(v, s), Ns(s)) /\ InNs(ViewTick(v, s).view, Ns(s))
  <1>1. CASE v.kind = "table"
    <2>1. ViewTick(v, s) = FollowNamespace(v, Ns(s))
      BY <1>1 DEF ViewTick, Kinds
    <2>2. QED
      BY <1>1, <2>1, FollowGoes
  <1>2. CASE v.kind # "table"
    <2>1. ViewTick(v, s) = FirstTick(v, s)
      BY <1>2, KindsAre DEF ViewTick
    <2>2. Goes(v, FirstTick(v, s), Ns(s))
      BY FirstTickGoes
    <2>3. QED
      BY <1>2, <2>1, <2>2 DEF Goes, InNs, Live
  <1>3. QED
    BY <1>1, <1>2

\* An answer, for any view.
LEMMA ViewAnswerGoes ==
    ASSUME NEW v, IsView(v), NEW a, Lists(a), NEW s
    PROVE  Goes(v, ViewAnswer(v, a, s), Ns(s))
  <1>1. CASE v.kind = "table"
    <2>1. ViewAnswer(v, a, s) = OnAnswer(v, a, Ns(s))
      BY <1>1 DEF ViewAnswer, Kinds
    <2>2. QED
      BY <1>1, <2>1, TableAnswerGoes
  <1>2. CASE v.kind = "logs"
    <2>1. ViewAnswer(v, a, s) = LogsAnswer(v, a)
      BY <1>2 DEF ViewAnswer, Kinds
    <2>2. QED
      BY <1>2, <2>1, LogsAnswerGoes
  <1>3. CASE v.kind = "contexts"
    <2>1. ViewAnswer(v, a, s) = Kept(v, <<>>)
      BY <1>3 DEF ViewAnswer, Kinds
    <2>2. QED
      BY <2>1, StaysGoes, PlainNone
  <1>4. CASE v.kind \notin {"table", "contexts", "logs"}
    <2>1. ViewAnswer(v, a, s) = Kept(ListAnswer(v, a), <<>>)
      BY <1>4 DEF ViewAnswer, Kinds
    <2>2. QED
      BY <1>4, <2>1, ListAnswerGoes
  <1>5. QED
    BY <1>1, <1>2, <1>3, <1>4

\* What was picked, for any view.
LEMMA ViewPickedGoes ==
    ASSUME NEW v, IsView(v), NEW choice, NEW ns
    PROVE  Goes(v, ViewPicked(v, choice), ns)
  <1> DEFINE port == choice # None /\ IsPort(choice)
  <1>1. \/ v.kind = "table" /\ ViewPicked(v, choice) = OnPicked(v, choice, port)
        \/ v.kind = "logs" /\ ViewPicked(v, choice) = LogsPicked(v, choice)
        \/ ViewPicked(v, choice) = Kept(v, <<>>)
    <2> HIDE DEF port
    <2>1. \/ Kinds(v) = "table" /\ ViewPicked(v, choice) = OnPicked(v, choice, port)
          \/ Kinds(v) = "logs" /\ ViewPicked(v, choice) = LogsPicked(v, choice)
          \/ ViewPicked(v, choice) = Kept(v, <<>>)
      BY DEF ViewPicked, port
    <2>2. QED
      BY <2>1, KindsAre
  <1> HIDE DEF port
  <1>2. QED
    BY <1>1, TablePickedGoes, LogsPickedGoes, StaysGoes, PlainNone

\* A filter, for any view.
LEMMA SetViewFilterGoes ==
    ASSUME NEW v, IsView(v), NEW f, IsFilter(f), NEW ns
    PROVE  Goes(v, SetViewFilter(v, f), ns)
  <1> DEFINE on == f # NoFilter
             names == f.names
  <1>1. \/ v.kind = "table" /\ SetViewFilter(v, f) = SetFilter(v, f)
        \/ v.kind = "logs" /\ SetViewFilter(v, f) = FilterLines(v, on)
        \/ v.kind = "contexts" /\ SetViewFilter(v, f) = FilterContexts(v, names)
        \/ v.kind \in {"namespaces", "aliases"} /\ SetViewFilter(v, f) = FilterList(v, names)
        \/ v.kind = "text" /\ SetViewFilter(v, f) = SearchText(v, names)
        \/ SetViewFilter(v, f) = Kept(v, <<>>)
    <2> HIDE DEF on, names
    <2>1. \/ Kinds(v) = "table" /\ SetViewFilter(v, f) = SetFilter(v, f)
          \/ Kinds(v) = "logs" /\ SetViewFilter(v, f) = FilterLines(v, on)
          \/ Kinds(v) = "contexts" /\ SetViewFilter(v, f) = FilterContexts(v, names)
          \/ v.kind \in {"namespaces", "aliases"} /\ SetViewFilter(v, f) = FilterList(v, names)
          \/ v.kind = "text" /\ SetViewFilter(v, f) = SearchText(v, names)
          \/ SetViewFilter(v, f) = Kept(v, <<>>)
      BY DEF SetViewFilter, on, names
    <2>2. QED
      BY <2>1, KindsAre
  <1> HIDE DEF on, names
  <1>2. CASE v.kind = "table"
    BY <1>1, <1>2, SetFilterGoes, StaysGoes, PlainNone
  <1>3. CASE v.kind = "logs"
    BY <1>1, <1>3, LinesGoes, StaysGoes, PlainNone
  <1>4. CASE v.kind = "contexts"
    BY <1>1, <1>4, FilterContextsGoes, StaysGoes, PlainNone
  <1>5. CASE v.kind \notin {"table", "contexts", "logs"} /\ WantsFilter(v)
    BY <1>1, <1>5, ListFilterGoes, StaysGoes, PlainNone
  <1>6. CASE v.kind \notin {"table", "contexts", "logs"} /\ ~WantsFilter(v)
    BY <1>1, <1>6, StaysGoes, PlainNone DEF WantsFilter
  <1>7. QED
    BY <1>2, <1>3, <1>4, <1>5, <1>6

\* A key, for any view.
LEMMA ViewKeyGoes ==
    ASSUME NEW v, IsView(v), NEW k, NEW ns
    PROVE  Goes(v, ViewKey(v, k), ns) \/ Leads(v, ViewKey(v, k))
  <1>1. \/ v.kind = "table" /\ ViewKey(v, k) = TableKey(v, k)
        \/ v.kind = "logs" /\ ViewKey(v, k) = LogsKey(v, k)
        \/ v.kind = "contexts" /\ ViewKey(v, k) = ContextsKey(v, k)
        \/ v.kind \notin {"table", "contexts", "logs"} /\ ViewKey(v, k) = ListKey(v, k)
    <2>1. \/ Kinds(v) = "table" /\ ViewKey(v, k) = TableKey(v, k)
          \/ Kinds(v) = "logs" /\ ViewKey(v, k) = LogsKey(v, k)
          \/ Kinds(v) = "contexts" /\ ViewKey(v, k) = ContextsKey(v, k)
          \/ Kinds(v) = "list" /\ ViewKey(v, k) = ListKey(v, k)
      BY KindsAre DEF ViewKey
    <2>2. QED
      BY <2>1, KindsAre
  <1>2. QED
    BY <1>1, TableKeyGoes, LogsKeyGoes, ContextsKeyGoes, ListKeyGoes

-----------------------------------------------------------------------------
(* Messages *)

\* What a view has made of a message that is for all of them
After(v, w, m, ns) ==
    /\ m.msg \in {"Tick", "NamespaceChanged"} => InNs(w, ns)
    /\ m.msg = "Pinged" /\ v.kind = "contexts" => w.pending = v.pending \ {m.context}
    /\ m.msg = "NamespaceChanged" /\ v.kind = "contexts" => w.pending = v.pending

\* on_msg: every view goes on as it should with every message.
LEMMA OnMsgGoes ==
    ASSUME NEW v, IsView(v), NEW m, NEW s, m.msg = "Fetched" => Lists(m.answer)
    PROVE  Goes(v, OnMsg(v, m, s), Ns(s)) /\ After(v, OnMsg(v, m, s).view, m, Ns(s))
  <1>1. CASE m.msg = "Tick"
    <2>1. OnMsg(v, m, s) = ViewTick(v, s)
      BY <1>1 DEF OnMsg
    <2>2. QED
      BY <1>1, <2>1, ViewTickGoes DEF After
  <1>2. CASE m.msg = "Fetched"
    <2>1. OnMsg(v, m, s) = ViewAnswer(v, m.answer, s)
      BY <1>2 DEF OnMsg
    <2>2. QED
      BY <1>2, <2>1, ViewAnswerGoes DEF After
  <1>3. CASE m.msg = "Picked"
    <2>1. OnMsg(v, m, s) = ViewPicked(v, m.choice)
      BY <1>3 DEF OnMsg
    <2>2. QED
      BY <1>3, <2>1, ViewPickedGoes DEF After
  <1>4. CASE m.msg \in {"LogLines", "Started"}
    <2>1. OnMsg(v, m, s) = Kept(PushLines(v, m.lines), <<>>) \/ OnMsg(v, m, s) = Kept(LogsStarted(v, m.stream), <<>>)
      BY <1>4 DEF OnMsg
    <2>2. QED
      BY <1>4, <2>1, ViewLinesGoes DEF After
  <1>5. CASE m.msg = "Rows"
    <2>1. OnMsg(v, m, s) = Kept(OnRows(v, m.rows), <<>>)
      BY <1>5 DEF OnMsg
    <2>2. QED
      BY <1>5, <2>1, ViewRowsGoes DEF After
  <1>6. CASE m.msg = "NamespaceChanged" /\ v.kind = "table"
    <2>1. OnMsg(v, m, s) = FollowNamespace(v, Ns(s))
      BY <1>6 DEF OnMsg, Kinds
    <2>2. Goes(v, OnMsg(v, m, s), Ns(s)) /\ InNs(OnMsg(v, m, s).view, Ns(s))
      BY <1>6, <2>1, FollowGoes
    <2>3. QED
      BY <1>6, <2>2 DEF After
  <1>7. CASE m.msg = "Metrics" /\ v.kind = "table"
    <2>1. OnMsg(v, m, s) = Kept(OnMetrics(v, m.polled), <<>>)
      BY <1>7 DEF OnMsg, Kinds
    <2>2. Goes(v, OnMsg(v, m, s), Ns(s))
      BY <1>7, <2>1, MetricsGoes
    <2>3. QED
      BY <1>7, <2>2 DEF After
  <1>8. CASE m.msg = "Pinged" /\ v.kind = "contexts"
    <2>1. OnMsg(v, m, s) = Kept(Pinged(v, m.context), <<>>)
      BY <1>8 DEF OnMsg, Kinds
    <2>2. OnMsg(v, m, s).view = Pinged(v, m.context)
      BY <2>1 DEF Kept
    <2>3. Goes(v, OnMsg(v, m, s), Ns(s)) /\ OnMsg(v, m, s).view.pending = v.pending \ {m.context}
      <3>1. \A x : Goes(v, Kept(Pinged(v, x), <<>>), Ns(s)) /\ Pinged(v, x).pending = v.pending \ {x}
        BY <1>8, PingedGoes
      <3>2. QED
        BY <2>1, <2>2, <3>1
    <2>4. QED
      BY <1>8, <2>3 DEF After
  <1>9. CASE /\ m.msg \notin {"Tick", "Fetched", "Picked", "LogLines", "Started", "Rows"}
             /\ ~(m.msg \in {"NamespaceChanged", "Metrics"} /\ v.kind = "table")
             /\ ~(m.msg = "Pinged" /\ v.kind = "contexts")
    <2>1. OnMsg(v, m, s) = Kept(v, <<>>)
      BY <1>9, KindsAre DEF OnMsg
    <2>2. Goes(v, Kept(v, <<>>), Ns(s))
      BY StaysGoes, PlainNone
    <2>3. Kept(v, <<>>).view = v
      BY DEF Kept
    <2>4. QED
      BY <1>9, <2>1, <2>2, <2>3 DEF After, InNs, Live
  <1>10. QED
    BY <1>1, <1>2, <1>3, <1>4, <1>5, <1>6, <1>7, <1>8, <1>9

-----------------------------------------------------------------------------
(* Lists of commands that follow each other *)

\* Concatenation is associative.
LEMMA ConcatAssoc ==
    ASSUME NEW a, NEW b, NEW c, IsSeq(a), IsSeq(b), IsSeq(c)
    PROVE  (a \o b) \o c = a \o (b \o c)
  <1> DEFINE S == Range(a) \cup Range(b) \cup Range(c)
  <1>1. a \in Seq(S) /\ b \in Seq(S) /\ c \in Seq(S)
    <2>1. a \in Seq(Range(a)) /\ b \in Seq(Range(b)) /\ c \in Seq(Range(c))
      BY SeqHas
    <2>2. QED
      BY <2>1
  <1> HIDE DEF S
  <1>2. QED
    BY <1>1

\* Concatenation with nothing.
LEMMA ConcatEmpty ==
    ASSUME NEW a, IsSeq(a)
    PROVE  a \o <<>> = a /\ <<>> \o a = a
  <1> DEFINE S == Range(a)
  <1>1. a \in Seq(S)
    BY SeqHas
  <1> HIDE DEF S
  <1>2. QED
    BY <1>1

\* A sequence with one element replaced.
LEMMA ExceptIs ==
    ASSUME NEW a, IsSeq(a), NEW i \in DOMAIN a, NEW x
    PROVE  /\ IsSeq([a EXCEPT ![i] = x]) /\ Len([a EXCEPT ![i] = x]) = Len(a)
           /\ DOMAIN [a EXCEPT ![i] = x] = DOMAIN a
           /\ [a EXCEPT ![i] = x][i] = x
           /\ \A j \in DOMAIN a : j # i => [a EXCEPT ![i] = x][j] = a[j]
  <1> DEFINE b == [a EXCEPT ![i] = x]
             n == Len(a)
  <1>1. DOMAIN a = 1..n /\ n \in Nat
    BY SeqHas
  <1>2. DOMAIN b = DOMAIN a /\ b[i] = x /\ \A j \in DOMAIN a : j # i => b[j] = a[j]
    OBVIOUS
  <1>3. b = [j \in 1..n |-> b[j]]
    BY <1>1
  <1> HIDE DEF b, n
  <1>4. IsSeq(b) /\ Len(b) = n
    BY <1>1, <1>3, SeqIs
  <1>5. QED
    BY <1>2, <1>4 DEF b, n

\* What is asked for is not undone by commands that watch nothing.
LEMMA WatchedMore ==
    ASSUME NEW s, NEW cmds, NEW more, Plain(cmds), Plain(more), Quiet(more), Watched(s, cmds, 0)
    PROVE  Watched(s, cmds \o more, 0)
  <1> DEFINE c == cmds \o more
  <1>1. IsSeq(cmds) /\ IsSeq(more)
    BY DEF Plain
  <1>2. /\ DOMAIN cmds = 1..Len(cmds) /\ DOMAIN more = 1..Len(more) /\ Len(cmds) \in Nat /\ Len(more) \in Nat
        /\ DOMAIN c = 1..(Len(cmds) + Len(more))
        /\ \A i \in DOMAIN cmds : c[i] = cmds[i]
        /\ \A i \in DOMAIN c : i \in DOMAIN cmds \/ (i - Len(cmds) \in DOMAIN more /\ c[i] = more[i - Len(cmds)])
    <2>1. DOMAIN cmds = 1..Len(cmds) /\ DOMAIN more = 1..Len(more) /\ Len(cmds) \in Nat /\ Len(more) \in Nat
      BY <1>1, SeqHas
    <2>2. IsSeq(c) /\ Len(c) = Len(cmds) + Len(more)
      BY <1>1, ConcatIs
    <2>3. DOMAIN c = 1..Len(c)
      BY <2>2, SeqHas
    <2>4. /\ \A i \in 1..Len(cmds) : c[i] = cmds[i]
          /\ \A i \in DOMAIN c : i \in 1..Len(cmds) \/ (i - Len(cmds) \in 1..Len(more) /\ c[i] = more[i - Len(cmds)])
      BY <1>1, ConcatIs
    <2>5. QED
      BY <2>1, <2>2, <2>3, <2>4
  <1> HIDE DEF c
  <1>3. ASSUME NEW v, Asks(v, cmds, 0) PROVE Asks(v, c, 0)
    <2>1. PICK j \in DOMAIN cmds : j > 0 /\ cmds[j] = Watch(v) /\ \A l \in DOMAIN cmds : l > j => ~WatchFor(cmds[l], v.id)
      BY <1>3 DEF Asks
    <2>2. j \in DOMAIN c /\ c[j] = Watch(v)
      BY <1>2, <2>1
    <2>3. ASSUME NEW l \in DOMAIN c, l > j PROVE ~WatchFor(c[l], v.id)
      BY <1>2, <2>1, <2>3 DEF Quiet, WatchFor
    <2>4. QED
      BY <2>1, <2>2, <2>3 DEF Asks
  <1>4. ASSUME NEW v, Has(v, s, cmds, 0) PROVE Has(v, s, c, 0)
    <2>1. ASSUME NEW l \in DOMAIN c PROVE ~WatchFor(c[l], v.id)
      BY <1>2, <1>4 DEF Quiet, WatchFor, Has
    <2>2. QED
      BY <1>4, <2>1 DEF Has
  <1>5. Watched(s, c, 0)
    BY <1>3, <1>4 DEF Watched
  <1>6. QED
    BY <1>5 DEF c

\* What is among the commands stays so when others are added.
LEMMA HeldMore ==
    ASSUME NEW cmds, NEW more, IsSeq(cmds), IsSeq(more)
    PROVE  /\ \A x : (\E j \in DOMAIN cmds : j > 0 /\ cmds[j] = x) => \E j \in DOMAIN (cmds \o more) : j > 0 /\ (cmds \o more)[j] = x
           /\ \A x : (\E j \in DOMAIN more : more[j] = x) => \E j \in DOMAIN (cmds \o more) : j > 0 /\ (cmds \o more)[j] = x
  <1> DEFINE c == cmds \o more
  <1>1. DOMAIN cmds = 1..Len(cmds) /\ DOMAIN more = 1..Len(more) /\ Len(cmds) \in Nat /\ Len(more) \in Nat
    BY SeqHas
  <1>2. /\ IsSeq(c) /\ Len(c) = Len(cmds) + Len(more)
        /\ \A i \in 1..Len(cmds) : c[i] = cmds[i]
        /\ \A i \in 1..Len(more) : c[Len(cmds) + i] = more[i]
    BY ConcatIs
  <1>3. DOMAIN c = 1..Len(c)
    BY <1>2, SeqHas
  <1> HIDE DEF c
  <1>4. \A x : (\E j \in DOMAIN cmds : j > 0 /\ cmds[j] = x) => \E j \in DOMAIN c : j > 0 /\ c[j] = x
    BY <1>1, <1>2, <1>3
  <1>5. ASSUME NEW x, NEW j \in DOMAIN more, more[j] = x PROVE \E l \in DOMAIN c : l > 0 /\ c[l] = x
    <2> DEFINE l == Len(cmds) + j
    <2>1. l \in DOMAIN c /\ l > 0 /\ c[l] = x
      BY <1>1, <1>2, <1>3, <1>5
    <2>2. QED
      BY <2>1
  <1>6. QED
    BY <1>4, <1>5 DEF c

\* Pings that are still to be executed stay so.
LEMMA PingingMore ==
    ASSUME NEW s, NEW cmds, NEW more, IsSeq(cmds), IsSeq(more), NEW lost, Pinging(s, cmds, 0, lost)
    PROVE  Pinging(s, cmds \o more, 0, lost)
  BY HeldMore DEF Pinging

\* So does the write of the config.
LEMMA SavesMore ==
    ASSUME NEW s, NEW cmds, NEW more, IsSeq(cmds), IsSeq(more), Saves(s, cmds, 0)
    PROVE  Saves(s, cmds \o more, 0)
  BY HeldMore DEF Saves

\* Commands that start no watch may follow what is sound.
LEMMA MoreSound ==
    ASSUME NEW s, NEW cmds, NEW more, NEW owed, Sound(s, cmds, 0, owed), Plain(more), Quiet(more)
    PROVE  Sound(s, cmds \o more, 0, owed)
  <1>1. Plain(cmds) /\ IsSeq(cmds) /\ IsSeq(more)
    BY DEF Sound, Plain
  <1>2. Plain(cmds \o more)
    BY <1>1, PlainConcat
  <1>3. Watched(s, cmds \o more, 0)
    BY <1>1, WatchedMore DEF Sound
  <1>4. Pinging(s, cmds \o more, 0, owed.lost)
    BY <1>1, PingingMore DEF Sound
  <1>5. Saves(s, cmds, 0) => Saves(s, cmds \o more, 0)
    BY <1>1, SavesMore
  <1>6. QED
    BY <1>2, <1>3, <1>4, <1>5 DEF Sound

\* Once the file is to be written, nothing is owed to it.
LEMMA SaveSound ==
    ASSUME NEW s, NEW cmds, NEW owed, Sound(s, cmds, 0, owed)
    PROVE  Sound(s, cmds \o <<Save>>, 0, [save |-> FALSE, ns |-> owed.ns, lost |-> owed.lost, empty |-> owed.empty])
  <1>1. Save.cmd = "SaveConfig"
    BY DEF Save
  <1>2. Plain(<<Save>>) /\ Quiet(<<Save>>)
    BY <1>1, PlainOne DEF PlainKinds
  <1>3. Sound(s, cmds \o <<Save>>, 0, owed)
    BY <1>2, MoreSound
  <1>4. Saves(s, cmds \o <<Save>>, 0)
    <2>1. IsSeq(cmds) /\ IsSeq(<<Save>>)
      BY <1>2 DEF Sound, Plain
    <2>2. \E j \in DOMAIN <<Save>> : <<Save>>[j] = Save
      <3>1. DOMAIN <<Save>> = {1} /\ <<Save>>[1] = Save
        OBVIOUS
      <3>2. QED
        BY <3>1
    <2>3. \E j \in DOMAIN (cmds \o <<Save>>) : j > 0 /\ (cmds \o <<Save>>)[j] = Save
      BY <2>1, <2>2, HeldMore
    <2>4. QED
      BY <1>1, <2>3 DEF Saves
  <1>5. QED
    BY <1>3, <1>4 DEF Sound

-----------------------------------------------------------------------------
(* The stack *)

\* The parts of the state that nothing needed is about may change at will.
Core == {"views", "next", "config", "session", "shown", "history", "at", "pending", "quit", "watching", "tasks", "saved", "dropped"}
Same(s, u, changed) == DOMAIN u = DOMAIN s /\ \A f \in Fields \ changed : u[f] = s[f]

\* Fields the invariant does not speak of may change.
LEMMA CoreSound ==
    ASSUME NEW s, NEW u, NEW cmds, NEW k, NEW owed, Sound(s, cmds, k, owed), DOMAIN u = DOMAIN s, \A f \in Core : u[f] = s[f],
           DOMAIN u.dialogs = DOMAIN s.dialogs
    PROVE  Sound(u, cmds, k, owed)
  <1>1. /\ u.views = s.views /\ u.next = s.next /\ u.config = s.config /\ u.session = s.session /\ u.shown = s.shown
        /\ u.history = s.history /\ u.at = s.at /\ u.pending = s.pending /\ u.quit = s.quit
        /\ u.watching = s.watching /\ u.tasks = s.tasks /\ u.saved = s.saved /\ u.dropped = s.dropped
    BY DEF Core
  <1>2. Shaped(u)
    BY <1>1 DEF Sound, Shaped, Stack, Remembers, Recalls
  <1>3. Watched(u, cmds, k)
    BY <1>1 DEF Sound, Watched, Has
  <1>4. Pinging(u, cmds, k, owed.lost) /\ (Saves(s, cmds, k) => Saves(u, cmds, k))
    BY <1>1 DEF Sound, Pinging, Saves
  <1>5. Current(s) => Current(u)
    BY <1>1 DEF Current, Ns
  <1>6. QED
    BY <1>1, <1>2, <1>3, <1>4, <1>5 DEF Sound

\* The header shows what is remembered of the context.
LEMMA SyncSound ==
    ASSUME NEW s, NEW cmds, NEW k, NEW owed, Sound(s, cmds, k, owed)
    PROVE  Sound(SyncChrome(s), cmds, k, owed) /\ Same(s, SyncChrome(s), {"shown"})
  <1> DEFINE x == [context |-> s.session.context, favorites |-> s.config.of[s.session.context].favorites]
             u == [s EXCEPT !.shown = x]
  <1>1. SyncChrome(s) = IF HasSession(s) THEN u ELSE s
    BY Zenon DEF SyncChrome
  <1>2. CASE ~HasSession(s)
    <2>1. SyncChrome(s) = s
      BY <1>1, <1>2
    <2>2. QED
      BY <2>1 DEF Same
  <1>3. CASE HasSession(s)
    <2>1. SyncChrome(s) = u
      BY <1>1, <1>3
    <2>2. DOMAIN x = {"context", "favorites"} /\ x.context = s.session.context
             /\ x.favorites = s.config.of[x.context].favorites
      OBVIOUS
    <2> HIDE DEF x
    <2>3. DOMAIN s = Fields
      BY DEF Sound, Shaped
    <2>4. DOMAIN u = Fields /\ u.shown = x /\ \A f \in Fields \ {"shown"} : u[f] = s[f]
      BY <2>3 DEF Fields
    <2> HIDE DEF u
    <2>5. /\ u.views = s.views /\ u.next = s.next /\ u.dialogs = s.dialogs /\ u.config = s.config /\ u.session = s.session
          /\ u.history = s.history /\ u.at = s.at /\ u.pending = s.pending /\ u.quit = s.quit
          /\ u.watching = s.watching /\ u.tasks = s.tasks /\ u.saved = s.saved /\ u.dropped = s.dropped
      BY <2>4 DEF Fields
    <2>6. Shaped(u)
      <3>1. Stack(u) /\ Recalls(u)
        BY <2>5 DEF Sound, Shaped, Stack, Recalls
      <3>2. Remembers(u)
        BY <2>2, <2>4, <2>5 DEF Sound, Shaped, Remembers
      <3>3. QED
        BY <2>4, <2>5, <3>1, <3>2 DEF Sound, Shaped
    <2>7. Watched(u, cmds, k)
      BY <2>5 DEF Sound, Watched, Has
    <2>8. Pinging(u, cmds, k, owed.lost) /\ (Saves(s, cmds, k) => Saves(u, cmds, k))
      BY <2>5 DEF Sound, Pinging, Saves
    <2>9. Current(s) => Current(u)
      BY <2>5 DEF Current, Ns
    <2>10. QED
      BY <2>1, <2>3, <2>4, <2>5, <2>6, <2>7, <2>8, <2>9 DEF Sound, Same
  <1>4. QED
    BY <1>2, <1>3

\* A view that has changed as views do
Puts(s, i, w) == [s EXCEPT !.views[i] = w]

\* One view that goes on as it should, its commands behind the others.
LEMMA OneSound ==
    ASSUME NEW s, NEW cmds, NEW owed, Sound(s, cmds, 0, owed),
           NEW i \in DOMAIN s.views, NEW did, Goes(s.views[i], did, Ns(s)), NEW u, u = Puts(s, i, did.view)
    PROVE  /\ Sound(u, cmds \o did.cmds, 0, owed) /\ Same(s, u, {"views"})
           /\ IsSeq(u.views) /\ Len(u.views) = Len(s.views) /\ DOMAIN u.views = DOMAIN s.views
           /\ u.views[i] = did.view /\ \A j \in DOMAIN s.views : j # i => u.views[j] = s.views[j]
  <1> DEFINE v == s.views[i]
             w == did.view
             c == cmds \o did.cmds
  <1>1. DOMAIN s = Fields /\ IsSeq(s.views)
    BY DEF Sound, Shaped, Stack
  <1>2. DOMAIN u = Fields /\ u.views = [s.views EXCEPT ![i] = w] /\ \A f \in Fields \ {"views"} : u[f] = s[f]
    BY <1>1 DEF Fields, Puts
  <1>3. /\ IsSeq(u.views) /\ Len(u.views) = Len(s.views) /\ DOMAIN u.views = DOMAIN s.views
        /\ u.views[i] = w /\ \A j \in DOMAIN s.views : j # i => u.views[j] = s.views[j]
    BY <1>1, <1>2, ExceptIs
  <1>4. /\ u.next = s.next /\ u.dialogs = s.dialogs /\ u.config = s.config /\ u.session = s.session /\ u.shown = s.shown
        /\ u.history = s.history /\ u.at = s.at /\ u.pending = s.pending /\ u.quit = s.quit
        /\ u.watching = s.watching /\ u.tasks = s.tasks /\ u.saved = s.saved /\ u.dropped = s.dropped
    BY <1>2 DEF Fields
  <1>5. /\ IsView(w) /\ w.id = v.id /\ w.kind = v.kind /\ Plain(did.cmds) /\ IsSeq(did.cmds)
        /\ v.kind = "table" => /\ w.shows = v.shows
                               /\ did.cmds = <<Watch(w)>> \/ (Quiet(did.cmds) /\ SameShow(v, w))
                               /\ w.ns = Ns(s) \/ (w.ns = v.ns /\ w.awaiting = v.awaiting)
        /\ v.kind # "table" => Quiet(did.cmds)
        /\ v.kind = "contexts" => \A n \in w.pending : n \in v.pending \/ \E j \in DOMAIN did.cmds : did.cmds[j] = PingOf(n)
    BY DEF Goes, Plain
  <1>6. Plain(cmds) /\ IsSeq(cmds)
    BY DEF Sound, Plain
  <1>7. Plain(c)
    BY <1>5, <1>6, PlainConcat
  <1>8. /\ DOMAIN cmds = 1..Len(cmds) /\ DOMAIN did.cmds = 1..Len(did.cmds) /\ Len(cmds) \in Nat /\ Len(did.cmds) \in Nat
        /\ DOMAIN c = 1..(Len(cmds) + Len(did.cmds))
        /\ \A l \in 1..Len(cmds) : c[l] = cmds[l]
        /\ \A l \in 1..Len(did.cmds) : c[Len(cmds) + l] = did.cmds[l]
        /\ \A l \in DOMAIN c : l \in 1..Len(cmds) \/ (l - Len(cmds) \in 1..Len(did.cmds) /\ c[l] = did.cmds[l - Len(cmds)])
    <2>1. DOMAIN cmds = 1..Len(cmds) /\ DOMAIN did.cmds = 1..Len(did.cmds) /\ Len(cmds) \in Nat /\ Len(did.cmds) \in Nat
      BY <1>5, <1>6, SeqHas
    <2>2. /\ IsSeq(c) /\ Len(c) = Len(cmds) + Len(did.cmds)
          /\ \A l \in 1..Len(cmds) : c[l] = cmds[l]
          /\ \A l \in 1..Len(did.cmds) : c[Len(cmds) + l] = did.cmds[l]
          /\ \A l \in DOMAIN c : l \in 1..Len(cmds) \/ (l - Len(cmds) \in 1..Len(did.cmds) /\ c[l] = did.cmds[l - Len(cmds)])
      BY <1>5, <1>6, ConcatIs
    <2>3. DOMAIN c = 1..Len(c)
      BY <2>2, SeqHas
    <2>4. QED
      BY <2>1, <2>2, <2>3
  <1> HIDE DEF c
  <1>9. Shaped(u)
    <2>1. Stack(s)
      BY DEF Sound, Shaped
    <2>2. \A j \in DOMAIN u.views : u.views[j].id = s.views[j].id
      BY <1>3, <1>5
    <2>3. \A j \in DOMAIN u.views : IsView(u.views[j])
      BY <1>3, <1>5, <2>1 DEF Stack
    <2>4. Stack(u)
      BY <1>3, <1>4, <2>1, <2>2, <2>3 DEF Stack
    <2>5. Remembers(u) /\ Recalls(u)
      BY <1>4 DEF Sound, Shaped, Remembers, Recalls
    <2>6. QED
      BY <1>2, <1>4, <2>4, <2>5 DEF Sound, Shaped
  <1>10. Watched(u, c, 0)
    <2> SUFFICES ASSUME NEW j \in DOMAIN u.views, Live(u.views[j])
                 PROVE  Asks(u.views[j], c, 0) \/ Has(u.views[j], u, c, 0)
      BY DEF Watched
    <2>1. CASE Quiet(did.cmds)
      <3>1. Watched(s, c, 0)
        BY <1>5, <1>6, <2>1, WatchedMore DEF Sound, c
      <3>2. CASE j # i
        BY <1>3, <1>4, <3>1, <3>2 DEF Watched, Has
      <3>3. CASE j = i
        <4>1. v.kind = "table" /\ w.kind = "table" /\ u.views[j] = w /\ Live(w)
          BY <1>3, <1>5, <3>3 DEF Live
        <4>2. SameShow(v, w)
          <5>1. SameShow(v, w) \/ did.cmds = <<Watch(w)>>
            BY <1>5, <4>1
          <5>2. did.cmds # <<Watch(w)>>
            BY <2>1, WatchIsPlain DEF Quiet
          <5>3. QED
            BY <5>1, <5>2
        <4>3. Live(v) /\ Watch(v) = Watch(w) /\ Shows(v) = Shows(w)
          BY <1>5, <4>1, <4>2 DEF Live, Watch, Shows, SameShow
        <4>4. Asks(v, c, 0) \/ Has(v, s, c, 0)
          BY <3>1, <4>3 DEF Watched
        <4>5. Asks(w, c, 0) \/ Has(w, u, c, 0)
          BY <1>4, <1>5, <4>3, <4>4 DEF Asks, Has
        <4>6. QED
          BY <4>1, <4>5
      <3>4. QED
        BY <3>2, <3>3
    <2>2. CASE ~Quiet(did.cmds)
      <3>1. did.cmds = <<Watch(w)>> /\ v.kind = "table"
        BY <1>5, <2>2
      <3>2. Len(did.cmds) = 1 /\ did.cmds[1] = Watch(w)
        BY <3>1
      <3> DEFINE n == Len(cmds) + 1
      <3>3. n \in DOMAIN c /\ n > 0 /\ c[n] = Watch(w) /\ \A l \in DOMAIN c : l \in 1..Len(cmds) \/ l = n
        BY <1>8, <3>2
      <3>4. CASE j = i
        <4>1. u.views[j] = w
          BY <1>3, <3>4
        <4>2. \A l \in DOMAIN c : ~(l > n)
          BY <1>8, <3>3
        <4>3. Asks(w, c, 0)
          BY <3>3, <4>2 DEF Asks
        <4>4. QED
          BY <4>1, <4>3
      <3>5. CASE j # i
        <4> DEFINE x == s.views[j]
        <4>1. u.views[j] = x /\ Live(x) /\ j \in DOMAIN s.views
          BY <1>3, <3>5
        <4>2. x.id # w.id
          BY <1>5, <3>5, <4>1 DEF Sound, Shaped, Stack
        <4>3. ~WatchFor(c[n], x.id)
          BY <3>3, <4>2, WatchIsPlain DEF WatchFor
        <4>4. Asks(x, cmds, 0) \/ Has(x, s, cmds, 0)
          BY <4>1 DEF Sound, Watched
        <4> HIDE DEF x, n
        <4>5. ASSUME Asks(x, cmds, 0) PROVE Asks(x, c, 0)
          <5>1. PICK l \in DOMAIN cmds : l > 0 /\ cmds[l] = Watch(x) /\ \A r \in DOMAIN cmds : r > l => ~WatchFor(cmds[r], x.id)
            BY <4>5 DEF Asks
          <5>2. l \in DOMAIN c /\ c[l] = Watch(x)
            BY <1>8, <5>1
          <5>3. \A r \in DOMAIN c : r > l => ~WatchFor(c[r], x.id)
            BY <1>8, <3>3, <4>3, <5>1
          <5>4. QED
            BY <5>1, <5>2, <5>3 DEF Asks
        <4>6. ASSUME Has(x, s, cmds, 0) PROVE Has(x, u, c, 0)
          <5>1. \A r \in DOMAIN c : r > 0 => ~WatchFor(c[r], x.id)
            BY <1>8, <3>3, <4>3, <4>6 DEF Has
          <5>2. QED
            BY <1>4, <4>6, <5>1 DEF Has
        <4>7. QED
          BY <4>1, <4>4, <4>5, <4>6
      <3>6. QED
        BY <3>4, <3>5
    <2>3. QED
      BY <2>1, <2>2
  <1>11. Pinging(u, c, 0, owed.lost)
    <2>1. Pinging(s, c, 0, owed.lost)
      BY <1>5, <1>6, PingingMore DEF Sound, c
    <2>2. ASSUME NEW j \in DOMAIN u.views, u.views[j].kind = "contexts", NEW n \in u.views[j].pending
          PROVE  n \in owed.lost \/ PingOf(n) \in BagToSet(u.tasks) \/ \E l \in DOMAIN c : l > 0 /\ c[l] = PingOf(n)
      <3>1. CASE j # i \/ n \in v.pending
        <4>1. j \in DOMAIN s.views /\ s.views[j].kind = "contexts" /\ n \in s.views[j].pending
          <5>1. CASE j # i
            BY <1>3, <2>2, <5>1
          <5>2. CASE j = i
            BY <1>3, <1>5, <2>2, <3>1, <5>2
          <5>3. QED
            BY <5>1, <5>2
        <4>2. QED
          BY <1>4, <2>1, <4>1 DEF Pinging
      <3>2. CASE j = i /\ n \notin v.pending
        <4>1. \E l \in DOMAIN did.cmds : did.cmds[l] = PingOf(n)
          <5>1. n \in w.pending /\ v.kind = "contexts"
            BY <1>3, <1>5, <2>2, <3>2
          <5>2. QED
            BY <1>5, <3>2, <5>1
        <4>2. \E l \in DOMAIN c : l > 0 /\ c[l] = PingOf(n)
          <5>1. PICK r \in DOMAIN did.cmds : did.cmds[r] = PingOf(n)
            BY <4>1
          <5> DEFINE l == Len(cmds) + r
          <5>2. l \in DOMAIN c /\ l > 0 /\ c[l] = PingOf(n)
            BY <1>8, <5>1
          <5>3. QED
            BY <5>2
        <4>3. QED
          BY <4>2
      <3>3. QED
        BY <3>1, <3>2
    <2>3. QED
      BY <2>2 DEF Pinging
  <1>12. Saves(s, cmds, 0) => Saves(u, c, 0)
    <2>1. Saves(s, cmds, 0) => Saves(s, c, 0)
      BY <1>5, <1>6, SavesMore DEF c
    <2>2. QED
      BY <1>4, <2>1 DEF Saves
  <1>13. Current(s) => Current(u)
    <2>1. Ns(u) = Ns(s) /\ BagToSet(u.tasks) = BagToSet(s.tasks)
      BY <1>4 DEF Ns
    <2>2. InNs(v, Ns(s)) => InNs(w, Ns(s))
      BY <1>5 DEF InNs, Live
    <2>3. QED
      BY <1>3, <2>1, <2>2 DEF Current
  <1>14. QED
    BY <1>1, <1>2, <1>3, <1>4, <1>7, <1>9, <1>10, <1>11, <1>12, <1>13 DEF Sound, Same, c

\* A view that is new: nothing is asked for it yet.
IsNew(s, v) ==
    /\ IsView(v) /\ v.id = s.next /\ InNs(v, Ns(s))
    /\ v.kind = "contexts" => v.pending = {}

Stacks(s, w) == [s EXCEPT !.next = @ + 1, !.full = FALSE, !.views = Append(@, w)]

\* A new view on the stack, with its commands behind the others.
LEMMA NewSound ==
    ASSUME NEW s, NEW cmds, NEW owed, Sound(s, cmds, 0, owed), NEW v, IsNew(s, v), NEW did, Goes(v, did, Ns(s)),
           v.kind = "table" => did.view = v /\ (Live(v) => did.cmds = <<Watch(v)>>),
           NEW u, u = Stacks(s, did.view)
    PROVE  Sound(u, cmds \o did.cmds, 0, owed) /\ Same(s, u, {"views", "next", "full"}) /\ Len(u.views) = Len(s.views) + 1
  <1> DEFINE w == did.view
             c == cmds \o did.cmds
             n == Len(s.views) + 1
  <1>1. DOMAIN s = Fields /\ IsSeq(s.views) /\ DOMAIN s.views = 1..Len(s.views) /\ Len(s.views) \in Nat /\ s.next \in Nat
    BY SeqHas DEF Sound, Shaped, Stack
  <1>2. /\ DOMAIN u = Fields /\ u.views = Append(s.views, w) /\ u.next = s.next + 1
        /\ \A f \in Fields \ {"views", "next", "full"} : u[f] = s[f]
    BY <1>1 DEF Fields, Stacks
  <1>3. /\ IsSeq(u.views) /\ Len(u.views) = n /\ DOMAIN u.views = 1..n
        /\ u.views[n] = w /\ \A j \in DOMAIN s.views : u.views[j] = s.views[j]
    <2>1. /\ IsSeq(u.views) /\ Len(u.views) = n
          /\ u.views[n] = w /\ \A j \in DOMAIN s.views : u.views[j] = s.views[j]
      BY <1>1, <1>2, AppendIs
    <2>2. DOMAIN u.views = 1..Len(u.views)
      BY <2>1, SeqHas
    <2>3. QED
      BY <2>1, <2>2
  <1>4. /\ u.dialogs = s.dialogs /\ u.config = s.config /\ u.session = s.session /\ u.shown = s.shown
        /\ u.history = s.history /\ u.at = s.at /\ u.pending = s.pending /\ u.quit = s.quit
        /\ u.watching = s.watching /\ u.tasks = s.tasks /\ u.saved = s.saved /\ u.dropped = s.dropped
    BY <1>2 DEF Fields
  <1>5. /\ IsView(w) /\ w.id = s.next /\ w.kind = v.kind /\ Plain(did.cmds) /\ IsSeq(did.cmds)
        /\ v.kind # "table" => Quiet(did.cmds)
        /\ v.kind = "contexts" => \A x \in w.pending : \E j \in DOMAIN did.cmds : did.cmds[j] = PingOf(x)
    BY DEF Goes, Plain, IsNew
  <1>6. Plain(cmds) /\ IsSeq(cmds)
    BY DEF Sound, Plain
  <1>7. Plain(c)
    BY <1>5, <1>6, PlainConcat
  <1>8. /\ DOMAIN cmds = 1..Len(cmds) /\ DOMAIN did.cmds = 1..Len(did.cmds) /\ Len(cmds) \in Nat /\ Len(did.cmds) \in Nat
        /\ DOMAIN c = 1..(Len(cmds) + Len(did.cmds))
        /\ \A l \in 1..Len(cmds) : c[l] = cmds[l]
        /\ \A l \in 1..Len(did.cmds) : c[Len(cmds) + l] = did.cmds[l]
        /\ \A l \in DOMAIN c : l \in 1..Len(cmds) \/ (l - Len(cmds) \in 1..Len(did.cmds) /\ c[l] = did.cmds[l - Len(cmds)])
    <2>1. DOMAIN cmds = 1..Len(cmds) /\ DOMAIN did.cmds = 1..Len(did.cmds) /\ Len(cmds) \in Nat /\ Len(did.cmds) \in Nat
      BY <1>5, <1>6, SeqHas
    <2>2. /\ IsSeq(c) /\ Len(c) = Len(cmds) + Len(did.cmds)
          /\ \A l \in 1..Len(cmds) : c[l] = cmds[l]
          /\ \A l \in 1..Len(did.cmds) : c[Len(cmds) + l] = did.cmds[l]
          /\ \A l \in DOMAIN c : l \in 1..Len(cmds) \/ (l - Len(cmds) \in 1..Len(did.cmds) /\ c[l] = did.cmds[l - Len(cmds)])
      BY <1>5, <1>6, ConcatIs
    <2>3. DOMAIN c = 1..Len(c)
      BY <2>2, SeqHas
    <2>4. QED
      BY <2>1, <2>2, <2>3
  <1> HIDE DEF c
  <1>9. Shaped(u)
    <2>1. Stack(s)
      BY DEF Sound, Shaped
    <2>2. \A j \in DOMAIN u.views : j \in DOMAIN s.views \/ j = n
      BY <1>1, <1>3
    <2>3. \A j \in DOMAIN u.views : IsView(u.views[j]) /\ u.views[j].id \in Nat /\ u.views[j].id < u.next
      BY <1>1, <1>2, <1>3, <1>5, <2>1, <2>2 DEF Stack
    <2>4. \A i, j \in DOMAIN u.views : u.views[i].id = u.views[j].id => i = j
      <3>1. \A i \in DOMAIN s.views : u.views[i].id < s.next
        BY <1>3, <2>1 DEF Stack
      <3>2. u.views[n].id = s.next
        BY <1>3, <1>5
      <3>3. \A i, j \in DOMAIN s.views : u.views[i].id = u.views[j].id => i = j
        BY <1>3, <2>1 DEF Stack
      <3>4. QED
        BY <1>1, <2>2, <2>3, <3>1, <3>2, <3>3
    <2>5. Stack(u)
      BY <1>1, <1>2, <1>3, <2>3, <2>4 DEF Stack
    <2>6. Remembers(u) /\ Recalls(u)
      BY <1>4 DEF Sound, Shaped, Remembers, Recalls
    <2>7. QED
      BY <1>2, <1>4, <2>5, <2>6 DEF Sound, Shaped
  <1>10. Watched(u, c, 0)
    <2> SUFFICES ASSUME NEW j \in DOMAIN u.views, Live(u.views[j])
                 PROVE  Asks(u.views[j], c, 0) \/ Has(u.views[j], u, c, 0)
      BY DEF Watched
    <2>1. CASE j # n
      <3> DEFINE x == s.views[j]
      <3>1. j \in DOMAIN s.views /\ u.views[j] = x /\ Live(x)
        BY <1>1, <1>3, <2>1
      <3>2. x.id # s.next
        BY <1>1, <3>1 DEF Sound, Shaped, Stack
      <3>3. \A l \in DOMAIN did.cmds : ~WatchFor(did.cmds[l], x.id)
        <4>1. CASE Quiet(did.cmds)
          BY <4>1 DEF Quiet, WatchFor
        <4>2. CASE ~Quiet(did.cmds)
          <5>1. v.kind = "table" /\ did.view = v
            BY <1>5, <4>2
          <5>2. did.cmds = <<Watch(v)>>
            BY <4>2, <5>1 DEF Goes
          <5>3. DOMAIN did.cmds = {1} /\ did.cmds[1] = Watch(v)
            BY <5>2
          <5>4. Watch(v).view = s.next
            BY WatchIsPlain DEF IsNew
          <5>5. QED
            BY <3>2, <5>3, <5>4 DEF WatchFor
        <4>3. QED
          BY <4>1, <4>2
      <3>4. Asks(x, cmds, 0) \/ Has(x, s, cmds, 0)
        BY <3>1 DEF Sound, Watched
      <3> HIDE DEF x
      <3>5. ASSUME Asks(x, cmds, 0) PROVE Asks(x, c, 0)
        <4>1. PICK l \in DOMAIN cmds : l > 0 /\ cmds[l] = Watch(x) /\ \A r \in DOMAIN cmds : r > l => ~WatchFor(cmds[r], x.id)
          BY <3>5 DEF Asks
        <4>2. l \in DOMAIN c /\ c[l] = Watch(x)
          BY <1>8, <4>1
        <4>3. \A r \in DOMAIN c : r > l => ~WatchFor(c[r], x.id)
          BY <1>8, <3>3, <4>1
        <4>4. QED
          BY <4>1, <4>2, <4>3 DEF Asks
      <3>6. ASSUME Has(x, s, cmds, 0) PROVE Has(x, u, c, 0)
        <4>1. \A r \in DOMAIN c : r > 0 => ~WatchFor(c[r], x.id)
          BY <1>8, <3>3, <3>6 DEF Has
        <4>2. QED
          BY <1>4, <3>6, <4>1 DEF Has
      <3>7. QED
        BY <3>1, <3>4, <3>5, <3>6
    <2>2. CASE j = n
      <3>1. u.views[j] = w /\ Live(w)
        BY <1>3, <2>2
      <3>2. v.kind = "table" /\ w = v
        BY <1>5, <3>1 DEF Live
      <3>3. did.cmds = <<Watch(w)>>
        BY <3>1, <3>2
      <3> DEFINE l == Len(cmds) + 1
      <3>4. Len(did.cmds) = 1 /\ did.cmds[1] = Watch(w)
        BY <3>3
      <3>5. l \in DOMAIN c /\ l > 0 /\ c[l] = Watch(w) /\ \A r \in DOMAIN c : ~(r > l)
        BY <1>8, <3>4
      <3> HIDE DEF l
      <3>6. Asks(w, c, 0)
        BY <3>5 DEF Asks
      <3>7. QED
        BY <3>1, <3>6
    <2>3. QED
      BY <2>1, <2>2
  <1>11. Pinging(u, c, 0, owed.lost)
    <2>1. Pinging(s, c, 0, owed.lost)
      BY <1>5, <1>6, PingingMore DEF Sound, c
    <2>2. ASSUME NEW j \in DOMAIN u.views, u.views[j].kind = "contexts", NEW x \in u.views[j].pending
          PROVE  x \in owed.lost \/ PingOf(x) \in BagToSet(u.tasks) \/ \E l \in DOMAIN c : l > 0 /\ c[l] = PingOf(x)
      <3>1. CASE j # n
        <4>1. j \in DOMAIN s.views /\ s.views[j].kind = "contexts" /\ x \in s.views[j].pending
          BY <1>1, <1>3, <2>2, <3>1
        <4>2. QED
          BY <1>4, <2>1, <4>1 DEF Pinging
      <3>2. CASE j = n
        <4>1. w.kind = "contexts" /\ x \in w.pending
          BY <1>3, <2>2, <3>2
        <4>2. PICK r \in DOMAIN did.cmds : did.cmds[r] = PingOf(x)
          BY <1>5, <4>1
        <4> DEFINE l == Len(cmds) + r
        <4>3. l \in DOMAIN c /\ l > 0 /\ c[l] = PingOf(x)
          BY <1>8, <4>2
        <4>4. QED
          BY <4>3
      <3>3. QED
        BY <3>1, <3>2
    <2>3. QED
      BY <2>2 DEF Pinging
  <1>12. Saves(s, cmds, 0) => Saves(u, c, 0)
    <2>1. Saves(s, cmds, 0) => Saves(s, c, 0)
      BY <1>5, <1>6, SavesMore DEF c
    <2>2. QED
      BY <1>4, <2>1 DEF Saves
  <1>13. Current(s) => Current(u)
    <2>1. Ns(u) = Ns(s) /\ BagToSet(u.tasks) = BagToSet(s.tasks)
      BY <1>4 DEF Ns
    <2>2. InNs(w, Ns(s))
      <3>1. w.kind = "table" => w = v
        BY <1>5
      <3>2. QED
        BY <3>1 DEF InNs, Live, IsNew
    <2>3. QED
      BY <1>1, <1>3, <2>1, <2>2 DEF Current
  <1>14. QED
    BY <1>1, <1>2, <1>3, <1>4, <1>7, <1>9, <1>10, <1>11, <1>12, <1>13 DEF Sound, Same, c

\* push_view
LEMMA PushSound ==
    ASSUME NEW s, NEW cmds, NEW owed, Sound(s, cmds, 0, owed), NEW v, IsNew(s, v)
    PROVE  /\ Sound(PushView(s, v).t, cmds \o PushView(s, v).cmds, 0, owed)
           /\ Same(s, PushView(s, v).t, {"views", "next", "full", "shown"})
           /\ Len(PushView(s, v).t.views) = Len(s.views) + 1 /\ Plain(PushView(s, v).cmds)
  <1> DEFINE did == FirstTick(v, s)
             u == Stacks(s, did.view)
  <1>1. IsView(v)
    BY DEF IsNew
  <1>2. Goes(v, did, Ns(s)) /\ (v.kind = "table" => did.view = v /\ (Live(v) => did.cmds = <<Watch(v)>>))
    BY <1>1, FirstTickGoes
  <1>3. PushView(s, v).t = SyncChrome(u) /\ PushView(s, v).cmds = did.cmds
    <2> HIDE DEF did
    <2>1. PushView(s, v) = Pair(SyncChrome(u), did.cmds)
      BY DEF PushView, Pushed, Stacks, did
    <2> HIDE DEF u
    <2>2. QED
      BY <2>1 DEF Pair
  <1>4. Plain(did.cmds)
    BY <1>2 DEF Goes
  <1> HIDE DEF did
  <1>a. u = Stacks(s, did.view)
    OBVIOUS
  <1> HIDE DEF u
  <1>5. Sound(u, cmds \o did.cmds, 0, owed) /\ Same(s, u, {"views", "next", "full"}) /\ Len(u.views) = Len(s.views) + 1
    BY <1>2, <1>a, NewSound
  <1>6. Sound(SyncChrome(u), cmds \o did.cmds, 0, owed) /\ Same(u, SyncChrome(u), {"shown"})
    BY <1>5, SyncSound
  <1>7. SyncChrome(u).views = u.views
    BY <1>6 DEF Same, Fields
  <1>8. Same(s, SyncChrome(u), {"views", "next", "full", "shown"})
    BY <1>5, <1>6 DEF Same
  <1>9. QED
    BY <1>3, <1>4, <1>5, <1>6, <1>7, <1>8

\* replace_views: without views, none is owed a namespace.
LEMMA ReplaceSound ==
    ASSUME NEW s, NEW cmds, NEW owed, Sound(s, cmds, 0, owed), NEW v, IsNew(s, v)
    PROVE  /\ Sound(ReplaceViews(s, v).t, cmds \o ReplaceViews(s, v).cmds, 0, [save |-> owed.save, ns |-> FALSE, lost |-> {}, empty |-> FALSE])
           /\ Same(s, ReplaceViews(s, v).t, {"views", "next", "full", "shown"})
           /\ Len(ReplaceViews(s, v).t.views) = 1 /\ Plain(ReplaceViews(s, v).cmds)
  <1> DEFINE u == [s EXCEPT !.views = <<>>]
             o == [save |-> owed.save, ns |-> FALSE, lost |-> {}, empty |-> TRUE]
  <1>1. DOMAIN s = Fields
    BY DEF Sound, Shaped
  <1>2. DOMAIN u = Fields /\ u.views = <<>> /\ \A f \in Fields \ {"views"} : u[f] = s[f]
    BY <1>1 DEF Fields
  <1>3. /\ u.next = s.next /\ u.dialogs = s.dialogs /\ u.config = s.config /\ u.session = s.session /\ u.shown = s.shown
        /\ u.history = s.history /\ u.at = s.at /\ u.pending = s.pending /\ u.quit = s.quit
        /\ u.watching = s.watching /\ u.tasks = s.tasks /\ u.saved = s.saved /\ u.dropped = s.dropped
    BY <1>2 DEF Fields
  <1>4. IsSeq(u.views) /\ Len(u.views) = 0 /\ DOMAIN u.views = {}
    BY <1>2, EmptyIsSeq
  <1>5. ReplaceViews(s, v) = PushView(u, v)
    BY DEF ReplaceViews
  <1> HIDE DEF u
  <1>6. Sound(u, cmds, 0, o)
    <2>1. Shaped(u)
      BY <1>2, <1>3, <1>4 DEF Sound, Shaped, Stack, Remembers, Recalls
    <2>2. Watched(u, cmds, 0) /\ Pinging(u, cmds, 0, {}) /\ Current(u) /\ (Saves(s, cmds, 0) => Saves(u, cmds, 0))
      BY <1>3, <1>4 DEF Watched, Pinging, Current, Saves
    <2>3. QED
      BY <1>3, <2>1, <2>2 DEF Sound
  <1>7. IsNew(u, v)
    BY <1>3 DEF IsNew, Ns
  <1>11. o.save = owed.save /\ o.ns = FALSE /\ o.lost = {}
    OBVIOUS
  <1> HIDE DEF o
  <1>8. /\ Sound(PushView(u, v).t, cmds \o PushView(u, v).cmds, 0, o)
        /\ Same(u, PushView(u, v).t, {"views", "next", "full", "shown"})
        /\ Len(PushView(u, v).t.views) = Len(u.views) + 1 /\ Plain(PushView(u, v).cmds)
    BY <1>6, <1>7, PushSound
  <1>9. Same(s, PushView(u, v).t, {"views", "next", "full", "shown"})
    BY <1>1, <1>2, <1>8 DEF Same
  <1>10. Sound(PushView(u, v).t, cmds \o PushView(u, v).cmds, 0,
               [save |-> owed.save, ns |-> FALSE, lost |-> {}, empty |-> FALSE])
    BY <1>4, <1>8, <1>11 DEF Sound
  <1>12. QED
    BY <1>4, <1>5, <1>8, <1>9, <1>10

\* pop_view
LEMMA PopSound ==
    ASSUME NEW s, NEW cmds, NEW k, NEW owed, Sound(s, cmds, k, owed)
    PROVE  Sound(PopView(s), cmds, k, owed) /\ Same(s, PopView(s), {"views", "full", "shown"})
  <1> DEFINE n == Len(s.views) - 1
             u == [s EXCEPT !.full = FALSE, !.views = Front(@)]
  <1>1. PopView(s) = IF Len(s.views) <= 1 THEN s ELSE SyncChrome(u)
    BY Zenon DEF PopView
  <1>2. DOMAIN s = Fields /\ IsSeq(s.views) /\ DOMAIN s.views = 1..Len(s.views) /\ Len(s.views) \in Nat
    BY SeqHas DEF Sound, Shaped, Stack
  <1>3. CASE Len(s.views) <= 1
    <2>1. PopView(s) = s
      BY <1>1, <1>3
    <2>2. QED
      BY <2>1 DEF Same
  <1>4. CASE ~(Len(s.views) <= 1)
    <2>1. PopView(s) = SyncChrome(u)
      BY <1>1, <1>4
    <2>2. /\ DOMAIN u = Fields /\ u.views = Front(s.views) /\ \A f \in Fields \ {"views", "full"} : u[f] = s[f]
      BY <1>2 DEF Fields
    <2>3. Front(s.views) = SubSeq(s.views, 1, n) /\ n \in 0..Len(s.views)
      BY <1>2, <1>4 DEF Front
    <2>4. /\ IsSeq(u.views) /\ Len(u.views) = n /\ \A j \in 1..n : u.views[j] = s.views[j]
      <3> DEFINE a == s.views
      <3>1. IsSeq(a) /\ n \in 0..Len(a)
        BY <1>2, <2>3
      <3> HIDE DEF a, n
      <3>2. /\ IsSeq(SubSeq(a, 1, n)) /\ Len(SubSeq(a, 1, n)) = n /\ \A j \in 1..n : SubSeq(a, 1, n)[j] = a[j]
        BY <3>1, SubSeqIs
      <3>3. u.views = SubSeq(a, 1, n)
        BY <2>2, <2>3 DEF a
      <3>4. QED
        BY <3>2, <3>3 DEF a
    <2>5. DOMAIN u.views \subseteq DOMAIN s.views /\ \A j \in DOMAIN u.views : u.views[j] = s.views[j]
      <3>1. DOMAIN u.views = 1..n
        BY <2>4, SeqHas
      <3>2. QED
        BY <1>2, <2>3, <2>4, <3>1
    <2>6. /\ u.next = s.next /\ u.dialogs = s.dialogs /\ u.config = s.config /\ u.session = s.session /\ u.shown = s.shown
          /\ u.history = s.history /\ u.at = s.at /\ u.pending = s.pending /\ u.quit = s.quit
          /\ u.watching = s.watching /\ u.tasks = s.tasks /\ u.saved = s.saved /\ u.dropped = s.dropped
      BY <2>2 DEF Fields
    <2> HIDE DEF u, n
    <2>7. Shaped(u)
      <3>1. Stack(u)
        BY <2>4, <2>5, <2>6 DEF Sound, Shaped, Stack
      <3>2. Remembers(u) /\ Recalls(u)
        BY <2>6 DEF Sound, Shaped, Remembers, Recalls
      <3>3. QED
        BY <2>2, <2>6, <3>1, <3>2 DEF Sound, Shaped
    <2>8. Watched(u, cmds, k)
      BY <2>5, <2>6 DEF Sound, Watched, Has
    <2>9. Pinging(u, cmds, k, owed.lost) /\ (Saves(s, cmds, k) => Saves(u, cmds, k))
      BY <2>5, <2>6 DEF Sound, Pinging, Saves
    <2>10. Current(s) => Current(u)
      BY <2>5, <2>6 DEF Current, Ns
    <2>14. Len(u.views) > 0
      BY <1>2, <1>4, <2>4 DEF n
    <2>11. Sound(u, cmds, k, owed)
      BY <2>14, <2>6, <2>7, <2>8, <2>9, <2>10 DEF Sound
    <2>12. Sound(SyncChrome(u), cmds, k, owed) /\ Same(u, SyncChrome(u), {"shown"})
      BY <2>11, SyncSound
    <2>13. QED
      BY <1>2, <2>1, <2>2, <2>12 DEF Same
  <1>5. QED
    BY <1>3, <1>4

-----------------------------------------------------------------------------
(* Messages to the views *)

\* The state and the commands after one more view was told.
LEMMA ToldIs ==
    ASSUME NEW p, NEW i, NEW did
    PROVE  Told(p, i, did).t = Puts(p.t, i, did.view) /\ Told(p, i, did).cmds = p.cmds \o did.cmds
  BY DEF Told, Pair, Puts

\* The fields of a pair.
LEMMA PairIs ==
    ASSUME NEW s, NEW cmds
    PROVE  Pair(s, cmds).t = s /\ Pair(s, cmds).cmds = cmds
  BY DEF Pair

\* One view makes of a message what it makes of it, after "p".
Tells(p, i, m) == Told(p, i, OnMsg(p.t.views[i], m, p.t))

Hears(s, u, i, m) ==
    /\ Same(s, u, {"views"}) /\ IsSeq(u.views) /\ Len(u.views) = Len(s.views) /\ DOMAIN u.views = DOMAIN s.views
    /\ u.views[i].kind = s.views[i].kind /\ After(s.views[i], u.views[i], m, Ns(s))
    /\ \A j \in DOMAIN s.views : j # i => u.views[j] = s.views[j]

\* One view that gets a message.
LEMMA ToldSound ==
    ASSUME NEW cmds, NEW owed, NEW p, IsSeq(cmds), Plain(p.cmds), Sound(p.t, cmds \o p.cmds, 0, owed),
           NEW i \in DOMAIN p.t.views, NEW m, m.msg = "Fetched" => Lists(m.answer),
           NEW q, q = Tells(p, i, m)
    PROVE  Sound(q.t, cmds \o q.cmds, 0, owed) /\ Plain(q.cmds) /\ Hears(p.t, q.t, i, m)
  <1> DEFINE s == p.t
             v == s.views[i]
             did == OnMsg(v, m, s)
             u == q.t
  <1>1. IsView(v)
    BY DEF Sound, Shaped, Stack
  <1> HIDE DEF v
  <1>2. Goes(v, did, Ns(s)) /\ After(v, did.view, m, Ns(s))
    BY <1>1, OnMsgGoes
  <1>3. q = Told(p, i, did)
    BY DEF v, Tells
  <1> HIDE DEF did
  <1>4. q.t = Puts(s, i, did.view) /\ q.cmds = p.cmds \o did.cmds
    <2>1. Told(p, i, did).t = Puts(p.t, i, did.view) /\ Told(p, i, did).cmds = p.cmds \o did.cmds
      BY ToldIs
    <2>2. QED
      BY <1>3, <2>1
  <1>5. Plain(did.cmds) /\ did.view.kind = v.kind
    BY <1>2 DEF Goes
  <1>6. Plain(q.cmds)
    BY <1>4, <1>5, PlainConcat
  <1>7. (cmds \o p.cmds) \o did.cmds = cmds \o q.cmds
    <2>1. IsSeq(p.cmds) /\ IsSeq(did.cmds)
      BY <1>5 DEF Plain
    <2> DEFINE a == p.cmds
               b == did.cmds
    <2>a. IsSeq(a) /\ IsSeq(b)
      BY <2>1
    <2> HIDE DEF a, b
    <2>b. (cmds \o a) \o b = cmds \o (a \o b)
      BY <2>a, ConcatAssoc
    <2>2. (cmds \o p.cmds) \o did.cmds = cmds \o (p.cmds \o did.cmds)
      BY <2>b DEF a, b
    <2>3. QED
      BY <1>4, <2>2
  <1>8. u = Puts(s, i, did.view) /\ Goes(s.views[i], did, Ns(s)) /\ Sound(s, cmds \o p.cmds, 0, owed) /\ i \in DOMAIN s.views
    BY <1>2, <1>4 DEF v
  <1> DEFINE c == cmds \o p.cmds
  <1> HIDE DEF u, s, c
  <1>9. /\ Sound(u, c \o did.cmds, 0, owed) /\ Same(s, u, {"views"})
        /\ IsSeq(u.views) /\ Len(u.views) = Len(s.views) /\ DOMAIN u.views = DOMAIN s.views
        /\ u.views[i] = did.view /\ \A j \in DOMAIN s.views : j # i => u.views[j] = s.views[j]
    <2>1. Sound(s, c, 0, owed)
      BY <1>8 DEF c
    <2>2. QED
      BY <1>8, <2>1, OneSound
  <1>10. QED
    BY <1>2, <1>5, <1>6, <1>7, <1>9 DEF u, s, v, c, Hears

\* route
LEMMA RouteSound ==
    ASSUME NEW s, NEW cmds, NEW owed, Sound(s, cmds, 0, owed), NEW id, NEW m, m.msg = "Fetched" => Lists(m.answer)
    PROVE  /\ Sound(Route(s, id, m).t, cmds \o Route(s, id, m).cmds, 0, owed) /\ Plain(Route(s, id, m).cmds)
           /\ Same(s, Route(s, id, m).t, {"views"})
  <1> DEFINE here == {i \in DOMAIN s.views : s.views[i].id = id}
             at == Min(here)
             p == Pair(s, <<>>)
  <1>1. IsSeq(cmds) /\ p.t = s /\ p.cmds = <<>> /\ Plain(p.cmds) /\ cmds \o p.cmds = cmds
    <2>1. IsSeq(cmds)
      BY DEF Sound, Plain
    <2>2. QED
      BY <2>1, PairIs, PlainNone, ConcatEmpty
  <1>2. Same(s, s, {"views"})
    BY DEF Same
  <1>3. CASE ~OnStack(s, id)
    <2>1. Route(s, id, m) = Tell(s, <<>>, m)
      BY <1>3 DEF Route
    <2>2. Tell(s, <<>>, m) = p
      <3>1. IsSeq(<<>>) /\ Len(<<>>) = 0
        BY EmptyIsSeq
      <3>2. PICK g : g[0] = p /\ Tell(s, <<>>, m) = g[Len(<<>>)]
        BY <3>1, TellTrail
      <3>3. QED
        BY <3>1, <3>2
    <2> HIDE DEF p
    <2>3. QED
      BY <1>1, <1>2, <2>1, <2>2
  <1>4. CASE OnStack(s, id)
    <2>1. Route(s, id, m) = Tell(s, <<at>>, m)
      BY <1>4 DEF Route
    <2>2. at \in DOMAIN s.views
      <3>1. DOMAIN s.views = 1..Len(s.views)
        BY SeqHas DEF Sound, Shaped, Stack
      <3>2. here \subseteq Nat /\ here # {}
        BY <1>4, <3>1 DEF OnStack
      <3> HIDE DEF here
      <3>3. at \in here
        BY <3>2, LeastIs
      <3>4. QED
        BY <3>3 DEF here
    <2> HIDE DEF at
    <2>3. Tell(s, <<at>>, m) = Told(p, at, OnMsg(p.t.views[at], m, p.t))
      <3>1. IsSeq(<<at>>) /\ Len(<<at>>) = 1 /\ <<at>>[1] = at
        BY OneIsSeq
      <3> DEFINE places == <<at>>
      <3> HIDE DEF places
      <3>2. PICK g : /\ g[0] = Pair(s, <<>>)
                     /\ \A i \in 1..Len(places) :
                           g[i] = Told(g[i - 1], places[i], OnMsg(g[i - 1].t.views[places[i]], m, g[i - 1].t))
                     /\ Tell(s, places, m) = g[Len(places)]
        BY <3>1, TellTrail DEF places
      <3>3. Len(places) = 1 /\ places[1] = at
        BY <3>1 DEF places
      <3>4. g[1] = Told(g[0], at, OnMsg(g[0].t.views[at], m, g[0].t))
        BY <3>2, <3>3
      <3>5. QED
        BY <3>2, <3>3, <3>4 DEF places
    <2> DEFINE q == Tells(p, at, m)
    <2> HIDE DEF p
    <2>4. q = Tells(p, at, m)
      OBVIOUS
    <2>a. Tell(s, <<at>>, m) = q
      BY <2>3 DEF Tells
    <2> HIDE DEF q
    <2>5. Sound(p.t, cmds \o p.cmds, 0, owed) /\ at \in DOMAIN p.t.views
      BY <1>1, <2>2
    <2>b. Sound(q.t, cmds \o q.cmds, 0, owed) /\ Plain(q.cmds) /\ Hears(p.t, q.t, at, m)
      BY <1>1, <2>4, <2>5, ToldSound
    <2>6. Sound(q.t, cmds \o q.cmds, 0, owed) /\ Plain(q.cmds) /\ Same(p.t, q.t, {"views"})
      BY <2>b DEF Hears
    <2>7. QED
      BY <1>1, <2>1, <2>a, <2>6
  <1>5. QED
    BY <1>3, <1>4

\* A message to all views: each has made of it what it makes of it.
LEMMA AllSound ==
    ASSUME NEW s, NEW cmds, NEW owed, Sound(s, cmds, 0, owed), NEW m, m.msg = "Fetched" => Lists(m.answer)
    PROVE  /\ Sound(OnAll(s, m).t, cmds \o OnAll(s, m).cmds, 0, owed) /\ Plain(OnAll(s, m).cmds)
           /\ Same(s, OnAll(s, m).t, {"views"}) /\ Len(OnAll(s, m).t.views) = Len(s.views)
           /\ DOMAIN OnAll(s, m).t.views = DOMAIN s.views
           /\ \A i \in DOMAIN s.views : /\ OnAll(s, m).t.views[i].kind = s.views[i].kind
                                        /\ After(s.views[i], OnAll(s, m).t.views[i], m, Ns(s))
  <1> DEFINE places == [i \in DOMAIN s.views |-> i]
             n == Len(s.views)
  <1>1. IsSeq(cmds) /\ IsSeq(s.views) /\ DOMAIN s.views = 1..n /\ n \in Nat
    BY SeqHas DEF Sound, Shaped, Stack, Plain
  <1>2. IsSeq(places) /\ Len(places) = n /\ \A i \in 1..n : places[i] = i
    <2>1. places = [i \in 1..n |-> places[i]] /\ \A i \in 1..n : places[i] = i
      BY <1>1
    <2> HIDE DEF places
    <2>2. QED
      BY <1>1, <2>1, SeqIs
  <1>3. OnAll(s, m) = Tell(s, places, m)
    BY DEF OnAll
  <1> HIDE DEF places
  <1>4. PICK g : /\ g[0] = Pair(s, <<>>)
                 /\ \A i \in 1..Len(places) :
                       g[i] = Told(g[i - 1], places[i], OnMsg(g[i - 1].t.views[places[i]], m, g[i - 1].t))
                 /\ Tell(s, places, m) = g[Len(places)]
    BY <1>2, TellTrail
  <1> HIDE DEF n
  <1>5. \A i \in 1..n : g[i] = Tells(g[i - 1], i, m)
    BY <1>2, <1>4 DEF Tells
  <1> DEFINE P(i) == /\ Plain(g[i].cmds) /\ Sound(g[i].t, cmds \o g[i].cmds, 0, owed) /\ Same(s, g[i].t, {"views"})
                     /\ Len(g[i].t.views) = n /\ DOMAIN g[i].t.views = 1..n
                     /\ \A j \in 1..i : g[i].t.views[j].kind = s.views[j].kind
                                           /\ After(s.views[j], g[i].t.views[j], m, Ns(s))
                     /\ \A j \in (i + 1)..n : g[i].t.views[j] = s.views[j]
             S == {i \in 0..n : P(i)}
  <1>6. 0 \in S
    <2>1. g[0].t = s /\ g[0].cmds = <<>>
      BY <1>4, PairIs
    <2>2. Plain(<<>>) /\ cmds \o <<>> = cmds
      BY <1>1, PlainNone, ConcatEmpty
    <2>3. Same(s, s, {"views"})
      BY DEF Same
    <2>4. n = Len(s.views)
      BY DEF n
    <2>5. P(0)
      <3>1. Plain(g[0].cmds) /\ Sound(g[0].t, cmds \o g[0].cmds, 0, owed) /\ Same(s, g[0].t, {"views"})
        BY <2>1, <2>2, <2>3
      <3>2. Len(g[0].t.views) = n /\ DOMAIN g[0].t.views = 1..n /\ \A j \in (0 + 1)..n : g[0].t.views[j] = s.views[j]
        BY <1>1, <2>1, <2>4
      <3>3. \A j \in 1..0 : FALSE
        OBVIOUS
      <3>4. QED
        BY <3>1, <3>2, <3>3
    <2>6. 0 \in 0..n
      BY <1>1
    <2> HIDE DEF P
    <2>7. QED
      BY <2>5, <2>6
  <1>7. ASSUME NEW i \in 1..n, i - 1 \in S PROVE i \in S
    <2> DEFINE p == g[i - 1]
               q == g[i]
    <2>1. P(i - 1)
      BY <1>7
    <2>2. /\ Plain(p.cmds) /\ Sound(p.t, cmds \o p.cmds, 0, owed) /\ Same(s, p.t, {"views"})
          /\ Len(p.t.views) = n /\ DOMAIN p.t.views = 1..n /\ i \in DOMAIN p.t.views
          /\ \A j \in 1..(i - 1) : p.t.views[j].kind = s.views[j].kind /\ After(s.views[j], p.t.views[j], m, Ns(s))
          /\ \A j \in i..n : p.t.views[j] = s.views[j]
      BY <1>1, <2>1
    <2>3. q = Tells(p, i, m)
      BY <1>5
    <2> HIDE DEF P, S, p, q
    <2>4. /\ Sound(q.t, cmds \o q.cmds, 0, owed) /\ Plain(q.cmds) /\ Same(p.t, q.t, {"views"})
          /\ IsSeq(q.t.views) /\ Len(q.t.views) = Len(p.t.views) /\ DOMAIN q.t.views = DOMAIN p.t.views
          /\ q.t.views[i].kind = p.t.views[i].kind /\ After(p.t.views[i], q.t.views[i], m, Ns(p.t))
          /\ \A j \in DOMAIN p.t.views : j # i => q.t.views[j] = p.t.views[j]
      <3>1. Sound(p.t, cmds \o p.cmds, 0, owed) /\ IsSeq(cmds) /\ Plain(p.cmds) /\ i \in DOMAIN p.t.views
        BY <1>1, <2>2
      <3>2. Sound(q.t, cmds \o q.cmds, 0, owed) /\ Plain(q.cmds) /\ Hears(p.t, q.t, i, m)
        BY <2>3, <3>1, ToldSound
      <3>3. QED
        BY <3>2 DEF Hears
    <2>5. Ns(p.t) = Ns(s)
      BY <2>2 DEF Same, Fields, Ns
    <2>6. Same(s, q.t, {"views"})
      BY <2>2, <2>4 DEF Same
    <2>7. p.t.views[i] = s.views[i]
      BY <1>1, <2>2
    <2>8. \A j \in 1..i : q.t.views[j].kind = s.views[j].kind /\ After(s.views[j], q.t.views[j], m, Ns(s))
      BY <1>1, <2>2, <2>4, <2>5, <2>7
    <2>9. \A j \in (i + 1)..n : q.t.views[j] = s.views[j]
      BY <1>1, <2>2, <2>4
    <2>10. P(i)
      BY <2>2, <2>4, <2>6, <2>8, <2>9 DEF P, q
    <2>11. i \in 0..n
      BY <1>1
    <2>12. QED
      BY <2>10, <2>11 DEF S
  <1> HIDE DEF P, S
  <1>8. n \in S
    BY <1>1, <1>6, <1>7, CountUp
  <1>9. P(n)
    BY <1>8 DEF S
  <1>10. OnAll(s, m) = g[n]
    BY <1>2, <1>3, <1>4
  <1>11. QED
    BY <1>1, <1>9, <1>10 DEF P, n

-----------------------------------------------------------------------------
(* What is remembered *)

\* What is left of a sequence after its first n elements.
LEMMA RestIs ==
    ASSUME NEW s, IsSeq(s), NEW n \in 1..Len(s)
    PROVE  /\ IsSeq(SubSeq(s, n + 1, Len(s))) /\ Len(SubSeq(s, n + 1, Len(s))) = Len(s) - n
           /\ \A i \in 1..(Len(s) - n) : SubSeq(s, n + 1, Len(s))[i] = s[n + i]
  <1> DEFINE S == Range(s)
             r == SubSeq(s, n + 1, Len(s))
  <1>1. s \in Seq(S) /\ Len(s) \in Nat
    BY SeqHas
  <1> HIDE DEF S
  <1>2. r \in Seq(S) /\ Len(r) = Len(s) - n /\ \A i \in 1..(Len(s) - n) : r[i] = s[n + i]
    BY <1>1
  <1> HIDE DEF r
  <1>3. IsSeq(r)
    BY <1>2, SeqFrom
  <1>4. QED
    BY <1>2, <1>3 DEF r

\* Without its only occurrence, an element is not there any more.
LEMMA RemovedIs ==
    ASSUME NEW s, IsSeq(s), IsInjective(s), NEW x
    PROVE  LET r == RemoveFirst(s, x) IN IsSeq(r) /\ IsInjective(r) /\ \A i \in DOMAIN r : r[i] # x
  <1> DEFINE r == RemoveFirst(s, x)
             here == {i \in 1..Len(s) : s[i] = x}
             at == Min(here)
  <1>1. DOMAIN s = 1..Len(s) /\ Len(s) \in Nat
    BY SeqHas
  <1>2. CASE here = {}
    <2>1. r = s
      BY <1>2 DEF RemoveFirst
    <2>2. QED
      BY <1>1, <1>2, <2>1
  <1>3. CASE here # {}
    <2>1. at \in here
      <3>1. here \subseteq Nat
        BY <1>1
      <3> HIDE DEF here
      <3>2. QED
        BY <1>3, <3>1, LeastIs
    <2>2. SelectInSeq(s, LAMBDA v : v = x) = at
      BY <1>3, Zenon DEF SelectInSeq
    <2>3. r = RemoveAt(s, at)
      BY <1>3, <2>2 DEF RemoveFirst
    <2> DEFINE a == SubSeq(s, 1, at - 1)
               b == SubSeq(s, at + 1, Len(s))
    <2>4. r = a \o b
      BY <2>3 DEF RemoveAt
    <2>5. at \in 1..Len(s) /\ s[at] = x
      BY <2>1
    <2> HIDE DEF r, at
    <2>6. at - 1 \in 0..Len(s)
      BY <1>1, <2>5
    <2> DEFINE m == at - 1
    <2>7. m \in 0..Len(s) /\ m = at - 1
      BY <2>6
    <2> HIDE DEF m
    <2>8. IsSeq(SubSeq(s, 1, m)) /\ Len(SubSeq(s, 1, m)) = m /\ \A i \in 1..m : SubSeq(s, 1, m)[i] = s[i]
      BY <2>7, SubSeqIs
    <2>9. IsSeq(a) /\ Len(a) = at - 1 /\ \A i \in 1..(at - 1) : a[i] = s[i]
      BY <2>7, <2>8
    <2>10. IsSeq(b) /\ Len(b) = Len(s) - at /\ \A i \in 1..(Len(s) - at) : b[i] = s[at + i]
      BY <2>5, RestIs
    <2> HIDE DEF a, b
    <2>11. /\ IsSeq(r) /\ Len(r) = Len(a) + Len(b)
           /\ \A i \in 1..Len(a) : r[i] = a[i]
           /\ \A i \in DOMAIN r : (i \in 1..Len(a) \/ (i - Len(a) \in 1..Len(b) /\ r[i] = b[i - Len(a)]))
      <3>1. IsSeq(a) /\ IsSeq(b)
        BY <2>9, <2>10
      <3>2. /\ IsSeq(a \o b) /\ Len(a \o b) = Len(a) + Len(b)
            /\ \A i \in 1..Len(a) : (a \o b)[i] = a[i]
            /\ \A i \in DOMAIN (a \o b) : (i \in 1..Len(a) \/ (i - Len(a) \in 1..Len(b) /\ (a \o b)[i] = b[i - Len(a)]))
        BY <3>1, ConcatIs
      <3>3. QED
        BY <2>4, <3>2
    <2>12. DOMAIN r = 1..Len(r)
      BY <2>11, SeqHas
    <2> DEFINE from(i) == IF i < at THEN i ELSE i + 1
    <2>13. ASSUME NEW i \in DOMAIN r
           PROVE  from(i) \in 1..Len(s) /\ from(i) # at /\ r[i] = s[from(i)]
      <3>1. CASE i < at
        BY <1>1, <2>5, <2>9, <2>10, <2>11, <2>12, <3>1
      <3>2. CASE ~(i < at)
        <4>1. i \in Nat /\ i - Len(a) \in 1..Len(b) /\ r[i] = b[i - Len(a)]
          BY <1>1, <2>5, <2>9, <2>10, <2>11, <2>12, <3>2
        <4>2. at + (i - Len(a)) = i + 1
          BY <1>1, <2>5, <2>9, <4>1
        <4>3. b[i - Len(a)] = s[at + (i - Len(a))]
          BY <2>10, <4>1
        <4>4. i + 1 \in 1..Len(s)
          BY <1>1, <2>5, <2>9, <2>10, <4>1
        <4>5. QED
          BY <2>5, <3>2, <4>1, <4>2, <4>3, <4>4
      <3>3. QED
        BY <3>1, <3>2
    <2>14. \A i, j \in 1..Len(s) : s[i] = s[j] => i = j
      BY <1>1 DEF IsInjective
    <2>15. \A i \in DOMAIN r : r[i] # x
      BY <2>5, <2>13, <2>14
    <2>16. ASSUME NEW i \in DOMAIN r, NEW j \in DOMAIN r, r[i] = r[j] PROVE i = j
      <3>1. from(i) = from(j)
        BY <2>13, <2>14, <2>16
      <3>2. i \in Nat /\ j \in Nat /\ at \in Nat
        BY <1>1, <2>5, <2>12
      <3>3. QED
        BY <3>1, <3>2
    <2>17. IsInjective(r)
      BY <2>16 DEF IsInjective
    <2>18. QED
      BY <2>11, <2>15, <2>17 DEF r
  <1>4. QED
    BY <1>2, <1>3

\* The favourites once one of them was used: none twice, and no more than allowed
Recent(favorites, ns) ==
    LET all == <<ns>> \o RemoveFirst(favorites, ns)
    IN  SubSeq(all, 1, IF Len(all) > MaxFavorites THEN MaxFavorites ELSE Len(all))

\* The favourites hold no name twice, and not more than are kept.
LEMMA RecentIs ==
    ASSUME NEW s, IsSeq(s), IsInjective(s), NEW ns
    PROVE  LET r == Recent(s, ns) IN IsSeq(r) /\ IsInjective(r) /\ Len(r) <= MaxFavorites
  <1> DEFINE a == <<ns>>
             b == RemoveFirst(s, ns)
             all == a \o b
             n == IF Len(all) > MaxFavorites THEN MaxFavorites ELSE Len(all)
             r == SubSeq(all, 1, n)
  <1>1. IsSeq(a) /\ Len(a) = 1 /\ a[1] = ns
    BY OneIsSeq
  <1>2. IsSeq(b) /\ IsInjective(b) /\ \A i \in DOMAIN b : b[i] # ns
    BY RemovedIs
  <1> HIDE DEF a, b
  <1>3. DOMAIN b = 1..Len(b) /\ Len(b) \in Nat
    BY <1>2, SeqHas
  <1>4. /\ IsSeq(all) /\ Len(all) = 1 + Len(b) /\ all[1] = ns
        /\ \A i \in DOMAIN all : i = 1 \/ (i - 1 \in DOMAIN b /\ all[i] = b[i - 1])
    <2>1. /\ IsSeq(all) /\ Len(all) = Len(a) + Len(b)
          /\ \A i \in 1..Len(a) : all[i] = a[i]
          /\ \A i \in DOMAIN all : (i \in 1..Len(a) \/ (i - Len(a) \in 1..Len(b) /\ all[i] = b[i - Len(a)]))
      <3>1. IsSeq(a) /\ IsSeq(b)
        BY <1>1, <1>2
      <3>2. QED
        BY <3>1, ConcatIs
    <2> HIDE DEF all
    <2>2. QED
      BY <1>1, <1>3, <2>1
  <1> HIDE DEF all
  <1>5. DOMAIN all = 1..Len(all) /\ Len(all) \in Nat /\ MaxFavorites \in Nat
    BY <1>4, SeqHas, TerminalAssumption
  <1>6. n \in 0..Len(all) /\ n <= MaxFavorites
    BY <1>5
  <1> HIDE DEF n
  <1>7. IsSeq(r) /\ Len(r) = n /\ \A i \in 1..n : r[i] = all[i]
    BY <1>4, <1>6, SubSeqIs
  <1>8. DOMAIN r = 1..n
    BY <1>7, SeqHas
  <1>9. IsInjective(r)
    <2> HIDE DEF r
    <2> SUFFICES ASSUME NEW i \in 1..n, NEW j \in 1..n, r[i] = r[j] PROVE i = j
      BY <1>8 DEF IsInjective
    <2>1. i \in DOMAIN all /\ j \in DOMAIN all /\ all[i] = all[j] /\ i \in Nat /\ j \in Nat
      BY <1>5, <1>6, <1>7
    <2>2. CASE i = 1 \/ j = 1
      BY <1>2, <1>4, <2>1, <2>2
    <2>3. CASE i # 1 /\ j # 1
      <3>1. i - 1 \in DOMAIN b /\ j - 1 \in DOMAIN b /\ b[i - 1] = b[j - 1]
        BY <1>4, <2>1, <2>3
      <3>2. i - 1 = j - 1
        BY <1>2, <3>1 DEF IsInjective
      <3>3. QED
        BY <2>1, <3>2
    <2>4. QED
      BY <2>2, <2>3
  <1>10. Recent(s, ns) = r
    BY DEF Recent, r, n, all, a, b
  <1>11. QED
    BY <1>6, <1>7, <1>9, <1>10

-----------------------------------------------------------------------------
(* What an operation leaves behind: a state, and its commands after those there were *)

Leaves(cmds, p, owed) == Plain(p.cmds) /\ Sound(p.t, cmds \o p.cmds, 0, owed)

\* The commands under way are plain.
LEMMA SoundSeq ==
    ASSUME NEW s, NEW cmds, NEW k, NEW owed, Sound(s, cmds, k, owed)
    PROVE  IsSeq(cmds) /\ Plain(cmds)
  BY DEF Sound, Plain

\* Commands that start no watch, in a state that stays.
LEMMA PairLeaves ==
    ASSUME NEW s, NEW cmds, NEW owed, Sound(s, cmds, 0, owed), NEW more, Plain(more), Quiet(more)
    PROVE  Leaves(cmds, Pair(s, more), owed)
  <1>1. Sound(s, cmds \o more, 0, owed)
    BY MoreSound
  <1>2. Pair(s, more).t = s /\ Pair(s, more).cmds = more
    BY PairIs
  <1>3. QED
    BY <1>1, <1>2 DEF Leaves

\* Nothing to do.
LEMMA NothingLeaves ==
    ASSUME NEW s, NEW cmds, NEW owed, Sound(s, cmds, 0, owed)
    PROVE  Leaves(cmds, Pair(s, <<>>), owed)
  BY PairLeaves, PlainNone

\* Three lists of commands in a row.
LEMMA ConcatThrice ==
    ASSUME NEW a, NEW b, NEW c, IsSeq(a), Plain(b), Plain(c)
    PROVE  (a \o b) \o c = a \o (b \o c) /\ Plain(b \o c)
  <1>1. IsSeq(b) /\ IsSeq(c)
    BY DEF Plain
  <1>2. (a \o b) \o c = a \o (b \o c)
    BY <1>1, ConcatAssoc
  <1>3. QED
    BY <1>2, PlainConcat

\* Two operations in a row.
LEMMA AddLeaves ==
    ASSUME NEW cmds, IsSeq(cmds), NEW p, Plain(p.cmds), NEW next, NEW owed, Leaves(cmds \o p.cmds, next, owed)
    PROVE  Leaves(cmds, Add(p, next), owed)
  <1> DEFINE a == p.cmds
             b == next.cmds
  <1>1. Plain(a) /\ Plain(b) /\ Sound(next.t, (cmds \o a) \o b, 0, owed)
    BY DEF Leaves
  <1>2. Add(p, next).t = next.t /\ Add(p, next).cmds = a \o b
    BY DEF Add, Pair
  <1> HIDE DEF a, b
  <1>3. (cmds \o a) \o b = cmds \o (a \o b) /\ Plain(a \o b)
    BY <1>1, ConcatThrice
  <1>4. Sound(next.t, cmds \o (a \o b), 0, owed)
    BY <1>1, <1>3
  <1> DEFINE q == Add(p, next)
  <1>5. q.t = next.t /\ q.cmds = a \o b
    BY <1>2
  <1> HIDE DEF q
  <1>6. Leaves(cmds, q, owed)
    BY <1>3, <1>4, <1>5 DEF Leaves
  <1>7. QED
    BY <1>6 DEF q

\* The fields of Then.
LEMMA ThenHas ==
    ASSUME NEW p, NEW more
    PROVE  Then(p, more).t = p.t /\ Then(p, more).cmds = p.cmds \o more
  BY DEF Then, Pair

\* More commands that start no watch.
LEMMA ThenLeaves ==
    ASSUME NEW cmds, NEW p, NEW owed, Leaves(cmds, p, owed), IsSeq(cmds), NEW more, Plain(more), Quiet(more)
    PROVE  Leaves(cmds, Then(p, more), owed)
  <1> DEFINE a == p.cmds
             s == p.t
  <1>1. Plain(a) /\ Sound(s, cmds \o a, 0, owed)
    BY DEF Leaves
  <1>2. Then(p, more).t = s /\ Then(p, more).cmds = a \o more
    BY ThenHas
  <1> HIDE DEF a, s
  <1>3. (cmds \o a) \o more = cmds \o (a \o more) /\ Plain(a \o more)
    BY <1>1, ConcatThrice
  <1>4. Sound(s, (cmds \o a) \o more, 0, owed)
    BY <1>1, MoreSound
  <1>5. QED
    BY <1>2, <1>3, <1>4 DEF Leaves

Paid(owed) == [save |-> FALSE, ns |-> owed.ns, lost |-> owed.lost, empty |-> owed.empty]

\* The config is written last.
LEMMA ThenSaved ==
    ASSUME NEW cmds, NEW p, NEW owed, Leaves(cmds, p, owed), IsSeq(cmds)
    PROVE  Leaves(cmds, Then(p, <<Save>>), Paid(owed))
  <1> DEFINE a == p.cmds
             s == p.t
             more == <<Save>>
             o == Paid(owed)
  <1>1. Plain(a) /\ Sound(s, cmds \o a, 0, owed)
    BY DEF Leaves
  <1>2. Then(p, more).t = s /\ Then(p, more).cmds = a \o more
    BY ThenHas
  <1>3. Plain(more)
    <2>1. Save.cmd \in PlainKinds
      BY DEF Save, PlainKinds
    <2>2. QED
      BY <2>1, PlainOne
  <1> HIDE DEF a, s
  <1>4. Sound(s, (cmds \o a) \o more, 0, o)
    <2> DEFINE c == cmds \o a
    <2>1. Sound(s, c, 0, owed)
      BY <1>1
    <2> HIDE DEF c
    <2>2. Sound(s, c \o <<Save>>, 0, [save |-> FALSE, ns |-> owed.ns, lost |-> owed.lost, empty |-> owed.empty])
      BY <2>1, SaveSound
    <2>3. QED
      BY <2>2 DEF c, Paid
  <1> HIDE DEF more
  <1>5. (cmds \o a) \o more = cmds \o (a \o more) /\ Plain(a \o more)
    BY <1>1, <1>3, ConcatThrice
  <1> HIDE DEF o
  <1>6. Sound(s, cmds \o (a \o more), 0, o) /\ Plain(a \o more)
    BY <1>4, <1>5
  <1>7. QED
    BY <1>2, <1>6 DEF Leaves, more, o

-----------------------------------------------------------------------------
(* Configurations, sessions *)

Owing(owed, save, ns) == [save |-> save, ns |-> ns, lost |-> owed.lost, empty |-> owed.empty]

\* What is remembered may change as long as it is what is to be remembered; the file is owed it.
LEMMA ConfigSound ==
    ASSUME NEW s, NEW u, NEW cmds, NEW owed, Sound(s, cmds, 0, owed),
           Same(s, u, {"config", "session", "shown", "theme"}), Remembers(u)
    PROVE  /\ Sound(u, cmds, 0, Owing(owed, TRUE, TRUE))
           /\ u.session = s.session => Sound(u, cmds, 0, Owing(owed, TRUE, owed.ns))
  <1>1. /\ u.views = s.views /\ u.next = s.next /\ u.dialogs = s.dialogs /\ DOMAIN u = DOMAIN s
        /\ u.history = s.history /\ u.at = s.at /\ u.pending = s.pending /\ u.quit = s.quit
        /\ u.watching = s.watching /\ u.tasks = s.tasks /\ u.saved = s.saved /\ u.dropped = s.dropped
    BY DEF Same, Fields
  <1>2. Shaped(u)
    BY <1>1 DEF Sound, Shaped, Stack, Recalls
  <1>3. Watched(u, cmds, 0) /\ Pinging(u, cmds, 0, owed.lost)
    BY <1>1 DEF Sound, Watched, Has, Pinging
  <1>4. u.session = s.session => (Current(s) => Current(u))
    BY <1>1 DEF Current, Ns
  <1>5. QED
    BY <1>1, <1>2, <1>3, <1>4 DEF Sound, Owing

\* Once every table has followed the namespace, none is owed to it.
LEMMA FollowedSound ==
    ASSUME NEW s, NEW cmds, NEW owed, Sound(s, cmds, 0, owed), \A i \in DOMAIN s.views : InNs(s.views[i], Ns(s))
    PROVE  Sound(s, cmds, 0, Owing(owed, owed.save, FALSE))
  BY DEF Sound, Owing, Current

\* set_namespace and remember_namespace, up to what the views make of it
Noted(m, ns) == [m EXCEPT !.ns = ns, !.favorites = IF ns = None THEN @ ELSE Recent(@, ns)]
Switched(s, ns) == SyncChrome(Remember(SyncChrome([s EXCEPT !.session.ns = ns]), ns))

\* What set_namespace and remember_namespace change.
LEMMA SwitchedIs ==
    ASSUME NEW s, DOMAIN s = Fields, Remembers(s), HasSession(s), scene \in Scenes, NEW ns
    PROVE  /\ Same(s, Switched(s, ns), {"config", "session", "shown", "theme"}) /\ Remembers(Switched(s, ns))
  <1> DEFINE ctx == s.session.context
             mem == s.config.of[ctx]
             a == [s EXCEPT !.session.ns = ns]
             shown1 == [context |-> ctx, favorites |-> mem.favorites]
             b == [a EXCEPT !.shown = shown1]
             favs == IF ns = None THEN mem.favorites ELSE Recent(mem.favorites, ns)
             mem2 == [mem EXCEPT !.ns = ns, !.favorites = favs]
             c == Remember(b, ns)
             shown2 == [context |-> ctx, favorites |-> favs]
             d == [c EXCEPT !.shown = shown2]
  <1>1. /\ DOMAIN s.config = {"theme", "of"} /\ DOMAIN s.config.of = DOMAIN scene.config.of /\ IsMemory(mem)
        /\ ctx \in DOMAIN s.config.of /\ ctx # None /\ DOMAIN s.session = {"context", "ns"}
        /\ \A x \in DOMAIN s.config.of : IsMemory(s.config.of[x])
    BY DEF Remembers, HasSession
  <1>2. /\ DOMAIN a = Fields /\ a.session.context = ctx /\ DOMAIN a.session = {"context", "ns"} /\ a.session.ns = ns
        /\ \A f \in Fields \ {"session"} : a[f] = s[f]
    BY <1>1 DEF Fields
  <1>3. SyncChrome(a) = b
    <2>1. HasSession(a) /\ a.config = s.config
      BY <1>1, <1>2 DEF HasSession, Fields
    <2>2. SyncChrome(a) = [a EXCEPT !.shown = [context |-> a.session.context, favorites |-> a.config.of[a.session.context].favorites]]
      BY <2>1 DEF SyncChrome
    <2> HIDE DEF a
    <2>3. QED
      BY <1>2, <2>1, <2>2
  <1>4. /\ DOMAIN b = Fields /\ b.session = a.session /\ b.config = s.config /\ b.shown.context = ctx
        /\ \A f \in Fields \ {"session", "shown"} : b[f] = s[f]
    <2> HIDE DEF a, ctx
    <2>1. QED
      BY <1>2 DEF Fields
  <1>5. DOMAIN mem = {"ns", "favorites", "lastKind"} /\ IsSeq(mem.favorites) /\ IsInjective(mem.favorites)
        /\ Len(mem.favorites) <= MaxFavorites
    <2>1. DOMAIN mem = {"ns", "favorites", "lastKind"} /\ mem.favorites \in Seq(Range(mem.favorites))
             /\ IsInjective(mem.favorites) /\ Len(mem.favorites) <= MaxFavorites
      BY <1>1 DEF IsMemory
    <2>2. IsSeq(mem.favorites)
      BY <2>1, SeqFrom
    <2>3. QED
      BY <2>1, <2>2
  <1>6. IsSeq(favs) /\ IsInjective(favs) /\ Len(favs) <= MaxFavorites
    <2> DEFINE f == mem.favorites
    <2>1. IsSeq(f) /\ IsInjective(f) /\ Len(f) <= MaxFavorites
      BY <1>5
    <2> HIDE DEF f
    <2>2. IsSeq(Recent(f, ns)) /\ IsInjective(Recent(f, ns)) /\ Len(Recent(f, ns)) <= MaxFavorites
      BY <2>1, RecentIs
    <2>3. QED
      BY <2>1, <2>2 DEF f
  <1>7. IsMemory(mem2) /\ mem2.favorites = favs
    <2> HIDE DEF favs, mem
    <2>1. DOMAIN mem2 = {"ns", "favorites", "lastKind"} /\ mem2.favorites = favs
      BY <1>5
    <2>2. favs \in Seq(Range(favs))
      BY <1>6, SeqHas
    <2>3. QED
      BY <1>6, <2>1, <2>2 DEF IsMemory
  <1>8. c = [b EXCEPT !.config.of[ctx] = Noted(@, ns)]
    <2>1. c = [b EXCEPT !.config.of[b.shown.context] = Noted(@, ns)]
      BY DEF Remember, Recent, Noted
    <2> HIDE DEF b, c
    <2>2. QED
      BY <1>4, <2>1
  <1> HIDE DEF c
  <1>9. /\ DOMAIN c = Fields /\ c.session = a.session /\ DOMAIN c.config = {"theme", "of"}
        /\ DOMAIN c.config.of = DOMAIN s.config.of /\ c.config.of[ctx] = mem2
        /\ \A x \in DOMAIN s.config.of : x # ctx => c.config.of[x] = s.config.of[x]
        /\ \A f \in Fields \ {"session", "shown", "config"} : c[f] = s[f]
    <2> DEFINE memo == Noted(b.config.of[ctx], ns)
               all == [b.config.of EXCEPT ![ctx] = memo]
               config == [b.config EXCEPT !.of = all]
    <2>1. c = [b EXCEPT !.config = config]
      <3> HIDE DEF b, ctx, c
      <3>1. QED
        BY <1>8
    <2>2. memo = mem2
      <3>1. b.config = s.config
        BY <1>4
      <3>2. b.config.of[ctx] = mem
        BY <3>1
      <3> HIDE DEF b, ctx, mem
      <3>3. memo = [mem EXCEPT !.ns = ns, !.favorites = IF ns = None THEN @ ELSE Recent(@, ns)]
        BY <3>2 DEF Noted
      <3>4. mem2 = [mem EXCEPT !.ns = ns, !.favorites = IF ns = None THEN @ ELSE Recent(@, ns)]
        BY <1>5
      <3>5. QED
        BY <3>3, <3>4
    <2> HIDE DEF b, mem2, ctx, a, memo
    <2>3. b.config.of = s.config.of /\ ctx \in DOMAIN b.config.of
      BY <1>1, <1>4
    <2>4. /\ DOMAIN all = DOMAIN s.config.of /\ all[ctx] = mem2
          /\ \A x \in DOMAIN s.config.of : x # ctx => all[x] = s.config.of[x]
      BY <2>2, <2>3
    <2> HIDE DEF all
    <2>5. DOMAIN config = {"theme", "of"} /\ config.of = all
      BY <1>1, <1>4
    <2> HIDE DEF config
    <2>6. QED
      BY <1>1, <1>4, <2>1, <2>4, <2>5 DEF Fields
  <1>10. SyncChrome(c) = d
    <2>1. HasSession(c)
      BY <1>1, <1>2, <1>9 DEF HasSession
    <2>2. SyncChrome(c) = [c EXCEPT !.shown = [context |-> c.session.context, favorites |-> c.config.of[c.session.context].favorites]]
      BY <2>1 DEF SyncChrome
    <2> HIDE DEF c, a, mem2
    <2>3. c.session.context = ctx /\ c.config.of[ctx].favorites = favs
      BY <1>2, <1>7, <1>9
    <2>4. QED
      BY <2>2, <2>3
  <1>11. /\ DOMAIN d = Fields /\ d.session = a.session /\ d.config = c.config /\ d.shown = shown2
         /\ \A f \in Fields \ {"session", "shown", "config"} : d[f] = s[f]
    <2> HIDE DEF c, shown2, a
    <2>1. QED
      BY <1>9 DEF Fields
  <1>12. Switched(s, ns) = d
    <2>1. Switched(s, ns) = SyncChrome(Remember(SyncChrome(a), ns))
      BY DEF Switched
    <2> HIDE DEF a, b, c, d
    <2>2. QED
      BY <1>3, <1>10, <2>1 DEF c
  <1>13. DOMAIN shown2 = {"context", "favorites"} /\ shown2.context = ctx /\ shown2.favorites = favs
    OBVIOUS
  <1> HIDE DEF a, b, c, d, mem2, favs, shown1, shown2, ctx, mem
  <1>14. Same(s, d, {"config", "session", "shown", "theme"})
    BY <1>11 DEF Same
  <1>15. Remembers(d)
    <2>1. \A x \in DOMAIN d.config.of : IsMemory(d.config.of[x])
      BY <1>1, <1>7, <1>9, <1>11
    <2>2. d.shown.favorites = d.config.of[ctx].favorites
      BY <1>7, <1>9, <1>11, <1>13
    <2>3. QED
      BY <1>1, <1>2, <1>9, <1>11, <1>13, <2>1, <2>2 DEF Remembers
  <1>16. QED
    BY <1>12, <1>14, <1>15

-----------------------------------------------------------------------------
(* New views *)

\* What is known of a sitting.
LEMMA SceneHas ==
    ASSUME scene \in Scenes
    PROVE  /\ IsScene(scene) /\ IsSeq(scene.contexts)
           /\ \A k \in scene.keys : (k.key = "filter" => IsFilter(k.text)) /\ (k.key = "command" => IsCommand(k.text))
  <1>1. IsScene(scene)
    BY TerminalAssumption
  <1>2. scene.contexts \in Seq(DOMAIN scene.config.of)
    BY <1>1 DEF IsScene
  <1>3. IsSeq(scene.contexts)
    BY <1>2, SeqFrom
  <1>4. QED
    BY <1>1, <1>3 DEF IsScene

\* A new view that is a list.
LEMMA LooseNew ==
    ASSUME NEW s, NEW v, {"kind", "id", "filter"} \subseteq DOMAIN v, v.id = s.next, v.filter = AnyName, v.kind \notin {"table", "contexts", "logs"}
    PROVE  IsNew(s, v)
  BY DEF IsNew, IsView, InNs, Live

\* The empty filter.
LEMMA NoFilterIs == IsFilter(NoFilter) /\ NoFilter.labels = None /\ NoFilter.names = AnyName
  BY DEF IsFilter, NoFilter

\* A new table is in the namespace of the session.
LEMMA TableNew ==
    ASSUME NEW s, NEW kind
    PROVE  IsNew(s, NewTable(s.next, kind, Ns(s)))
  <1> DEFINE v == NewTable(s.next, kind, Ns(s))
  <1>1. /\ {"kind", "id", "shows", "ns", "selector", "awaiting", "filter"} \subseteq DOMAIN v
        /\ {"rows", "faults", "sort", "metrics", "selected"} \subseteq DOMAIN v
        /\ v.kind = "table" /\ v.id = s.next /\ v.ns = Ns(s) /\ v.filter = NoFilter
    BY DEF NewTable
  <1> HIDE DEF v
  <1>2. IsView(v)
    BY <1>1, NoFilterIs DEF IsView, WantsFilter, IsTable
  <1>3. IsNew(s, v)
    BY <1>1, <1>2 DEF IsNew, InNs
  <1>4. QED
    BY <1>3 DEF v

\* A drill-down waits for its selector.
LEMMA DrillDownNew ==
    ASSUME NEW s, NEW ns
    PROVE  IsNew(s, NewDrillDown(s.next, ns))
  <1> DEFINE v == NewDrillDown(s.next, ns)
  <1>1. /\ {"kind", "id", "shows", "ns", "selector", "awaiting", "filter"} \subseteq DOMAIN v
        /\ {"rows", "faults", "sort", "metrics", "selected"} \subseteq DOMAIN v
        /\ v.kind = "table" /\ v.id = s.next /\ v.awaiting = TRUE /\ v.filter = NoFilter
    BY DEF NewTable, NewDrillDown
  <1> HIDE DEF v
  <1>2. IsView(v)
    BY <1>1, NoFilterIs DEF IsView, WantsFilter, IsTable
  <1>3. IsNew(s, v)
    BY <1>1, <1>2 DEF IsNew, InNs, Live
  <1>4. QED
    BY <1>3 DEF v

\* A new list of contexts has asked for no ping.
LEMMA ContextsNew ==
    ASSUME NEW s, scene \in Scenes
    PROVE  IsNew(s, NewContexts(s.next, scene.contexts))
  <1> DEFINE v == NewContexts(s.next, scene.contexts)
  <1>1. /\ {"kind", "id", "filter", "items", "pings", "pending"} \subseteq DOMAIN v
        /\ v.kind = "contexts" /\ v.id = s.next /\ v.items = scene.contexts /\ v.pending = {}
    BY DEF NewContexts
  <1> HIDE DEF v
  <1>2. IsFiniteSet({}) /\ Cardinality({}) = 0
    BY FS_EmptySet
  <1>3. IsView(v)
    BY <1>1, <1>2, SceneHas, TerminalAssumption DEF IsView, WantsFilter, IsContexts
  <1>4. IsNew(s, v)
    BY <1>1, <1>3 DEF IsNew, InNs, Live
  <1>5. QED
    BY <1>4 DEF v

\* A new log.
LEMMA LogsNew ==
    ASSUME NEW s, NEW pod, NEW container, NEW all, NEW workload, NEW w,
           w = NewLogs(s.next, pod, container, all, workload)
             \/ w = [NewLogs(s.next, pod, container, all, workload) EXCEPT !.mode = 1]
    PROVE  IsNew(s, w)
  <1> DEFINE v == NewLogs(s.next, pod, container, all, workload)
             x == [pod |-> pod, container |-> container]
  <1>1. /\ {"kind", "id", "filter", "targets", "handles"} \subseteq DOMAIN v
        /\ v.kind = "logs" /\ v.id = s.next /\ v.handles = <<>> /\ (v.targets = <<x>> \/ v.targets = <<>>)
    BY DEF NewLogs
  <1>2. /\ {"kind", "id", "filter", "targets", "handles"} \subseteq DOMAIN w
        /\ w.kind = "logs" /\ w.id = s.next /\ w.handles = <<>> /\ (w.targets = <<x>> \/ w.targets = <<>>)
    <2> HIDE DEF v
    <2>1. w = v \/ w = [v EXCEPT !.mode = 1]
      BY DEF v
    <2>2. QED
      BY <1>1, <2>1
  <1> HIDE DEF v, x
  <1>3. IsSeq(w.targets) /\ IsSeq(w.handles)
    BY <1>2, EmptyIsSeq, OneIsSeq
  <1>4. IsView(w)
    BY <1>2, <1>3 DEF IsView, WantsFilter, IsLogs
  <1>5. QED
    BY <1>2, <1>4 DEF IsNew, InNs, Live

\* The new lists and texts.
LEMMA ListNew ==
    ASSUME NEW s, NEW x, NEW y, NEW z
    PROVE  /\ IsNew(s, NewNamespaces(s.next)) /\ IsNew(s, NewContainers(s.next, x)) /\ IsNew(s, NewRollout(s.next, x))
           /\ IsNew(s, NewValues(s.next, x, y)) /\ IsNew(s, NewForwards(s.next)) /\ IsNew(s, NewAliases(s.next, x))
           /\ IsNew(s, NewMetrics(s.next)) /\ IsNew(s, NewHelp(s.next)) /\ IsNew(s, NewText(s.next, x, y))
           /\ IsNew(s, NewThemes(s.next, x, y))
  <1>0. ASSUME NEW kind, kind \notin {"table", "contexts", "logs"}, NEW of, NEW items
        PROVE  LET v == ListView(kind, s.next, of, items) IN
               {"kind", "id", "filter"} \subseteq DOMAIN v /\ v.filter = AnyName /\ v.kind = kind /\ v.id = s.next /\ IsNew(s, v)
    <2> DEFINE v == ListView(kind, s.next, of, items)
    <2>1. {"kind", "id", "filter"} \subseteq DOMAIN v /\ v.filter = AnyName /\ v.kind = kind /\ v.id = s.next
      BY DEF ListView
    <2> HIDE DEF v
    <2>2. IsNew(s, v)
      BY <1>0, <2>1, LooseNew
    <2>3. QED
      BY <2>1, <2>2 DEF v
  <1>1. /\ IsNew(s, NewNamespaces(s.next)) /\ IsNew(s, NewContainers(s.next, x)) /\ IsNew(s, NewRollout(s.next, x))
        /\ IsNew(s, NewForwards(s.next)) /\ IsNew(s, NewAliases(s.next, x))
        /\ IsNew(s, NewMetrics(s.next)) /\ IsNew(s, NewHelp(s.next))
    BY <1>0 DEF NewNamespaces, NewContainers, NewRollout, NewForwards, NewAliases, NewMetrics, NewHelp
  <1>2. IsNew(s, NewValues(s.next, x, y))
    <2> DEFINE v == ListView("values", s.next, x, <<>>)
    <2>1. {"kind", "id", "filter"} \subseteq DOMAIN v /\ v.filter = AnyName /\ v.kind = "values" /\ v.id = s.next
      BY <1>0
    <2> HIDE DEF v
    <2> DEFINE w == [v EXCEPT !.full = y]
    <2>2. {"kind", "id", "filter"} \subseteq DOMAIN w /\ w.filter = AnyName /\ w.kind = "values" /\ w.id = s.next
      BY <2>1
    <2>3. NewValues(s.next, x, y) = w
      BY DEF NewValues, v
    <2> HIDE DEF w
    <2>4. QED
      BY <2>2, <2>3, LooseNew
  <1>3. IsNew(s, NewText(s.next, x, y))
    <2> DEFINE v == ListView("text", s.next, <<y, x>>, <<>>)
    <2>1. {"kind", "id", "filter"} \subseteq DOMAIN v /\ v.filter = AnyName /\ v.kind = "text" /\ v.id = s.next
      BY <1>0
    <2> HIDE DEF v
    <2> DEFINE w == [v EXCEPT !.at = 0]
    <2>2. {"kind", "id", "filter"} \subseteq DOMAIN w /\ w.filter = AnyName /\ w.kind = "text" /\ w.id = s.next
      BY <2>1
    <2>3. NewText(s.next, x, y) = w
      BY DEF NewText, v
    <2> HIDE DEF w
    <2>4. QED
      BY <2>2, <2>3, LooseNew
  <1>4. IsNew(s, NewThemes(s.next, x, y))
    <2> DEFINE v == ListView("themes", s.next, y, x)
               at == CHOOSE i \in DOMAIN x : x[i] = y
    <2>1. {"kind", "id", "filter"} \subseteq DOMAIN v /\ v.filter = AnyName /\ v.kind = "themes" /\ v.id = s.next
      BY <1>0
    <2> HIDE DEF v, at
    <2> DEFINE w == [v EXCEPT !.at = at]
    <2>2. {"kind", "id", "filter"} \subseteq DOMAIN w /\ w.filter = AnyName /\ w.kind = "themes" /\ w.id = s.next
      BY <2>1
    <2>3. NewThemes(s.next, x, y) = w
      BY DEF NewThemes, v, at
    <2> HIDE DEF w
    <2>4. QED
      BY <2>2, <2>3, LooseNew
  <1>5. QED
    BY <1>1, <1>2, <1>3, <1>4

-----------------------------------------------------------------------------
(* Views that open, the view on top *)

Renewed(owed) == [save |-> owed.save, ns |-> FALSE, lost |-> {}, empty |-> FALSE]

\* A view is pushed.
LEMMA PushLeaves ==
    ASSUME NEW s, NEW cmds, NEW owed, Sound(s, cmds, 0, owed), NEW v, IsNew(s, v)
    PROVE  Leaves(cmds, PushView(s, v), owed)
  BY PushSound DEF Leaves

\* A view takes the place of all others.
LEMMA ReplaceLeaves ==
    ASSUME NEW s, NEW cmds, NEW owed, Sound(s, cmds, 0, owed), NEW v, IsNew(s, v)
    PROVE  Leaves(cmds, ReplaceViews(s, v), Renewed(owed)) /\ Len(ReplaceViews(s, v).t.views) = 1
  <1> DEFINE p == ReplaceViews(s, v)
  <1>1. Sound(p.t, cmds \o p.cmds, 0, [save |-> owed.save, ns |-> FALSE, lost |-> {}, empty |-> FALSE]) /\ Len(p.t.views) = 1 /\ Plain(p.cmds)
    BY ReplaceSound
  <1>2. QED
    BY <1>1 DEF Leaves, Renewed

\* What a view's opener fetches for it
LEMMA AskingLeaves ==
    ASSUME NEW s, NEW cmds, NEW owed, Sound(s, cmds, 0, owed), NEW v, IsNew(s, v), NEW what, NEW of
    PROVE  Leaves(cmds, PushAsking(s, v, what, of), owed)
  <1> DEFINE c == [cmd |-> "Fetch", view |-> v.id, what |-> what, of |-> of]
             p == PushView(s, v)
  <1>1. PushAsking(s, v, what, of) = Then(p, <<c>>)
    BY DEF PushAsking
  <1>2. Plain(<<c>>) /\ Quiet(<<c>>)
    <2>1. c.cmd = "Fetch"
      OBVIOUS
    <2> HIDE DEF c
    <2>2. QED
      BY <2>1, PlainOne DEF PlainKinds
  <1>3. Leaves(cmds, p, owed) /\ IsSeq(cmds)
    BY PushLeaves, SoundSeq
  <1> DEFINE more == <<c>>
  <1>4. Plain(more) /\ Quiet(more) /\ PushAsking(s, v, what, of) = Then(p, more)
    BY <1>1, <1>2
  <1> HIDE DEF p, more
  <1>5. QED
    BY <1>3, <1>4, ThenLeaves

\* The view on top.
LEMMA TopIs ==
    ASSUME NEW s, NEW cmds, NEW k, NEW owed, Sound(s, cmds, k, owed), s.views # <<>> \/ Len(s.views) > 0
    PROVE  Len(s.views) \in DOMAIN s.views /\ Top(s) = s.views[Len(s.views)] /\ IsView(Top(s))
  <1> DEFINE v == s.views
  <1>1. IsSeq(v) /\ \A i \in DOMAIN v : IsView(v[i])
    BY DEF Sound, Shaped, Stack
  <1>2. v \in Seq(Range(v)) /\ Len(v) \in Nat /\ DOMAIN v = 1..Len(v)
    BY <1>1, SeqHas
  <1>3. Len(v) # 0
    <2> HIDE DEF v
    <2>1. v # <<>> \/ Len(v) > 0
      BY DEF v
    <2> DEFINE S == Range(v)
    <2>2. v \in Seq(S)
      BY <1>2
    <2> HIDE DEF S
    <2>3. QED
      BY <2>1, <2>2
  <1>4. Len(v) \in DOMAIN v
    <2> HIDE DEF v
    <2>1. QED
      BY <1>2, <1>3
  <1>5. QED
    BY <1>1, <1>4 DEF Top

\* The view on top makes of something what views do.
LEMMA TopLeaves ==
    ASSUME NEW s, NEW cmds, NEW owed, Sound(s, cmds, 0, owed), s.views # <<>> \/ Len(s.views) > 0,
           NEW did, Goes(Top(s), did, Ns(s))
    PROVE  Leaves(cmds, WithTop(s, did), owed)
  <1> DEFINE i == Len(s.views)
             u == Puts(s, i, did.view)
  <1>1. i \in DOMAIN s.views /\ Top(s) = s.views[i]
    BY TopIs
  <1>2. WithTop(s, did).t = u /\ WithTop(s, did).cmds = did.cmds
    BY DEF WithTop, Pair, Puts
  <1>3. Plain(did.cmds)
    BY DEF Goes
  <1> HIDE DEF i
  <1>4. Goes(s.views[i], did, Ns(s)) /\ u = Puts(s, i, did.view)
    BY <1>1
  <1> HIDE DEF u
  <1>5. Sound(u, cmds \o did.cmds, 0, owed)
    BY <1>1, <1>4, OneSound
  <1>6. QED
    BY <1>2, <1>3, <1>5 DEF Leaves

-----------------------------------------------------------------------------
(* Namespaces and kinds *)

\* set_namespace: the views follow, and the config is written.
LEMMA SetNamespaceLeaves ==
    ASSUME NEW s, NEW cmds, Sound(s, cmds, 0, Settled), scene \in Scenes, NEW ns
    PROVE  Leaves(cmds, SetNamespace(s, ns), Settled) /\ Pinging(SetNamespace(s, ns).t, cmds, 0, {})
  <1>1. CASE ~HasSession(s) \/ Ns(s) = ns
    <2>1. SetNamespace(s, ns) = Pair(s, <<>>)
      BY <1>1 DEF SetNamespace
    <2>2. Pinging(s, cmds, 0, {})
      BY DEF Sound, Settled
    <2>3. QED
      BY <2>1, <2>2, NothingLeaves, PairIs
  <1>2. CASE ~(~HasSession(s) \/ Ns(s) = ns)
    <2> DEFINE u == Switched(s, ns)
               m == [msg |-> "NamespaceChanged"]
               q == OnAll(u, m)
    <2>1. SetNamespace(s, ns) = Then(q, <<Save>>)
      BY <1>2 DEF SetNamespace, Switched
    <2>2. m.msg = "NamespaceChanged" /\ IsSeq(cmds)
      BY SoundSeq
    <2>3. DOMAIN s = Fields /\ Remembers(s) /\ HasSession(s)
      BY <1>2 DEF Sound, Shaped
    <2>4. Same(s, u, {"config", "session", "shown", "theme"}) /\ Remembers(u)
      BY <2>3, SwitchedIs
    <2> HIDE DEF u
    <2>5. Sound(u, cmds, 0, Owing(Settled, TRUE, TRUE))
      BY <2>4, ConfigSound
    <2> HIDE DEF m
    <2> DEFINE o == Owing(Settled, TRUE, TRUE)
               o2 == Owing(o, o.save, FALSE)
    <2>6. Paid(o2) = Settled
      BY DEF Owing, Settled, Paid
    <2>a. Sound(u, cmds, 0, o)
      BY <2>5
    <2> HIDE DEF o
    <2>7. /\ Sound(q.t, cmds \o q.cmds, 0, o) /\ Plain(q.cmds)
          /\ Same(u, q.t, {"views"}) /\ DOMAIN q.t.views = DOMAIN u.views
          /\ \A i \in DOMAIN u.views : /\ q.t.views[i].kind = u.views[i].kind
                                        /\ After(u.views[i], q.t.views[i], m, Ns(u))
      <3>1. m.msg = "Fetched" => Lists(m.answer)
        BY <2>2
      <3>2. QED
        BY <2>a, <3>1, AllSound
    <2> HIDE DEF q
    <2>8. Ns(q.t) = Ns(u)
      BY <2>7 DEF Same, Fields, Ns
    <2>9. \A i \in DOMAIN q.t.views : InNs(q.t.views[i], Ns(q.t))
      BY <2>2, <2>7, <2>8 DEF After
    <2>b. Pinging(q.t, cmds, 0, {})
      <3>1. Pinging(u, cmds, 0, {})
        BY <2>5 DEF Sound, Owing, Settled
      <3>2. q.t.tasks = u.tasks
        BY <2>7 DEF Same, Fields
      <3>3. ASSUME NEW i \in DOMAIN q.t.views, q.t.views[i].kind = "contexts"
            PROVE  i \in DOMAIN u.views /\ u.views[i].kind = "contexts" /\ q.t.views[i].pending = u.views[i].pending
        BY <2>2, <2>7, <3>3 DEF After
      <3>4. QED
        BY <3>1, <3>2, <3>3 DEF Pinging
    <2> DEFINE w == q.t
               c == cmds \o q.cmds
    <2>10. Sound(w, c, 0, o) /\ \A i \in DOMAIN w.views : InNs(w.views[i], Ns(w))
      BY <2>7, <2>9
    <2> HIDE DEF w, c
    <2>11. Sound(w, c, 0, o2)
      BY <2>10, FollowedSound
    <2>12. Leaves(cmds, q, o2)
      BY <2>7, <2>11 DEF Leaves, w, c
    <2> HIDE DEF o2
    <2>13. Leaves(cmds, Then(q, <<Save>>), Paid(o2))
      BY <2>2, <2>12, ThenSaved
    <2>14. Then(q, <<Save>>).t = q.t
      BY ThenHas
    <2>15. QED
      BY <2>1, <2>6, <2>b, <2>13, <2>14
  <1>3. QED
    BY <1>1, <1>2

\* The namespace an open command asks for, if any.
LEMMA MovedLeaves ==
    ASSUME NEW s, NEW cmds, Sound(s, cmds, 0, Settled), scene \in Scenes, NEW ns
    PROVE  /\ Leaves(cmds, Moved(s, ns), Settled) /\ DOMAIN Moved(s, ns) = {"t", "cmds"}
           /\ Pinging(Moved(s, ns).t, cmds, 0, {})
  <1>1. Moved(s, ns) = Pair(s, <<>>) \/ Moved(s, ns) = SetNamespace(s, ns)
    BY DEF Moved
  <1>2. \A x, y : DOMAIN Pair(x, y) = {"t", "cmds"}
    BY DEF Pair
  <1>3. DOMAIN SetNamespace(s, ns) = {"t", "cmds"}
    <2> DEFINE q == OnAll(SyncChrome(Remember(SyncChrome([s EXCEPT !.session.ns = ns]), ns)), [msg |-> "NamespaceChanged"])
    <2>1. SetNamespace(s, ns) = Pair(s, <<>>) \/ SetNamespace(s, ns) = Then(q, <<Save>>)
      BY DEF SetNamespace
    <2> HIDE DEF q
    <2>2. Then(q, <<Save>>) = Pair(q.t, q.cmds \o <<Save>>)
      BY DEF Then
    <2>3. QED
      BY <1>2, <2>1, <2>2
  <1>4. Leaves(cmds, Pair(s, <<>>), Settled) /\ Leaves(cmds, SetNamespace(s, ns), Settled)
    BY NothingLeaves, SetNamespaceLeaves
  <1>5. Pinging(Pair(s, <<>>).t, cmds, 0, {}) /\ Pinging(SetNamespace(s, ns).t, cmds, 0, {})
    <2>1. Pinging(s, cmds, 0, {})
      BY DEF Sound, Settled
    <2>2. QED
      BY <2>1, SetNamespaceLeaves, PairIs
  <1>6. QED
    BY <1>1, <1>2, <1>3, <1>4, <1>5

\* A table, after p
LEMMA OpenTableLeaves ==
    ASSUME NEW s, NEW cmds, NEW owed, Sound(s, cmds, 0, owed), NEW kind
    PROVE  Leaves(cmds, OpenTable(s, kind), Renewed(owed)) /\ Len(OpenTable(s, kind).t.views) = 1
  <1> DEFINE v == NewTable(s.next, kind, Ns(s))
  <1>1. IsNew(s, v)
    BY TableNew
  <1>2. OpenTable(s, kind) = ReplaceViews(s, v)
    BY DEF OpenTable
  <1> HIDE DEF v
  <1>3. QED
    BY <1>1, <1>2, ReplaceLeaves

\* So it does after other commands.
LEMMA WithTableLeaves ==
    ASSUME NEW cmds, IsSeq(cmds), NEW p, NEW owed, Leaves(cmds, p, owed), NEW kind
    PROVE  Leaves(cmds, WithTable(p, kind), Renewed(owed)) /\ Len(WithTable(p, kind).t.views) = 1
  <1> DEFINE a == cmds \o p.cmds
             next == OpenTable(p.t, kind)
             s == p.t
  <1>1. Plain(p.cmds) /\ Sound(s, a, 0, owed)
    BY DEF Leaves
  <1> HIDE DEF a, s
  <1>2. Leaves(a, OpenTable(s, kind), Renewed(owed)) /\ Len(OpenTable(s, kind).t.views) = 1
    BY <1>1, OpenTableLeaves
  <1>3. WithTable(p, kind) = Add(p, next) /\ Add(p, next).t = next.t
    BY DEF WithTable, Add, Pair
  <1>4. Leaves(cmds \o p.cmds, next, Renewed(owed)) /\ Len(next.t.views) = 1
    BY <1>2 DEF a, s
  <1> HIDE DEF next
  <1>5. Leaves(cmds, Add(p, next), Renewed(owed))
    BY <1>1, <1>4, AddLeaves
  <1>6. QED
    BY <1>3, <1>4, <1>5

\* And is filtered at once.
LEMMA WithFilterLeaves ==
    ASSUME NEW cmds, IsSeq(cmds), NEW p, NEW owed, Leaves(cmds, p, owed), Len(p.t.views) > 0, NEW f, IsFilter(f)
    PROVE  Leaves(cmds, WithFilter(p, f), owed)
  <1> DEFINE a == cmds \o p.cmds
             s == p.t
             did == SetViewFilter(Top(s), f)
             next == WithTop(s, did)
  <1>1. Plain(p.cmds) /\ Sound(s, a, 0, owed) /\ Len(s.views) > 0
    BY DEF Leaves
  <1>2. WithFilter(p, f) = Add(p, next)
    BY DEF WithFilter
  <1> HIDE DEF a, s
  <1>3. IsView(Top(s))
    BY <1>1, TopIs
  <1>4. Goes(Top(s), did, Ns(s))
    BY <1>3, SetViewFilterGoes
  <1> HIDE DEF did
  <1>5. Leaves(a, next, owed)
    BY <1>1, <1>4, TopLeaves
  <1>6. Leaves(cmds \o p.cmds, next, owed)
    BY <1>5 DEF a
  <1> HIDE DEF next
  <1>7. QED
    BY <1>1, <1>2, <1>6, AddLeaves

-----------------------------------------------------------------------------
(* Commands *)

\* The history, the prompt and the full screen change.
LEMMA RecallsSound ==
    ASSUME NEW s, NEW u, NEW cmds, NEW k, NEW owed, Sound(s, cmds, k, owed),
           Same(s, u, {"history", "at", "pending", "dialogs", "full"}), Recalls(u), DOMAIN u.dialogs = DOMAIN s.dialogs
    PROVE  Sound(u, cmds, k, owed)
  <1>1. /\ u.views = s.views /\ u.next = s.next /\ u.config = s.config /\ u.session = s.session /\ u.shown = s.shown
        /\ u.quit = s.quit /\ u.watching = s.watching /\ u.tasks = s.tasks /\ u.saved = s.saved /\ u.dropped = s.dropped /\ DOMAIN u = DOMAIN s
    BY DEF Same, Fields
  <1>2. Shaped(u)
    BY <1>1 DEF Sound, Shaped, Stack, Remembers
  <1>3. Watched(u, cmds, k)
    BY <1>1 DEF Sound, Watched, Has
  <1>4. Pinging(u, cmds, k, owed.lost) /\ (Saves(s, cmds, k) => Saves(u, cmds, k))
    BY <1>1 DEF Sound, Pinging, Saves
  <1>5. Current(s) => Current(u)
    BY <1>1 DEF Current, Ns
  <1>6. QED
    BY <1>1, <1>2, <1>3, <1>4, <1>5 DEF Sound

\* The config is written.
LEMMA SaveLeaves ==
    ASSUME NEW s, NEW cmds, NEW owed, Sound(s, cmds, 0, owed)
    PROVE  Leaves(cmds, Pair(s, <<Save>>), Paid(owed))
  <1>1. Save.cmd \in PlainKinds
    BY DEF Save, PlainKinds
  <1>2. Plain(<<Save>>)
    BY <1>1, PlainOne
  <1>3. Sound(s, cmds \o <<Save>>, 0, Paid(owed))
    BY SaveSound DEF Paid
  <1>4. Pair(s, <<Save>>).t = s /\ Pair(s, <<Save>>).cmds = <<Save>>
    BY PairIs
  <1>5. QED
    BY <1>2, <1>3, <1>4 DEF Leaves

\* A memory of another kind
LEMMA KindSound ==
    ASSUME NEW s, NEW cmds, NEW owed, Sound(s, cmds, 0, owed), NEW x, NEW kind
    PROVE  Sound([s EXCEPT !.config.of[x].lastKind = kind], cmds, 0, Owing(owed, TRUE, owed.ns))
  <1> DEFINE of == s.config.of
             mem == [of[x] EXCEPT !.lastKind = kind]
             of2 == [of EXCEPT ![x] = mem]
             config == [s.config EXCEPT !.of = of2]
             u == [s EXCEPT !.config = config]
  <1>1. DOMAIN s = Fields /\ Remembers(s)
    BY DEF Sound, Shaped
  <1>2. /\ DOMAIN s.config = {"theme", "of"} /\ DOMAIN of = DOMAIN scene.config.of
        /\ \A c \in DOMAIN of : IsMemory(of[c])
    BY <1>1 DEF Remembers
  <1>3. x \in DOMAIN of => IsMemory(mem) /\ mem.favorites = of[x].favorites
    <2> HIDE DEF of
    <2>1. ASSUME x \in DOMAIN of PROVE DOMAIN of[x] = {"ns", "favorites", "lastKind"}
      BY <1>2, <2>1 DEF IsMemory
    <2>2. ASSUME x \in DOMAIN of PROVE DOMAIN mem = {"ns", "favorites", "lastKind"} /\ mem.favorites = of[x].favorites
      BY <2>1, <2>2
    <2> HIDE DEF mem
    <2>3. QED
      BY <1>2, <2>2 DEF IsMemory
  <1> HIDE DEF mem, of
  <1>4. /\ DOMAIN of2 = DOMAIN of /\ \A c \in DOMAIN of : c # x => of2[c] = of[c]
        /\ x \in DOMAIN of => of2[x] = mem
    OBVIOUS
  <1> HIDE DEF of2
  <1>5. DOMAIN config = {"theme", "of"} /\ config.of = of2
    BY <1>2
  <1> HIDE DEF config
  <1>6. DOMAIN u = Fields /\ u.config = config /\ \A f \in Fields \ {"config"} : u[f] = s[f]
    BY <1>1 DEF Fields
  <1>7. [s EXCEPT !.config.of[x].lastKind = kind] = u
    BY DEF config, of2, mem, of
  <1> HIDE DEF u
  <1>8. u.session = s.session /\ u.shown = s.shown /\ s.config.of = of
    BY <1>6 DEF Fields, of
  <1>9. Remembers(u)
    <2>1. \A c \in DOMAIN u.config.of : IsMemory(u.config.of[c])
      BY <1>2, <1>3, <1>4, <1>5, <1>6
    <2>2. \A c \in DOMAIN of : of2[c].favorites = of[c].favorites
      BY <1>3, <1>4
    <2>3. QED
      BY <1>1, <1>2, <1>4, <1>5, <1>6, <1>8, <2>1, <2>2 DEF Remembers
  <1>10. Same(s, u, {"config", "session", "shown", "theme"})
    BY <1>1, <1>6 DEF Same
  <1>11. QED
    BY <1>7, <1>8, <1>9, <1>10, ConfigSound

\* So it has to when the theme is set.
LEMMA ThemeSound ==
    ASSUME NEW s, NEW cmds, NEW owed, Sound(s, cmds, 0, owed), NEW theme
    PROVE  Sound(SetTheme(s, theme), cmds, 0, Owing(owed, TRUE, owed.ns))
  <1> DEFINE config == [s.config EXCEPT !.theme = theme]
             u == [s EXCEPT !.theme = theme, !.config = config]
  <1>1. DOMAIN s = Fields /\ Remembers(s)
    BY DEF Sound, Shaped
  <1>2. DOMAIN config = {"theme", "of"} /\ config.of = s.config.of
    BY <1>1 DEF Remembers
  <1>3. SetTheme(s, theme) = IF theme \in Range(scene.themes) THEN u ELSE s
    BY DEF SetTheme
  <1> HIDE DEF config
  <1>4. DOMAIN u = Fields /\ u.config = config /\ u.session = s.session /\ u.shown = s.shown
        /\ \A f \in Fields \ {"config", "theme"} : u[f] = s[f]
    BY <1>1 DEF Fields
  <1> HIDE DEF u
  <1>5. Remembers(u) /\ Remembers(s)
    BY <1>1, <1>2, <1>4 DEF Remembers
  <1>6. Same(s, u, {"config", "session", "shown", "theme"}) /\ Same(s, s, {"config", "session", "shown", "theme"})
    BY <1>1, <1>4 DEF Same
  <1>7. Sound(u, cmds, 0, Owing(owed, TRUE, owed.ns)) /\ Sound(s, cmds, 0, Owing(owed, TRUE, owed.ns))
    BY <1>4, <1>5, <1>6, ConfigSound
  <1>8. QED
    BY <1>3, <1>7

\* What the operations owe is settled in the end.
LEMMA PaidSettled ==
    /\ Paid(Owing(Settled, TRUE, Settled.ns)) = Settled
    /\ Paid(Renewed(Owing(Settled, TRUE, Settled.ns))) = Settled /\ Renewed(Settled) = Settled
    /\ \A b \in BOOLEAN : Renewed(Owing(Settled, FALSE, b)) = Settled
  BY DEF Paid, Owing, Settled, Renewed

\* open_kind_command
LEMMA OpenKindLeaves ==
    ASSUME NEW s, NEW cmds, Sound(s, cmds, 0, Settled), scene \in Scenes, NEW c, IsCommand(c), c.cmd = "kind"
    PROVE  Leaves(cmds, OpenKindCommand(s, c), Settled)
  <1>a. IsSeq(cmds) /\ DOMAIN s = Fields /\ Recalls(s)
    BY SoundSeq DEF Sound, Shaped
  <1>b. DOMAIN c = {"cmd", "kind", "ns", "filter", "context"} /\ (c.filter = None \/ IsFilter(c.filter))
    BY DEF IsCommand
  <1>1. CASE c.context # None
    <2> DEFINE d == [c EXCEPT !.context = None]
               u == [s EXCEPT !.pending = d]
               more == <<[cmd |-> "Connect", context |-> c.context]>>
    <2>1. OpenKindCommand(s, c) = Pair(u, more)
      BY <1>1 DEF OpenKindCommand
    <2>2. DOMAIN d = DOMAIN c /\ d.cmd = c.cmd /\ d.filter = c.filter
      BY <1>b
    <2> HIDE DEF d
    <2>3. IsCommand(d)
      BY <1>b, <2>2 DEF IsCommand
    <2>4. DOMAIN u = Fields /\ u.pending = d /\ u.history = s.history /\ u.at = s.at /\ u.dialogs = s.dialogs /\ \A f \in Fields \ {"pending"} : u[f] = s[f]
      BY <1>a DEF Fields
    <2> HIDE DEF u
    <2>5. Recalls(u) /\ Same(s, u, {"history", "at", "pending", "dialogs", "full"})
      BY <1>a, <2>2, <2>3, <2>4 DEF Recalls, Same
    <2>6. Sound(u, cmds, 0, Settled)
      BY <2>4, <2>5, RecallsSound
    <2>7. Plain(more) /\ Quiet(more)
      <3> DEFINE x == [cmd |-> "Connect", context |-> c.context]
      <3>1. x.cmd = "Connect"
        OBVIOUS
      <3> HIDE DEF x
      <3>2. Plain(<<x>>) /\ Quiet(<<x>>)
        BY <3>1, PlainOne DEF PlainKinds
      <3>3. QED
        BY <3>2 DEF x
    <2> HIDE DEF more
    <2>8. QED
      BY <2>1, <2>6, <2>7, PairLeaves
  <1>2. CASE c.context = None /\ (~HasSession(s) \/ c.kind \notin scene.kinds)
    <2>1. OpenKindCommand(s, c) = Pair(s, <<>>)
      BY <1>2 DEF OpenKindCommand
    <2>2. QED
      BY <2>1, NothingLeaves
  <1>3. CASE c.context = None /\ ~(~HasSession(s) \/ c.kind \notin scene.kinds)
    <2> DEFINE p0 == Moved(s, c.ns)
               x == s.shown.context
               p == [p0 EXCEPT !.t.config.of[x].lastKind = c.kind]
               q == WithTable(p, c.kind)
               r == Then(q, <<Save>>)
               o == Owing(Settled, TRUE, Settled.ns)
               u == p0.t
               a == p0.cmds
               w == [u EXCEPT !.config.of[x].lastKind = c.kind]
    <2>1. OpenKindCommand(s, c) = MaybeFiltered(r, c.filter)
      BY <1>3 DEF OpenKindCommand
    <2>2. Leaves(cmds, p0, Settled) /\ DOMAIN p0 = {"t", "cmds"}
      BY MovedLeaves
    <2> HIDE DEF p0, x
    <2>3. p.t = w /\ p.cmds = a
      BY <2>2
    <2> HIDE DEF p
    <2>4. Sound(u, cmds \o a, 0, Settled) /\ Plain(a)
      BY <2>2 DEF Leaves
    <2> DEFINE b == cmds \o a
    <2>5. Sound(u, b, 0, Settled)
      BY <2>4
    <2> HIDE DEF u, b
    <2>6. Sound(w, b, 0, o)
      BY <2>5, KindSound
    <2> HIDE DEF w, a, o
    <2>7. Leaves(cmds, p, o)
      BY <2>3, <2>4, <2>6 DEF Leaves, b
    <2>8. Leaves(cmds, q, Renewed(o)) /\ Len(q.t.views) = 1
      BY <1>a, <2>7, WithTableLeaves
    <2> HIDE DEF q
    <2>9. Leaves(cmds, r, Paid(Renewed(o))) /\ r.t = q.t
      BY <1>a, <2>8, ThenSaved, ThenHas
    <2>10. Paid(Renewed(o)) = Settled
      BY PaidSettled DEF o
    <2> HIDE DEF r
    <2>11. Leaves(cmds, r, Settled) /\ Len(r.t.views) > 0
      <3>1. Len(r.t.views) = 1
        BY <2>8, <2>9
      <3>2. Leaves(cmds, r, Settled)
        BY <2>9, <2>10, Zenon
      <3>3. QED
        BY <3>1, <3>2
    <2> DEFINE f == c.filter
    <2>12. f = None \/ IsFilter(f)
      BY <1>b
    <2> HIDE DEF f
    <2>13. IsFilter(f) => Leaves(cmds, WithFilter(r, f), Settled)
      BY <1>a, <2>11, WithFilterLeaves
    <2>14. MaybeFiltered(r, f) = IF f = None THEN r ELSE WithFilter(r, f)
      BY DEF MaybeFiltered
    <2>15. Leaves(cmds, MaybeFiltered(r, f), Settled)
      BY <2>11, <2>12, <2>13, <2>14
    <2>16. QED
      BY <2>1, <2>15 DEF f
  <1>4. QED
    BY <1>1, <1>2, <1>3

\* open_kind_filtered: of a kind that is not known, what the views asked for is dropped.
LEMMA OpenFilteredLeaves ==
    ASSUME NEW s, Sound(s, <<>>, 0, Settled), scene \in Scenes, NEW kind, NEW ns, NEW f, IsFilter(f)
    PROVE  Leaves(<<>>, OpenKindFiltered(s, kind, ns, f), Settled)
  <1> DEFINE p == Moved(s, ns)
             q == WithTable(p, kind)
             none == <<>>
  <1>1. Sound(s, none, 0, Settled) /\ IsSeq(none) /\ (\A a : IsSeq(a) => none \o a = a)
    BY EmptyIsSeq, ConcatEmpty
  <1> HIDE DEF none
  <1>2. Leaves(none, p, Settled) /\ Pinging(p.t, none, 0, {})
    BY <1>1, MovedLeaves
  <1> HIDE DEF p
  <1>3. CASE kind \in scene.kinds
    <2>1. OpenKindFiltered(s, kind, ns, f) = WithFilter(q, f)
      BY <1>3 DEF OpenKindFiltered, p
    <2>2. Leaves(none, q, Renewed(Settled)) /\ Len(q.t.views) = 1
      BY <1>1, <1>2, WithTableLeaves
    <2> HIDE DEF q
    <2>3. Leaves(none, q, Settled) /\ Len(q.t.views) > 0
      BY <2>2, PaidSettled
    <2>4. Leaves(none, WithFilter(q, f), Settled)
      BY <1>1, <2>3, WithFilterLeaves
    <2>5. QED
      BY <2>1, <2>4 DEF none
  <1>4. CASE kind \notin scene.kinds
    <2> DEFINE u == p.t
               a == p.cmds
               d == u.dropped \cup Range(a)
               w == [u EXCEPT !.dropped = d]
    <2>1. OpenKindFiltered(s, kind, ns, f) = Pair(w, <<>>)
      BY <1>4 DEF OpenKindFiltered, Drop, p
    <2>2. Sound(u, a, 0, Settled) /\ Plain(a) /\ DOMAIN none = {} /\ Plain(none) /\ Pinging(u, none, 0, {})
      BY <1>1, <1>2, PlainNone DEF Leaves, Plain, none
    <2>3. u.dropped \subseteq d /\ \A j \in DOMAIN a : a[j] \in d
      BY DEF Range
    <2> HIDE DEF u, a, d
    <2>4. DOMAIN w = Fields /\ w.dropped = d /\ \A x \in Fields \ {"dropped"} : w[x] = u[x]
      BY <2>2 DEF Sound, Shaped, Fields
    <2> HIDE DEF w
    <2>5. /\ w.views = u.views /\ w.next = u.next /\ w.config = u.config /\ w.session = u.session /\ w.shown = u.shown
          /\ w.history = u.history /\ w.at = u.at /\ w.pending = u.pending /\ w.quit = u.quit /\ w.dialogs = u.dialogs
          /\ w.watching = u.watching /\ w.tasks = u.tasks /\ w.saved = u.saved
      BY <2>4 DEF Fields
    <2>6. Shaped(w)
      BY <2>2, <2>4, <2>5 DEF Sound, Shaped, Stack, Remembers, Recalls
    <2>7. Watched(w, none, 0)
      <3>1. SUFFICES ASSUME NEW i \in DOMAIN u.views, Live(u.views[i]) PROVE Has(u.views[i], w, none, 0)
        BY <2>5 DEF Watched
      <3> DEFINE v == u.views[i]
      <3>2. Asks(v, a, 0) \/ Has(v, u, a, 0)
        BY <2>2, <3>1 DEF Sound, Watched
      <3> HIDE DEF v
      <3>3. CASE Asks(v, a, 0)
        <4>1. PICK j \in DOMAIN a : a[j] = Watch(v)
          BY <3>3 DEF Asks
        <4>2. Watch(v) \in w.dropped /\ WatchFor(Watch(v), v.id)
          BY <2>3, <2>4, <4>1, WatchIsPlain DEF WatchFor
        <4>3. QED
          BY <2>2, <4>2 DEF Has, v
      <3>4. CASE Has(v, u, a, 0)
        BY <2>2, <2>3, <2>4, <2>5, <3>4 DEF Has, v
      <3>5. QED
        BY <3>2, <3>3, <3>4
    <2>8. Saves(w, none, 0)
      BY <2>2, <2>3, <2>4, <2>5 DEF Sound, Saves, Settled
    <2>9. Pinging(w, none, 0, Settled.lost) /\ Current(w)
      BY <2>2, <2>5 DEF Sound, Settled, Pinging, Current, Ns
    <2>10. Sound(w, none, 0, Settled)
      BY <2>2, <2>5, <2>6, <2>7, <2>8, <2>9 DEF Sound, Settled
    <2>11. Leaves(none, Pair(w, <<>>), Settled)
      BY <2>10, NothingLeaves
    <2>12. QED
      BY <2>1, <2>11 DEF u, a, d, w, none
  <1>5. QED
    BY <1>3, <1>4

Quits == [cmd |-> "Quit"]

\* A connect.
LEMMA ConnectIsPlain ==
    ASSUME NEW x
    PROVE  Plain(<<[cmd |-> "Connect", context |-> x]>>) /\ Quiet(<<[cmd |-> "Connect", context |-> x]>>)
  <1> DEFINE c == [cmd |-> "Connect", context |-> x]
  <1>1. c.cmd = "Connect"
    OBVIOUS
  <1> HIDE DEF c
  <1>2. Plain(<<c>>) /\ Quiet(<<c>>)
    BY <1>1, PlainOne DEF PlainKinds
  <1>3. QED
    BY <1>2 DEF c

\* handle_command: what leaves the app leaves it as it is.
LEMMA CommandLeaves ==
    ASSUME NEW s, NEW cmds, Sound(s, cmds, 0, Settled), scene \in Scenes, NEW c, IsCommand(c)
    PROVE  /\ c.cmd = "q" => HandleCommand(s, c) = Pair(s, <<Quits>>)
           /\ c.cmd # "q" => Leaves(cmds, HandleCommand(s, c), Settled)
  <1>1. c.cmd = "q" => HandleCommand(s, c) = Pair(s, <<Quits>>)
    BY DEF HandleCommand, Quits
  <1>2. CASE c.cmd = "ctx"
    <2> DEFINE v == NewContexts(s.next, scene.contexts)
               more == <<[cmd |-> "Connect", context |-> c.arg]>>
    <2>1. HandleCommand(s, c) = IF c.arg = None THEN PushView(s, v) ELSE Pair(s, more)
      BY <1>2 DEF HandleCommand
    <2>2. IsNew(s, v) /\ Plain(more) /\ Quiet(more)
      BY ContextsNew, ConnectIsPlain
    <2> HIDE DEF v, more
    <2>3. Leaves(cmds, PushView(s, v), Settled) /\ Leaves(cmds, Pair(s, more), Settled)
      BY <2>2, PushLeaves, PairLeaves
    <2>4. QED
      BY <1>2, <2>1, <2>3
  <1>3. CASE c.cmd = "ns"
    <2> DEFINE v == NewNamespaces(s.next)
    <2>1. HandleCommand(s, c) = IF c.arg = None THEN PushView(s, v) ELSE SetNamespace(s, c.arg)
      BY <1>3 DEF HandleCommand
    <2>2. IsNew(s, v)
      BY ListNew
    <2> HIDE DEF v
    <2>3. Leaves(cmds, PushView(s, v), Settled) /\ Leaves(cmds, SetNamespace(s, c.arg), Settled)
      BY <2>2, PushLeaves, SetNamespaceLeaves
    <2>4. QED
      BY <1>3, <2>1, <2>3
  <1>4. CASE c.cmd \in {"alias", "pf", "help"}
    <2> DEFINE v1 == NewAliases(s.next, SetToSeq(scene.kinds))
               v2 == NewForwards(s.next)
               v3 == NewHelp(s.next)
    <2>1. HandleCommand(s, c) \in {PushView(s, v1), PushView(s, v2), PushView(s, v3)}
      BY <1>4 DEF HandleCommand
    <2>2. IsNew(s, v1) /\ IsNew(s, v2) /\ IsNew(s, v3)
      BY ListNew
    <2> HIDE DEF v1, v2, v3
    <2>3. Leaves(cmds, PushView(s, v1), Settled) /\ Leaves(cmds, PushView(s, v2), Settled) /\ Leaves(cmds, PushView(s, v3), Settled)
      BY <2>2, PushLeaves
    <2>4. QED
      BY <1>4, <2>1, <2>3
  <1>5. CASE c.cmd = "theme"
    <2> DEFINE v == NewThemes(s.next, scene.themes, s.theme)
               u == SetTheme(s, c.arg)
    <2>1. HandleCommand(s, c) = IF c.arg = None THEN PushView(s, v) ELSE Pair(u, <<Save>>)
      BY <1>5 DEF HandleCommand
    <2>2. IsNew(s, v)
      BY ListNew
    <2>3. Sound(u, cmds, 0, Owing(Settled, TRUE, Settled.ns))
      BY ThemeSound
    <2> HIDE DEF v, u
    <2>4. Leaves(cmds, Pair(u, <<Save>>), Paid(Owing(Settled, TRUE, Settled.ns)))
      BY <2>3, SaveLeaves
    <2>5. Leaves(cmds, PushView(s, v), Settled) /\ Leaves(cmds, Pair(u, <<Save>>), Settled)
      BY <2>2, <2>4, PushLeaves, PaidSettled
    <2>6. QED
      BY <1>5, <2>1, <2>5
  <1>6. CASE c.cmd = "events"
    <2>1. HandleCommand(s, c) = OpenTable(s, "Event")
      BY <1>6 DEF HandleCommand
    <2>2. Leaves(cmds, OpenTable(s, "Event"), Renewed(Settled))
      BY OpenTableLeaves
    <2>3. QED
      BY <1>6, <2>1, <2>2, PaidSettled
  <1>7. CASE c.cmd = "metrics"
    <2> DEFINE v == NewMetrics(s.next)
    <2>1. HandleCommand(s, c) = ReplaceViews(s, v)
      BY <1>7 DEF HandleCommand
    <2>2. IsNew(s, v)
      BY ListNew
    <2> HIDE DEF v
    <2>3. Leaves(cmds, ReplaceViews(s, v), Renewed(Settled))
      BY <2>2, ReplaceLeaves
    <2>4. QED
      BY <1>7, <2>1, <2>3, PaidSettled
  <1>8. CASE c.cmd = "kind"
    <2>1. HandleCommand(s, c) = OpenKindCommand(s, c)
      BY <1>8 DEF HandleCommand
    <2>2. QED
      BY <1>8, <2>1, OpenKindLeaves
  <1>9. c.cmd \in {"q", "ctx", "ns", "alias", "pf", "help", "theme", "events", "metrics", "kind"}
    BY DEF IsCommand
  <1>10. QED
    BY <1>1, <1>2, <1>3, <1>4, <1>5, <1>6, <1>7, <1>8, <1>9

-----------------------------------------------------------------------------
(* The history *)

\* All but the first element.
LEMMA TailIs ==
    ASSUME NEW s, IsSeq(s), Len(s) > 0
    PROVE  IsSeq(Tail(s)) /\ Len(Tail(s)) = Len(s) - 1 /\ \A i \in 1..(Len(s) - 1) : Tail(s)[i] = s[i + 1]
  <1> DEFINE S == Range(s)
  <1>1. s \in Seq(S) /\ Len(s) \in Nat
    BY SeqHas
  <1> HIDE DEF S
  <1>2. Tail(s) \in Seq(S) /\ Len(Tail(s)) = Len(s) - 1 /\ \A i \in 1..(Len(s) - 1) : Tail(s)[i] = s[i + 1]
    BY <1>1
  <1>3. QED
    BY <1>2, SeqFrom

\* remember_command: the history is a list of commands, the oldest of which goes.
LEMMA RememberCommandSound ==
    ASSUME NEW s, NEW cmds, NEW owed, Sound(s, cmds, 0, owed), NEW c, IsCommand(c)
    PROVE  Sound(RememberCommand(s, c), cmds, 0, owed)
  <1> DEFINE h == s.history
             all == IF h # <<>> /\ Last(h) = c THEN h ELSE Append(h, c)
             kept == IF Len(all) > MaxHistory THEN Tail(all) ELSE all
             at == Len(kept) + 1
             u == [s EXCEPT !.history = kept, !.at = at]
  <1>1. DOMAIN s = Fields /\ IsSeq(h) /\ (\A i \in DOMAIN h : IsCommand(h[i])) /\ Recalls(s)
    BY DEF Sound, Shaped, Recalls
  <1> HIDE DEF h
  <1>2. IsSeq(all) /\ \A i \in DOMAIN all : IsCommand(all[i])
    <2>1. CASE h # <<>> /\ Last(h) = c
      BY <1>1, <2>1
    <2>2. CASE ~(h # <<>> /\ Last(h) = c)
      <3>1. all = Append(h, c)
        BY <2>2
      <3>2. /\ IsSeq(Append(h, c)) /\ Len(Append(h, c)) = Len(h) + 1 /\ Append(h, c)[Len(h) + 1] = c
            /\ \A i \in 1..Len(h) : Append(h, c)[i] = h[i]
        BY <1>1, AppendIs
      <3>3. DOMAIN Append(h, c) = 1..(Len(h) + 1) /\ DOMAIN h = 1..Len(h) /\ Len(h) \in Nat
        BY <1>1, <3>2, SeqHas
      <3> HIDE DEF all
      <3> DEFINE b == Append(h, c)
      <3>4. \A i \in DOMAIN b : IsCommand(b[i])
        <4>1. IsSeq(b) /\ b[Len(h) + 1] = c /\ DOMAIN b = 1..(Len(h) + 1) /\ \A i \in 1..Len(h) : b[i] = h[i]
          BY <3>2, <3>3
        <4> HIDE DEF b
        <4>2. QED
          BY <1>1, <3>3, <4>1
      <3>5. QED
        BY <3>1, <3>2, <3>4
    <2>3. QED
      BY <2>1, <2>2
  <1> HIDE DEF all
  <1>3. IsSeq(kept) /\ \A i \in DOMAIN kept : IsCommand(kept[i])
    <2>1. CASE Len(all) > MaxHistory
      <3>1. Len(all) \in Nat /\ DOMAIN all = 1..Len(all)
        BY <1>2, SeqHas
      <3>2. Len(all) > 0
        BY <2>1, <3>1, TerminalAssumption
      <3>3. IsSeq(Tail(all)) /\ Len(Tail(all)) = Len(all) - 1 /\ \A i \in 1..(Len(all) - 1) : Tail(all)[i] = all[i + 1]
        BY <1>2, <3>2, TailIs
      <3> DEFINE b == Tail(all)
      <3>4. DOMAIN b = 1..(Len(all) - 1)
        BY <3>3, SeqHas
      <3>5. kept = b
        BY <2>1
      <3>6. IsSeq(b) /\ \A i \in 1..(Len(all) - 1) : b[i] = all[i + 1]
        BY <3>3
      <3> HIDE DEF kept, b
      <3>7. \A i \in DOMAIN b : IsCommand(b[i])
        BY <1>2, <3>1, <3>4, <3>6
      <3>8. QED
        BY <3>5, <3>6, <3>7
    <2>2. CASE ~(Len(all) > MaxHistory)
      BY <1>2, <2>2
    <2>3. QED
      BY <2>1, <2>2
  <1>4. at \in Int
    <2> HIDE DEF kept
    <2>1. Len(kept) \in Nat
      BY <1>3, SeqHas
    <2>2. QED
      BY <2>1
  <1>5. RememberCommand(s, c) = u
    BY DEF RememberCommand, kept, all, h
  <1> HIDE DEF kept, at
  <1>6. /\ DOMAIN u = Fields /\ u.history = kept /\ u.at = at /\ u.pending = s.pending /\ u.dialogs = s.dialogs
        /\ \A f \in Fields \ {"history", "at"} : u[f] = s[f]
    BY <1>1 DEF Fields
  <1> HIDE DEF u
  <1>7. Recalls(u) /\ Same(s, u, {"history", "at", "pending", "dialogs", "full"})
    BY <1>1, <1>3, <1>4, <1>6 DEF Recalls, Same
  <1>8. Sound(u, cmds, 0, owed)
    BY <1>6, <1>7, RecallsSound
  <1>9. QED
    BY <1>5, <1>8

\* The place in the history, or none to be asked for when connected
LEMMA PlaceSound ==
    ASSUME NEW s, NEW cmds, NEW owed, Sound(s, cmds, 0, owed), NEW n \in Int
    PROVE  Sound([s EXCEPT !.at = n], cmds, 0, owed) /\ Sound([s EXCEPT !.pending = None], cmds, 0, owed)
  <1> DEFINE u == [s EXCEPT !.at = n]
             w == [s EXCEPT !.pending = None]
  <1>1. DOMAIN s = Fields /\ Recalls(s)
    BY DEF Sound, Shaped
  <1>2. DOMAIN u = Fields /\ u.at = n /\ u.history = s.history /\ u.pending = s.pending /\ u.dialogs = s.dialogs /\ \A f \in Fields \ {"at"} : u[f] = s[f]
    BY <1>1 DEF Fields
  <1>3. DOMAIN w = Fields /\ w.at = s.at /\ w.history = s.history /\ w.pending = None /\ w.dialogs = s.dialogs /\ \A f \in Fields \ {"pending"} : w[f] = s[f]
    BY <1>1 DEF Fields
  <1> HIDE DEF u, w
  <1>4. Recalls(u) /\ Same(s, u, {"history", "at", "pending", "dialogs", "full"})
    BY <1>1, <1>2 DEF Recalls, Same
  <1>5. Recalls(w) /\ Same(s, w, {"history", "at", "pending", "dialogs", "full"})
    BY <1>1, <1>3 DEF Recalls, Same
  <1>6. Sound(u, cmds, 0, owed) /\ Sound(w, cmds, 0, owed)
    BY <1>2, <1>3, <1>4, <1>5, RecallsSound
  <1>7. QED
    BY <1>6 DEF u, w

\* What a command leaves at last: the state as it is to be, or the end
Done1(cmds, p) == Leaves(cmds, p, Settled) \/ (Sound(p.t, cmds, 0, Settled) /\ p.cmds = <<Quits>>)

\* handle_command, with the quit.
LEMMA CommandDone ==
    ASSUME NEW s, NEW cmds, Sound(s, cmds, 0, Settled), scene \in Scenes, NEW c, IsCommand(c)
    PROVE  Done1(cmds, HandleCommand(s, c))
  BY CommandLeaves, PairIs DEF Done1

\* What is in the history.
LEMMA HistoryHas ==
    ASSUME NEW s, NEW cmds, NEW owed, Sound(s, cmds, 0, owed), s.history # <<>>
    PROVE  /\ Len(s.history) \in Nat /\ Len(s.history) > 0 /\ s.at \in Int /\ Last(s.history) = s.history[Len(s.history)]
           /\ \A i \in 1..Len(s.history) : IsCommand(s.history[i])
  <1> DEFINE h == s.history
  <1>1. IsSeq(h) /\ (\A i \in DOMAIN h : IsCommand(h[i])) /\ s.at \in Int
    BY DEF Sound, Shaped, Recalls
  <1>2. h # <<>> /\ Last(h) = h[Len(h)]
    BY DEF Last
  <1> HIDE DEF h
  <1> DEFINE S == Range(h)
  <1>3. h \in Seq(S) /\ Len(h) \in Nat /\ DOMAIN h = 1..Len(h)
    BY <1>1, SeqHas
  <1> HIDE DEF S
  <1>4. Len(h) > 0
    BY <1>2, <1>3
  <1>5. QED
    BY <1>1, <1>2, <1>3, <1>4 DEF h

\* history_repeat.
LEMMA RepeatDone ==
    ASSUME NEW s, NEW cmds, Sound(s, cmds, 0, Settled), scene \in Scenes
    PROVE  Done1(cmds, RepeatCommand(s))
  <1>1. CASE s.history = <<>>
    BY <1>1, NothingLeaves DEF RepeatCommand, Done1
  <1>2. CASE s.history # <<>>
    <2> DEFINE n == Len(s.history) + 1
               u == [s EXCEPT !.at = n]
               c == Last(s.history)
    <2>1. RepeatCommand(s) = HandleCommand(u, c)
      BY <1>2 DEF RepeatCommand
    <2>2. n \in Int /\ IsCommand(c)
      BY <1>2, HistoryHas
    <2> HIDE DEF n, c
    <2>3. Sound(u, cmds, 0, Settled)
      BY <2>2, PlaceSound
    <2> HIDE DEF u
    <2>4. QED
      BY <2>1, <2>2, <2>3, CommandDone
  <1>3. QED
    BY <1>1, <1>2

\* history_step.
LEMMA StepDone ==
    ASSUME NEW s, NEW cmds, Sound(s, cmds, 0, Settled), scene \in Scenes, NEW delta \in Int
    PROVE  Done1(cmds, StepHistory(s, delta))
  <1>1. CASE s.history = <<>>
    BY <1>1, NothingLeaves DEF StepHistory, Done1
  <1>2. CASE s.history # <<>>
    <2> DEFINE last == Len(s.history)
               from == (IF s.at > last THEN last ELSE s.at) + delta
               to == IF from < 1 THEN 1 ELSE IF from > last THEN last ELSE from
               u == [s EXCEPT !.at = to]
               c == s.history[to]
    <2>1. StepHistory(s, delta) = HandleCommand(u, c)
      BY <1>2 DEF StepHistory
    <2>2. last \in Nat /\ last > 0 /\ s.at \in Int /\ \A i \in 1..last : IsCommand(s.history[i])
      BY <1>2, HistoryHas
    <2>3. to \in 1..last
      <3> HIDE DEF last
      <3>1. from \in Int
        BY <2>2
      <3> HIDE DEF from
      <3>2. QED
        BY <2>2, <3>1
    <2>4. IsCommand(c) /\ to \in Int
      BY <2>2, <2>3
    <2> HIDE DEF to, c
    <2>5. Sound(u, cmds, 0, Settled)
      BY <2>4, PlaceSound
    <2> HIDE DEF u
    <2>6. QED
      BY <2>1, <2>4, <2>5, CommandDone
  <1>3. QED
    BY <1>1, <1>2

-----------------------------------------------------------------------------
(* Connected *)

\* The command that waited for the connect.
LEMMA PendingLeaves ==
    ASSUME NEW s, NEW cmds, Sound(s, cmds, 0, Settled), scene \in Scenes
    PROVE  Leaves(cmds, Pending(s), Settled)
  <1>1. CASE s.pending = None
    <2> DEFINE v == NewNamespaces(s.next)
    <2>1. Pending(s) = PushView(s, v)
      BY <1>1 DEF Pending
    <2>2. IsNew(s, v)
      BY ListNew
    <2> HIDE DEF v
    <2>3. QED
      BY <2>1, <2>2, PushLeaves
  <1>2. CASE s.pending # None
    <2> DEFINE u == [s EXCEPT !.pending = None]
               c == s.pending
    <2>1. Pending(s) = HandleCommand(u, c)
      BY <1>2 DEF Pending
    <2>2. IsCommand(c) /\ c.cmd = "kind"
      BY <1>2 DEF Sound, Shaped, Recalls
    <2>3. Sound(u, cmds, 0, Settled)
      BY PlaceSound, 0 \in Int
    <2> HIDE DEF u, c
    <2>4. QED
      BY <2>1, <2>2, <2>3, CommandLeaves
  <1>3. QED
    BY <1>1, <1>2

\* on_connected: with a session, what waits for its namespace is gone.
LEMMA ConnectedLeaves ==
    ASSUME NEW s, NEW ok \in BOOLEAN, Sound(s, <<>>, 0, Owing(Settled, FALSE, ok)), scene \in Scenes
    PROVE  Leaves(<<>>, OnConnected(s, ok), Settled)
  <1> DEFINE none == <<>>
             o == Owing(Settled, FALSE, ok)
  <1>1. Sound(s, none, 0, o) /\ IsSeq(none)
    BY EmptyIsSeq
  <1> HIDE DEF none
  <1>2. CASE ok
    <2> DEFINE u == SyncChrome(s)
               last == u.config.of[u.session.context].lastKind
               kind == IF last \in scene.kinds THEN last ELSE "Pod"
               p == OpenTable(u, kind)
               q == Add(p, Pending(p.t))
               more == <<[cmd |-> "PollMetrics"]>>
    <2>1. OnConnected(s, ok) = Then(q, more)
      BY <1>2 DEF OnConnected, WithPending, Landing
    <2> HIDE DEF kind, last
    <2>2. Sound(u, none, 0, o)
      BY <1>1, SyncSound
    <2> HIDE DEF u, o
    <2>3. Leaves(none, p, Renewed(o))
      BY <2>2, OpenTableLeaves
    <2>4. Renewed(o) = Settled
      BY PaidSettled DEF o
    <2>5. Leaves(none, p, Settled)
      BY <2>3, <2>4, Zenon
    <2> HIDE DEF p
    <2> DEFINE w == p.t
               c == none \o p.cmds
    <2>6. Sound(w, c, 0, Settled) /\ Plain(p.cmds)
      BY <2>5 DEF Leaves
    <2> HIDE DEF w, c
    <2>7. Leaves(c, Pending(w), Settled)
      BY <2>6, PendingLeaves
    <2> DEFINE next == Pending(p.t)
    <2>8. Leaves(none \o p.cmds, next, Settled)
      BY <2>7 DEF w, c
    <2>a. q = Add(p, next)
      OBVIOUS
    <2> HIDE DEF next, q
    <2>9. Leaves(none, q, Settled)
      BY <1>1, <2>6, <2>8, <2>a, AddLeaves
    <2>10. Plain(more) /\ Quiet(more)
      <3> DEFINE x == [cmd |-> "PollMetrics"]
      <3>1. x.cmd = "PollMetrics"
        OBVIOUS
      <3> HIDE DEF x
      <3>2. Plain(<<x>>) /\ Quiet(<<x>>)
        BY <3>1, PlainOne DEF PlainKinds
      <3>3. QED
        BY <3>2 DEF x
    <2> HIDE DEF more
    <2>11. Leaves(none, Then(q, more), Settled)
      BY <1>1, <2>9, <2>10, ThenLeaves
    <2>12. QED
      BY <2>1, <2>11 DEF none
  <1>3. CASE ~ok
    <2> DEFINE u == [s EXCEPT !.pending = None]
               v == NewContexts(u.next, scene.contexts)
    <2>1. OnConnected(s, ok) = IF s.views = <<>> THEN PushView(u, v) ELSE Pair(u, <<>>)
      BY <1>3 DEF OnConnected
    <2>2. o = Settled
      BY <1>3 DEF Owing, Settled
    <2> HIDE DEF o
    <2>3. Sound(s, none, 0, Settled)
      BY <1>1, <2>2, Zenon
    <2>4. Sound(u, none, 0, Settled)
      BY <2>3, PlaceSound, 0 \in Int
    <2> HIDE DEF u
    <2>5. IsNew(u, v)
      BY ContextsNew
    <2> HIDE DEF v
    <2>6. Leaves(none, PushView(u, v), Settled) /\ Leaves(none, Pair(u, <<>>), Settled)
      BY <2>4, <2>5, PushLeaves, NothingLeaves
    <2>7. QED
      BY <2>1, <2>6 DEF none
  <1>4. QED
    BY <1>2, <1>3

-----------------------------------------------------------------------------
(* Keys that act on a row *)

\* Dialogs open, close and change; there is never another one.
LEMMA DialogsKeep ==
    ASSUME NEW d
    PROVE  /\ \A x, y : DOMAIN OpenConfirm(d, x, y) = DOMAIN d
           /\ \A x, y, z : DOMAIN OpenInput(d, x, y, z) = DOMAIN d
           /\ \A x, y : DOMAIN OpenDelete(d, x, y) = DOMAIN d
           /\ \A x, y, z : DOMAIN OpenPick(d, x, y, z) = DOMAIN d
           /\ \A x : DOMAIN OpenPrompt(d, x) = DOMAIN d
           /\ \A k : DOMAIN InputEdit(d, k) = DOMAIN d /\ DOMAIN DeleteEdit(d, k) = DOMAIN d /\ DOMAIN PickEdit(d, k) = DOMAIN d
           /\ DOMAIN CloseModals(d) = DOMAIN NoDialogs
  <1>1. /\ \A x, y : DOMAIN OpenConfirm(d, x, y) = DOMAIN d
        /\ \A x, y, z : DOMAIN OpenInput(d, x, y, z) = DOMAIN d
        /\ \A x, y : DOMAIN OpenDelete(d, x, y) = DOMAIN d
        /\ \A x, y, z : DOMAIN OpenPick(d, x, y, z) = DOMAIN d
        /\ \A x : DOMAIN OpenPrompt(d, x) = DOMAIN d
    BY DEF OpenConfirm, OpenInput, OpenDelete, OpenPick, OpenPrompt
  <1>2. DOMAIN CloseModals(d) = DOMAIN NoDialogs
    BY DEF CloseModals
  <1>3. \A k : DOMAIN InputEdit(d, k) = DOMAIN d /\ DOMAIN DeleteEdit(d, k) = DOMAIN d /\ DOMAIN PickEdit(d, k) = DOMAIN d
    BY DEF InputEdit, DeleteEdit, PickEdit
  <1>4. QED
    BY <1>1, <1>2, <1>3

\* The dialogs are no matter of what is watched or remembered.
LEMMA DialogsSound ==
    ASSUME NEW s, NEW cmds, NEW k, NEW owed, Sound(s, cmds, k, owed), NEW d, DOMAIN d = DOMAIN s.dialogs
    PROVE  Sound([s EXCEPT !.dialogs = d], cmds, k, owed)
  <1> DEFINE u == [s EXCEPT !.dialogs = d]
  <1>1. DOMAIN s = Fields
    BY DEF Sound, Shaped
  <1>2. DOMAIN u = DOMAIN s /\ u.dialogs = d /\ \A f \in Core : u[f] = s[f]
    BY <1>1 DEF Fields, Core
  <1> HIDE DEF u
  <1>3. Sound(u, cmds, k, owed)
    BY <1>2, CoreSound
  <1>4. QED
    BY <1>3 DEF u

\* A dialog opens or closes.
LEMMA DialogsLeaves ==
    ASSUME NEW s, NEW cmds, NEW owed, Sound(s, cmds, 0, owed), NEW d, DOMAIN d = DOMAIN s.dialogs
    PROVE  Leaves(cmds, Pair([s EXCEPT !.dialogs = d], <<>>), owed)
  <1> DEFINE u == [s EXCEPT !.dialogs = d]
  <1>1. Sound(u, cmds, 0, owed)
    BY DialogsSound
  <1> HIDE DEF u
  <1>2. Leaves(cmds, Pair(u, <<>>), owed)
    BY <1>1, NothingLeaves
  <1>3. QED
    BY <1>2 DEF u

\* One command.
LEMMA OneLeaves ==
    ASSUME NEW s, NEW cmds, NEW owed, Sound(s, cmds, 0, owed), NEW c, c.cmd \in PlainKinds, c.cmd # "Watch"
    PROVE  Leaves(cmds, Pair(s, <<c>>), owed)
  BY PlainOne, PairLeaves

\* A request, a mutation, a shell.
LEMMA FetchLeaves ==
    ASSUME NEW s, NEW cmds, NEW owed, Sound(s, cmds, 0, owed), NEW view, NEW what, NEW of
    PROVE  /\ Leaves(cmds, Pair(s, <<[cmd |-> "Fetch", view |-> view, what |-> what, of |-> of]>>), owed)
           /\ Leaves(cmds, Pair(s, Mutate(view, what, of)), owed)
           /\ Leaves(cmds, Pair(s, <<[cmd |-> "SaveResource", of |-> of]>>), owed)
           /\ Leaves(cmds, Pair(s, <<Suspend(view, what, of)>>), owed)
  <1> DEFINE c1 == [cmd |-> "Fetch", view |-> view, what |-> what, of |-> of]
             c2 == [cmd |-> "Mutate", view |-> view, what |-> what, of |-> of]
             c3 == [cmd |-> "SaveResource", of |-> of]
             c4 == Suspend(view, what, of)
  <1>1. c1.cmd = "Fetch" /\ c2.cmd = "Mutate" /\ c3.cmd = "SaveResource" /\ c4.cmd = "Suspend"
    BY DEF Suspend
  <1>2. Mutate(view, what, of) = <<c2>>
    BY DEF Mutate
  <1> HIDE DEF c1, c2, c3, c4
  <1>3. /\ c1.cmd \in PlainKinds /\ c2.cmd \in PlainKinds /\ c3.cmd \in PlainKinds /\ c4.cmd \in PlainKinds
        /\ c1.cmd # "Watch" /\ c2.cmd # "Watch" /\ c3.cmd # "Watch" /\ c4.cmd # "Watch"
    BY <1>1 DEF PlainKinds
  <1>4. /\ Leaves(cmds, Pair(s, <<c1>>), owed) /\ Leaves(cmds, Pair(s, <<c2>>), owed)
        /\ Leaves(cmds, Pair(s, <<c3>>), owed) /\ Leaves(cmds, Pair(s, <<c4>>), owed)
    BY <1>3, OneLeaves
  <1>5. QED
    BY <1>2, <1>4 DEF c1, c3, c4

\* open_logs
LEMMA OpenLogsLeaves ==
    ASSUME NEW s, NEW cmds, NEW owed, Sound(s, cmds, 0, owed), NEW x, NEW all, NEW previous
    PROVE  Leaves(cmds, OpenLogs(s, x, all, previous), owed)
  <1> DEFINE some == all /\ x.container = None
             v1 == NewLogs(s.next, x.name, x.container, some, None)
             v2 == [v1 EXCEPT !.mode = 1]
             v3 == NewLogs(s.next, None, None, FALSE, x.name)
  <1>1. \/ OpenLogs(s, x, all, previous) = PushView(s, IF previous THEN v2 ELSE v1)
        \/ OpenLogs(s, x, all, previous) = PushView(s, v3)
        \/ OpenLogs(s, x, all, previous) = Pair(s, <<>>)
    BY Zenon DEF OpenLogs
  <1>2. IsNew(s, v1) /\ IsNew(s, v2) /\ IsNew(s, v3)
    <2> HIDE DEF some
    <2>1. IsNew(s, v1)
      BY LogsNew
    <2>2. IsNew(s, v2)
      BY LogsNew
    <2>3. IsNew(s, v3)
      BY LogsNew
    <2>4. QED
      BY <2>1, <2>2, <2>3
  <1> HIDE DEF v1, v2, v3
  <1>3. Leaves(cmds, PushView(s, v1), owed) /\ Leaves(cmds, PushView(s, v2), owed) /\ Leaves(cmds, PushView(s, v3), owed)
    BY <1>2, PushLeaves
  <1>4. Leaves(cmds, Pair(s, <<>>), owed)
    BY NothingLeaves
  <1>5. QED
    BY <1>1, <1>3, <1>4

\* open_enter
LEMMA OpenEnterLeaves ==
    ASSUME NEW s, NEW cmds, NEW owed, Sound(s, cmds, 0, owed), NEW x
    PROVE  Leaves(cmds, OpenEnter(s, x), owed)
  <1> DEFINE v1 == NewContainers(s.next, x)
             v2 == NewDrillDown(s.next, x.ns)
             p1 == PushAsking(s, v1, "Containers", x)
             p2 == PushAsking(s, v2, "Selector", x.name)
  <1>1. IsNew(s, v1) /\ IsNew(s, v2)
    BY ListNew, DrillDownNew
  <1>2. OpenEnter(s, x) = p1 \/ OpenEnter(s, x) = p2 \/ OpenEnter(s, x) = Pair(s, <<>>)
    BY DEF OpenEnter
  <1> HIDE DEF v1, v2
  <1>3. Leaves(cmds, p1, owed) /\ Leaves(cmds, p2, owed)
    BY <1>1, AskingLeaves
  <1> HIDE DEF p1, p2
  <1>4. QED
    BY <1>2, <1>3, NothingLeaves

\* Shells, attaches and forwards begin with a request.
LEMMA BeginsLeaves ==
    ASSUME NEW s, NEW cmds, NEW owed, Sound(s, cmds, 0, owed), NEW what, NEW x
    PROVE  Leaves(cmds, Begins(s, what, x), owed)
  <1> DEFINE some == <<[cmd |-> "Fetch", view |-> Top(s).id, what |-> what, of |-> x.name]>>
  <1>1. Begins(s, what, x) = Pair(s, <<>>) \/ Begins(s, what, x) = Pair(s, some)
    BY DEF Begins
  <1>2. Leaves(cmds, Pair(s, some), owed) /\ Leaves(cmds, Pair(s, <<>>), owed)
    BY FetchLeaves, NothingLeaves
  <1> HIDE DEF some
  <1>3. QED
    BY <1>1, <1>2

\* mutation_key
LEMMA MutationLeaves ==
    ASSUME NEW s, NEW cmds, NEW owed, Sound(s, cmds, 0, owed), NEW k, NEW x, k.key \in MutationKeys(x)
    PROVE  Leaves(cmds, MutationKey(s, k, x), owed)
  <1> DEFINE id == Top(s).id
             d1 == OpenInput(s.dialogs, id, x.name, scene.ready)
             d2 == OpenConfirm(s.dialogs, id, [what |-> IF x.kind = "Node" THEN "Drain" ELSE "Restart", of |-> x.name])
             d3 == OpenConfirm(s.dialogs, id, [what |-> "Trigger", of |-> x.name])
             d4 == OpenDelete(s.dialogs, id, x.name)
             p1 == Pair([s EXCEPT !.dialogs = d1], <<>>)
             p2 == Pair([s EXCEPT !.dialogs = d2], <<>>)
             p3 == Pair([s EXCEPT !.dialogs = d3], <<>>)
             p4 == Pair([s EXCEPT !.dialogs = d4], <<>>)
             p5 == Pair(s, <<Suspend("edit", x.name, None)>>)
             p6 == Pair(s, Mutate(id, "Cordon", x.name))
             p7 == Pair(s, Mutate(id, "Suspend", x.name))
             p8 == Pair(s, Mutate(id, "Delete", x.name))
  <1>1. k.key \in {"e", "ctrl-d", "ctrl-k", "s", "r", "u", "t"} /\ (k.key = "s" => x.kind \in Scalable \/ x.kind = "CronJob")
    BY DEF MutationKeys, Scalable, Restartable
  <1> DEFINE op == MutationKey(s, k, x)
  <1>2. \/ op = Pair(s, <<>>) \/ op = p1 \/ op = p2 \/ op = p3 \/ op = p4
        \/ op = p5 \/ op = p6 \/ op = p7 \/ op = p8
    <2> DEFINE p0 == Pair(s, <<>>)
    <2>1. op = CASE scene.readonly -> p0
                 [] ~scene.readonly /\ k.key = "e" -> p5
                 [] ~scene.readonly /\ k.key = "s" /\ x.kind \in Scalable -> p1
                 [] ~scene.readonly /\ k.key = "r" -> p2
                 [] ~scene.readonly /\ k.key = "t" -> p3
                 [] ~scene.readonly /\ k.key = "u" -> p6
                 [] ~scene.readonly /\ k.key = "s" /\ x.kind = "CronJob" -> p7
                 [] ~scene.readonly /\ k.key = "ctrl-d" -> p4
                 [] ~scene.readonly /\ k.key = "ctrl-k" -> p8
      BY Zenon DEF MutationKey
    <2> HIDE DEF op, p0, p1, p2, p3, p4, p5, p6, p7, p8
    <2>2. op = p0 \/ op = p1 \/ op = p2 \/ op = p3 \/ op = p4 \/ op = p5 \/ op = p6 \/ op = p7 \/ op = p8
      <3> DEFINE key == k.key
                 kind == x.kind
                 ro == scene.readonly
      <3>1. CASE ro
        BY <2>1, <3>1
      <3>2. CASE ~ro /\ key # "s"
        <4> HIDE DEF kind
        <4>1. key \in {"e", "ctrl-d", "ctrl-k", "r", "u", "t"}
          BY <1>1, <3>2
        <4>2. QED
          BY <2>1, <3>2, <4>1
      <3>3. CASE ~ro /\ key = "s"
        <4>1. kind \in Scalable \/ kind = "CronJob"
          BY <1>1, <3>3
        <4>2. QED
          BY <2>1, <3>3, <4>1
      <3>4. QED
        BY <3>1, <3>2, <3>3
    <2>3. QED
      BY <2>2 DEF p0
  <1>3. Leaves(cmds, p1, owed) /\ Leaves(cmds, p2, owed) /\ Leaves(cmds, p3, owed) /\ Leaves(cmds, p4, owed)
    <2>1. /\ DOMAIN d1 = DOMAIN s.dialogs /\ DOMAIN d2 = DOMAIN s.dialogs
          /\ DOMAIN d3 = DOMAIN s.dialogs /\ DOMAIN d4 = DOMAIN s.dialogs
      <3>1. /\ \A y, z, a : DOMAIN OpenInput(s.dialogs, y, z, a) = DOMAIN s.dialogs
            /\ \A y, z : DOMAIN OpenConfirm(s.dialogs, y, z) = DOMAIN s.dialogs
            /\ \A y, z : DOMAIN OpenDelete(s.dialogs, y, z) = DOMAIN s.dialogs
        BY DialogsKeep
      <3>2. QED
        BY <3>1, Zenon
    <2> HIDE DEF d1, d2, d3, d4
    <2>2. \A d : DOMAIN d = DOMAIN s.dialogs => Leaves(cmds, Pair([s EXCEPT !.dialogs = d], <<>>), owed)
      BY DialogsLeaves
    <2>3. QED
      BY <2>1, <2>2
  <1>4. Leaves(cmds, p5, owed) /\ Leaves(cmds, p6, owed) /\ Leaves(cmds, p7, owed) /\ Leaves(cmds, p8, owed)
    <2> HIDE DEF id
    <2>1. QED
      BY FetchLeaves
  <1> HIDE DEF op, p1, p2, p3, p4, p5, p6, p7, p8
  <1>5. QED
    BY <1>2, <1>3, <1>4, NothingLeaves DEF op

\* A key that acts on a row.
LEMMA RowLeaves ==
    ASSUME NEW s, Sound(s, <<>>, 0, Settled), scene \in Scenes, NEW k, NEW v, NEW x, k.key \in RowKeys(v, x)
    PROVE  Leaves(<<>>, RowKey(s, k, x), Settled)
  <1> DEFINE none == <<>>
             what == IF k.key = "d" THEN "Describe" ELSE "Yaml"
             p1 == PushAsking(s, NewText(s.next, x.name, what), what, x.name)
             p2 == OpenLogs(s, x, k.key = "L", k.key = "p")
             p3 == IF x.ns = None THEN Pair(s, <<>>) ELSE SetNamespace(s, x.ns)
             p4 == Pair(s, <<[cmd |-> "Fetch", view |-> Top(s).id, what |-> "Owner", of |-> x.name]>>)
             p5 == OpenKindFiltered(s, "ReplicaSet", x.ns, [labels |-> None, names |-> {x.name}])
             p6 == Pair(s, <<[cmd |-> "SaveResource", of |-> x.name]>>)
             p7 == Begins(s, "attach", x)
             p8 == OpenEnter(s, x)
             p9 == PushView(s, NewValues(s.next, x.name, x.kind = "Secret"))
             ports == IF x.kind = "Pod" THEN "ForwardPorts" ELSE "ServicePorts"
             p10 == Begins(s, ports, x)
             p11 == PushView(s, NewForwards(s.next))
             p12 == Begins(s, "exec", x)
             p13 == PushAsking(s, NewRollout(s.next, x), "RolloutHistory", x)
             p14 == MutationKey(s, k, x)
             p0 == Pair(s, <<>>)
             op == RowKey(s, k, x)
             key == k.key
             kind == x.kind
  <1>1. op = CASE key \in {"d", "y"} -> p1
               [] key \in {"l", "L", "p"} -> p2
               [] key = "c" \/ key = "n" -> p0
               [] key = "w" -> p3
               [] key = "J" -> p4
               [] key = "z" -> p5
               [] key = "ctrl-s" -> p6
               [] key = "a" -> p7
               [] key = "enter" -> p8
               [] key = "x" -> p9
               [] key = "F" -> p10
               [] key = "f" -> p11
               [] key = "s" /\ kind = "Pod" -> p12
               [] key = "h" -> p13
               [] OTHER -> p14
    BY Zenon DEF RowKey
  <1>2. key = "z" \/ key # "z"
    OBVIOUS
  <1>3. Sound(s, none, 0, Settled)
    OBVIOUS
  <1>4. Leaves(none, p0, Settled)
    <2> HIDE DEF none
    <2>1. QED
      BY <1>3, NothingLeaves
  <1>5. Leaves(none, p1, Settled)
    <2> DEFINE y == NewText(s.next, x.name, what)
    <2> HIDE DEF none, what
    <2>1. IsNew(s, y)
      BY ListNew
    <2> HIDE DEF y
    <2>2. Leaves(none, PushAsking(s, y, what, x.name), Settled)
      BY <1>3, <2>1, AskingLeaves
    <2>3. QED
      BY <2>2 DEF y
  <1>6. Leaves(none, p2, Settled)
    <2> DEFINE a == key = "L"
               b == key = "p"
    <2> HIDE DEF none, a, b
    <2>1. Leaves(none, OpenLogs(s, x, a, b), Settled)
      BY <1>3, OpenLogsLeaves
    <2>2. QED
      BY <2>1 DEF a, b
  <1>7. Leaves(none, p3, Settled)
    <2> HIDE DEF none
    <2>1. Leaves(none, SetNamespace(s, x.ns), Settled)
      BY <1>3, SetNamespaceLeaves
    <2>2. QED
      BY <1>4, <2>1
  <1>8. Leaves(none, p4, Settled) /\ Leaves(none, p6, Settled)
    <2> DEFINE id == Top(s).id
               name == x.name
    <2> HIDE DEF none, id, name
    <2>1. /\ Leaves(none, Pair(s, <<[cmd |-> "Fetch", view |-> id, what |-> "Owner", of |-> name]>>), Settled)
          /\ Leaves(none, Pair(s, <<[cmd |-> "SaveResource", of |-> name]>>), Settled)
      BY <1>3, FetchLeaves
    <2>2. QED
      BY <2>1 DEF id, name
  <1>9. key = "z" => Leaves(none, p5, Settled)
    <2> DEFINE f == [labels |-> None, names |-> {x.name}]
    <2>1. IsFilter(f)
      BY DEF IsFilter
    <2> HIDE DEF f
    <2>2. key = "z" => Leaves(<<>>, OpenKindFiltered(s, "ReplicaSet", x.ns, f), Settled)
      BY <2>1, OpenFilteredLeaves
    <2>3. QED
      BY <2>2 DEF f
  <1>10. Leaves(none, p7, Settled) /\ Leaves(none, p10, Settled) /\ Leaves(none, p12, Settled)
    <2> HIDE DEF none, ports
    <2>1. QED
      BY <1>3, BeginsLeaves
  <1>11. Leaves(none, p8, Settled)
    <2> HIDE DEF none
    <2>1. QED
      BY <1>3, OpenEnterLeaves
  <1>12. Leaves(none, p9, Settled) /\ Leaves(none, p11, Settled)
    <2> DEFINE b == x.kind = "Secret"
               y == NewValues(s.next, x.name, b)
               z == NewForwards(s.next)
    <2> HIDE DEF none, b
    <2>1. IsNew(s, y) /\ IsNew(s, z)
      BY ListNew
    <2> HIDE DEF y, z
    <2>2. Leaves(none, PushView(s, y), Settled) /\ Leaves(none, PushView(s, z), Settled)
      BY <1>3, <2>1, PushLeaves
    <2>3. QED
      BY <2>2 DEF y, z, b
  <1>13. Leaves(none, p13, Settled)
    <2> DEFINE y == NewRollout(s.next, x)
    <2> HIDE DEF none
    <2>1. IsNew(s, y)
      BY ListNew
    <2> HIDE DEF y
    <2>2. Leaves(none, PushAsking(s, y, "RolloutHistory", x), Settled)
      BY <1>3, <2>1, AskingLeaves
    <2>3. QED
      BY <2>2 DEF y
  <1>14. key \in MutationKeys(x) => Leaves(none, p14, Settled)
    <2> HIDE DEF none
    <2>1. QED
      BY <1>3, MutationLeaves
  <1>15. \/ key \in {"d", "y", "l", "L", "p", "c", "n", "w", "J", "ctrl-s", "f", "enter", "z", "a", "F", "x", "h"}
         \/ key = "s" /\ kind = "Pod"
         \/ key \in MutationKeys(x)
    BY DEF RowKeys
  <1> HIDE DEF none, p0, p1, p2, p3, p4, p5, p6, p7, p8, p9, p10, p11, p12, p13, p14, op
  <1>16. \/ op = p0 \/ op = p1 \/ op = p2 \/ op = p3 \/ op = p4 \/ (key = "z" /\ op = p5) \/ op = p6 \/ op = p7
         \/ op = p8 \/ op = p9 \/ op = p10 \/ op = p11 \/ op = p12 \/ op = p13 \/ (key \in MutationKeys(x) /\ op = p14)
    <2> DEFINE M == key \in MutationKeys(x)
               pod == kind = "Pod"
    <2> HIDE DEF key, M, pod
    <2>1. op = CASE key \in {"d", "y"} -> p1
               [] key \in {"l", "L", "p"} -> p2
               [] key = "c" \/ key = "n" -> p0
               [] key = "w" -> p3
               [] key = "J" -> p4
               [] key = "z" -> p5
               [] key = "ctrl-s" -> p6
               [] key = "a" -> p7
               [] key = "enter" -> p8
               [] key = "x" -> p9
               [] key = "F" -> p10
               [] key = "f" -> p11
               [] key = "s" /\ pod -> p12
               [] key = "h" -> p13
               [] OTHER -> p14
      BY <1>1 DEF pod
    <2>2. \/ key \in {"d", "y", "l", "L", "p", "c", "n", "w", "J", "ctrl-s", "f", "enter", "z", "a", "F", "x", "h"}
          \/ key = "s" /\ pod
          \/ M
      BY <1>15 DEF M, pod
    <2>3. \/ op = p0 \/ op = p1 \/ op = p2 \/ op = p3 \/ op = p4 \/ (key = "z" /\ op = p5) \/ op = p6 \/ op = p7
          \/ op = p8 \/ op = p9 \/ op = p10 \/ op = p11 \/ op = p12 \/ op = p13 \/ (M /\ op = p14)
      BY <2>1, <2>2
    <2>4. QED
      BY <2>3 DEF M
  <1>17. Leaves(none, op, Settled)
    BY <1>4, <1>5, <1>6, <1>7, <1>8, <1>9, <1>10, <1>11, <1>12, <1>13, <1>14, <1>16
  <1>18. QED
    BY <1>17 DEF none, op

-----------------------------------------------------------------------------
(* Keys of the app *)

\* esc_cascade
LEMMA EscLeaves ==
    ASSUME NEW s, NEW cmds, Sound(s, cmds, 0, Settled)
    PROVE  Leaves(cmds, EscCascade(s), Settled)
  <1> DEFINE did == SetViewFilter(Top(s), NoFilter)
             filtered == s.views # <<>> /\ ~Unfiltered(Top(s))
  <1>1. EscCascade(s) = IF filtered THEN WithTop(s, did) ELSE Pair(PopView(s), <<>>)
    BY DEF EscCascade
  <1>2. ASSUME filtered PROVE Leaves(cmds, WithTop(s, did), Settled)
    <2>1. s.views # <<>> /\ IsView(Top(s))
      BY <1>2, TopIs
    <2>2. Goes(Top(s), did, Ns(s))
      BY <2>1, SetViewFilterGoes, NoFilterIs
    <2> HIDE DEF did
    <2>3. QED
      BY <2>1, <2>2, TopLeaves
  <1>3. Leaves(cmds, Pair(PopView(s), <<>>), Settled)
    <2> DEFINE u == PopView(s)
    <2>1. Sound(u, cmds, 0, Settled)
      BY PopSound
    <2> HIDE DEF u
    <2>2. Leaves(cmds, Pair(u, <<>>), Settled)
      BY <2>1, NothingLeaves
    <2>3. QED
      BY <2>2 DEF u
  <1> HIDE DEF filtered, did
  <1>4. QED
    BY <1>1, <1>2, <1>3

\* favorite_key
LEMMA FavoriteLeaves ==
    ASSUME NEW s, NEW cmds, Sound(s, cmds, 0, Settled), scene \in Scenes, NEW n
    PROVE  Leaves(cmds, FavoriteKey(s, n), Settled)
  <1> DEFINE ns == IF n = 0 THEN None ELSE s.shown.favorites[n]
  <1>1. FavoriteKey(s, n) = SetNamespace(s, ns) \/ FavoriteKey(s, n) = Pair(s, <<>>)
    BY DEF FavoriteKey
  <1> HIDE DEF ns
  <1>2. QED
    BY <1>1, SetNamespaceLeaves, NothingLeaves

\* toggle_fullscreen, of a view that fills the screen
LEMMA FullScreenLeaves ==
    ASSUME NEW s, NEW cmds, Sound(s, cmds, 0, Settled), Fills(s)
    PROVE  Leaves(cmds, FullScreenKey(s), Settled)
  <1> DEFINE v == Top(s)
             on == ~v.full
             w == [v EXCEPT !.full = on]
             did == Kept(w, <<>>)
             n == Len(s.views)
             u == Puts(s, n, w)
             z == [u EXCEPT !.full = on]
  <1>1. s.views # <<>> /\ v.kind \in {"logs", "text"}
    BY DEF Fills
  <1>2. n \in DOMAIN s.views /\ v = s.views[n] /\ IsView(v)
    BY <1>1, TopIs
  <1> HIDE DEF v, on
  <1>3. Keeps(v, w, {"kind", "id"}) /\ DOMAIN w = DOMAIN v /\ w.filter = v.filter /\ w.targets = v.targets /\ w.handles = v.handles
    BY DEF Keeps
  <1> HIDE DEF w
  <1>4. Goes(v, did, Ns(s))
    <2>1. CASE v.kind = "logs"
      <3>1. IsSeq(w.targets) /\ IsSeq(w.handles)
        BY <1>2, <1>3, <2>1 DEF IsView, WantsFilter, IsLogs
      <3>2. QED
        BY <1>2, <1>3, <2>1, <3>1, LogsGoes, PlainNone
    <2>2. CASE v.kind = "text"
      BY <1>2, <1>3, <2>2, ListGoes, PlainNone
    <2>3. QED
      BY <1>1, <2>1, <2>2
  <1>5. did.view = w /\ did.cmds = <<>>
    BY DEF Kept
  <1> HIDE DEF did
  <1>6. FullScreenKey(s) = Pair(z, <<>>)
    <2>1. FullScreenKey(s) = Pair([s EXCEPT !.views[n].full = on, !.full = on], <<>>)
      BY DEF FullScreenKey, on, v
    <2>2. [s EXCEPT !.views[n].full = on, !.full = on] = [[s EXCEPT !.views[n].full = on] EXCEPT !.full = on]
      OBVIOUS
    <2>3. [s EXCEPT !.views[n].full = on] = [s EXCEPT !.views[n] = [s.views[n] EXCEPT !.full = on]]
      OBVIOUS
    <2>4. [s.views[n] EXCEPT !.full = on] = w
      BY <1>2 DEF w
    <2>5. QED
      BY <2>1, <2>2, <2>3, <2>4 DEF Puts
  <1> HIDE DEF n
  <1>7. Goes(s.views[n], did, Ns(s)) /\ u = Puts(s, n, did.view)
    BY <1>2, <1>4, <1>5
  <1> HIDE DEF u
  <1>8. Sound(u, cmds \o did.cmds, 0, Settled)
    BY <1>2, <1>7, OneSound
  <1>9. Sound(u, cmds, 0, Settled)
    BY <1>5, <1>8, SoundSeq, ConcatEmpty
  <1>10. DOMAIN z = DOMAIN u /\ z.dialogs = u.dialogs /\ \A f \in Core : z[f] = u[f]
    BY DEF Core
  <1> HIDE DEF z
  <1>11. Sound(z, cmds, 0, Settled)
    BY <1>9, <1>10, CoreSound
  <1>12. QED
    BY <1>6, <1>11, NothingLeaves

\* toggle_faults
LEMMA FaultsLeaves ==
    ASSUME NEW s, NEW cmds, Sound(s, cmds, 0, Settled)
    PROVE  Leaves(cmds, FaultsKey(s), Settled)
  <1> DEFINE can == s.views # <<>> /\ Kinds(Top(s)) = "table" /\ Top(s).shows # "Event"
             v == Top(s)
             w == ToggleFaults(v)
             did == Kept(w, <<>>)
             n == Len(s.views)
             u == [s EXCEPT !.views[n] = w]
  <1>1. CASE ~can
    <2>1. FaultsKey(s) = Pair(s, <<>>)
      BY <1>1 DEF FaultsKey
    <2>2. QED
      BY <2>1, NothingLeaves
  <1>2. CASE can
    <2>1. n \in DOMAIN s.views /\ v = s.views[n] /\ IsView(v) /\ v.kind = "table"
      BY <1>2, TopIs, KindsAre
    <2>2. FaultsKey(s) = Pair([s EXCEPT !.views[n] = ToggleFaults(s.views[n])], <<>>)
      BY <1>2 DEF FaultsKey
    <2> HIDE DEF v, n
    <2>3. FaultsKey(s) = Pair(u, <<>>)
      BY <2>1, <2>2
    <2>4. Goes(v, did, Ns(s))
      BY <2>1, FaultsGoes
    <2>5. did.view = w /\ did.cmds = <<>>
      BY DEF Kept
    <2> HIDE DEF w, did
    <2>6. Goes(s.views[n], did, Ns(s)) /\ u = Puts(s, n, did.view)
      BY <2>1, <2>4, <2>5 DEF Puts
    <2> HIDE DEF u
    <2>7. Sound(u, cmds \o did.cmds, 0, Settled)
      BY <2>1, <2>6, OneSound
    <2>8. Sound(u, cmds, 0, Settled)
      BY <2>5, <2>7, SoundSeq, ConcatEmpty
    <2>9. QED
      BY <2>3, <2>8, NothingLeaves
  <1>3. QED
    BY <1>1, <1>2

\* The keys that handle_key leaves to the app
LEMMA GlobalDone ==
    ASSUME NEW s, Sound(s, <<>>, 0, Settled), scene \in Scenes, NEW k, k.key \in GlobalKeys(s)
    PROVE  Done1(<<>>, GlobalKey(s, k))
  <1> DEFINE none == <<>>
             key == k.key
             p1 == Pair([s EXCEPT !.dialogs = OpenPrompt(@, "Command")], <<>>)
             p2 == Pair(IF s.views # <<>> /\ WantsFilter(Top(s))
                        THEN [s EXCEPT !.dialogs = OpenPrompt(@, "Filter")] ELSE s, <<>>)
             p3 == PushView(s, NewHelp(s.next))
             p4 == Pair(s, <<[cmd |-> "Quit"]>>)
             p5 == FullScreenKey(s)
             p6 == CtrlA(s)
             p7 == FaultsKey(s)
             p8 == RepeatCommand(s)
             delta == IF key = "[" THEN -1 ELSE 1
             p9 == StepHistory(s, delta)
             p10 == FavoriteKey(s, k.digit)
             p11 == EscCascade(s)
             op == GlobalKey(s, k)
  <1>1. op = CASE key = ":" -> p1
               [] key = "/" -> p2
               [] key = "?" -> p3
               [] key = "ctrl-c" -> p4
               [] key = "f" -> p5
               [] key = "ctrl-a" -> p6
               [] key = "ctrl-z" -> p7
               [] key = "-" -> p8
               [] key \in {"[", "]"} -> p9
               [] key = "digit" -> p10
               [] key = "esc" -> p11
    BY Zenon DEF GlobalKey
  <1>2. Sound(s, none, 0, Settled)
    OBVIOUS
  <1>3. Leaves(none, p1, Settled) /\ Leaves(none, p2, Settled)
    <2> DEFINE d1 == OpenPrompt(s.dialogs, "Command")
               d2 == OpenPrompt(s.dialogs, "Filter")
    <2>1. p1 = Pair([s EXCEPT !.dialogs = d1], <<>>)
      OBVIOUS
    <2>2. p2 = Pair([s EXCEPT !.dialogs = d2], <<>>) \/ p2 = Pair(s, <<>>)
      OBVIOUS
    <2>5. DOMAIN d1 = DOMAIN s.dialogs /\ DOMAIN d2 = DOMAIN s.dialogs
      BY DialogsKeep
    <2> HIDE DEF none, d1, d2, p1, p2
    <2>3. /\ Leaves(none, Pair([s EXCEPT !.dialogs = d1], <<>>), Settled)
          /\ Leaves(none, Pair([s EXCEPT !.dialogs = d2], <<>>), Settled)
          /\ Leaves(none, Pair(s, <<>>), Settled)
      BY <1>2, <2>5, DialogsLeaves, NothingLeaves
    <2>4. QED
      BY <2>1, <2>2, <2>3
  <1>4. Leaves(none, p3, Settled) /\ Leaves(none, p6, Settled)
    <2> DEFINE x == SetToSeq(scene.kinds)
               v == NewHelp(s.next)
               w == NewAliases(s.next, x)
    <2>0. p6 = PushView(s, w)
      BY DEF CtrlA
    <2> HIDE DEF x
    <2>1. IsNew(s, v) /\ IsNew(s, w)
      BY ListNew
    <2> HIDE DEF none, v, w
    <2>2. Leaves(none, PushView(s, v), Settled) /\ Leaves(none, PushView(s, w), Settled)
      BY <1>2, <2>1, PushLeaves
    <2>3. QED
      BY <2>0, <2>2 DEF v
  <1>5. Sound(p4.t, none, 0, Settled) /\ p4.cmds = <<Quits>>
    BY PairIs DEF Quits
  <1>6. key = "f" => Leaves(none, p5, Settled)
    <2>1. key = "f" => Fills(s)
      BY DEF GlobalKeys
    <2> HIDE DEF none
    <2>2. QED
      BY <1>2, <2>1, FullScreenLeaves
  <1>7. Leaves(none, p7, Settled) /\ Leaves(none, p10, Settled) /\ Leaves(none, p11, Settled)
    <2> DEFINE n == k.digit
    <2> HIDE DEF none, n
    <2>1. Leaves(none, FavoriteKey(s, n), Settled)
      BY <1>2, FavoriteLeaves
    <2>2. Leaves(none, p7, Settled) /\ Leaves(none, p11, Settled)
      BY <1>2, FaultsLeaves, EscLeaves
    <2>3. QED
      BY <2>1, <2>2 DEF n
  <1>8. Done1(none, p8) /\ Done1(none, p9)
    <2>1. delta \in Int
      OBVIOUS
    <2> HIDE DEF none, delta
    <2>2. QED
      BY <1>2, <2>1, RepeatDone, StepDone
  <1>9. key \in {":", "/", "?", "ctrl-c", "ctrl-a", "ctrl-z", "[", "]", "f", "-", "digit", "esc"}
    BY DEF GlobalKeys
  <1> HIDE DEF none, p1, p2, p3, p4, p5, p6, p7, p8, p9, p10, p11, op
  <1>10. \/ op = p1 \/ op = p2 \/ op = p3 \/ op = p4 \/ (key = "f" /\ op = p5) \/ op = p6 \/ op = p7 \/ op = p8
         \/ op = p9 \/ op = p10 \/ op = p11
    BY <1>1, <1>9
  <1>11. Done1(none, op)
    BY <1>3, <1>4, <1>5, <1>6, <1>7, <1>8, <1>10 DEF Done1
  <1>12. QED
    BY <1>11 DEF none, op

-----------------------------------------------------------------------------
(* Keys while a dialog has them *)

\* The keys of the confirm dialog.
LEMMA ConfirmLeaves ==
    ASSUME NEW s, NEW cmds, Sound(s, cmds, 0, Settled), NEW k
    PROVE  Leaves(cmds, ConfirmKey(s, k), Settled)
  <1> DEFINE view == s.dialogs.confirm.view
             what == s.dialogs.confirm.action.what
             of == s.dialogs.confirm.action.of
             d == CloseModals(s.dialogs)
             u == [s EXCEPT !.dialogs = d]
  <1>1. \/ ConfirmKey(s, k) = Pair(u, Mutate(view, what, of))
        \/ ConfirmKey(s, k) = Pair(u, <<>>)
        \/ ConfirmKey(s, k) = Pair(s, <<>>)
    <2>1. Close(s) = u
      BY DEF Close
    <2> HIDE DEF u
    <2>2. QED
      BY <2>1, Zenon DEF ConfirmKey
  <1>5. DOMAIN d = DOMAIN s.dialogs
    BY DialogsKeep DEF Sound, Shaped
  <1> HIDE DEF d, view, what, of
  <1>2. Sound(u, cmds, 0, Settled)
    BY <1>5, DialogsSound
  <1> HIDE DEF u
  <1>3. Leaves(cmds, Pair(u, Mutate(view, what, of)), Settled)
    BY <1>2, FetchLeaves
  <1>4. QED
    BY <1>1, <1>2, <1>3, NothingLeaves

\* The keys of the input dialog.
LEMMA InputLeaves ==
    ASSUME NEW s, NEW cmds, Sound(s, cmds, 0, Settled), NEW k
    PROVE  Leaves(cmds, InputKey(s, k), Settled)
  <1> DEFINE view == s.dialogs.input.view
             name == s.dialogs.input.name
             fits == IsReplicas(s.dialogs.input.value)
             d == CloseModals(s.dialogs)
             e == InputEdit(s.dialogs, k)
             u == [s EXCEPT !.dialogs = d]
             w == [s EXCEPT !.dialogs = e]
  <1>1. \/ InputKey(s, k) = Pair(u, IF fits THEN Mutate(view, "Scale", name) ELSE <<>>)
        \/ InputKey(s, k) = Pair(u, <<>>)
        \/ InputKey(s, k) = Pair(w, <<>>)
    <2>1. Close(s) = u
      BY DEF Close
    <2> HIDE DEF u
    <2>2. QED
      BY <2>1, Zenon DEF InputKey
  <1>6. DOMAIN d = DOMAIN s.dialogs /\ DOMAIN e = DOMAIN s.dialogs
    BY DialogsKeep DEF Sound, Shaped
  <1> HIDE DEF d, e, view, name, fits
  <1>2. Sound(u, cmds, 0, Settled) /\ Sound(w, cmds, 0, Settled)
    BY <1>6, DialogsSound
  <1> HIDE DEF u, w
  <1>3. Leaves(cmds, Pair(u, Mutate(view, "Scale", name)), Settled)
    BY <1>2, FetchLeaves
  <1>4. Leaves(cmds, Pair(u, <<>>), Settled) /\ Leaves(cmds, Pair(w, <<>>), Settled)
    BY <1>2, NothingLeaves
  <1>5. QED
    BY <1>1, <1>3, <1>4

\* The keys of the delete dialog.
LEMMA DeleteLeaves ==
    ASSUME NEW s, NEW cmds, Sound(s, cmds, 0, Settled), NEW k
    PROVE  Leaves(cmds, DeleteKey(s, k), Settled)
  <1> DEFINE view == s.dialogs.delete.view
             name == s.dialogs.delete.name
             d == CloseModals(s.dialogs)
             e == DeleteEdit(s.dialogs, k)
             f == [s.dialogs EXCEPT !.delete = None]
             u == [s EXCEPT !.dialogs = d]
             w == [s EXCEPT !.dialogs = e]
             x == [s EXCEPT !.dialogs = f]
  <1>1. \/ DeleteKey(s, k) = Pair(x, Mutate(view, "Delete", name))
        \/ DeleteKey(s, k) = Pair(u, <<>>)
        \/ DeleteKey(s, k) = Pair(w, <<>>)
    <2>1. Close(s) = u
      BY DEF Close
    <2>2. [s EXCEPT !.dialogs.delete = None] = x
      OBVIOUS
    <2> HIDE DEF u, x
    <2>3. QED
      BY <2>1, <2>2, Zenon DEF DeleteKey
  <1>6. DOMAIN d = DOMAIN s.dialogs /\ DOMAIN e = DOMAIN s.dialogs /\ DOMAIN f = DOMAIN s.dialogs
    BY DialogsKeep DEF Sound, Shaped
  <1> HIDE DEF d, e, f, view, name
  <1>2. Sound(u, cmds, 0, Settled) /\ Sound(w, cmds, 0, Settled) /\ Sound(x, cmds, 0, Settled)
    BY <1>6, DialogsSound
  <1> HIDE DEF u, w, x
  <1>3. Leaves(cmds, Pair(x, Mutate(view, "Delete", name)), Settled)
    BY <1>2, FetchLeaves
  <1>4. Leaves(cmds, Pair(u, <<>>), Settled) /\ Leaves(cmds, Pair(w, <<>>), Settled)
    BY <1>2, NothingLeaves
  <1>5. QED
    BY <1>1, <1>3, <1>4

\* A message for one view.
LEMMA RouteLeaves ==
    ASSUME NEW s, NEW cmds, NEW owed, Sound(s, cmds, 0, owed), NEW id, NEW m, m.msg = "Fetched" => Lists(m.answer)
    PROVE  Leaves(cmds, Route(s, id, m), owed)
  BY RouteSound DEF Leaves

\* The keys of the pick dialog.
LEMMA PickLeaves ==
    ASSUME NEW s, NEW cmds, Sound(s, cmds, 0, Settled), NEW k
    PROVE  Leaves(cmds, PickKey(s, k), Settled)
  <1> DEFINE view == s.dialogs.pick.view
             choice == IF k.key = "enter" THEN Choice(s.dialogs) ELSE None
             m == [msg |-> "Picked", choice |-> choice]
             e == PickEdit(s.dialogs, k)
             f == [s.dialogs EXCEPT !.pick = None]
             w == [s EXCEPT !.dialogs = e]
             x == [s EXCEPT !.dialogs = f]
  <1>1. PickKey(s, k) = Route(x, view, m) \/ PickKey(s, k) = Pair(w, <<>>)
    <2>1. [s EXCEPT !.dialogs.pick = None] = x
      OBVIOUS
    <2> HIDE DEF x
    <2>2. QED
      BY <2>1 DEF PickKey
  <1>5. DOMAIN e = DOMAIN s.dialogs /\ DOMAIN f = DOMAIN s.dialogs
    BY DialogsKeep
  <1> HIDE DEF e, f, view, choice
  <1>2. Sound(w, cmds, 0, Settled) /\ Sound(x, cmds, 0, Settled)
    BY <1>5, DialogsSound
  <1>3. m.msg # "Fetched"
    OBVIOUS
  <1> HIDE DEF w, x, m
  <1>4. QED
    BY <1>1, <1>2, <1>3, NothingLeaves, RouteLeaves

\* prompt_key: filters and commands.
LEMMA PromptDone ==
    ASSUME NEW s, Sound(s, <<>>, 0, Settled), scene \in Scenes, NEW k \in scene.keys
    PROVE  Done1(<<>>, PromptKey(s, k))
  <1> DEFINE none == <<>>
             f == [s.dialogs EXCEPT !.prompt = None]
             u == [s EXCEPT !.dialogs = f]
             did == SetViewFilter(Top(u), k.text)
             key == k.key
             for == s.dialogs.prompt
             op == PromptKey(s, k)
             p1 == HandleCommand(RememberCommand(u, k.text), k.text)
             p2 == IF u.views = <<>> THEN Pair(u, <<>>) ELSE WithTop(u, did)
  <1>1. op = CASE key = "esc" -> Pair(u, <<>>)
               [] key = "command" /\ for = "Command" -> p1
               [] key = "filter" /\ for = "Filter" -> p2
               [] OTHER -> Pair(s, <<>>)
    <2>1. [s EXCEPT !.dialogs.prompt = None] = u
      OBVIOUS
    <2> HIDE DEF u
    <2>2. QED
      BY <2>1, Zenon DEF PromptKey, OnTop
  <1>2. Sound(s, none, 0, Settled)
    OBVIOUS
  <1>10. DOMAIN f = DOMAIN s.dialogs
    OBVIOUS
  <1> HIDE DEF f, none
  <1>3. Sound(u, none, 0, Settled)
    BY <1>2, <1>10, DialogsSound
  <1> HIDE DEF u
  <1>4. Done1(none, Pair(u, <<>>)) /\ Done1(none, Pair(s, <<>>))
    BY <1>2, <1>3, NothingLeaves DEF Done1
  <1>5. key = "command" => Done1(none, p1)
    <2> DEFINE c == k.text
               w == RememberCommand(u, c)
    <2>1. key = "command" => IsCommand(c)
      BY SceneHas
    <2> HIDE DEF c
    <2>2. IsCommand(c) => Sound(w, none, 0, Settled)
      BY <1>3, RememberCommandSound
    <2> HIDE DEF w
    <2>3. IsCommand(c) => Done1(none, HandleCommand(w, c))
      BY <2>2, CommandDone
    <2>4. QED
      BY <2>1, <2>3 DEF w, c
  <1>6. key = "filter" => Done1(none, p2)
    <2> DEFINE x == k.text
    <2>1. key = "filter" => IsFilter(x)
      BY SceneHas
    <2>2. did = SetViewFilter(Top(u), x)
      OBVIOUS
    <2> HIDE DEF x, did
    <2>3. IsFilter(x) /\ u.views # <<>> => IsView(Top(u))
      BY <1>3, TopIs
    <2>4. IsFilter(x) /\ u.views # <<>> => Goes(Top(u), did, Ns(u))
      BY <2>2, <2>3, SetViewFilterGoes
    <2>5. IsFilter(x) /\ u.views # <<>> => Leaves(none, WithTop(u, did), Settled)
      BY <1>3, <2>4, TopLeaves
    <2>6. QED
      BY <1>4, <2>1, <2>5 DEF Done1
  <1> HIDE DEF p1, p2, op
  <1>7. op = Pair(u, <<>>) \/ op = Pair(s, <<>>) \/ (key = "command" /\ op = p1) \/ (key = "filter" /\ op = p2)
    BY <1>1
  <1>8. Done1(none, op)
    BY <1>4, <1>5, <1>6, <1>7
  <1>9. QED
    BY <1>8 DEF none, op

-----------------------------------------------------------------------------
(* handle_key *)

\* What a view leads to: another namespace, another kind
Opens(p) ==
    /\ Sound(p.t, <<>>, 0, Settled)
    /\ \/ \E ns : p.cmds = <<[cmd |-> "SwitchNamespace", ns |-> ns], [cmd |-> "PopView"]>>
       \/ \E kind : p.cmds = <<[cmd |-> "OpenKind", kind |-> kind]>>

\* What is left to the view on top
ViewGets(s, k) == IF s.views = <<>> THEN Pair(s, <<>>) ELSE WithTop(s, ViewKey(Top(s), k))

\* The view on top has the key.
LEMMA ViewKeyDone ==
    ASSUME NEW s, Sound(s, <<>>, 0, Settled), NEW k
    PROVE  Done1(<<>>, ViewGets(s, k)) \/ Opens(ViewGets(s, k))
  <1> DEFINE none == <<>>
             v == Top(s)
             did == ViewKey(v, k)
             op == ViewGets(s, k)
  <1>1. op = IF s.views = <<>> THEN Pair(s, none) ELSE WithTop(s, did)
    BY DEF ViewGets
  <1>2. Sound(s, none, 0, Settled)
    OBVIOUS
  <1>3. CASE s.views = <<>>
    <2> HIDE DEF did, op
    <2>1. Leaves(<<>>, Pair(s, <<>>), Settled)
      BY NothingLeaves
    <2>2. QED
      BY <1>1, <1>3, <2>1 DEF Done1, op
  <1>4. CASE s.views # <<>>
    <2>1. Len(s.views) \in DOMAIN s.views /\ v = s.views[Len(s.views)] /\ IsView(v)
      BY <1>2, <1>4, TopIs
    <2> HIDE DEF v
    <2>2. Goes(v, did, Ns(s)) \/ Leads(v, did)
      BY <2>1, ViewKeyGoes
    <2> HIDE DEF did
    <2>3. CASE Goes(v, did, Ns(s))
      <3>1. Goes(Top(s), did, Ns(s))
        BY <2>3 DEF v
      <3> HIDE DEF none
      <3>2. Leaves(none, WithTop(s, did), Settled)
        BY <1>2, <1>4, <3>1, TopLeaves
      <3> HIDE DEF op
      <3>3. Done1(none, op)
        BY <1>1, <1>4, <3>2 DEF Done1
      <3>4. QED
        BY <3>3 DEF none, op
    <2>4. CASE Leads(v, did)
      <3> DEFINE n == Len(s.views)
                 u == [s EXCEPT !.views[n] = did.view]
      <3>1. WithTop(s, did).t = u /\ WithTop(s, did).cmds = did.cmds
        BY PairIs DEF WithTop
      <3>2. Sound(u, none, 0, Settled)
        <4>1. did.view = s.views[n]
          BY <2>1, <2>4 DEF Leads
        <4>2. DOMAIN s = Fields
          BY DEF Sound, Shaped
        <4>3. IsSeq(s.views) /\ n \in DOMAIN s.views
          BY <2>1 DEF Sound, Shaped, Stack
        <4>4. [s.views EXCEPT ![n] = did.view] = s.views
          BY <4>1, <4>3 DEF IsSeq
        <4>5. u = [s EXCEPT !.views = [s.views EXCEPT ![n] = did.view]]
          OBVIOUS
        <4>6. DOMAIN u = DOMAIN s /\ u.dialogs = s.dialogs /\ \A f \in Core : u[f] = s[f]
          BY <4>2, <4>4, <4>5 DEF Fields, Core
        <4> HIDE DEF u, none
        <4>7. QED
          BY <1>2, <4>6, CoreSound
      <3> DEFINE p == WithTop(s, did)
      <3>3. Sound(p.t, <<>>, 0, Settled) /\ p.cmds = did.cmds
        BY <3>1, <3>2
      <3> HIDE DEF p
      <3>4. Opens(p)
        BY <2>4, <3>3 DEF Opens, Leads
      <3>5. op = p
        BY <1>1, <1>4 DEF p
      <3> HIDE DEF op
      <3>6. Opens(op)
        BY <3>4, <3>5
      <3>7. QED
        BY <3>6 DEF op
    <2>5. QED
      BY <2>2, <2>3, <2>4
  <1>5. QED
    BY <1>3, <1>4

\* handle_key: the dialogs, the app, the row, the view on top
Answers1(p) == Done1(<<>>, p) \/ Opens(p)

\* handle_key, whoever has the key.
LEMMA KeyDone ==
    ASSUME NEW s, Sound(s, <<>>, 0, Settled), scene \in Scenes, NEW k \in scene.keys
    PROVE  Answers1(HandleKey(s, k))
  <1> DEFINE none == <<>>
             has == HasKeys(s.dialogs)
             rows == IF s.views = <<>> THEN {} ELSE {x \in Targets(Top(s)) : k.key \in RowKeys(Top(s), x)}
             row == CHOOSE x \in rows : TRUE
             app == k.key \in GlobalKeys(s)
             p1 == ConfirmKey(s, k)
             p2 == InputKey(s, k)
             p3 == DeleteKey(s, k)
             p4 == PickKey(s, k)
             p5 == PromptKey(s, k)
             p6 == GlobalKey(s, k)
             p7 == RowKey(s, k, row)
             p8 == ViewGets(s, k)
             op == HandleKey(s, k)
             c6 == has = None /\ app
             c7 == has = None /\ ~app /\ rows # {}
  <1>1. op = CASE has = "confirm" -> p1
               [] has = "input" -> p2
               [] has = "delete" -> p3
               [] has = "pick" -> p4
               [] has = "prompt" -> p5
               [] c6 -> p6
               [] c7 -> p7
               [] OTHER -> p8
    BY Zenon DEF HandleKey, OnTop, ViewGets
  <1>2. Sound(s, none, 0, Settled)
    OBVIOUS
  <1>3. Leaves(none, p1, Settled) /\ Leaves(none, p2, Settled) /\ Leaves(none, p3, Settled) /\ Leaves(none, p4, Settled)
    <2> HIDE DEF none
    <2>1. QED
      BY <1>2, ConfirmLeaves, InputLeaves, DeleteLeaves, PickLeaves
  <1>4. Done1(<<>>, p5)
    BY PromptDone
  <1>5. app => Done1(<<>>, p6)
    BY GlobalDone
  <1>6. rows # {} => Leaves(<<>>, p7, Settled)
    <2> DEFINE top == Top(s)
    <2>1. rows # {} => k.key \in RowKeys(top, row)
      OBVIOUS
    <2> HIDE DEF row, rows, top
    <2>2. QED
      BY <2>1, RowLeaves
  <1>7. Done1(<<>>, p8) \/ Opens(p8)
    BY ViewKeyDone
  <1>a. (c6 => app) /\ (c7 => rows # {})
    OBVIOUS
  <1> HIDE DEF c6, c7, has, rows, app, row, p1, p2, p3, p4, p5, p6, p7, p8, op
  <1>8. \/ op = p1 \/ op = p2 \/ op = p3 \/ op = p4 \/ op = p5 \/ (c6 /\ op = p6) \/ (c7 /\ op = p7) \/ op = p8
    BY <1>1
  <1>9. Answers1(op)
    BY <1>3, <1>4, <1>5, <1>6, <1>7, <1>8, <1>a DEF Answers1, Done1
  <1>10. QED
    BY <1>9 DEF op

-----------------------------------------------------------------------------
(* Bags of tasks *)

\* A task more.
LEMMA AddedIs ==
    ASSUME NEW b, NEW x
    PROVE  BagToSet(Tasks!BagAdd(b, x)) = BagToSet(b) \cup {x}
  <1>1. CASE x \in DOMAIN b
    <2>1. Tasks!BagAdd(b, x) = [b EXCEPT ![x] = @ + 1]
      BY <1>1 DEF Tasks!BagAdd
    <2>2. QED
      BY <1>1, <2>1 DEF BagToSet
  <1>2. CASE x \notin DOMAIN b
    <2>1. DOMAIN Tasks!BagAdd(b, x) = DOMAIN b \cup {x}
      BY <1>2 DEF Tasks!BagAdd
    <2>2. QED
      BY <2>1 DEF BagToSet
  <1>3. QED
    BY <1>1, <1>2

\* A task less, of which there may be another one.
LEMMA RemovedTask ==
    ASSUME NEW b, NEW x
    PROVE  /\ BagToSet(Tasks!BagRemove(b, x)) \subseteq BagToSet(b)
           /\ BagToSet(b) \ {x} \subseteq BagToSet(Tasks!BagRemove(b, x))
  BY DEF Tasks!BagRemove, BagToSet

-----------------------------------------------------------------------------
(* The commands that are executed by themselves *)

\* What the execution of c does at most to the state
Touched == {"tasks", "watching", "saved", "config", "dialogs", "forwards", "theme", "did", "dropped"}
Effects(s, u, c) ==
    /\ Same(s, u, Touched)
    /\ BagToSet(s.tasks) \subseteq BagToSet(u.tasks) /\ (c.cmd = "Ping" => c \in BagToSet(u.tasks))
    /\ DOMAIN u.config = DOMAIN s.config /\ u.config.of = s.config.of /\ DOMAIN u.dialogs = DOMAIN s.dialogs
    /\ u.saved = u.config \/ (u.saved = s.saved /\ u.config = s.config)
    /\ c.cmd = "SaveConfig" => u.saved = u.config
    /\ \A d \in s.dropped : d \in u.dropped \/ (d = Save /\ u.saved = u.config) \/ (c.cmd = "Watch" /\ WatchFor(d, c.view))
    /\ c.cmd = "Watch" => /\ c.view \in DOMAIN u.watching /\ u.watching[c.view] = <<c.ns, c.selector>>
                          /\ \A v \in DOMAIN s.watching : v # c.view => v \in DOMAIN u.watching /\ u.watching[v] = s.watching[v]
    /\ c.cmd # "Watch" => u.watching = s.watching

\* A command whose effects are no more than its own is executed.
LEMMA EffectsSound ==
    ASSUME NEW s, NEW cmds, NEW k \in Nat, NEW owed, Sound(s, cmds, k, owed), k + 1 \in DOMAIN cmds,
           NEW u, Effects(s, u, cmds[k + 1])
    PROVE  Sound(u, cmds, k + 1, owed)
  <1> DEFINE c == cmds[k + 1]
  <1>1. /\ u.views = s.views /\ u.next = s.next /\ u.session = s.session /\ u.shown = s.shown
        /\ u.history = s.history /\ u.at = s.at /\ u.pending = s.pending /\ u.quit = s.quit
        /\ DOMAIN u = DOMAIN s /\ DOMAIN u.dialogs = DOMAIN s.dialogs
    BY DEF Effects, Same, Fields, Touched
  <1>2. /\ BagToSet(s.tasks) \subseteq BagToSet(u.tasks) /\ (c.cmd = "Ping" => c \in BagToSet(u.tasks))
        /\ DOMAIN u.config = DOMAIN s.config /\ u.config.of = s.config.of
        /\ u.saved = u.config \/ (u.saved = s.saved /\ u.config = s.config)
        /\ c.cmd = "SaveConfig" => u.saved = u.config
        /\ \A d \in s.dropped : d \in u.dropped \/ (d = Save /\ u.saved = u.config) \/ (c.cmd = "Watch" /\ WatchFor(d, c.view))
    BY DEF Effects
  <1>3. /\ c.cmd = "Watch" => /\ c.view \in DOMAIN u.watching /\ u.watching[c.view] = <<c.ns, c.selector>>
                              /\ \A v \in DOMAIN s.watching : v # c.view => v \in DOMAIN u.watching /\ u.watching[v] = s.watching[v]
        /\ c.cmd # "Watch" => u.watching = s.watching
    BY DEF Effects
  <1>4. IsSeq(cmds) /\ Plain(cmds)
    BY SoundSeq
  <1>5. DOMAIN cmds \subseteq Nat
    BY <1>4, SeqHas
  <1>6. \A j \in DOMAIN cmds : j > k => j = k + 1 \/ j > k + 1
    BY <1>5
  <1>7. \A j \in DOMAIN cmds : j > k + 1 => j > k
    BY <1>5
  <1>8. Shaped(u)
    <2>1. Stack(u) /\ Recalls(u)
      BY <1>1 DEF Sound, Shaped, Stack, Recalls
    <2>2. Remembers(u)
      BY <1>1, <1>2 DEF Sound, Shaped, Remembers
    <2>3. QED
      BY <1>1, <2>1, <2>2 DEF Sound, Shaped
  <1>9. Watched(u, cmds, k + 1)
    <2>1. SUFFICES ASSUME NEW i \in DOMAIN s.views, Live(s.views[i])
                   PROVE  Asks(s.views[i], cmds, k + 1) \/ Has(s.views[i], u, cmds, k + 1)
      BY <1>1 DEF Watched
    <2> DEFINE v == s.views[i]
    <2>2. Asks(v, cmds, k) \/ Has(v, s, cmds, k)
      BY <2>1 DEF Sound, Watched
    <2> HIDE DEF v
    <2>3. CASE Asks(v, cmds, k)
      <3>1. PICK j \in DOMAIN cmds : j > k /\ cmds[j] = Watch(v) /\ \A l \in DOMAIN cmds : l > j => ~WatchFor(cmds[l], v.id)
        BY <2>3 DEF Asks
      <3>2. CASE j = k + 1
        <4>1. c.cmd = "Watch" /\ c.view = v.id /\ <<c.ns, c.selector>> = Shows(v)
          BY <3>1, <3>2 DEF Watch, Shows
        <4> HIDE DEF c
        <4>2. v.id \in DOMAIN u.watching /\ u.watching[v.id] = Shows(v)
          BY <1>3, <4>1
        <4>3. \A l \in DOMAIN cmds : l > k + 1 => ~WatchFor(cmds[l], v.id)
          BY <3>1, <3>2
        <4>4. QED
          BY <4>2, <4>3 DEF Has, v
      <3>3. CASE j > k + 1
        BY <3>1, <3>3 DEF Asks, v
      <3>4. QED
        BY <1>6, <3>1, <3>2, <3>3
    <2>4. CASE Has(v, s, cmds, k)
      <3>1. /\ \A l \in DOMAIN cmds : l > k => ~WatchFor(cmds[l], v.id)
            /\ \/ v.id \in DOMAIN s.watching /\ s.watching[v.id] = Shows(v)
               \/ \E d \in s.dropped : WatchFor(d, v.id)
        BY <2>4 DEF Has
      <3>2. ~WatchFor(c, v.id)
        BY <3>1
      <3>3. \A l \in DOMAIN cmds : l > k + 1 => ~WatchFor(cmds[l], v.id)
        BY <1>7, <3>1
      <3> HIDE DEF c
      <3>4. \/ v.id \in DOMAIN u.watching /\ u.watching[v.id] = Shows(v)
            \/ \E d \in u.dropped : WatchFor(d, v.id)
        BY <1>2, <1>3, <3>1, <3>2 DEF WatchFor, Save
      <3>5. QED
        BY <3>3, <3>4 DEF Has, v
    <2>5. QED
      BY <2>2, <2>3, <2>4 DEF v
  <1>10. Pinging(u, cmds, k + 1, owed.lost)
    <2>1. SUFFICES ASSUME NEW i \in DOMAIN s.views, s.views[i].kind = "contexts", NEW n \in s.views[i].pending
                   PROVE  n \in owed.lost \/ PingOf(n) \in BagToSet(u.tasks)
                             \/ \E j \in DOMAIN cmds : j > k + 1 /\ cmds[j] = PingOf(n)
      BY <1>1 DEF Pinging
    <2>2. n \in owed.lost \/ PingOf(n) \in BagToSet(s.tasks) \/ \E j \in DOMAIN cmds : j > k /\ cmds[j] = PingOf(n)
      BY <2>1 DEF Sound, Pinging
    <2>3. PingOf(n).cmd = "Ping"
      BY DEF PingOf
    <2>4. QED
      BY <1>2, <1>6, <2>2, <2>3
  <1>11. Saves(s, cmds, k) => Saves(u, cmds, k + 1)
    <2>1. Save.cmd = "SaveConfig"
      BY DEF Save
    <2>2. QED
      BY <1>2, <1>6, <2>1 DEF Saves, WatchFor
  <1>12. Current(s) => Current(u)
    BY <1>1, <1>2 DEF Current, Ns
  <1>13. QED
    BY <1>1, <1>4, <1>8, <1>9, <1>10, <1>11, <1>12 DEF Sound

\* What changes one of the parts that the command line and the disk have no part in
Aside == {"dialogs", "forwards", "theme", "did"}

\* Commands that touch dialogs, forwards, the theme or the cluster.
LEMMA AsideEffects ==
    ASSUME NEW s, NEW u, Same(s, u, Aside), DOMAIN u.dialogs = DOMAIN s.dialogs, NEW c, c.cmd \notin {"Ping", "Watch", "SaveConfig"}
    PROVE  Effects(s, u, c)
  <1>1. u.tasks = s.tasks /\ u.config = s.config /\ u.saved = s.saved /\ u.dropped = s.dropped /\ u.watching = s.watching
    BY DEF Same, Fields, Aside
  <1>2. Same(s, u, Touched)
    BY DEF Same, Aside, Touched
  <1>3. QED
    BY <1>1, <1>2 DEF Effects

\* Commands that start a task.
LEMMA StartEffects ==
    ASSUME NEW s, DOMAIN s = Fields, NEW c, c.cmd \notin {"Watch", "SaveConfig"}
    PROVE  Effects(s, Start(s, c), c)
  <1> DEFINE b == Tasks!BagAdd(s.tasks, c)
             u == [s EXCEPT !.tasks = b]
  <1>1. BagToSet(b) = BagToSet(s.tasks) \cup {c}
    BY AddedIs
  <1>2. Start(s, c) = u
    BY Zenon DEF Start
  <1> HIDE DEF b
  <1>3. u.tasks = b /\ u.dialogs = s.dialogs /\ u.config = s.config /\ u.saved = s.saved /\ u.dropped = s.dropped /\ u.watching = s.watching /\ DOMAIN u = DOMAIN s
        /\ \A f \in Fields \ {"tasks"} : u[f] = s[f]
    BY DEF Fields
  <1> HIDE DEF u
  <1>4. Same(s, u, Touched)
    BY <1>3 DEF Same, Touched
  <1>5. Effects(s, u, c)
    BY <1>1, <1>3, <1>4 DEF Effects
  <1>6. QED
    BY <1>2, <1>5

\* The command that starts a watch.
LEMMA WatchEffects ==
    ASSUME NEW s, DOMAIN s = Fields, NEW c, c.cmd = "Watch"
    PROVE  Effects(s, Execute1(s, c), c)
  <1> DEFINE w == [v \in DOMAIN s.watching \cup {c.view} |-> IF v = c.view THEN <<c.ns, c.selector>> ELSE s.watching[v]]
             d == s.dropped \ WatchesOf(c.view, s.dropped)
             u == [s EXCEPT !.watching = w, !.dropped = d]
  <1>1. Execute1(s, c) = u
    BY DEF Execute1
  <1>2. /\ c.view \in DOMAIN w /\ w[c.view] = <<c.ns, c.selector>>
        /\ \A v \in DOMAIN s.watching : v # c.view => v \in DOMAIN w /\ w[v] = s.watching[v]
    OBVIOUS
  <1>a. \A x \in s.dropped : x \in d \/ WatchFor(x, c.view)
    BY DEF WatchesOf, WatchFor
  <1> HIDE DEF w, d
  <1>3. u.watching = w /\ u.dialogs = s.dialogs /\ u.config = s.config /\ u.saved = s.saved /\ u.dropped = d /\ u.tasks = s.tasks /\ DOMAIN u = DOMAIN s
        /\ \A f \in Fields \ {"watching", "dropped"} : u[f] = s[f]
    BY DEF Fields
  <1> HIDE DEF u
  <1>4. Same(s, u, Touched)
    BY <1>3 DEF Same, Touched
  <1>5. Effects(s, u, c)
    BY <1>2, <1>a, <1>3, <1>4 DEF Effects
  <1>6. QED
    BY <1>1, <1>5

\* The commands that write the config.
LEMMA WriteEffects ==
    ASSUME NEW s, DOMAIN s = Fields, DOMAIN s.config = {"theme", "of"}, NEW c, c.cmd \in {"SetTheme", "SaveConfig"}
    PROVE  Effects(s, Execute1(s, c), c)
  <1> DEFINE x == s.config
             d == s.dropped \ {Save}
             u == [s EXCEPT !.saved = x, !.dropped = d]
             y == [s.config EXCEPT !.theme = c.theme]
             w1 == [s EXCEPT !.theme = c.theme, !.config = y]
             w == [w1 EXCEPT !.saved = y, !.dropped = d]
  <1>1. WriteConfig(s) = u
    BY DEF WriteConfig
  <1>2. Execute1(s, c) = u \/ (c.cmd = "SetTheme" /\ Execute1(s, c) = w)
    <2>1. CASE c.cmd = "SaveConfig"
      BY <1>1, <2>1 DEF Execute1
    <2>2. CASE c.cmd = "SetTheme"
      <3>1. Execute1(s, c) = WriteConfig(SetTheme(s, c.theme))
        BY <2>2 DEF Execute1
      <3>2. SetTheme(s, c.theme) = s \/ SetTheme(s, c.theme) = w1
        BY DEF SetTheme
      <3>3. w1.config = y /\ w1.dropped = s.dropped
        BY DEF Fields
      <3>4. WriteConfig(w1) = w
        BY <3>3 DEF WriteConfig
      <3> HIDE DEF w, w1
      <3>5. QED
        BY <1>1, <2>2, <3>1, <3>2, <3>4
    <2>3. QED
      BY <2>1, <2>2
  <1>a. \A z \in s.dropped : z \in d \/ z = Save
    OBVIOUS
  <1> HIDE DEF d
  <1>3. Effects(s, u, c)
    <2>1. u.watching = s.watching /\ u.dialogs = s.dialogs /\ u.config = s.config /\ u.saved = s.config /\ u.dropped = d /\ u.tasks = s.tasks /\ DOMAIN u = DOMAIN s
        /\ \A f \in Fields \ {"saved", "dropped"} : u[f] = s[f]
      BY DEF Fields
    <2> HIDE DEF u
    <2>2. Same(s, u, Touched)
      BY <2>1 DEF Same, Touched
    <2>3. QED
      BY <1>a, <2>1, <2>2 DEF Effects
  <1>4. Effects(s, w, c)
    <2>1. DOMAIN y = DOMAIN s.config /\ y.of = s.config.of
      OBVIOUS
    <2> HIDE DEF y
    <2>2. w.watching = s.watching /\ w.dialogs = s.dialogs /\ w.config = y /\ w.saved = y /\ w.dropped = d /\ w.tasks = s.tasks /\ DOMAIN w = DOMAIN s
        /\ \A f \in Fields \ {"saved", "config", "theme", "dropped"} : w[f] = s[f]
      BY DEF Fields
    <2> HIDE DEF w
    <2>3. Same(s, w, Touched)
      BY <2>2 DEF Same, Touched
    <2>4. QED
      BY <1>a, <2>1, <2>2, <2>3 DEF Effects
  <1> HIDE DEF u, w
  <1>5. QED
    BY <1>2, <1>3, <1>4

\* Any plain command is executed.
LEMMA StepSound ==
    ASSUME NEW s, NEW cmds, NEW k \in Nat, Sound(s, cmds, k, Settled), k + 1 \in DOMAIN cmds
    PROVE  Sound(Execute1(s, cmds[k + 1]), cmds, k + 1, Settled)
  <1> DEFINE c == cmds[k + 1]
             op == Execute1(s, c)
  <1>1. c.cmd \in PlainKinds
    BY DEF Sound, Plain
  <1>2. DOMAIN s = Fields /\ DOMAIN s.config = {"theme", "of"}
    BY DEF Sound, Shaped, Remembers
  <1>3. \A u : Effects(s, u, cmds[k + 1]) => Sound(u, cmds, k + 1, Settled)
    BY EffectsSound
  <1>4. \A u : Effects(s, u, c) => Sound(u, cmds, k + 1, Settled)
    BY <1>3
  <1> HIDE DEF c
  <1>5. CASE c.cmd \in {"Fetch", "Ping", "Connect", "Forward", "StartLogs"}
    <2>1. op = Start(s, c)
      BY <1>5 DEF Execute1
    <2> HIDE DEF op
    <2>2. Effects(s, op, c)
      BY <1>2, <1>5, <2>1, StartEffects
    <2>3. QED
      BY <1>4, <2>2 DEF op, c
  <1>6. CASE c.cmd = "Watch"
    <2>1. Effects(s, op, c)
      BY <1>2, <1>6, WatchEffects
    <2> HIDE DEF op
    <2>3. QED
      BY <1>4, <2>1 DEF op, c
  <1>7. CASE c.cmd \in {"SetTheme", "SaveConfig"}
    <2>1. Effects(s, op, c)
      BY <1>2, <1>7, WriteEffects
    <2> HIDE DEF op
    <2>3. QED
      BY <1>4, <2>1 DEF op, c
  <1>8. CASE c.cmd \in {"Mutate", "Suspend", "StopForward", "Pick", "ConfirmUndo", "PreviewTheme", "Stop", "PollMetrics", "SaveResource"}
    <2> DEFINE did == s.did \cup {c.what}
               forwards == SelectSeq(s.forwards, LAMBDA f : f.id # c.id)
               pick == OpenPick(s.dialogs, c.view, c.title, c.options)
               undo == OpenConfirm(s.dialogs, c.view, [what |-> "Undo", of |-> c.of.name])
               u1 == [s EXCEPT !.did = did]
               u2 == [s EXCEPT !.forwards = forwards]
               u3 == [s EXCEPT !.dialogs = pick]
               u4 == [s EXCEPT !.dialogs = undo]
               u5 == [s EXCEPT !.theme = c.theme]
    <2>1. \/ op = u1 \/ op = u2 \/ op = u3 \/ op = u4 \/ op = u5 \/ op = s
      <3>1. CASE c.cmd \in {"Mutate", "Suspend"}
        BY <3>1 DEF Execute1
      <3>2. CASE c.cmd = "StopForward"
        BY <3>2 DEF Execute1
      <3>3. CASE c.cmd = "Pick"
        BY <3>3 DEF Execute1
      <3>4. CASE c.cmd = "ConfirmUndo"
        BY <3>4 DEF Execute1
      <3>5. CASE c.cmd = "PreviewTheme"
        BY <3>5 DEF Execute1
      <3>6. CASE c.cmd \in {"Stop", "PollMetrics", "SaveResource"}
        BY <3>6 DEF Execute1
      <3>7. QED
        BY <1>8, <3>1, <3>2, <3>3, <3>4, <3>5, <3>6
    <2>6. DOMAIN pick = DOMAIN s.dialogs /\ DOMAIN undo = DOMAIN s.dialogs
      <3>1. /\ \A x, y, z : DOMAIN OpenPick(s.dialogs, x, y, z) = DOMAIN s.dialogs
            /\ \A x, y : DOMAIN OpenConfirm(s.dialogs, x, y) = DOMAIN s.dialogs
        BY DialogsKeep
      <3>2. QED
        BY <3>1, Zenon
    <2> HIDE DEF did, forwards, pick, undo, op
    <2>8. "dialogs" \in DOMAIN s
      BY <1>2 DEF Fields
    <2>7. /\ u1.dialogs = s.dialogs /\ u2.dialogs = s.dialogs /\ u3.dialogs = pick /\ u4.dialogs = undo
          /\ u5.dialogs = s.dialogs
      BY <2>8
    <2>2. Same(s, u1, Aside) /\ Same(s, u2, Aside) /\ Same(s, u3, Aside) /\ Same(s, u4, Aside) /\ Same(s, u5, Aside)
             /\ Same(s, s, Aside)
      BY <1>2 DEF Same, Aside, Fields
    <2> HIDE DEF u1, u2, u3, u4, u5
    <2>3. Same(s, op, Aside) /\ DOMAIN op.dialogs = DOMAIN s.dialogs
      BY <2>1, <2>2, <2>6, <2>7
    <2>4. Effects(s, op, c)
      BY <1>8, <2>3, AsideEffects
    <2>5. QED
      BY <1>4, <2>4 DEF op, c
  <1>9. CASE c.cmd = "PopView"
    <2>1. op = PopView(s)
      BY <1>9 DEF Execute1
    <2>2. Same(s, s, Aside)
      BY DEF Same
    <2>3. Effects(s, s, c)
      BY <1>9, <2>2, AsideEffects
    <2>4. Sound(s, cmds, k + 1, Settled)
      BY <1>4, <2>3
    <2> HIDE DEF op
    <2>5. Sound(op, cmds, k + 1, Settled)
      BY <2>1, <2>4, PopSound
    <2>6. QED
      BY <2>5 DEF op, c
  <1>10. QED
    BY <1>1, <1>5, <1>6, <1>7, <1>8, <1>9 DEF PlainKinds

\* Nothing is left to be executed.
LEMMA EndSound ==
    ASSUME NEW s, NEW cmds, Sound(s, cmds, Len(cmds), Settled)
    PROVE  Sound(s, <<>>, 0, Settled)
  <1>1. IsSeq(cmds) /\ DOMAIN cmds = 1..Len(cmds) /\ Len(cmds) \in Nat
    BY SoundSeq, SeqHas
  <1>2. \A j \in DOMAIN cmds : ~(j > Len(cmds))
    BY <1>1
  <1>3. DOMAIN <<>> = {}
    OBVIOUS
  <1>4. Watched(s, <<>>, 0)
    BY <1>2, <1>3 DEF Sound, Watched, Asks, Has
  <1>5. Pinging(s, <<>>, 0, Settled.lost)
    BY <1>2 DEF Sound, Pinging
  <1>6. Saves(s, cmds, Len(cmds)) => Saves(s, <<>>, 0)
    BY <1>2 DEF Saves
  <1>7. QED
    BY <1>4, <1>5, <1>6, PlainNone DEF Sound

\* All of them are executed.
LEMMA TrailSound ==
    ASSUME NEW s, NEW cmds, Sound(s, cmds, 0, Settled), NEW g, g[0] = s,
           \A i \in 1..Len(cmds) : ~g[i - 1].quit => g[i] = Execute1(g[i - 1], cmds[i])
    PROVE  Sound(g[Len(cmds)], <<>>, 0, Settled)
  <1> DEFINE n == Len(cmds)
             S == {i \in 0..n : Sound(g[i], cmds, i, Settled)}
  <1>1. n \in Nat /\ DOMAIN cmds = 1..n
    BY SoundSeq, SeqHas
  <1>2. 0 \in S
    BY <1>1
  <1>3. \A i \in 1..n : i - 1 \in S => i \in S
    <2>1. SUFFICES ASSUME NEW i \in 1..n, Sound(g[i - 1], cmds, i - 1, Settled)
                   PROVE  Sound(g[i], cmds, i, Settled)
      BY <1>1
    <2> DEFINE k == i - 1
               u == g[k]
    <2>2. k \in Nat /\ k + 1 = i /\ k + 1 \in DOMAIN cmds
      BY <1>1
    <2>3. ~u.quit /\ Sound(u, cmds, k, Settled)
      BY <2>1 DEF Sound
    <2>4. g[i] = Execute1(u, cmds[i])
      BY <2>3
    <2> HIDE DEF k, u
    <2>5. Sound(Execute1(u, cmds[k + 1]), cmds, k + 1, Settled)
      BY <2>2, <2>3, StepSound
    <2>6. cmds[k + 1] = cmds[i]
      BY <2>2
    <2>7. QED
      BY <2>2, <2>4, <2>5, <2>6
  <1> HIDE DEF S
  <1>4. n \in S
    BY <1>1, <1>2, <1>3, CountUp
  <1>5. Sound(g[n], cmds, n, Settled)
    BY <1>4 DEF S
  <1>6. QED
    BY <1>5, EndSound

\* RunAll.
LEMMA RunAllSound ==
    ASSUME NEW p, Sound(p.t, p.cmds, 0, Settled)
    PROVE  Sound(RunAll(p), <<>>, 0, Settled)
  <1>1. IsSeq(p.cmds)
    BY SoundSeq
  <1>2. PICK g : /\ g[0] = p.t
                 /\ \A i \in 1..Len(p.cmds) : g[i] = Execute1(g[i - 1], p.cmds[i])
                 /\ RunAll(p) = g[Len(p.cmds)]
    BY <1>1, RunAllTrail
  <1> DEFINE s == p.t
             cmds == p.cmds
  <1>3. Sound(s, cmds, 0, Settled) /\ g[0] = s
    BY <1>2
  <1>4. \A i \in 1..Len(cmds) : ~g[i - 1].quit => g[i] = Execute1(g[i - 1], cmds[i])
    BY <1>2
  <1>5. RunAll(p) = g[Len(cmds)]
    BY <1>2
  <1> HIDE DEF s, cmds
  <1>6. Sound(g[Len(cmds)], <<>>, 0, Settled)
    BY <1>3, <1>4, TrailSound
  <1>7. QED
    BY <1>5, <1>6

\* A plain command leads to no others.
LEMMA PlainExecute ==
    ASSUME NEW s, ~s.quit, NEW c, c.cmd \in PlainKinds
    PROVE  Execute(s, c) = Execute1(s, c)
  <1> DEFINE a == RunAll(SetNamespace(s, c.ns))
             b == RunAll(HandleCommand(s, [cmd |-> "kind", kind |-> c.kind, ns |-> None, filter |-> None, context |-> None]))
             d == Execute1(s, c)
  <1>1. Execute(s, c) = CASE s.quit -> s
                          [] ~s.quit /\ c.cmd = "SwitchNamespace" -> a
                          [] ~s.quit /\ c.cmd = "OpenKind" -> b
                          [] OTHER -> d
    BY Zenon DEF Execute
  <1>2. c.cmd # "SwitchNamespace" /\ c.cmd # "OpenKind"
    BY DEF PlainKinds
  <1> HIDE DEF a, b, d
  <1>3. QED
    BY <1>1, <1>2 DEF d

\* Run.
LEMMA RunSound ==
    ASSUME NEW p, Sound(p.t, p.cmds, 0, Settled)
    PROVE  Sound(Run(p), <<>>, 0, Settled)
  <1>1. IsSeq(p.cmds) /\ Plain(p.cmds)
    BY SoundSeq
  <1>2. PICK g : /\ g[0] = p.t
                 /\ \A i \in 1..Len(p.cmds) : g[i] = Execute(g[i - 1], p.cmds[i])
                 /\ Run(p) = g[Len(p.cmds)]
    BY <1>1, RunTrail
  <1> DEFINE s == p.t
             cmds == p.cmds
  <1>3. Sound(s, cmds, 0, Settled) /\ g[0] = s
    BY <1>2
  <1>4. \A i \in 1..Len(cmds) : ~g[i - 1].quit => g[i] = Execute1(g[i - 1], cmds[i])
    <2>1. SUFFICES ASSUME NEW i \in 1..Len(cmds), ~g[i - 1].quit PROVE g[i] = Execute1(g[i - 1], cmds[i])
      OBVIOUS
    <2> DEFINE u == g[i - 1]
               c == cmds[i]
    <2>2. g[i] = Execute(u, c) /\ c.cmd \in PlainKinds /\ ~u.quit
      BY <1>1, <1>2, <2>1, SeqHas DEF Plain
    <2> HIDE DEF u, c
    <2>3. g[i] = Execute1(u, c)
      BY <2>2, PlainExecute
    <2>4. QED
      BY <2>3 DEF u, c
  <1>5. Run(p) = g[Len(cmds)]
    BY <1>2
  <1> HIDE DEF s, cmds
  <1>6. Sound(g[Len(cmds)], <<>>, 0, Settled)
    BY <1>3, <1>4, TrailSound
  <1>7. QED
    BY <1>5, <1>6

-----------------------------------------------------------------------------
(* A message and all it leads to *)

\* Between messages no command is left.
LEMMA GoodIs ==
    ASSUME NEW s
    PROVE  /\ Sound(s, <<>>, 0, Settled) => Good(s)
           /\ Good(s) /\ ~s.quit => Sound(s, <<>>, 0, Settled)
  <1>1. DOMAIN <<>> = {}
    OBVIOUS
  <1>2. Settled.lost = {} /\ ~Settled.save /\ ~Settled.ns /\ ~Settled.empty
    BY DEF Settled
  <1>3. ASSUME Sound(s, <<>>, 0, Settled) PROVE Good(s)
    BY <1>1, <1>2, <1>3 DEF Good, Sound, Watched, Has, Asks, Saves
  <1>4. ASSUME Good(s), ~s.quit PROVE Sound(s, <<>>, 0, Settled)
    BY <1>1, <1>2, <1>4, PlainNone DEF Good, Sound, Watched, Has, Saves
  <1>5. QED
    BY <1>3, <1>4

\* The commands of an operation are executed.
LEMMA LeavesGood ==
    ASSUME NEW p, Leaves(<<>>, p, Settled)
    PROVE  Sound(Run(p), <<>>, 0, Settled) /\ Sound(RunAll(p), <<>>, 0, Settled) /\ Good(Run(p))
  <1> DEFINE a == p.cmds
             s == p.t
             none == <<>>
  <1>1. IsSeq(a) /\ Sound(s, none \o a, 0, Settled)
    BY DEF Leaves, Plain
  <1> HIDE DEF a, s
  <1>2. none \o a = a
    BY <1>1, ConcatEmpty
  <1> HIDE DEF none
  <1>3. Sound(s, a, 0, Settled)
    BY <1>1, <1>2
  <1>4. Sound(p.t, p.cmds, 0, Settled)
    BY <1>3 DEF s, a
  <1>5. Sound(Run(p), <<>>, 0, Settled) /\ Sound(RunAll(p), <<>>, 0, Settled)
    BY <1>4, RunSound, RunAllSound
  <1> DEFINE u == Run(p)
  <1>6. Sound(u, <<>>, 0, Settled)
    BY <1>5
  <1> HIDE DEF u
  <1>7. Good(u)
    BY <1>6, GoodIs
  <1>8. QED
    BY <1>5, <1>7 DEF u

\* A row of one or two commands
LEMMA OneRun ==
    ASSUME NEW p, NEW c, p.cmds = <<c>>
    PROVE  Run(p) = Execute(p.t, c)
  <1>1. IsSeq(p.cmds) /\ Len(p.cmds) = 1 /\ p.cmds[1] = c
    BY OneIsSeq
  <1>2. PICK g : /\ g[0] = p.t
                 /\ \A i \in 1..Len(p.cmds) : g[i] = Execute(g[i - 1], p.cmds[i])
                 /\ Run(p) = g[Len(p.cmds)]
    BY <1>1, RunTrail
  <1>3. g[1] = Execute(g[0], p.cmds[1])
    <2>1. 1 \in 1..Len(p.cmds) /\ 1 - 1 = 0
      BY <1>1
    <2>2. QED
      BY <1>2, <2>1
  <1>4. QED
    BY <1>1, <1>2, <1>3

\* Two commands.
LEMMA TwoRun ==
    ASSUME NEW p, NEW c, NEW d, p.cmds = <<c, d>>
    PROVE  Run(p) = Execute(Execute(p.t, c), d)
  <1>1. IsSeq(p.cmds) /\ Len(p.cmds) = 2 /\ p.cmds[1] = c /\ p.cmds[2] = d
    BY DEF IsSeq
  <1>2. PICK g : /\ g[0] = p.t
                 /\ \A i \in 1..Len(p.cmds) : g[i] = Execute(g[i - 1], p.cmds[i])
                 /\ Run(p) = g[Len(p.cmds)]
    BY <1>1, RunTrail
  <1>3. g[1] = Execute(g[0], p.cmds[1])
    <2>1. 1 \in 1..Len(p.cmds) /\ 1 - 1 = 0
      BY <1>1
    <2>2. QED
      BY <1>2, <2>1
  <1>4. g[2] = Execute(g[1], p.cmds[2])
    <2>1. 2 \in 1..Len(p.cmds) /\ 2 - 1 = 1
      BY <1>1
    <2>2. QED
      BY <1>2, <2>1
  <1>5. QED
    BY <1>1, <1>2, <1>3, <1>4

\* The quit.
LEMMA QuitsGood ==
    ASSUME NEW p, Sound(p.t, <<>>, 0, Settled), p.cmds = <<Quits>>
    PROVE  Good(Run(p))
  <1> DEFINE s == p.t
             u == [s EXCEPT !.quit = TRUE]
  <1>1. Run(p) = Execute(s, Quits)
    BY OneRun
  <1>2. Good(s) /\ ~s.quit /\ DOMAIN s = Fields
    BY GoodIs DEF Sound, Shaped
  <1> HIDE DEF s
  <1>3. Execute(s, Quits) = u
    <2>1. Quits.cmd = "Quit"
      BY DEF Quits
    <2>2. Execute(s, Quits) = Execute1(s, Quits)
      <3> DEFINE a == RunAll(SetNamespace(s, Quits.ns))
                 b == RunAll(HandleCommand(s, [cmd |-> "kind", kind |-> Quits.kind, ns |-> None, filter |-> None, context |-> None]))
                 d == Execute1(s, Quits)
      <3>1. Execute(s, Quits) = CASE s.quit -> s
                                  [] ~s.quit /\ Quits.cmd = "SwitchNamespace" -> a
                                  [] ~s.quit /\ Quits.cmd = "OpenKind" -> b
                                  [] OTHER -> d
        BY Zenon DEF Execute
      <3> HIDE DEF a, b, d
      <3>2. QED
        BY <1>2, <2>1, <3>1 DEF d
    <2>3. QED
      BY <2>1, <2>2 DEF Execute1
  <1>4. /\ u.views = s.views /\ u.next = s.next /\ u.session = s.session /\ u.shown = s.shown
        /\ u.history = s.history /\ u.at = s.at /\ u.pending = s.pending /\ u.config = s.config /\ u.saved = s.saved /\ u.dropped = s.dropped
        /\ u.tasks = s.tasks /\ u.watching = s.watching /\ DOMAIN u = DOMAIN s /\ u.dialogs = s.dialogs
    BY <1>2 DEF Fields
  <1> HIDE DEF u
  <1>5. Shaped(u)
    BY <1>2, <1>4 DEF Good, Shaped, Stack, Remembers, Recalls
  <1>6. Pinging(u, <<>>, 0, {}) /\ Current(u)
    BY <1>2, <1>4 DEF Good, Pinging, Current, Ns
  <1>7. Good(u)
    BY <1>2, <1>4, <1>5, <1>6 DEF Good
  <1>8. QED
    BY <1>1, <1>3, <1>7

\* The two commands that others follow.
LEMMA OpensGood ==
    ASSUME NEW p, Opens(p), scene \in Scenes
    PROVE  Good(Run(p))
  <1> DEFINE s == p.t
             none == <<>>
  <1>1. Sound(s, none, 0, Settled) /\ ~s.quit
    BY DEF Opens, Sound
  <1>2. ASSUME NEW ns, p.cmds = <<[cmd |-> "SwitchNamespace", ns |-> ns], [cmd |-> "PopView"]>>
        PROVE  Good(Run(p))
    <2> DEFINE c == [cmd |-> "SwitchNamespace", ns |-> ns]
               d == [cmd |-> "PopView"]
               q == SetNamespace(s, ns)
               u == RunAll(q)
               w == PopView(u)
    <2>1. c.cmd = "SwitchNamespace" /\ c.ns = ns /\ d.cmd = "PopView"
      OBVIOUS
    <2>2. p.cmds = <<c, d>>
      BY <1>2
    <2> HIDE DEF c, d
    <2>3. Run(p) = Execute(Execute(s, c), d)
      BY <2>2, TwoRun
    <2> HIDE DEF s
    <2>4. Execute(s, c) = u
      BY <1>1, <2>1 DEF Execute
    <2>5. Leaves(none, q, Settled)
      <3> HIDE DEF none, q
      <3>1. QED
        BY <1>1, SetNamespaceLeaves DEF q
    <2> HIDE DEF q
    <2>6. Sound(u, <<>>, 0, Settled)
      BY <2>5, LeavesGood
    <2> HIDE DEF u
    <2>7. Execute(u, d) = w
      <3>1. ~u.quit /\ d.cmd \in PlainKinds
        BY <2>1, <2>6 DEF Sound, PlainKinds
      <3>2. Execute(u, d) = Execute1(u, d)
        BY <3>1, PlainExecute
      <3>3. QED
        BY <2>1, <3>2 DEF Execute1
    <2>8. Sound(w, <<>>, 0, Settled)
      BY <2>6, PopSound
    <2> HIDE DEF w
    <2>9. Good(w)
      BY <2>8, GoodIs
    <2>10. QED
      BY <2>3, <2>4, <2>7, <2>9
  <1>3. ASSUME NEW kind, p.cmds = <<[cmd |-> "OpenKind", kind |-> kind]>>
        PROVE  Good(Run(p))
    <2> DEFINE c == [cmd |-> "OpenKind", kind |-> kind]
               e == [cmd |-> "kind", kind |-> kind, ns |-> None, filter |-> None, context |-> None]
               q == HandleCommand(s, e)
               u == RunAll(q)
    <2>1. c.cmd = "OpenKind" /\ c.kind = kind
      OBVIOUS
    <2>2. p.cmds = <<c>>
      BY <1>3
    <2> HIDE DEF c
    <2>3. Run(p) = Execute(s, c)
      BY <2>2, OneRun
    <2> HIDE DEF s
    <2>4. Execute(s, c) = u
      BY <1>1, <2>1 DEF Execute
    <2>5. IsCommand(e) /\ e.cmd = "kind"
      BY DEF IsCommand
    <2> HIDE DEF e
    <2>6. Leaves(none, q, Settled)
      <3> HIDE DEF none
      <3>1. e.cmd # "q"
        BY <2>5
      <3>2. QED
        BY <1>1, <2>5, <3>1, CommandLeaves
    <2> HIDE DEF q
    <2>7. Sound(u, <<>>, 0, Settled)
      BY <2>6, LeavesGood
    <2> HIDE DEF u
    <2>8. QED
      BY <2>3, <2>4, <2>7, GoodIs
  <1>4. QED
    BY <1>2, <1>3 DEF Opens

\* A key and all it leads to.
LEMMA KeyGood ==
    ASSUME NEW s, Good(s), ~s.quit, scene \in Scenes, NEW k \in scene.keys
    PROVE  Good(Run(HandleKey(s, k)))
  <1> DEFINE p == HandleKey(s, k)
  <1>1. Sound(s, <<>>, 0, Settled)
    BY GoodIs
  <1>2. Answers1(p)
    BY <1>1, KeyDone
  <1> HIDE DEF p
  <1>3. Good(Run(p))
    BY <1>2, LeavesGood, QuitsGood, OpensGood DEF Answers1, Done1
  <1>4. QED
    BY <1>3 DEF p

-----------------------------------------------------------------------------
(* Tasks that end *)

\* What the end of a task leaves owing
Ended(s, task) == [s EXCEPT !.tasks = Tasks!BagRemove(@, task)]
Dues(task) == [save |-> FALSE, ns |-> task.cmd = "Connected" /\ task.ok, lost |-> IF task.cmd = "Ping" THEN {task.context} ELSE {},
               empty |-> FALSE]

\* A task that ends: its ping is answered, its connect is to be followed.
LEMMA EndedSound ==
    ASSUME NEW s, Sound(s, <<>>, 0, Settled), NEW task
    PROVE  Sound(Ended(s, task), <<>>, 0, Dues(task))
  <1> DEFINE b == Tasks!BagRemove(s.tasks, task)
             u == [s EXCEPT !.tasks = b]
             o == Dues(task)
             none == <<>>
  <1>1. Ended(s, task) = u
    BY Zenon DEF Ended
  <1>2. BagToSet(b) \subseteq BagToSet(s.tasks) /\ BagToSet(s.tasks) \ {task} \subseteq BagToSet(b)
    BY RemovedTask
  <1> HIDE DEF b
  <1>3. Sound(s, none, 0, Settled) /\ DOMAIN s = Fields /\ DOMAIN none = {}
    BY DEF Sound, Shaped
  <1>4. /\ u.views = s.views /\ u.next = s.next /\ u.session = s.session /\ u.shown = s.shown
        /\ u.history = s.history /\ u.at = s.at /\ u.pending = s.pending /\ u.config = s.config /\ u.saved = s.saved /\ u.dropped = s.dropped
        /\ u.tasks = b /\ u.watching = s.watching /\ DOMAIN u = DOMAIN s /\ u.dialogs = s.dialogs /\ u.quit = s.quit
    BY <1>3 DEF Fields
  <1>5. /\ ~o.save /\ (o.ns <=> task.cmd = "Connected" /\ task.ok)
        /\ (task.cmd = "Ping" => o.lost = {task.context})
    BY DEF Dues
  <1> HIDE DEF u, none, o
  <1>6. Shaped(u)
    BY <1>3, <1>4 DEF Sound, Shaped, Stack, Remembers, Recalls
  <1>7. Watched(u, none, 0)
    BY <1>3, <1>4 DEF Sound, Watched, Has
  <1>8. Saves(u, none, 0)
    BY <1>3, <1>4 DEF Sound, Saves, Settled
  <1>9. Pinging(u, none, 0, o.lost)
    <2>1. SUFFICES ASSUME NEW i \in DOMAIN s.views, s.views[i].kind = "contexts", NEW n \in s.views[i].pending
                   PROVE  n \in o.lost \/ PingOf(n) \in BagToSet(b)
      BY <1>4 DEF Pinging
    <2>2. PingOf(n) \in BagToSet(s.tasks)
      BY <1>3, <2>1 DEF Sound, Pinging, Settled
    <2>3. CASE PingOf(n) = task
      <3>1. task.cmd = "Ping" /\ task.context = n
        BY <2>3 DEF PingOf
      <3>2. QED
        BY <1>5, <3>1
    <2>4. CASE PingOf(n) # task
      BY <1>2, <2>2, <2>4
    <2>5. QED
      BY <2>3, <2>4
  <1>10. o.ns \/ Current(u)
    <2>1. Current(s)
      BY <1>3 DEF Sound, Settled
    <2>2. CASE task = Landed
      <3>1. Landed.cmd = "Connected" /\ Landed.ok = TRUE
        BY DEF Landed
      <3>2. QED
        BY <1>5, <2>2, <3>1
    <2>3. CASE task # Landed
      BY <1>2, <1>4, <2>1, <2>3 DEF Current, Ns
    <2>4. QED
      BY <2>2, <2>3
  <1>13. Len(u.views) > 0
    BY <1>3, <1>4 DEF Sound, Settled
  <1>11. Sound(u, none, 0, o)
    BY <1>13, <1>3, <1>4, <1>6, <1>7, <1>8, <1>9, <1>10 DEF Sound
  <1>12. QED
    BY <1>1, <1>11 DEF none, o

\* A task that is neither a ping nor a connect that came through leaves nothing owing.
LEMMA PlainEnd ==
    ASSUME NEW s, Sound(s, <<>>, 0, Settled), NEW task, task.cmd \notin {"Ping", "Connected"}
    PROVE  Sound(Ended(s, task), <<>>, 0, Settled)
  <1>1. Dues(task) = Settled
    BY DEF Dues, Settled
  <1>2. QED
    BY <1>1, EndedSound

\* A message for one view and all it leads to.
LEMMA RouteGood ==
    ASSUME NEW s, Sound(s, <<>>, 0, Settled), NEW id, NEW m, m.msg = "Fetched" => Lists(m.answer)
    PROVE  Good(Run(Route(s, id, m)))
  <1> DEFINE p == Route(s, id, m)
             none == <<>>
  <1>1. Sound(s, none, 0, Settled)
    OBVIOUS
  <1> HIDE DEF none
  <1>2. Leaves(none, p, Settled)
    BY <1>1, RouteLeaves
  <1> HIDE DEF p
  <1>3. Good(Run(p))
    BY <1>2, LeavesGood DEF none
  <1>4. QED
    BY <1>3 DEF p

\* A message for all views.
LEMMA AllGood ==
    ASSUME NEW s, Sound(s, <<>>, 0, Settled), NEW m, m.msg # "Fetched"
    PROVE  Good(Run(OnAll(s, m)))
  <1> DEFINE p == OnAll(s, m)
             none == <<>>
  <1>1. Sound(s, none, 0, Settled)
    OBVIOUS
  <1> HIDE DEF none
  <1>2. Leaves(none, p, Settled)
    BY <1>1, AllSound DEF Leaves
  <1> HIDE DEF p
  <1>3. Good(Run(p))
    BY <1>2, LeavesGood DEF none
  <1>4. QED
    BY <1>3 DEF p

\* A tick.
LEMMA TickGood ==
    ASSUME NEW s, Sound(s, <<>>, 0, Settled)
    PROVE  Good(Run(OnAll(SyncChrome(s), [msg |-> "Tick"])))
  <1> DEFINE u == SyncChrome(s)
             m == [msg |-> "Tick"]
  <1>1. Sound(u, <<>>, 0, Settled)
    BY SyncSound
  <1>2. m.msg # "Fetched"
    OBVIOUS
  <1> HIDE DEF u, m
  <1>3. Good(Run(OnAll(u, m)))
    BY <1>1, <1>2, AllGood
  <1>4. QED
    BY <1>3 DEF u, m

\* The answer to a ping: no list of contexts waits for it any longer.
LEMMA PongGood ==
    ASSUME NEW s, Sound(s, <<>>, 0, Settled), NEW task, task.cmd = "Ping"
    PROVE  Good(Run(OnAll(Ended(s, task), [msg |-> "Pinged", context |-> task.context])))
  <1> DEFINE u == Ended(s, task)
             n == task.context
             m == [msg |-> "Pinged", context |-> n]
             o == Dues(task)
             none == <<>>
             p == OnAll(u, m)
             w == p.t
             c == none \o p.cmds
  <1>1. Sound(u, none, 0, o)
    BY EndedSound
  <1>2. o.lost = {n} /\ o.save = FALSE /\ o.ns = FALSE /\ o.empty = FALSE
    BY DEF Dues
  <1>3. m.msg = "Pinged" /\ m.context = n
    OBVIOUS
  <1> HIDE DEF u, m, o, n, none
  <1>4. /\ Sound(w, c, 0, o) /\ Plain(p.cmds)
        /\ DOMAIN w.views = DOMAIN u.views
        /\ \A i \in DOMAIN u.views : w.views[i].kind = u.views[i].kind /\ After(u.views[i], w.views[i], m, Ns(u))
    BY <1>1, <1>3, AllSound
  <1> HIDE DEF w, c
  <1>5. \A i \in DOMAIN w.views : w.views[i].kind = "contexts" => n \notin w.views[i].pending
    BY <1>3, <1>4 DEF After
  <1>6. Pinging(w, c, 0, {})
    BY <1>2, <1>4, <1>5 DEF Sound, Pinging
  <1>7. Sound(w, c, 0, Settled)
    BY <1>2, <1>4, <1>6 DEF Sound, Settled
  <1>8. Leaves(none, p, Settled)
    BY <1>4, <1>7 DEF Leaves, w, c
  <1> HIDE DEF p
  <1>9. Good(Run(p))
    BY <1>8, LeavesGood DEF none
  <1>10. QED
    BY <1>9 DEF p, u, m, n

-----------------------------------------------------------------------------
(* Connecting *)

\* Msg::Connected.
LEMMA ConnectedGood ==
    ASSUME NEW s, Sound(s, <<>>, 0, Settled), NEW task, task.cmd = "Connected", scene \in Scenes
    PROVE  Good(Run(OnConnected(Ended(s, task), task.ok)))
  <1> DEFINE u == Ended(s, task)
             ok == IF task.ok THEN TRUE ELSE FALSE
             p == OnConnected(u, ok)
  <1>1. Sound(u, <<>>, 0, Dues(task))
    BY EndedSound
  <1>2. Dues(task) = Owing(Settled, FALSE, ok)
    BY DEF Dues, Owing, Settled
  <1>3. ok \in BOOLEAN
    OBVIOUS
  <1>4. OnConnected(u, task.ok) = p
    <2> HIDE DEF u
    <2> DEFINE a == Then(WithPending(Landing(SyncChrome(u))), <<[cmd |-> "PollMetrics"]>>)
               dropped == [u EXCEPT !.pending = None]
               b == IF u.views = <<>> THEN PushView(dropped, NewContexts(dropped.next, scene.contexts)) ELSE Pair(dropped, <<>>)
    <2>1. OnConnected(u, task.ok) = (IF task.ok THEN a ELSE b) /\ p = (IF ok THEN a ELSE b)
      BY Zenon DEF OnConnected
    <2> HIDE DEF a, b, p
    <2>2. QED
      BY <2>1
  <1> HIDE DEF u, ok
  <1>5. Leaves(<<>>, p, Settled)
    BY <1>1, <1>2, <1>3, ConnectedLeaves
  <1> HIDE DEF p
  <1>6. Good(Run(p))
    BY <1>5, LeavesGood
  <1>7. QED
    BY <1>4, <1>6 DEF u

\* connect_one: a session of a context that is known, and the news of it to come
LEMMA ConnectGood ==
    ASSUME NEW s, Sound(s, <<>>, 0, Settled), scene \in Scenes, NEW task, task.cmd = "Connect",
           NEW known \in BOOLEAN, known => task.context \in Range(scene.contexts), NEW ns
    PROVE  LET w == Start(Ended(s, task), [cmd |-> "Connected", ok |-> known])
           IN  Good(IF known THEN [w EXCEPT !.session = [context |-> task.context, ns |-> ns]] ELSE w)
  <1> DEFINE e == Ended(s, task)
             c == [cmd |-> "Connected", ok |-> known]
             b == Tasks!BagAdd(e.tasks, c)
             w == [e EXCEPT !.tasks = b]
             x == [context |-> task.context, ns |-> ns]
             u == [w EXCEPT !.session = x]
             none == <<>>
  <1>1. Sound(e, none, 0, Settled)
    BY PlainEnd
  <1>2. Start(e, c) = w
    BY Zenon DEF Start
  <1>3. BagToSet(b) = BagToSet(e.tasks) \cup {c}
    BY AddedIs
  <1>4. known => c = Landed
    BY DEF Landed
  <1>5. DOMAIN x = {"context", "ns"} /\ x.context = task.context
    OBVIOUS
  <1> HIDE DEF b, c, none, e, x
  <1>6. DOMAIN e = Fields
    BY <1>1 DEF Sound, Shaped
  <1>7. /\ w.views = e.views /\ w.next = e.next /\ w.session = e.session /\ w.shown = e.shown
        /\ w.history = e.history /\ w.at = e.at /\ w.pending = e.pending /\ w.config = e.config /\ w.saved = e.saved /\ w.dropped = e.dropped
        /\ w.tasks = b /\ w.watching = e.watching /\ DOMAIN w = Fields /\ w.dialogs = e.dialogs /\ w.quit = e.quit
    BY <1>6 DEF Fields
  <1> HIDE DEF w
  <1>8. /\ u.views = e.views /\ u.next = e.next /\ u.session = x /\ u.shown = e.shown
        /\ u.history = e.history /\ u.at = e.at /\ u.pending = e.pending /\ u.config = e.config /\ u.saved = e.saved /\ u.dropped = e.dropped
        /\ u.tasks = b /\ u.watching = e.watching /\ DOMAIN u = Fields /\ u.dialogs = e.dialogs /\ u.quit = e.quit
    BY <1>7 DEF Fields
  <1> HIDE DEF u
  <1>9. Shaped(w)
    BY <1>1, <1>6, <1>7 DEF Sound, Shaped, Stack, Remembers, Recalls
  <1>10. Watched(w, none, 0) /\ Pinging(w, none, 0, Settled.lost) /\ (Saves(e, none, 0) => Saves(w, none, 0))
    BY <1>1, <1>3, <1>7 DEF Sound, Watched, Has, Pinging, Saves
  <1>11. Current(e) => Current(w)
    BY <1>3, <1>7 DEF Current, Ns
  <1>12. Sound(w, none, 0, Settled)
    BY <1>1, <1>7, <1>9, <1>10, <1>11 DEF Sound
  <1>13. ASSUME known PROVE Sound(u, none, 0, Settled)
    <2>1. task.context \in DOMAIN e.config.of
      <3>1. Range(scene.contexts) \subseteq DOMAIN scene.config.of
        <4>1. scene.contexts \in Seq(DOMAIN scene.config.of)
          BY SceneHas DEF IsScene
        <4>2. QED
          BY <4>1, SeqFrom
      <3>2. DOMAIN e.config.of = DOMAIN scene.config.of
        BY <1>1 DEF Sound, Shaped, Remembers
      <3>3. QED
        BY <1>13, <3>1, <3>2
    <2>2. Shaped(u)
      <3>1. Stack(u) /\ Recalls(u)
        BY <1>1, <1>8 DEF Sound, Shaped, Stack, Recalls
      <3>2. Remembers(u)
        BY <1>1, <1>5, <1>8, <2>1 DEF Sound, Shaped, Remembers
      <3>3. QED
        BY <1>1, <1>8, <3>1, <3>2 DEF Sound, Shaped
    <2>3. Watched(u, none, 0) /\ Pinging(u, none, 0, Settled.lost) /\ (Saves(e, none, 0) => Saves(u, none, 0))
      BY <1>1, <1>3, <1>8 DEF Sound, Watched, Has, Pinging, Saves
    <2>4. Current(u)
      BY <1>3, <1>4, <1>8, <1>13 DEF Current
    <2>5. QED
      BY <1>1, <1>8, <2>2, <2>3, <2>4 DEF Sound
  <1>14. Good(w) /\ (known => Good(u))
    BY <1>12, <1>13, GoodIs DEF none
  <1>15. Good(IF known THEN u ELSE w)
    BY <1>14
  <1>16. Good(IF known THEN [Start(e, c) EXCEPT !.session = x] ELSE Start(e, c))
    BY <1>2, <1>15 DEF u
  <1>17. QED
    BY <1>16 DEF e, c, x

\* The task of a forward
LEMMA ForwardGood ==
    ASSUME NEW s, Sound(s, <<>>, 0, Settled), NEW forwards, NEW n
    PROVE  Good(s) /\ Good([s EXCEPT !.forwards = forwards, !.forward = n])
  <1> DEFINE u == [s EXCEPT !.forwards = forwards, !.forward = n]
  <1>1. DOMAIN s = Fields
    BY DEF Sound, Shaped
  <1>2. DOMAIN u = DOMAIN s /\ u.dialogs = s.dialogs /\ \A f \in Core : u[f] = s[f]
    BY <1>1 DEF Fields, Core
  <1> HIDE DEF u
  <1>3. Sound(u, <<>>, 0, Settled)
    BY <1>2, CoreSound
  <1>4. Good(u) /\ Good(s)
    BY <1>3, GoodIs
  <1>5. QED
    BY <1>4 DEF u

-----------------------------------------------------------------------------
(* Answers *)

\* The owner of a row is opened, if its kind is known.
LEMMA OwnerGood ==
    ASSUME NEW s, Sound(s, <<>>, 0, Settled), scene \in Scenes, NEW a
    PROVE  Good(Run(Owner(s, a)))
  <1> DEFINE nss == IF s.views = <<>> THEN {} ELSE {x.ns : x \in Targets(Top(s))}
             ns == IF nss = {} THEN None ELSE CHOOSE n \in nss : TRUE
             f == [labels |-> None, names |-> {a.found.name}]
             kind == a.found.kind
             q == OpenKindFiltered(s, kind, ns, f)
             p == Owner(s, a)
  <1>1. p = IF a.found = None THEN Pair(s, <<>>) ELSE q
    BY Zenon DEF Owner
  <1>2. IsFilter(f)
    BY DEF IsFilter
  <1> HIDE DEF ns, nss, f, kind
  <1>4. a.found # None => Leaves(<<>>, q, Settled)
    BY <1>2, OpenFilteredLeaves
  <1>5. Leaves(<<>>, Pair(s, <<>>), Settled)
    <2> DEFINE none == <<>>
    <2>1. Sound(s, none, 0, Settled)
      OBVIOUS
    <2> HIDE DEF none
    <2>2. Leaves(none, Pair(s, <<>>), Settled)
      BY <2>1, NothingLeaves
    <2>3. QED
      BY <2>2 DEF none
  <1> HIDE DEF p, q
  <1>6. Leaves(<<>>, p, Settled)
    BY <1>1, <1>4, <1>5
  <1>7. Good(Run(p))
    BY <1>6, LeavesGood
  <1>8. QED
    BY <1>7 DEF p

\* An answer to a request.
LEMMA AnswerGood ==
    ASSUME NEW s, Sound(s, <<>>, 0, Settled), scene \in Scenes, NEW id, NEW b, NEW a, Lists(a), b \in BOOLEAN
    PROVE  Good(Run(CASE ~b -> Pair(s, <<>>)
                      [] b /\ a.what = "Owner" -> Owner(s, a)
                      [] OTHER -> Route(s, id, [msg |-> "Fetched", answer |-> a])))
  <1> DEFINE m == [msg |-> "Fetched", answer |-> a]
             what == a.what
             p1 == Pair(s, <<>>)
             p2 == Owner(s, a)
             p3 == Route(s, id, m)
             p == CASE ~b -> p1
                    [] b /\ what = "Owner" -> p2
                    [] OTHER -> p3
  <1>1. Good(Run(p1))
    <2> DEFINE none == <<>>
    <2>1. Sound(s, none, 0, Settled)
      OBVIOUS
    <2> HIDE DEF none
    <2>2. Leaves(none, Pair(s, <<>>), Settled)
      BY <2>1, NothingLeaves
    <2> HIDE DEF p1
    <2>3. Leaves(<<>>, p1, Settled)
      BY <2>2 DEF none, p1
    <2>4. QED
      BY <2>3, LeavesGood
  <1>2. Good(Run(p2))
    BY OwnerGood
  <1>3. Good(Run(p3))
    <2>1. m.msg = "Fetched" => Lists(m.answer)
      OBVIOUS
    <2> HIDE DEF m
    <2>2. QED
      BY <2>1, RouteGood
  <1> HIDE DEF p1, p2, p3, what
  <1>4. p = p1 \/ p = p2 \/ p = p3
    OBVIOUS
  <1> HIDE DEF p
  <1>5. Good(Run(p))
    BY <1>1, <1>2, <1>3, <1>4
  <1>6. QED
    BY <1>5 DEF p, p1, p2, p3, m, what

-----------------------------------------------------------------------------
(* The first state *)

\* The app before its first view: that is what is owed.
Opening == [save |-> FALSE, ns |-> FALSE, lost |-> {}, empty |-> TRUE]

LEMMA FreshSound ==
    ASSUME scene \in Scenes
    PROVE  Sound(Fresh(scene), <<>>, 0, Opening)
  <1> DEFINE s == Fresh(scene)
  <1>1. /\ DOMAIN s = Fields
        /\ s.views = <<>> /\ s.next = 1 /\ s.history = <<>> /\ s.at = 1 /\ s.pending = None /\ s.quit = FALSE
        /\ s.config = scene.config /\ s.saved = scene.config /\ s.session = scene.session
        /\ DOMAIN s.shown = {"context", "favorites"} /\ s.shown.context = None
        /\ s.dialogs = NoDialogs
    BY DEF Fresh, Fields
  <1> HIDE DEF s
  <1>2. IsSeq(<<>>) /\ DOMAIN <<>> = {}
    BY EmptyIsSeq
  <1>3. Stack(s) /\ Recalls(s)
    BY <1>1, <1>2 DEF Stack, Recalls
  <1>4. Remembers(s)
    BY <1>1, SceneHas DEF Remembers, IsScene
  <1>5. Watched(s, <<>>, 0) /\ Pinging(s, <<>>, 0, Opening.lost) /\ Saves(s, <<>>, 0) /\ Current(s)
    BY <1>1, <1>2 DEF Watched, Pinging, Saves, Current
  <1>6. Sound(s, <<>>, 0, Opening)
    BY <1>1, <1>3, <1>4, <1>5, PlainNone DEF Sound, Shaped, Opening
  <1>7. QED
    BY <1>6 DEF s

\* The app with its first view.
LEMMA FirstGood ==
    ASSUME scene \in Scenes
    PROVE  Good(Run(IF ~HasSession(Fresh(scene))
                    THEN PushView(Fresh(scene), NewContexts(Fresh(scene).next, scene.contexts))
                    ELSE Landing(Fresh(scene))))
  <1> DEFINE s == Fresh(scene)
             v == NewContexts(s.next, scene.contexts)
             p == IF ~HasSession(s) THEN PushView(s, v) ELSE Landing(s)
             none == <<>>
  <1>1. Sound(s, none, 0, Opening) /\ Len(s.views) = 0
    BY FreshSound DEF Fresh
  <1> HIDE DEF s, none
  <1>2. Leaves(none, PushView(s, v), Settled)
    <2>1. IsNew(s, v)
      BY ContextsNew
    <2> DEFINE q == PushView(s, v)
    <2> HIDE DEF v
    <2>2. Sound(q.t, none \o q.cmds, 0, Opening) /\ Len(q.t.views) = 1 /\ Plain(q.cmds)
      <3>1. Sound(q.t, none \o q.cmds, 0, Opening) /\ Len(q.t.views) = Len(s.views) + 1 /\ Plain(q.cmds)
        BY <1>1, <2>1, PushSound
      <3> HIDE DEF q
      <3>2. QED
        BY <1>1, <3>1
    <2> HIDE DEF q
    <2>3. Sound(q.t, none \o q.cmds, 0, Settled)
      BY <2>2 DEF Sound, Settled, Opening
    <2>4. QED
      BY <2>2, <2>3 DEF Leaves, q
  <1>3. Leaves(none, Landing(s), Settled)
    <2> DEFINE last == s.config.of[s.session.context].lastKind
               kind == IF last \in scene.kinds THEN last ELSE "Pod"
    <2>1. Landing(s) = OpenTable(s, kind)
      BY DEF Landing
    <2> HIDE DEF kind
    <2>2. Leaves(none, OpenTable(s, kind), Renewed(Opening))
      BY <1>1, OpenTableLeaves
    <2>3. Renewed(Opening) = Settled
      BY DEF Renewed, Opening, Settled
    <2>4. QED
      BY <2>1, <2>2, <2>3
  <1>4. Leaves(none, p, Settled)
    BY <1>2, <1>3
  <1> HIDE DEF p
  <1>5. Good(Run(p))
    BY <1>4, LeavesGood DEF none
  <1>6. QED
    BY <1>5 DEF p, v, s

-----------------------------------------------------------------------------
(* The steps of the app *)

\* The sitting stays the same.
LEMMA GoodNext ==
    ASSUME scene' = scene, scene \in Scenes, Good(t')
    PROVE  GoodInv'
  BY DEF GoodInv, Good, Shaped, Stack, Remembers, Recalls, Pinging, Current

\* The answers of a sitting.
LEMMA SceneAnswers ==
    ASSUME scene \in Scenes, NEW what, NEW found \in scene.answers[what], NEW of
    PROVE  Lists([what |-> what, of |-> of, found |-> found])
  <1>1. what \in {"containers", "pods", "exec"} => found \in Seq(Range(found))
    BY SceneHas DEF IsScene
  <1>2. what \in {"containers", "pods", "exec"} => IsSeq(found)
    BY <1>1, SeqFrom
  <1>3. QED
    BY <1>2 DEF Lists

\* Every step of the app keeps the invariant.
LEMMA StepGood ==
    ASSUME GoodInv, [Next]_vars
    PROVE  GoodInv'
  <1>0. scene \in Scenes /\ Good(t)
    BY DEF GoodInv
  <1>a. ~t.quit => Sound(t, <<>>, 0, Settled)
    BY <1>0, GoodIs
  <1>1. ASSUME NEW k \in scene.keys, Key(k) PROVE GoodInv'
    <2>1. ~t.quit /\ t' = Run(HandleKey(t, k)) /\ scene' = scene
      BY <1>1 DEF Key, Running, Uses
    <2>2. Good(t')
      BY <1>0, <2>1, KeyGood
    <2>3. QED
      BY <1>0, <2>1, <2>2, GoodNext
  <1>2. ASSUME Tick PROVE GoodInv'
    <2>1. ~t.quit /\ t' = Run(OnAll(SyncChrome(t), [msg |-> "Tick"])) /\ scene' = scene
      BY <1>2 DEF Tick, Running, Uses
    <2>2. Good(t')
      BY <1>a, <2>1, TickGood
    <2>3. QED
      BY <1>0, <2>1, <2>2, GoodNext
  <1>3. ASSUME NEW v, NEW e, Rows(v, e) PROVE GoodInv'
    <2> DEFINE m == [msg |-> "Rows", rows |-> e]
    <2>1. ~t.quit /\ t' = Run(Route(t, v.id, m)) /\ scene' = scene
      BY <1>3 DEF Rows, Running, Uses
    <2>2. m.msg # "Fetched"
      OBVIOUS
    <2> HIDE DEF m
    <2>3. Good(t')
      BY <1>a, <2>1, <2>2, RouteGood
    <2>4. QED
      BY <1>0, <2>1, <2>3, GoodNext
  <1>4. ASSUME NEW x, MetricsCome(x) PROVE GoodInv'
    <2> DEFINE m == [msg |-> "Metrics", polled |-> x]
    <2>1. ~t.quit /\ t' = Run(OnAll(t, m)) /\ scene' = scene
      BY <1>4 DEF MetricsCome, Running, Uses
    <2>2. m.msg # "Fetched"
      OBVIOUS
    <2> HIDE DEF m
    <2>3. Good(t')
      BY <1>a, <2>1, <2>2, AllGood
    <2>4. QED
      BY <1>0, <2>1, <2>3, GoodNext
  <1>5. ASSUME NEW task, NEW a, Answer(task, a), Lists(a)
        PROVE  GoodInv'
    <2> DEFINE s == Ended(t, task)
               b == OnStack(t, task.view)
               p == CASE ~b -> Pair(s, <<>>)
                      [] b /\ a.what = "Owner" -> Owner(s, a)
                      [] OTHER -> Route(s, task.view, [msg |-> "Fetched", answer |-> a])
    <2>1. ~t.quit /\ task.cmd = "Fetch" /\ scene' = scene /\ t' = Run(p)
      BY <1>5, Zenon DEF Answer, Running, Uses, Done, Ended
    <2>2. Sound(s, <<>>, 0, Settled)
      BY <1>a, <2>1, PlainEnd
    <2>3. b \in BOOLEAN
      BY DEF OnStack
    <2> DEFINE id == task.view
    <2> HIDE DEF s, b, id
    <2>4. Good(Run(CASE ~b -> Pair(s, <<>>)
                     [] b /\ a.what = "Owner" -> Owner(s, a)
                     [] OTHER -> Route(s, id, [msg |-> "Fetched", answer |-> a])))
      BY <1>0, <1>5, <2>2, <2>3, AnswerGood
    <2>5. Good(Run(p))
      BY <2>4 DEF id
    <2> HIDE DEF p
    <2>6. QED
      BY <1>0, <2>1, <2>5, GoodNext
  <1>6. ASSUME NEW task, Pong(task) PROVE GoodInv'
    <2>1. ~t.quit /\ task.cmd = "Ping" /\ scene' = scene
             /\ t' = Run(OnAll(Ended(t, task), [msg |-> "Pinged", context |-> task.context]))
      BY <1>6 DEF Pong, Running, Uses, Done, Ended
    <2>2. Good(t')
      BY <1>a, <2>1, PongGood
    <2>3. QED
      BY <1>0, <2>1, <2>2, GoodNext
  <1>7. ASSUME NEW task, NEW ok \in BOOLEAN, Connect(task, ok) PROVE GoodInv'
    <2> DEFINE known == ok /\ task.context \in Range(scene.contexts)
               last == t.config.of[task.context].ns
               ns == IF last = None THEN scene.own[task.context] ELSE last
               w == Start(Ended(t, task), [cmd |-> "Connected", ok |-> known])
               u == IF known THEN [w EXCEPT !.session = [context |-> task.context, ns |-> ns]] ELSE w
    <2>1. ~t.quit /\ task.cmd = "Connect" /\ scene' = scene /\ t' = u
      BY <1>7, Zenon DEF Connect, Running, Done, Ended
    <2>2. known \in BOOLEAN /\ (known => task.context \in Range(scene.contexts))
      OBVIOUS
    <2> HIDE DEF known, ns
    <2>3. Good(u)
      BY <1>0, <1>a, <2>1, <2>2, ConnectGood
    <2> HIDE DEF u
    <2>4. QED
      BY <1>0, <2>1, <2>3, GoodNext
  <1>8. ASSUME NEW task, Connected(task) PROVE GoodInv'
    <2>1. ~t.quit /\ task.cmd = "Connected" /\ scene' = scene /\ t' = Run(OnConnected(Ended(t, task), task.ok))
      BY <1>8 DEF Connected, Running, Uses, Done, Ended
    <2>2. Good(t')
      BY <1>0, <1>a, <2>1, ConnectedGood
    <2>3. QED
      BY <1>0, <2>1, <2>2, GoodNext
  <1>9. ASSUME NEW task, NEW ok \in BOOLEAN, Forwarded(task, ok) PROVE GoodInv'
    <2> DEFINE s == Ended(t, task)
               forwards == Append(s.forwards, [id |-> t.forward, pod |-> task.pod, port |-> task.port])
               n == s.forward + 1
               u == [s EXCEPT !.forwards = forwards, !.forward = n]
    <2>1. ~t.quit /\ task.cmd = "Forward" /\ scene' = scene /\ (t' = s \/ t' = u)
      BY <1>9 DEF Forwarded, Running, Done, Ended
    <2>2. Sound(s, <<>>, 0, Settled)
      BY <1>a, <2>1, PlainEnd
    <2> HIDE DEF s, forwards, n
    <2>3. Good(s) /\ Good(u)
      BY <2>2, ForwardGood
    <2> HIDE DEF u
    <2>4. QED
      BY <1>0, <2>1, <2>3, GoodNext
  <1>10. ASSUME NEW task, Started(task) PROVE GoodInv'
    <2> DEFINE m == [msg |-> "Started", stream |-> task.target]
               s == Ended(t, task)
    <2>1. ~t.quit /\ task.cmd = "StartLogs" /\ scene' = scene /\ t' = Run(Route(s, task.view, m))
      BY <1>10 DEF Started, Running, Uses, Done, Ended
    <2>2. Sound(s, <<>>, 0, Settled)
      BY <1>a, <2>1, PlainEnd
    <2>3. m.msg # "Fetched"
      OBVIOUS
    <2> HIDE DEF m, s
    <2>4. Good(t')
      BY <2>1, <2>2, <2>3, RouteGood
    <2>5. QED
      BY <1>0, <2>1, <2>4, GoodNext
  <1>11. ASSUME NEW v, NEW target, NEW hits, Lines(v, target, hits) PROVE GoodInv'
    <2> DEFINE batch == [i \in DOMAIN hits |-> [from |-> target, n |-> lines + i, hit |-> hits[i]]]
               m == [msg |-> "LogLines", lines |-> batch]
    <2>1. ~t.quit /\ scene' = scene /\ t' = Run(Route(t, v.id, m))
      BY <1>11, Zenon DEF Lines, Running, Uses
    <2>2. m.msg # "Fetched"
      OBVIOUS
    <2> HIDE DEF m
    <2>3. Good(t')
      BY <1>a, <2>1, <2>2, RouteGood
    <2>4. QED
      BY <1>0, <2>1, <2>3, GoodNext
  <1>12. CASE UNCHANGED vars
    <2>1. t' = t /\ scene' = scene
      BY <1>12 DEF vars
    <2>2. Good(t')
      BY <1>0, <2>1
    <2>3. QED
      BY <1>0, <2>1, <2>2, GoodNext
  <1>13. ASSUME Answers PROVE GoodInv'
    <2>1. PICK task \in BagToSet(t.tasks) :
             \E found \in scene.answers[task.what] : Answer(task, [what |-> task.what, of |-> task.of, found |-> found])
      BY <1>13 DEF Answers
    <2>a. PICK found \in scene.answers[task.what] : Answer(task, [what |-> task.what, of |-> task.of, found |-> found])
      BY <2>1
    <2> DEFINE a == [what |-> task.what, of |-> task.of, found |-> found]
    <2>2. Lists(a)
      BY <1>0, SceneAnswers
    <2>3. Answer(task, a)
      BY <2>a
    <2> HIDE DEF a
    <2>4. QED
      BY <1>5, <2>2, <2>3
  <1>14. ASSUME Refusals PROVE GoodInv'
    <2> DEFINE a == [what |-> "error", found |-> None]
    <2>1. PICK task \in BagToSet(t.tasks) : Answer(task, a)
      BY <1>14 DEF Refusals
    <2>2. Lists(a) /\ a.what # "Owner"
      BY DEF Lists
    <2> HIDE DEF a
    <2>3. QED
      BY <1>5, <2>1, <2>2
  <1>15. QED
    BY <1>1, <1>2, <1>3, <1>4, <1>6, <1>7, <1>8, <1>9, <1>10, <1>11, <1>12, <1>13, <1>14
       DEF Next, Keys1, RowsCome, MetricsAll, Pongs, Connects, Arrivals, Forwards, Starts, LinesCome

\* It holds in the first state.
LEMMA InitGood ==
    ASSUME Init
    PROVE  GoodInv
  <1>1. scene \in Scenes
    BY DEF Init
  <1>2. QED
    BY <1>1, FirstGood DEF Init, GoodInv

\* The invariant: every view watches what it shows in the namespace of the session, or is about to;
\* what is remembered is on disk and in the header; what is pending is pinged.
THEOREM GoodAlways == Spec => []GoodInv
  <1>1. Init => GoodInv
    BY InitGood
  <1>2. GoodInv /\ [Next]_vars => GoodInv'
    BY StepGood
  <1>3. QED
    BY <1>1, <1>2, PTL DEF Spec

\* ping_missing, refresh and Msg::Pinged (contexts.rs): a context that is waited for has a ping
\* under way, however often they were asked for again; no context waits for ever.
THEOREM PingsStayUnderWay == Spec => []PingsAreUnderWay
  <1>1. GoodInv => PingsAreUnderWay
    <2>1. SUFFICES ASSUME GoodInv, NEW v \in Range(t.views), v.kind = "contexts"
                   PROVE  v.pending \subseteq {task.context : task \in {x \in BagToSet(t.tasks) : x.cmd = "Ping"}}
      BY DEF PingsAreUnderWay
    <2>2. PICK i \in DOMAIN t.views : v = t.views[i]
      BY DEF Range
    <2>4. ASSUME NEW n \in v.pending
          PROVE  n \in {task.context : task \in {x \in BagToSet(t.tasks) : x.cmd = "Ping"}}
      <3>1. DOMAIN <<>> = {}
        OBVIOUS
      <3>2. PingOf(n) \in BagToSet(t.tasks)
        BY <2>1, <2>2, <2>4, <3>1 DEF GoodInv, Good, Pinging
      <3>3. PingOf(n).cmd = "Ping" /\ PingOf(n).context = n
        BY DEF PingOf
      <3>4. QED
        BY <3>2, <3>3
    <2>5. QED
      BY <2>4
  <1>2. QED
    BY <1>1, GoodAlways, PTL

\* remember_namespace, SaveConfig and open_kind_filtered (app.rs): memory, file and header say the same
\* of every context, unless a save was dropped on the way to an unknown kind and none came since.
THEOREM MemoryStaysAgreed == Spec => []MemoryAgrees
  <1>1. GoodInv => MemoryAgrees
    BY DEF GoodInv, Good, Shaped, Remembers, IsMemory, MemoryAgrees, HasSession
  <1>2. QED
    BY <1>1, GoodAlways, PTL

\* set_namespace, set_filter, on_selector, open_kind_filtered (app.rs, pods.rs, resources.rs): a table's
\* watch is the one its title tells of, unless its restart was dropped on the way to an unknown kind and
\* none came since; and it is in the namespace that is active unless a connect is about to replace it.
THEOREM WatchedStaysShown == Spec => []WatchedIsShown
  <1>1. GoodInv => WatchedIsShown
    <2>1. SUFFICES ASSUME GoodInv, NEW v \in TablesOf(t), ~v.awaiting
                   PROVE  /\ \/ v.id \in DOMAIN t.watching /\ t.watching[v.id] = <<v.ns, <<v.selector, v.filter.labels>>>>
                             \/ WatchesOf(v.id, t.dropped) # {}
                          /\ v.shows \in ClusterScoped \/ v.ns = Ns(t)
                                \/ \E task \in BagToSet(t.tasks) : task.cmd = "Connected"
      BY DEF WatchedIsShown
    <2>2. PICK i \in DOMAIN t.views : v = t.views[i]
      BY DEF TablesOf, Range
    <2>3. Live(v)
      BY <2>1, KindsAre DEF TablesOf, Live
    <2>4. \/ v.id \in DOMAIN t.watching /\ t.watching[v.id] = Shows(v)
          \/ \E c \in t.dropped : WatchFor(c, v.id)
      BY <2>1, <2>2, <2>3 DEF GoodInv, Good
    <2>a. (\E c \in t.dropped : WatchFor(c, v.id)) => WatchesOf(v.id, t.dropped) # {}
      BY DEF WatchesOf, WatchFor
    <2>5. Landed \in BagToSet(t.tasks) \/ InNs(v, Ns(t))
      BY <2>1, <2>2 DEF GoodInv, Good, Current
    <2>6. Landed.cmd = "Connected"
      BY DEF Landed
    <2>7. QED
      BY <2>3, <2>4, <2>a, <2>5, <2>6 DEF Shows, InNs
  <1>2. QED
    BY <1>1, GoodAlways, PTL

-----------------------------------------------------------------------------
(* Esc *)

Opened(d) == {f \in DOMAIN d : d[f] # None}
Filtered(s) == {i \in DOMAIN s.views : ~Unfiltered(s.views[i])}

\* What all states have between the messages
Formed(s) == DOMAIN s = Fields /\ DOMAIN s.dialogs = DOMAIN NoDialogs /\ IsSeq(s.views) /\ Len(s.views) > 0

\* Nothing opened, was pushed or filtered.
Below(s, u) ==
    /\ Formed(u)
    /\ Opened(u.dialogs) \subseteq Opened(s.dialogs) /\ Filtered(u) \subseteq Filtered(s) /\ Len(u.views) <= Len(s.views)

\* How many dialogs and filters there are.
LEMMA DepthIs ==
    ASSUME NEW s, Formed(s)
    PROVE  /\ IsFiniteSet(Opened(s.dialogs)) /\ IsFiniteSet(Filtered(s)) /\ Len(s.views) \in Nat
           /\ Cardinality(Opened(s.dialogs)) \in Nat /\ Cardinality(Filtered(s)) \in Nat
           /\ Depth(s) = Cardinality(Opened(s.dialogs)) + Len(s.views) + Cardinality(Filtered(s))
  <1>1. IsFiniteSet(DOMAIN s.dialogs)
    <2>1. IsFiniteSet({})
      BY FS_EmptySet
    <2>2. IsFiniteSet({} \cup {"confirm"})
      BY <2>1, FS_AddElement
    <2>3. IsFiniteSet(({} \cup {"confirm"}) \cup {"input"})
      BY <2>2, FS_AddElement
    <2>4. IsFiniteSet((({} \cup {"confirm"}) \cup {"input"}) \cup {"delete"})
      BY <2>3, FS_AddElement
    <2>5. IsFiniteSet(((({} \cup {"confirm"}) \cup {"input"}) \cup {"delete"}) \cup {"pick"})
      BY <2>4, FS_AddElement
    <2>6. IsFiniteSet((((({} \cup {"confirm"}) \cup {"input"}) \cup {"delete"}) \cup {"pick"}) \cup {"prompt"})
      BY <2>5, FS_AddElement
    <2>7. DOMAIN s.dialogs = (((({} \cup {"confirm"}) \cup {"input"}) \cup {"delete"}) \cup {"pick"}) \cup {"prompt"}
      BY DEF Formed, NoDialogs
    <2>8. QED
      BY <2>6, <2>7
  <1>2. Opened(s.dialogs) \subseteq DOMAIN s.dialogs
    BY DEF Opened
  <1>3. Len(s.views) \in Nat /\ DOMAIN s.views = 1..Len(s.views)
    BY SeqHas DEF Formed
  <1>4. IsFiniteSet(1..Len(s.views)) /\ Filtered(s) \subseteq 1..Len(s.views)
    BY <1>3, FS_Interval DEF Filtered
  <1>5. IsFiniteSet(Opened(s.dialogs)) /\ IsFiniteSet(Filtered(s))
    BY <1>1, <1>2, <1>4, FS_Subset
  <1>6. Cardinality(Opened(s.dialogs)) \in Nat /\ Cardinality(Filtered(s)) \in Nat
    BY <1>5, FS_CardinalityType
  <1>7. Depth(s) = Cardinality(Opened(s.dialogs)) + Len(s.views) + Cardinality(Filtered(s))
    BY DEF Depth, OpenCount, Opened, Filtered
  <1>8. QED
    BY <1>3, <1>5, <1>6, <1>7

\* What is below, and not the same, is nearer.
LEMMA DepthFalls ==
    ASSUME NEW s, Formed(s), NEW u, Below(s, u),
           Opened(u.dialogs) # Opened(s.dialogs) \/ Filtered(u) # Filtered(s) \/ Len(u.views) # Len(s.views)
    PROVE  Depth(u) < Depth(s)
  <1> DEFINE a == Opened(s.dialogs)
             b == Opened(u.dialogs)
             c == Filtered(s)
             d == Filtered(u)
  <1>1. /\ IsFiniteSet(a) /\ IsFiniteSet(c) /\ Len(s.views) \in Nat /\ Cardinality(a) \in Nat /\ Cardinality(c) \in Nat
        /\ Depth(s) = Cardinality(a) + Len(s.views) + Cardinality(c)
    BY DepthIs
  <1>2. /\ Len(u.views) \in Nat /\ Cardinality(b) \in Nat /\ Cardinality(d) \in Nat
        /\ Depth(u) = Cardinality(b) + Len(u.views) + Cardinality(d)
    BY DepthIs DEF Below
  <1>3. b \subseteq a /\ d \subseteq c /\ Len(u.views) <= Len(s.views)
    BY DEF Below
  <1>4. b # a \/ d # c \/ Len(u.views) # Len(s.views)
    OBVIOUS
  <1> HIDE DEF a, b, c, d
  <1>5. /\ Cardinality(b) <= Cardinality(a) /\ (b # a => Cardinality(b) # Cardinality(a))
        /\ Cardinality(d) <= Cardinality(c) /\ (d # c => Cardinality(d) # Cardinality(c))
    BY <1>1, <1>3, FS_Subset
  <1>6. QED
    BY <1>1, <1>2, <1>3, <1>4, <1>5

\* Where esc leads no farther
LEMMA DepthOne ==
    ASSUME NEW s, Formed(s), Opened(s.dialogs) = {}, Filtered(s) = {}, Len(s.views) = 1
    PROVE  Depth(s) = 1
  <1>1. Cardinality({}) = 0
    BY FS_EmptySet
  <1>2. Depth(s) = Cardinality(Opened(s.dialogs)) + Len(s.views) + Cardinality(Filtered(s))
    BY DepthIs
  <1>3. Cardinality(Opened(s.dialogs)) = 0 /\ Cardinality(Filtered(s)) = 0
    BY <1>1
  <1> DEFINE a == Cardinality(Opened(s.dialogs))
             b == Cardinality(Filtered(s))
  <1>4. a = 0 /\ b = 0 /\ Depth(s) = a + 1 + b
    BY <1>2, <1>3
  <1> HIDE DEF a, b
  <1>5. QED
    BY <1>4

\* A part that counts nothing changed.
LEMMA SameBelow ==
    ASSUME NEW s, Formed(s), NEW u, DOMAIN u = Fields, u.views = s.views, u.dialogs = s.dialogs
    PROVE  Below(s, u) /\ Formed(u) /\ Filtered(u) = Filtered(s)
  BY DEF Below, Formed, Filtered

\* One view instead of another that is filtered if the new one is.
LEMMA PutsBelow ==
    ASSUME NEW s, Formed(s), NEW i \in DOMAIN s.views, NEW w, Unfiltered(s.views[i]) => Unfiltered(w),
           NEW u, u = Puts(s, i, w)
    PROVE  /\ Below(s, u) /\ Same(s, u, {"views"}) /\ Len(u.views) = Len(s.views)
           /\ Unfiltered(w) => i \notin Filtered(u)
  <1>1. IsSeq(s.views) /\ DOMAIN s = Fields
    BY DEF Formed
  <1>2. DOMAIN u = Fields /\ u.views = [s.views EXCEPT ![i] = w] /\ \A f \in Fields \ {"views"} : u[f] = s[f]
    BY <1>1 DEF Fields, Puts
  <1>3. /\ IsSeq(u.views) /\ Len(u.views) = Len(s.views) /\ DOMAIN u.views = DOMAIN s.views
        /\ u.views[i] = w /\ \A j \in DOMAIN s.views : j # i => u.views[j] = s.views[j]
    BY <1>1, <1>2, ExceptIs
  <1>4. u.dialogs = s.dialogs
    BY <1>2 DEF Fields
  <1>5. Filtered(u) \subseteq Filtered(s) /\ (Unfiltered(w) => i \notin Filtered(u))
    BY <1>3 DEF Filtered
  <1>6. Len(s.views) \in Nat
    BY <1>1, SeqHas
  <1>7. QED
    BY <1>1, <1>2, <1>3, <1>4, <1>5, <1>6 DEF Below, Formed, Same

\* The header is no matter.
LEMMA SyncBelow ==
    ASSUME NEW s, Formed(s)
    PROVE  LET u == SyncChrome(s) IN DOMAIN u = Fields /\ u.views = s.views /\ u.dialogs = s.dialogs
  <1> DEFINE x == [context |-> s.session.context, favorites |-> s.config.of[s.session.context].favorites]
             u == [s EXCEPT !.shown = x]
  <1>1. SyncChrome(s) = u \/ SyncChrome(s) = s
    BY Zenon DEF SyncChrome
  <1>2. DOMAIN u = Fields /\ u.views = s.views /\ u.dialogs = s.dialogs /\ DOMAIN s = Fields
    BY DEF Formed, Fields
  <1> HIDE DEF u
  <1>3. QED
    BY <1>1, <1>2

\* pop_view leaves one view, if it is not the last.
LEMMA PopBelow ==
    ASSUME NEW s, Formed(s)
    PROVE  Below(s, PopView(s)) /\ PopView(s).dialogs = s.dialogs /\ (Len(s.views) # 1 => Len(PopView(s).views) # Len(s.views))
  <1> DEFINE n == Len(s.views) - 1
             u == [s EXCEPT !.full = FALSE, !.views = Front(@)]
             w == SyncChrome(u)
  <1>1. PopView(s) = IF Len(s.views) <= 1 THEN s ELSE w
    BY Zenon DEF PopView
  <1>2. DOMAIN s = Fields /\ IsSeq(s.views) /\ DOMAIN s.views = 1..Len(s.views) /\ Len(s.views) \in Nat /\ Len(s.views) > 0
    BY SeqHas DEF Formed
  <1>3. CASE Len(s.views) <= 1
    <2>1. PopView(s) = s
      BY <1>1, <1>3
    <2>2. Below(s, s)
      BY <1>2, SameBelow
    <2> DEFINE l == Len(s.views)
    <2>3. l \in Nat /\ l > 0 /\ l <= 1
      BY <1>2, <1>3
    <2> HIDE DEF l
    <2>4. l = 1
      BY <2>3
    <2>5. QED
      BY <2>1, <2>2, <2>4 DEF l
  <1>4. CASE ~(Len(s.views) <= 1)
    <2>1. PopView(s) = w
      BY <1>1, <1>4
    <2>2. DOMAIN u = Fields /\ u.views = Front(s.views) /\ u.dialogs = s.dialogs
      BY <1>2 DEF Fields
    <2>3. Front(s.views) = SubSeq(s.views, 1, n) /\ n \in 0..Len(s.views) /\ n > 0 /\ n < Len(s.views)
      BY <1>2, <1>4 DEF Front
    <2> HIDE DEF u, n
    <2>4. IsSeq(u.views) /\ Len(u.views) = n /\ \A j \in 1..n : u.views[j] = s.views[j]
      BY <1>2, <2>2, <2>3, SubSeqIs
    <2>5. DOMAIN u.views = 1..n /\ 1..n \subseteq DOMAIN s.views
      BY <1>2, <2>3, <2>4, SeqHas
    <2>6. Formed(u)
      BY <2>2, <2>3, <2>4 DEF Formed
    <2>7. Filtered(u) \subseteq Filtered(s)
      BY <2>4, <2>5 DEF Filtered
    <2>8. Below(s, u)
      BY <1>2, <2>2, <2>3, <2>4, <2>6, <2>7 DEF Below
    <2>9. DOMAIN w = Fields /\ w.views = u.views /\ w.dialogs = u.dialogs
      BY <2>6, SyncBelow
    <2> HIDE DEF w
    <2>10. Below(u, w)
      BY <2>6, <2>9, SameBelow
    <2>11. Below(s, w)
      BY <2>8, <2>9, <2>10 DEF Below
    <2>12. QED
      BY <2>1, <2>2, <2>3, <2>4, <2>9, <2>11
  <1>5. QED
    BY <1>3, <1>4

\* Below is transitive.
LEMMA BelowTrans ==
    ASSUME NEW s, NEW u, NEW w, Formed(s), Below(s, u), Below(u, w)
    PROVE  Below(s, w)
  <1>1. Len(s.views) \in Nat /\ Len(u.views) \in Nat /\ Len(w.views) \in Nat
    BY SeqHas DEF Below, Formed
  <1>2. QED
    BY <1>1 DEF Below

\* No commands
LEMMA NoneRun ==
    ASSUME NEW p, p.cmds = <<>>
    PROVE  Run(p) = p.t
  <1>1. IsSeq(p.cmds) /\ Len(p.cmds) = 0
    BY EmptyIsSeq
  <1>2. PICK g : g[0] = p.t /\ Run(p) = g[Len(p.cmds)]
    BY <1>1, RunTrail
  <1>3. QED
    BY <1>1, <1>2

\* HasKeys: an open dialog if there is one
LEMMA HasKeysIs ==
    ASSUME NEW d, DOMAIN d = DOMAIN NoDialogs
    PROVE  (HasKeys(d) = None /\ Opened(d) = {}) \/ HasKeys(d) \in Opened(d)
  <1> DEFINE order == <<"confirm", "input", "delete", "pick", "prompt">>
             open == {i \in DOMAIN order : d[order[i]] # None}
             least == CHOOSE i \in open : \A j \in open : i <= j
  <1>1. HasKeys(d) = IF open = {} THEN None ELSE order[least]
    BY Zenon DEF HasKeys
  <1>2. DOMAIN order = 1..5 /\ DOMAIN d = {order[i] : i \in 1..5}
    BY DEF NoDialogs
  <1> HIDE DEF order
  <1>3. open \subseteq Nat
    BY <1>2
  <1>4. CASE open = {}
    BY <1>1, <1>2, <1>4 DEF Opened
  <1>5. CASE open # {}
    <2>1. least \in open
      <3> HIDE DEF open
      <3>1. \E i \in open : \A j \in open : i <= j
        BY <1>3, <1>5, LeastExists
      <3>2. QED
        BY <3>1, Zenon
    <2> HIDE DEF least
    <2>2. order[least] \in DOMAIN d /\ d[order[least]] # None
      BY <1>2, <2>1
    <2>3. HasKeys(d) = order[least]
      BY <1>1, <1>5
    <2>4. QED
      BY <2>2, <2>3 DEF Opened
  <1>6. QED
    BY <1>4, <1>5

\* A dialog less
LEMMA DialogLess ==
    ASSUME NEW s, Formed(s), NEW d, DOMAIN d = DOMAIN NoDialogs, Opened(d) \subseteq Opened(s.dialogs),
           NEW f \in Opened(s.dialogs), f \notin Opened(d), NEW u, u = [s EXCEPT !.dialogs = d]
    PROVE  Below(s, u) /\ Opened(u.dialogs) # Opened(s.dialogs) /\ u.views = s.views
  <1>1. DOMAIN u = Fields /\ u.dialogs = d /\ u.views = s.views
    BY DEF Formed, Fields
  <1>2. Len(s.views) \in Nat
    BY SeqHas DEF Formed
  <1>3. Formed(u) /\ Filtered(u) = Filtered(s)
    BY <1>1 DEF Formed, Filtered
  <1>4. QED
    BY <1>1, <1>2, <1>3 DEF Below

\* close_all_modals, and the prompt and the pick that are closed by themselves
LEMMA ClosedLess ==
    ASSUME NEW d, DOMAIN d = DOMAIN NoDialogs
    PROVE  /\ DOMAIN CloseModals(d) = DOMAIN NoDialogs /\ Opened(CloseModals(d)) \subseteq Opened(d)
           /\ \A f \in {"confirm", "input", "delete"} : f \notin Opened(CloseModals(d))
           /\ \A f \in DOMAIN NoDialogs :
                 /\ DOMAIN [d EXCEPT ![f] = None] = DOMAIN NoDialogs
                 /\ Opened([d EXCEPT ![f] = None]) \subseteq Opened(d) /\ f \notin Opened([d EXCEPT ![f] = None])
  <1>1. /\ DOMAIN CloseModals(d) = DOMAIN NoDialogs
        /\ CloseModals(d).prompt = d.prompt /\ \A f \in DOMAIN NoDialogs \ {"prompt"} : CloseModals(d)[f] = None
    BY DEF CloseModals, NoDialogs
  <1>2. "prompt" \in DOMAIN NoDialogs /\ {"confirm", "input", "delete"} \subseteq DOMAIN NoDialogs \ {"prompt"}
    BY DEF NoDialogs
  <1>3. Opened(CloseModals(d)) \subseteq Opened(d) /\ \A f \in {"confirm", "input", "delete"} : f \notin Opened(CloseModals(d))
    BY <1>1, <1>2 DEF Opened
  <1>4. ASSUME NEW f \in DOMAIN NoDialogs
        PROVE  /\ DOMAIN [d EXCEPT ![f] = None] = DOMAIN NoDialogs
               /\ Opened([d EXCEPT ![f] = None]) \subseteq Opened(d) /\ f \notin Opened([d EXCEPT ![f] = None])
    BY DEF Opened
  <1>5. QED
    BY <1>1, <1>3, <1>4

\* The message goes to one view, or to none.
LEMMA RouteIs ==
    ASSUME NEW s, IsSeq(s.views), NEW id, NEW m
    PROVE  \/ Route(s, id, m) = Pair(s, <<>>)
           \/ \E at \in DOMAIN s.views : Route(s, id, m) = Told(Pair(s, <<>>), at, OnMsg(s.views[at], m, s))
  <1> DEFINE here == {i \in DOMAIN s.views : s.views[i].id = id}
             at == Min(here)
             p == Pair(s, <<>>)
  <1>1. CASE ~OnStack(s, id)
    <2>1. Route(s, id, m) = Tell(s, <<>>, m)
      BY <1>1 DEF Route
    <2>2. IsSeq(<<>>) /\ Len(<<>>) = 0
      BY EmptyIsSeq
    <2>3. PICK g : g[0] = p /\ Tell(s, <<>>, m) = g[Len(<<>>)]
      BY <2>2, TellTrail
    <2>4. QED
      BY <2>1, <2>2, <2>3
  <1>2. CASE OnStack(s, id)
    <2>1. Route(s, id, m) = Tell(s, <<at>>, m)
      BY <1>2 DEF Route
    <2>2. at \in DOMAIN s.views
      <3>1. DOMAIN s.views = 1..Len(s.views)
        BY SeqHas
      <3>2. here \subseteq Nat /\ here # {}
        BY <1>2, <3>1 DEF OnStack
      <3> HIDE DEF here
      <3>3. at \in here
        BY <3>2, LeastIs
      <3>4. QED
        BY <3>3 DEF here
    <2> HIDE DEF at
    <2> DEFINE places == <<at>>
    <2>3. IsSeq(places) /\ Len(places) = 1 /\ places[1] = at
      BY OneIsSeq
    <2> HIDE DEF places
    <2>4. PICK g : /\ g[0] = Pair(s, <<>>)
                   /\ \A i \in 1..Len(places) :
                         g[i] = Told(g[i - 1], places[i], OnMsg(g[i - 1].t.views[places[i]], m, g[i - 1].t))
                   /\ Tell(s, places, m) = g[Len(places)]
      BY <2>3, TellTrail
    <2>5. g[1] = Told(g[0], at, OnMsg(g[0].t.views[at], m, g[0].t))
      BY <2>3, <2>4
    <2>6. g[0].t = s
      BY <2>4, PairIs
    <2>7. Tell(s, places, m) = Told(Pair(s, <<>>), at, OnMsg(s.views[at], m, s))
      BY <2>3, <2>4, <2>5, <2>6
    <2>8. QED
      BY <2>1, <2>2, <2>7 DEF places
  <1>3. QED
    BY <1>1, <1>2

-----------------------------------------------------------------------------
(* What the views make of esc, of a pick that is cancelled and of no filter *)

\* A view is filtered by its filter alone.
LEMMA SameFilter ==
    ASSUME NEW v, NEW w, w.kind = v.kind, w.filter = v.filter
    PROVE  Unfiltered(w) <=> Unfiltered(v)
  <1>1. Kinds(w) = Kinds(v)
    BY DEF Kinds
  <1>2. QED
    BY <1>1 DEF Unfiltered

\* on_msg(Picked) of nothing: a table expects the pick no more, the logs pop the view on top.
LEMMA PickedNone ==
    ASSUME NEW v, IsView(v)
    PROVE  LET did == ViewPicked(v, None)
           IN  /\ Unfiltered(v) => Unfiltered(did.view)
               /\ did.cmds = <<>> \/ did.cmds = <<[cmd |-> "PopView"]>>
  <1> DEFINE did == ViewPicked(v, None)
             a == [v EXCEPT !.svc = None]
             b == [v EXCEPT !.exec = FALSE, !.attach = FALSE, !.pf = FALSE]
             c == [v EXCEPT !.picking = FALSE]
             pop == <<[cmd |-> "PopView"]>>
  <1>1. {"kind", "filter"} \subseteq DOMAIN v
    BY DEF IsView
  <1>2. /\ a.kind = v.kind /\ a.filter = v.filter /\ b.kind = v.kind /\ b.filter = v.filter
        /\ c.kind = v.kind /\ c.filter = v.filter
    BY <1>1
  <1>3. \/ did = Kept(a, <<>>) \/ did = Kept(b, <<>>) \/ did = Kept(c, pop) \/ did = Kept(v, <<>>)
    <2>1. Kinds(v) = "table" => did = OnPicked(v, None, FALSE)
      BY DEF ViewPicked
    <2>2. OnPicked(v, None, FALSE) = Kept(a, <<>>) \/ OnPicked(v, None, FALSE) = Kept(b, <<>>)
      BY DEF OnPicked
    <2>3. Kinds(v) = "logs" => did = LogsPicked(v, None)
      BY DEF ViewPicked
    <2>4. LogsPicked(v, None) = Kept(c, pop)
      BY DEF LogsPicked
    <2>5. Kinds(v) # "table" /\ Kinds(v) # "logs" => did = Kept(v, <<>>)
      BY DEF ViewPicked
    <2> HIDE DEF did, a, b, c, pop
    <2>6. QED
      BY <2>1, <2>2, <2>3, <2>4, <2>5
  <1> HIDE DEF did, a, b, c, pop
  <1>4. (did.view = a \/ did.view = b \/ did.view = c \/ did.view = v) /\ (did.cmds = <<>> \/ did.cmds = pop)
    BY <1>3 DEF Kept
  <1>5. Unfiltered(v) => Unfiltered(did.view)
    BY <1>2, <1>4, SameFilter
  <1>6. QED
    BY <1>4, <1>5 DEF did, pop

\* set_filter of a table to nothing
LEMMA TableCleared ==
    ASSUME NEW v, IsView(v), v.kind = "table"
    PROVE  LET did == SetFilter(v, NoFilter)
           IN  /\ did.view.kind = "table" /\ did.view.filter = NoFilter
               /\ did.cmds = <<>> \/ \E w : did.cmds = <<Watch(w)>>
  <1> DEFINE u == [v EXCEPT !.filter = NoFilter]
             w == FixSelection(u)
             x == [w EXCEPT !.filter.labels = None]
             y == [w EXCEPT !.rows = <<>>, !.loaded = FALSE]
             did == SetFilter(v, NoFilter)
             labels == v.filter.labels
  <1>1. TableFields \subseteq DOMAIN v
    BY TableHas
  <1>2. DOMAIN u = DOMAIN v /\ u.filter = NoFilter /\ u.kind = "table"
    BY <1>1 DEF TableFields
  <1>3. did = Refiltered(w, labels)
    BY DEF SetFilter
  <1>4. Refiltered(w, labels) = Kept(x, <<>>) \/ Refiltered(w, labels) = Kept(w, <<>>) \/ Refiltered(w, labels) = Kept(y, <<Watch(w)>>)
    BY DEF Refiltered, FilterEvents, Rewatched
  <1>5. {"kind", "filter"} \subseteq DOMAIN w /\ w.kind = "table" /\ w.filter = NoFilter
    <2>1. TableFields \subseteq DOMAIN u
      BY <1>1, <1>2
    <2> HIDE DEF u
    <2>2. Keeps(u, w, TableFields)
      BY <2>1, FixKeeps
    <2>3. QED
      BY <1>2, <2>1, <2>2 DEF Keeps, TableFields
  <1> HIDE DEF u, w
  <1>6. x.kind = "table" /\ x.filter = NoFilter
    <2>1. x.kind = "table" /\ x.filter = [NoFilter EXCEPT !.labels = None]
      BY <1>5
    <2>2. [NoFilter EXCEPT !.labels = None] = NoFilter
      BY DEF NoFilter
    <2>3. QED
      BY <2>1, <2>2
  <1>7. y.kind = "table" /\ y.filter = NoFilter
    BY <1>5
  <1> HIDE DEF x, y, did
  <1>8. QED
    BY <1>3, <1>4, <1>5, <1>6, <1>7 DEF Kept, did

\* set_filter of the views with more than a list
LEMMA FilterIs ==
    ASSUME NEW v, NEW f
    PROVE  /\ v.kind = "table" => SetViewFilter(v, f) = SetFilter(v, f)
           /\ v.kind = "logs" => SetViewFilter(v, f) = FilterLines(v, f # NoFilter)
           /\ v.kind = "contexts" => SetViewFilter(v, f) = FilterContexts(v, f.names)
  <1> DEFINE on == f # NoFilter
             names == f.names
             a == SetFilter(v, f)
             b == FilterLines(v, on)
             c == FilterContexts(v, names)
             d == FilterList(v, names)
             e == SearchText(v, names)
             g == Kept(v, <<>>)
             op == SetViewFilter(v, f)
  <1>1. op = CASE Kinds(v) = "table" -> a
               [] Kinds(v) = "logs" -> b
               [] Kinds(v) = "contexts" -> c
               [] v.kind \in {"namespaces", "aliases"} -> d
               [] v.kind = "text" -> e
               [] OTHER -> g
    BY Zenon DEF SetViewFilter
  <1>2. v.kind \in {"table", "logs", "contexts"} => Kinds(v) = v.kind
    BY DEF Kinds
  <1> HIDE DEF a, b, c, d, e, g, op
  <1>3. (v.kind = "table" => op = a) /\ (v.kind = "logs" => op = b) /\ (v.kind = "contexts" => op = c)
    BY <1>1, <1>2
  <1>4. QED
    BY <1>3 DEF op, a, b, c

\* set_filter to nothing: the view is unfiltered.
LEMMA ViewCleared ==
    ASSUME NEW v, IsView(v), ~Unfiltered(v)
    PROVE  LET did == SetViewFilter(v, NoFilter)
           IN  /\ Unfiltered(did.view)
               /\ did.cmds = <<>> \/ \E w : did.cmds = <<Watch(w)>>
  <1> DEFINE did == SetViewFilter(v, NoFilter)
             a == [v EXCEPT !.filter = FALSE]
             u == [v EXCEPT !.filter = AnyName]
  <1>1. {"kind", "filter"} \subseteq DOMAIN v /\ NoFilter.names = AnyName /\ (NoFilter # NoFilter) = FALSE
    BY DEF IsView, NoFilter
  <1>2. a.kind = v.kind /\ a.filter = FALSE /\ DOMAIN u = DOMAIN v /\ u.kind = v.kind /\ u.filter = AnyName
    BY <1>1
  <1>3. CASE v.kind = "table"
    <2>1. Kinds(v) = "table"
      BY <1>3 DEF Kinds
    <2>2. did = SetFilter(v, NoFilter)
      BY <1>3, FilterIs
    <2>3. did.view.kind = "table" /\ did.view.filter = NoFilter /\ (did.cmds = <<>> \/ \E w : did.cmds = <<Watch(w)>>)
      BY <1>3, <2>2, TableCleared
    <2> HIDE DEF did
    <2>4. Kinds(did.view) = "table"
      BY <2>3 DEF Kinds
    <2>5. Unfiltered(did.view)
      BY <2>3, <2>4 DEF Unfiltered
    <2>6. QED
      BY <2>3, <2>5 DEF did
  <1>4. CASE v.kind = "logs"
    <2>1. Kinds(v) = "logs" /\ Kinds(a) = "logs"
      BY <1>2, <1>4 DEF Kinds
    <2>2. did = FilterLines(v, FALSE)
      <3> DEFINE on == NoFilter # NoFilter
      <3>1. did = FilterLines(v, on)
        BY <1>4, FilterIs
      <3>2. on = FALSE
        OBVIOUS
      <3> HIDE DEF on
      <3>3. QED
        BY <3>1, <3>2
    <2>3. did.view = a /\ did.cmds = <<>>
      BY <2>2 DEF FilterLines, Kept
    <2>4. Unfiltered(a)
      BY <1>2, <2>1 DEF Unfiltered
    <2>5. QED
      BY <2>3, <2>4
  <1>5. ASSUME NEW w, w.kind = v.kind, w.filter = AnyName, v.kind \notin {"table", "logs"} PROVE Unfiltered(w)
    <2>1. Kinds(w) # "table" /\ Kinds(w) # "logs"
      BY <1>5 DEF Kinds
    <2>2. QED
      BY <1>5, <2>1 DEF Unfiltered
  <1>6. CASE v.kind = "contexts"
    <2> DEFINE c == [u EXCEPT !.selected = Beside(ShownContexts(u), None, 1)]
    <2>1. did = FilterContexts(v, AnyName)
      <3>1. did = FilterContexts(v, NoFilter.names)
        BY <1>6, FilterIs
      <3>2. QED
        BY <1>1, <3>1
    <2>2. FilterContexts(v, AnyName) = Kept(u, <<>>) \/ FilterContexts(v, AnyName) = Kept(c, <<>>)
      BY DEF FilterContexts
    <2>3. c.kind = v.kind /\ c.filter = AnyName
      BY <1>1, <1>2
    <2> HIDE DEF c, u, did
    <2>4. did.cmds = <<>> /\ (did.view = u \/ did.view = c)
      BY <2>1, <2>2 DEF Kept
    <2>5. Unfiltered(did.view)
      BY <1>2, <1>5, <1>6, <2>3, <2>4
    <2>6. QED
      BY <2>4, <2>5 DEF did
  <1>7. CASE v.kind \in {"namespaces", "aliases"}
    <2> DEFINE c == [u EXCEPT !.at = IF @ > Len(Listed(u)) THEN Within(u, @) ELSE @]
    <2>1. did = FilterList(v, AnyName)
      BY <1>1, <1>7 DEF SetViewFilter, Kinds
    <2>2. FilterList(v, AnyName) = Kept(c, <<>>)
      BY DEF FilterList
    <2>3. c.kind = v.kind /\ c.filter = AnyName
      BY <1>1, <1>2
    <2> HIDE DEF c, u, did
    <2>4. did.cmds = <<>> /\ did.view = c
      BY <2>1, <2>2 DEF Kept
    <2>5. Unfiltered(did.view)
      BY <1>5, <1>7, <2>3, <2>4
    <2>6. QED
      BY <2>4, <2>5 DEF did
  <1>8. CASE v.kind = "text"
    <2>1. did = SearchText(v, AnyName)
      BY <1>1, <1>8 DEF SetViewFilter, Kinds
    <2>2. SearchText(v, AnyName).cmds = <<>>
      BY DEF SearchText, Kept
    <2>3. SearchText(v, AnyName).view.kind = v.kind /\ SearchText(v, AnyName).view.filter = AnyName
      BY <1>1 DEF SearchText, Kept
    <2> HIDE DEF did
    <2>4. Unfiltered(did.view)
      BY <1>5, <1>8, <2>1, <2>3
    <2>5. QED
      BY <2>1, <2>2, <2>4 DEF did
  <1>9. CASE ~WantsFilter(v)
    <2>1. v.filter = AnyName /\ v.kind \notin {"table", "logs"}
      BY <1>9 DEF IsView, WantsFilter
    <2>2. Unfiltered(v)
      BY <1>5, <2>1
    <2>3. QED
      BY <2>2
  <1>10. QED
    BY <1>3, <1>4, <1>6, <1>7, <1>8, <1>9 DEF WantsFilter

\* esc of the themes: the theme of before, and the view is left.
LEMMA ThemesLeft ==
    ASSUME NEW v, v.kind = "themes", NEW k, k.key = "esc"
    PROVE  ViewKey(v, k) = Kept(v, <<Preview(v.of), [cmd |-> "PopView"]>>)
  <1>1. Kinds(v) = "list"
    BY DEF Kinds
  <1>2. ViewKey(v, k) = ListKey(v, k)
    BY <1>1 DEF ViewKey
  <1>3. ListKey(v, k) = ThemesKey(v, k)
    BY DEF ListKey
  <1>4. ThemesKey(v, k) = Kept(v, <<Preview(v.of), [cmd |-> "PopView"]>>)
    BY DEF ThemesKey, Moves
  <1>5. QED
    BY <1>2, <1>3, <1>4

-----------------------------------------------------------------------------
(* Esc leads home *)

Nearer(s, p) == Depth(Run(p)) < Depth(s) \/ Depth(s) = 1

\* Who has esc, and what it makes of it: only the themes get it themselves.
LEMMA EscIs ==
    ASSUME NEW s, DOMAIN s.dialogs = DOMAIN NoDialogs, NEW k, k.key = "esc"
    PROVE  LET has == HasKeys(s.dialogs)
           IN  \/ has \in {"confirm", "input", "delete"} /\ HandleKey(s, k) = Pair(Close(s), <<>>)
               \/ has = "pick" /\ HandleKey(s, k) = PickKey(s, k)
               \/ has = "prompt" /\ HandleKey(s, k) = PromptKey(s, k)
               \/ has = None /\ HandleKey(s, k) = EscCascade(s)
               \/ /\ has = None /\ s.views # <<>> /\ Top(s).kind = "themes"
                  /\ HandleKey(s, k) = WithTop(s, ViewKey(Top(s), k))
  <1> DEFINE has == HasKeys(s.dialogs)
             rows == IF s.views = <<>> THEN {} ELSE {x \in Targets(Top(s)) : k.key \in RowKeys(Top(s), x)}
             row == CHOOSE x \in rows : TRUE
             app == k.key \in GlobalKeys(s)
             c6 == has = None /\ app
             c7 == has = None /\ ~app /\ rows # {}
             p1 == ConfirmKey(s, k)
             p2 == InputKey(s, k)
             p3 == DeleteKey(s, k)
             p4 == PickKey(s, k)
             p5 == PromptKey(s, k)
             p6 == GlobalKey(s, k)
             p7 == RowKey(s, k, row)
             p8 == ViewGets(s, k)
             op == HandleKey(s, k)
             closed == Pair(Close(s), <<>>)
             themed == s.views # <<>> /\ Top(s).kind = "themes"
  <1>1. op = CASE has = "confirm" -> p1
               [] has = "input" -> p2
               [] has = "delete" -> p3
               [] has = "pick" -> p4
               [] has = "prompt" -> p5
               [] c6 -> p6
               [] c7 -> p7
               [] OTHER -> p8
    BY Zenon DEF HandleKey, OnTop, ViewGets
  <1>2. p1 = closed /\ p2 = closed /\ p3 = closed
    <2> HIDE DEF closed
    <2>1. QED
      BY DEF ConfirmKey, InputKey, DeleteKey, closed
  <1>3. p6 = EscCascade(s)
    BY DEF GlobalKey
  <1>4. app \/ themed
    BY DEF GlobalKeys
  <1>5. themed => rows = {}
    <2>1. ASSUME Top(s).kind = "themes" PROVE Targets(Top(s)) = {}
      BY <2>1 DEF Targets
    <2>2. QED
      BY <2>1
  <1>6. themed => p8 = WithTop(s, ViewKey(Top(s), k))
    BY DEF ViewGets
  <1>7. has \in {"confirm", "input", "delete", "pick", "prompt"} \/ has = None
    BY HasKeysIs DEF Opened, NoDialogs
  <1>8. None \notin {"confirm", "input", "delete", "pick", "prompt"}
    BY DialogsAssumption DEF NoDialogs
  <1>9. c6 <=> (has = None /\ app)
    OBVIOUS
  <1>10. c7 <=> (has = None /\ ~app /\ rows # {})
    OBVIOUS
  <1> DEFINE left == WithTop(s, ViewKey(Top(s), k))
             cascade == EscCascade(s)
  <1> HIDE DEF has, rows, row, app, c6, c7, p1, p2, p3, p4, p5, p6, p7, p8, op, closed, themed, left, cascade
  <1>11. \/ has \in {"confirm", "input", "delete"} /\ op = closed
         \/ has = "pick" /\ op = p4
         \/ has = "prompt" /\ op = p5
         \/ has = None /\ op = cascade
         \/ has = None /\ themed /\ op = left
    <2>1. p6 = cascade /\ (themed => p8 = left)
      BY <1>3, <1>6 DEF cascade, left
    <2>2. CASE has \in {"confirm", "input", "delete"}
      BY <1>1, <1>2, <1>8, <1>9, <1>10, <2>2
    <2>3. CASE has = "pick"
      BY <1>1, <1>8, <1>9, <1>10, <2>3
    <2>4. CASE has = "prompt"
      BY <1>1, <1>8, <1>9, <1>10, <2>4
    <2>5. CASE has = None /\ app
      BY <1>1, <1>8, <1>9, <1>10, <2>1, <2>5
    <2>6. CASE has = None /\ ~app
      BY <1>1, <1>4, <1>5, <1>8, <1>9, <1>10, <2>1, <2>6
    <2>7. QED
      BY <1>7, <2>2, <2>3, <2>4, <2>5, <2>6
  <1>12. QED
    BY <1>11 DEF has, op, closed, p4, p5, cascade, themed, left

\* A dialog with a key of its own is closed.
LEMMA CloseNearer ==
    ASSUME NEW s, Formed(s), NEW f \in {"confirm", "input", "delete"}, f \in Opened(s.dialogs)
    PROVE  Nearer(s, Pair(Close(s), <<>>))
  <1> DEFINE d == CloseModals(s.dialogs)
             u == [s EXCEPT !.dialogs = d]
             p == Pair(u, <<>>)
  <1>1. Close(s) = u
    BY DEF Close
  <1>2. DOMAIN d = DOMAIN NoDialogs /\ Opened(d) \subseteq Opened(s.dialogs) /\ f \notin Opened(d)
    BY ClosedLess DEF Formed
  <1> HIDE DEF d
  <1>3. u = [s EXCEPT !.dialogs = d]
    OBVIOUS
  <1> HIDE DEF u
  <1>4. Below(s, u) /\ Opened(u.dialogs) # Opened(s.dialogs)
    BY <1>2, <1>3, DialogLess
  <1>5. Depth(u) < Depth(s)
    BY <1>4, DepthFalls
  <1>6. Run(p) = u
    BY NoneRun, PairIs
  <1>7. QED
    BY <1>1, <1>5, <1>6 DEF Nearer

\* The prompt is closed.
LEMMA PromptNearer ==
    ASSUME NEW s, Formed(s), "prompt" \in Opened(s.dialogs), NEW k, k.key = "esc"
    PROVE  Nearer(s, PromptKey(s, k))
  <1> DEFINE d == [s.dialogs EXCEPT !["prompt"] = None]
             u == [s EXCEPT !.dialogs = d]
             p == Pair(u, <<>>)
  <1>1. PromptKey(s, k) = p
    <2>1. [s EXCEPT !.dialogs.prompt = None] = u
      OBVIOUS
    <2> HIDE DEF u
    <2>2. QED
      BY <2>1 DEF PromptKey
  <1>2. DOMAIN d = DOMAIN NoDialogs /\ Opened(d) \subseteq Opened(s.dialogs) /\ "prompt" \notin Opened(d)
    BY ClosedLess DEF Formed, NoDialogs
  <1> HIDE DEF d
  <1>3. u = [s EXCEPT !.dialogs = d]
    OBVIOUS
  <1> HIDE DEF u
  <1>4. Below(s, u) /\ Opened(u.dialogs) # Opened(s.dialogs)
    BY <1>2, <1>3, DialogLess
  <1>5. Depth(u) < Depth(s)
    BY <1>4, DepthFalls
  <1>6. Run(p) = u
    BY NoneRun, PairIs
  <1>7. QED
    BY <1>1, <1>5, <1>6 DEF Nearer

\* pop_view as a command
LEMMA PopRun ==
    ASSUME NEW s, ~s.quit
    PROVE  Execute(s, [cmd |-> "PopView"]) = PopView(s)
  <1> DEFINE c == [cmd |-> "PopView"]
  <1>1. c.cmd = "PopView"
    OBVIOUS
  <1> HIDE DEF c
  <1>2. Execute(s, c) = Execute1(s, c)
    BY <1>1, PlainExecute DEF PlainKinds
  <1>3. Execute1(s, c) = PopView(s)
    BY <1>1 DEF Execute1
  <1>4. QED
    BY <1>2, <1>3 DEF c

\* The pick is closed, and so is the view that asked if it is the logs.
LEMMA PickNearer ==
    ASSUME NEW s, Formed(s), ~s.quit, \A i \in DOMAIN s.views : IsView(s.views[i]),
           "pick" \in Opened(s.dialogs), NEW k, k.key = "esc"
    PROVE  Nearer(s, PickKey(s, k))
  <1> DEFINE d == [s.dialogs EXCEPT !["pick"] = None]
             x == [s EXCEPT !.dialogs = d]
             m == [msg |-> "Picked", choice |-> None]
             id == s.dialogs.pick.view
             p == PickKey(s, k)
             u == Run(p)
  <1>1. p = Route(x, id, m)
    <2>1. [s EXCEPT !.dialogs.pick = None] = x
      OBVIOUS
    <2> HIDE DEF x
    <2>2. QED
      BY <2>1 DEF PickKey
  <1>2. DOMAIN d = DOMAIN NoDialogs /\ Opened(d) \subseteq Opened(s.dialogs) /\ "pick" \notin Opened(d)
    BY ClosedLess DEF Formed, NoDialogs
  <1> HIDE DEF d, id
  <1>3. x = [s EXCEPT !.dialogs = d] /\ ~x.quit
    BY DEF Formed, Fields
  <1>4. m.msg = "Picked" /\ m.choice = None
    OBVIOUS
  <1> HIDE DEF x, p, m
  <1>5. Below(s, x) /\ Opened(x.dialogs) # Opened(s.dialogs) /\ x.views = s.views
    BY <1>2, <1>3, DialogLess
  <1>6. Formed(x) /\ IsSeq(x.views)
    BY <1>5 DEF Below, Formed
  <1>7. Below(x, u)
    <2>1. CASE p = Pair(x, <<>>)
      <3>1. u = x
        BY <2>1, NoneRun, PairIs
      <3> HIDE DEF u
      <3>2. QED
        BY <1>6, <3>1, SameBelow DEF Formed
    <2>2. ASSUME NEW at \in DOMAIN x.views, p = Told(Pair(x, <<>>), at, OnMsg(x.views[at], m, x)) PROVE Below(x, u)
      <3> DEFINE v == x.views[at]
                 did == ViewPicked(v, None)
                 w == did.view
                 y == Puts(x, at, w)
      <3>1. OnMsg(v, m, x) = did
        BY <1>4 DEF OnMsg
      <3>2. /\ Unfiltered(v) => Unfiltered(w)
            /\ did.cmds = <<>> \/ did.cmds = <<[cmd |-> "PopView"]>>
        BY <1>5, PickedNone
      <3>3. p.t = y /\ p.cmds = did.cmds
        <4> DEFINE none == <<>>
                   q == Pair(x, none)
        <4>1. q.t = x /\ q.cmds = none
          BY PairIs
        <4>2. p = Told(q, at, did)
          BY <2>2, <3>1
        <4> HIDE DEF q, did, none
        <4>3. p.t = Puts(x, at, did.view) /\ p.cmds = none \o did.cmds
          BY <4>1, <4>2, ToldIs
        <4>4. IsSeq(did.cmds)
          BY <3>2, EmptyIsSeq, OneIsSeq
        <4>5. none \o did.cmds = did.cmds
          BY <4>4, ConcatEmpty DEF none
        <4>6. QED
          BY <4>3, <4>5
      <3> HIDE DEF did
      <3>4. y = Puts(x, at, w) /\ (Unfiltered(x.views[at]) => Unfiltered(w))
        BY <3>2
      <3> HIDE DEF w, y
      <3>5. Below(x, y) /\ Same(x, y, {"views"}) /\ Formed(y)
        BY <1>6, <3>4, PutsBelow DEF Below
      <3>6. ~y.quit
        BY <1>3, <3>5 DEF Same, Fields
      <3>7. CASE did.cmds = <<>>
        BY <3>3, <3>5, <3>7, NoneRun
      <3>8. CASE did.cmds = <<[cmd |-> "PopView"]>>
        <4>1. u = PopView(y)
          BY <3>3, <3>6, <3>8, OneRun, PopRun
        <4>2. Below(y, u)
          BY <3>5, <4>1, PopBelow
        <4> HIDE DEF u
        <4>3. QED
          BY <1>6, <3>5, <4>2, BelowTrans
      <3>9. QED
        BY <3>2, <3>7, <3>8
    <2>3. p = Pair(x, <<>>) \/ \E at \in DOMAIN x.views : p = Told(Pair(x, <<>>), at, OnMsg(x.views[at], m, x))
      BY <1>1, <1>6, RouteIs
    <2>4. QED
      BY <2>1, <2>2, <2>3
  <1> HIDE DEF u
  <1>8. Below(s, u) /\ Opened(u.dialogs) # Opened(s.dialogs)
    <2>1. Below(s, u)
      BY <1>5, <1>7, BelowTrans
    <2>2. Opened(u.dialogs) \subseteq Opened(x.dialogs) /\ Opened(x.dialogs) \subseteq Opened(s.dialogs)
      BY <1>5, <1>7 DEF Below
    <2>3. QED
      BY <1>5, <2>1, <2>2
  <1>9. Depth(u) < Depth(s)
    BY <1>8, DepthFalls
  <1>10. QED
    BY <1>9 DEF Nearer, u, p

\* The one view that is left has no filter.
LEMMA HomeIs ==
    ASSUME NEW s, Formed(s), Len(s.views) = 1, Unfiltered(Top(s)), Opened(s.dialogs) = {}
    PROVE  Depth(s) = 1
  <1>1. DOMAIN s.views = 1..1
    BY SeqHas DEF Formed
  <1>2. \A i \in DOMAIN s.views : Unfiltered(s.views[i])
    BY <1>1 DEF Top
  <1>3. Filtered(s) = {}
    BY <1>2 DEF Filtered
  <1>4. QED
    BY <1>3, DepthOne

\* esc_cascade: the filter is cleared, or the view is left.
LEMMA CascadeNearer ==
    ASSUME NEW s, Formed(s), ~s.quit, Opened(s.dialogs) = {}, NEW n \in DOMAIN s.views, n = Len(s.views), IsView(Top(s))
    PROVE  Nearer(s, EscCascade(s))
  <1> DEFINE v == Top(s)
             did == SetViewFilter(v, NoFilter)
             w == did.view
             y == Puts(s, n, w)
             p == WithTop(s, did)
             u == Run(p)
  <1>1. v = s.views[n] /\ s.views # <<>>
    BY DEF Top
  <1>2. CASE Unfiltered(v)
    <2> DEFINE x == PopView(s)
               q == Pair(x, <<>>)
    <2>1. EscCascade(s) = q
      BY <1>2 DEF EscCascade
    <2>2. Run(q) = x
      <3> HIDE DEF x
      <3>1. QED
        BY NoneRun, PairIs
    <2>3. Below(s, x) /\ (Len(s.views) # 1 => Len(x.views) # Len(s.views))
      BY PopBelow
    <2> HIDE DEF x
    <2>4. Len(s.views) # 1 => Depth(x) < Depth(s)
      BY <2>3, DepthFalls
    <2>5. Len(s.views) = 1 => Depth(s) = 1
      BY <1>2, HomeIs
    <2>6. QED
      BY <2>1, <2>2, <2>4, <2>5 DEF Nearer
  <1>3. CASE ~Unfiltered(v)
    <2>1. EscCascade(s) = p
      BY <1>1, <1>3 DEF EscCascade
    <2>2. Unfiltered(w) /\ (did.cmds = <<>> \/ \E x : did.cmds = <<Watch(x)>>)
      BY <1>3, ViewCleared
    <2>3. p.t = y /\ p.cmds = did.cmds
      BY DEF WithTop, Pair, Puts
    <2> HIDE DEF did
    <2>4. y = Puts(s, n, w)
      OBVIOUS
    <2> HIDE DEF w, y, p
    <2>5. Below(s, y) /\ Same(s, y, {"views"}) /\ n \notin Filtered(y) /\ Formed(y)
      BY <2>2, <2>4, PutsBelow DEF Below
    <2>6. n \in Filtered(s)
      BY <1>1, <1>3 DEF Filtered
    <2>7. ~y.quit
      BY <2>5 DEF Same, Fields
    <2>8. Below(y, u) /\ Filtered(u) = Filtered(y)
      <3>1. CASE did.cmds = <<>>
        <4>1. u = y
          BY <2>3, <3>1, NoneRun
        <4> HIDE DEF u
        <4>2. QED
          BY <2>5, <4>1, SameBelow DEF Formed
      <3>2. ASSUME NEW x, did.cmds = <<Watch(x)>> PROVE Below(y, u) /\ Filtered(u) = Filtered(y)
        <4> DEFINE c == Watch(x)
                   f == [id \in DOMAIN y.watching \cup {c.view} |-> IF id = c.view THEN <<c.ns, c.selector>> ELSE y.watching[id]]
                   d == y.dropped \ WatchesOf(c.view, y.dropped)
        <4>1. c.cmd = "Watch"
          BY DEF Watch
        <4>2. p.cmds = <<c>>
          BY <2>3, <3>2
        <4> HIDE DEF c
        <4>3. u = Execute1(y, c)
          BY <2>3, <2>7, <4>1, <4>2, OneRun, PlainExecute DEF PlainKinds
        <4>4. Execute1(y, c) = [y EXCEPT !.watching = f, !.dropped = d]
          BY <4>1 DEF Execute1
        <4> HIDE DEF f, d
        <4>5. DOMAIN u = Fields /\ u.views = y.views /\ u.dialogs = y.dialogs
          BY <2>5, <4>3, <4>4 DEF Formed, Fields
        <4> HIDE DEF u
        <4>6. QED
          BY <2>5, <4>5, SameBelow
      <3>3. QED
        BY <2>2, <3>1, <3>2
    <2> HIDE DEF u
    <2>9. Below(s, u) /\ Filtered(u) # Filtered(s)
      BY <2>5, <2>6, <2>8, BelowTrans
    <2>10. Depth(u) < Depth(s)
      BY <2>9, DepthFalls
    <2>11. QED
      BY <2>1, <2>10 DEF Nearer, u
  <1>4. QED
    BY <1>2, <1>3

\* The themes are left, with the theme of before.
LEMMA ThemesNearer ==
    ASSUME NEW s, Formed(s), ~s.quit, Opened(s.dialogs) = {}, NEW n \in DOMAIN s.views, n = Len(s.views), IsView(Top(s)),
           Top(s).kind = "themes", NEW k, k.key = "esc"
    PROVE  Nearer(s, WithTop(s, ViewKey(Top(s), k)))
  <1> DEFINE v == Top(s)
             c == Preview(v.of)
             e == [cmd |-> "PopView"]
             did == Kept(v, <<c, e>>)
             y == Puts(s, n, v)
             p == WithTop(s, did)
             x == [y EXCEPT !.theme = v.of]
             u == PopView(x)
  <1>1. v = s.views[n]
    BY DEF Top
  <1>2. ViewKey(v, k) = did
    BY ThemesLeft
  <1>3. p.t = y /\ p.cmds = <<c, e>>
    BY DEF WithTop, Pair, Puts, Kept
  <1>4. Unfiltered(v)
    <2>1. v.filter = AnyName
      BY DEF IsView, WantsFilter
    <2>2. Kinds(v) = "list"
      BY DEF Kinds
    <2>3. QED
      BY <2>1, <2>2 DEF Unfiltered
  <1>5. c.cmd = "PreviewTheme" /\ c.theme = v.of
    BY DEF Preview
  <1> HIDE DEF c, e, p, did
  <1>6. y = Puts(s, n, v)
    OBVIOUS
  <1> HIDE DEF y
  <1>7. Below(s, y) /\ Same(s, y, {"views"}) /\ Formed(y) /\ Len(y.views) = Len(s.views)
    <2> HIDE DEF v
    <2>1. Below(s, y) /\ Same(s, y, {"views"}) /\ Len(y.views) = Len(s.views)
      BY <1>4, <1>6, PutsBelow
    <2>2. QED
      BY <2>1 DEF Below
  <1>8. ~y.quit
    BY <1>7 DEF Same, Fields
  <1>9. DOMAIN x = Fields /\ x.views = y.views /\ x.dialogs = y.dialogs /\ ~x.quit
    BY <1>7, <1>8 DEF Formed, Fields
  <1>10. Execute(y, c) = x
    <2>1. Execute(y, c) = Execute1(y, c)
      BY <1>5, <1>8, PlainExecute DEF PlainKinds
    <2>2. Execute1(y, c) = [y EXCEPT !.theme = c.theme]
      BY <1>5 DEF Execute1
    <2>3. QED
      BY <1>5, <2>1, <2>2
  <1> HIDE DEF x
  <1>11. Run(p) = u
    <2>1. Run(p) = Execute(x, e)
      BY <1>3, <1>10, TwoRun
    <2>2. Execute(x, e) = PopView(x)
      BY <1>9, PopRun DEF e
    <2>3. QED
      BY <2>1, <2>2
  <1>12. Below(y, x) /\ Formed(x)
    BY <1>7, <1>9, SameBelow
  <1>13. Below(x, u) /\ (Len(x.views) # 1 => Len(u.views) # Len(x.views))
    BY <1>12, PopBelow
  <1> HIDE DEF u
  <1>14. Below(s, u)
    BY <1>7, <1>12, <1>13, BelowTrans
  <1>15. Len(s.views) # 1 => Depth(u) < Depth(s)
    BY <1>7, <1>9, <1>13, <1>14, DepthFalls
  <1>16. Len(s.views) = 1 => Depth(s) = 1
    BY <1>4, HomeIs
  <1>17. QED
    BY <1>2, <1>11, <1>15, <1>16 DEF Nearer, p

\* Every esc leads nearer, whoever has it.
LEMMA EscNearer ==
    ASSUME NEW s, Good(s), ~s.quit, NEW k, k.key = "esc"
    PROVE  Nearer(s, HandleKey(s, k))
  <1>1. Formed(s)
    BY DEF Good, Shaped, Stack, Formed
  <1>2. \A i \in DOMAIN s.views : IsView(s.views[i])
    BY DEF Good, Shaped, Stack
  <1> DEFINE n == Len(s.views)
             has == HasKeys(s.dialogs)
             none == <<>>
  <1>3. n \in DOMAIN s.views /\ IsView(Top(s))
    <2>1. Sound(s, none, 0, Settled) /\ Len(s.views) > 0
      BY <1>1, GoodIs DEF Formed
    <2> HIDE DEF none
    <2>2. QED
      BY <2>1, TopIs
  <1>4. (has = None /\ Opened(s.dialogs) = {}) \/ has \in Opened(s.dialogs)
    BY <1>1, HasKeysIs DEF Formed
  <1>5. None \notin Opened(s.dialogs)
    BY <1>1, DialogsAssumption DEF Formed, Opened
  <1>6. CASE has \in {"confirm", "input", "delete"} /\ HandleKey(s, k) = Pair(Close(s), <<>>)
    <2>1. has \in Opened(s.dialogs)
      BY <1>4, <1>6, DialogsAssumption DEF NoDialogs
    <2> HIDE DEF has
    <2>2. QED
      BY <1>1, <1>6, <2>1, CloseNearer
  <1>7. CASE has = "pick" /\ HandleKey(s, k) = PickKey(s, k)
    <2>1. "pick" \in Opened(s.dialogs)
      BY <1>4, <1>7, DialogsAssumption DEF NoDialogs
    <2>2. QED
      BY <1>1, <1>2, <1>7, <2>1, PickNearer
  <1>8. CASE has = "prompt" /\ HandleKey(s, k) = PromptKey(s, k)
    <2>1. "prompt" \in Opened(s.dialogs)
      BY <1>4, <1>8, DialogsAssumption DEF NoDialogs
    <2>2. QED
      BY <1>1, <1>8, <2>1, PromptNearer
  <1>9. CASE has = None /\ HandleKey(s, k) = EscCascade(s)
    BY <1>1, <1>3, <1>4, <1>5, <1>9, CascadeNearer
  <1>10. CASE /\ has = None /\ Top(s).kind = "themes"
              /\ HandleKey(s, k) = WithTop(s, ViewKey(Top(s), k))
    BY <1>1, <1>3, <1>4, <1>5, <1>10, ThemesNearer
  <1>11. QED
    BY <1>1, <1>6, <1>7, <1>8, <1>9, <1>10, EscIs DEF Formed

\* esc_cascade (app.rs), the dialogs of chrome.rs and wants_esc of the views: every esc closes a dialog,
\* clears a filter or leaves a view, until the first view is all that is there.
THEOREM EscLeadsHome == Spec => []EscGoesHome
  <1>1. GoodInv => EscGoesHome
    <2>1. SUFFICES ASSUME GoodInv, ~t.quit
                   PROVE  Depth(Run(HandleKey(t, [key |-> "esc"]))) < Depth(t) \/ Depth(t) = 1
      BY DEF EscGoesHome, Running
    <2> DEFINE k == [key |-> "esc"]
    <2>2. k.key = "esc"
      OBVIOUS
    <2> HIDE DEF k
    <2>3. Nearer(t, HandleKey(t, k))
      BY <2>1, <2>2, EscNearer DEF GoodInv
    <2>4. QED
      BY <2>3 DEF Nearer, k
  <1>2. QED
    BY <1>1, GoodAlways, PTL

-----------------------------------------------------------------------------
(* The selected row *)

\* The rows that pass the filter are found one after the other.
LEMMA PassTrail ==
    ASSUME NEW rows, IsSeq(rows), NEW names, NEW faults
    PROVE  \E g : /\ g[0] = <<>>
                  /\ \A i \in 1..Len(rows) : g[i] = Passed(g[i - 1], rows[i], names, faults)
                  /\ Passing(rows, names, faults) = g[Len(rows)]
  <1> DEFINE how == [fold |-> "pass", names |-> names, faults |-> faults]
             none == <<>>
             rec(f) == [x \in SUBSET DOMAIN rows |->
                           IF x = {} THEN none ELSE Passed(f[x \ {Max(x)}], rows[Max(x)], names, faults)]
             f == CHOOSE f : f = rec(f)
  <1>1. Passing(rows, names, faults) = f[DOMAIN rows]
    BY Zenon DEF Passing, FoldLeft, MapThenFoldSet
  <1>2. \A q, x : Stage(how, q, x) = Passed(q, x, names, faults)
    BY DEF Stage
  <1>a. \A h : Folded(how, none, rows, h) = rec(h)
    <2> HIDE DEF how, none
    <2>1. QED
      BY <1>2 DEF Folded
  <1> HIDE DEF how, rec, none
  <1>3. \E h : h = rec(h)
    BY <1>a, FoldExists
  <1>4. f = rec(f)
    BY <1>3, Zenon
  <1> HIDE DEF f
  <1>5. f = Folded(how, none, rows, f)
    BY <1>a, <1>4
  <1>6. PICK g : /\ g[0] = none /\ \A i \in 1..Len(rows) : g[i] = Stage(how, g[i - 1], rows[i])
                 /\ f[DOMAIN rows] = g[Len(rows)]
    BY <1>5, FoldTrail
  <1>7. QED
    BY <1>1, <1>2, <1>6 DEF none

\* No row is shown of none, in whatever order.
LEMMA NoneSorted ==
    ASSUME NEW rows, DOMAIN rows = {}, NEW field, NEW dir, NEW metrics
    PROVE  /\ DOMAIN SortPods(rows, field, dir) = {} /\ DOMAIN SortRows(rows, field, dir) = {}
           /\ DOMAIN NewestFirst(rows) = {} /\ DOMAIN SortByMetric(rows, metrics, dir) = {}
  <1>1. DOMAIN SortPods(rows, field, dir) = {}
    BY Zenon DEF StableSort, SortPods
  <1>2. DOMAIN SortRows(rows, field, dir) = {}
    BY Zenon DEF StableSort, SortRows
  <1>3. DOMAIN NewestFirst(rows) = {}
    BY Zenon DEF StableSort, NewestFirst
  <1>4. DOMAIN SortByMetric(rows, metrics, dir) = {}
    BY Zenon DEF StableSort, SortByMetric
  <1>5. QED
    BY <1>1, <1>2, <1>3, <1>4

\* A table whose rows are gone shows none.
LEMMA NoKeys ==
    ASSUME NEW v, v.rows = <<>>
    PROVE  Range(Keys(v)) = {}
  <1> DEFINE shown == Passing(v.rows, v.filter.names, v.faults)
             pods == VisiblePods(v, shown)
             others == VisibleResources(v, shown)
  <1>1. shown = <<>>
    <2> DEFINE rows == v.rows
    <2>1. IsSeq(rows) /\ Len(rows) = 0
      BY EmptyIsSeq
    <2> HIDE DEF rows
    <2>2. \A names, faults : Passing(rows, names, faults) = <<>>
      BY <2>1, PassTrail
    <2>3. QED
      BY <2>2 DEF rows
  <1> HIDE DEF shown
  <1>2. DOMAIN shown = {}
    BY <1>1
  <1>3. DOMAIN pods = {}
    BY <1>2, NoneSorted DEF VisiblePods
  <1>4. DOMAIN others = {} /\ DOMAIN VisibleEvents(shown) = {}
    BY <1>2, NoneSorted DEF VisibleResources, VisibleEvents
  <1>5. Visible(v) \in {pods, others, VisibleEvents(shown)}
    BY DEF Visible, shown
  <1> HIDE DEF pods, others
  <1>6. DOMAIN Visible(v) = {}
    BY <1>3, <1>4, <1>5
  <1> DEFINE rows == Visible(v)
  <1> HIDE DEF rows
  <1>7. DOMAIN rows = {} => Range(KeysOf(rows)) = {}
    BY DEF KeysOf, Range
  <1>8. QED
    BY <1>6, <1>7 DEF Keys, rows

\* What is shown does not depend on what is selected.
LEMMA SameKeys ==
    ASSUME NEW v, NEW w, w.shows = v.shows, w.rows = v.rows, w.filter = v.filter, w.faults = v.faults,
           w.sort = v.sort, w.metrics = v.metrics
    PROVE  Keys(w) = Keys(v)
  <1> DEFINE shown == Passing(v.rows, v.filter.names, v.faults)
  <1>1. Passing(w.rows, w.filter.names, w.faults) = shown
    OBVIOUS
  <1> HIDE DEF shown
  <1>2. VisiblePods(w, shown) = VisiblePods(v, shown) /\ VisibleResources(w, shown) = VisibleResources(v, shown)
    BY DEF VisiblePods, VisibleResources
  <1>3. Visible(w) = Visible(v)
    BY <1>1, <1>2 DEF Visible, shown
  <1>4. QED
    BY <1>3 DEF Keys

\* The row that was selected still is, unless it is not shown any longer.
Selects(v, w) == w.selected = v.selected \/ v.selected \notin Range(Keys(w))

\* fix_selection
LEMMA FixSelects ==
    ASSUME NEW v, "selected" \in DOMAIN v
    PROVE  Selects(v, FixSelection(v))
  <1> DEFINE ks == Keys(v)
             w == SelectFirst(v, ks)
  <1>1. FixSelection(v) = IF v.selected \in Range(ks) THEN v ELSE w
    BY DEF FixSelection, KeepSelection
  <1>2. Keys(w) = ks
    <2>1. /\ w.shows = v.shows /\ w.rows = v.rows /\ w.filter = v.filter /\ w.faults = v.faults
          /\ w.sort = v.sort /\ w.metrics = v.metrics
      BY DEF SelectFirst
    <2> HIDE DEF w, ks
    <2>2. QED
      BY <2>1, SameKeys DEF ks
  <1> HIDE DEF ks, w
  <1>3. QED
    BY <1>1, <1>2 DEF Selects

\* An answer changes what is under way and what is watched, not the selection.
LEMMA AnswerSelects ==
    ASSUME NEW v, "selected" \in DOMAIN v, NEW a, NEW ns
    PROVE  OnAnswer(v, a, ns).view.selected = v.selected
  <1> DEFINE same(did) == did.view.selected = v.selected
  <1>1. \A w, cmds : w.selected = v.selected => same(Kept(w, cmds))
    BY DEF Kept
  <1>2. same(Kept(v, <<>>))
    BY <1>1
  <1>3. ASSUME NEW what \in {"exec", "attach"}, NEW pod, NEW found PROVE same(OnContainers(v, what, pod, found))
    <2> DEFINE w == [v EXCEPT !.of = pod, ![what] = FALSE]
               x == [w EXCEPT ![what] = TRUE]
    <2>1. w.selected = v.selected /\ x.selected = v.selected
      OBVIOUS
    <2>2. \/ OnContainers(v, what, pod, found) = Kept(w, <<>>)
          \/ OnContainers(v, what, pod, found) = Kept(w, <<Suspend(what, pod, found[1])>>)
          \/ OnContainers(v, what, pod, found) = Kept(x, <<PickFrom(v, <<what, pod>>, found)>>)
      BY DEF OnContainers
    <2> HIDE DEF w, x, same
    <2>3. QED
      BY <1>1, <2>1, <2>2
  <1>4. ASSUME NEW x, NEW found PROVE same(OnForwardPorts(v, x, found)) /\ same(OnServicePorts(v, x, found))
    <2> DEFINE w == [v EXCEPT !.of = x, !.pf = FALSE]
               u == [w EXCEPT !.pf = TRUE]
               y == [v EXCEPT !.svc = x]
    <2>1. w.selected = v.selected /\ u.selected = v.selected /\ y.selected = v.selected
      OBVIOUS
    <2>2. \/ OnForwardPorts(v, x, found) = Kept(w, <<StartForward(v, x, found[1])>>)
          \/ OnForwardPorts(v, x, found) = Kept(u, <<PickFrom(v, <<"exec", x>>, found)>>)
      BY Zenon DEF OnForwardPorts
    <2>3. \/ OnServicePorts(v, x, found) = Kept(v, <<>>)
          \/ OnServicePorts(v, x, found) = Kept(v, <<Endpoint(v, x, found[1])>>)
          \/ OnServicePorts(v, x, found) = Kept(y, <<PickFrom(v, <<"container", x>>, found)>>)
      BY DEF OnServicePorts
    <2> HIDE DEF w, u, y, same
    <2>4. QED
      BY <1>1, <2>1, <2>2, <2>3
  <1>5. ASSUME NEW selector PROVE same(OnSelector(v, selector, ns))
    BY DEF OnSelector, Kept
  <1>6. CASE a.what \in {"exec", "attach"}
    <2>1. OnAnswer(v, a, ns) = OnContainers(v, a.what, a.of, a.found)
      BY <1>6 DEF OnAnswer
    <2>2. QED
      BY <1>3, <1>6, <2>1
  <1>7. CASE a.what = "Endpoint"
    <2> DEFINE w == [v EXCEPT !.pf = IF v.shows = "Pod" THEN FALSE ELSE @]
    <2>1. OnAnswer(v, a, ns) = Kept(w, <<StartForward(v, a.of, a.found[1])>>) /\ w.selected = v.selected
      BY <1>7 DEF OnAnswer
    <2> HIDE DEF w
    <2>2. QED
      BY <1>1, <2>1
  <1>8. CASE a.what \notin {"exec", "attach", "Endpoint"}
    <2>1. \/ OnAnswer(v, a, ns) = Kept(v, <<>>)
          \/ OnAnswer(v, a, ns) = OnForwardPorts(v, a.of, a.found)
          \/ OnAnswer(v, a, ns) = OnServicePorts(v, a.of, a.found)
          \/ OnAnswer(v, a, ns) = OnSelector(v, a.found, ns)
      BY <1>8 DEF OnAnswer
    <2> HIDE DEF same
    <2>2. same(OnAnswer(v, a, ns))
      BY <1>2, <1>4, <1>5, <2>1
    <2>3. QED
      BY <2>2 DEF same
  <1>9. QED
    BY <1>6, <1>7, <1>8

\* Nor does a choice that was picked.
LEMMA PickedSelects ==
    ASSUME NEW v, "selected" \in DOMAIN v, NEW choice, NEW port
    PROVE  OnPicked(v, choice, port).view.selected = v.selected
  <1> DEFINE a == [v EXCEPT !.svc = None]
             b == [v EXCEPT !.exec = FALSE, !.attach = FALSE, !.pf = FALSE]
             c == [v EXCEPT !.attach = FALSE]
             d == [v EXCEPT !.exec = FALSE]
             e == [v EXCEPT !.pf = FALSE]
  <1>1. /\ a.selected = v.selected /\ b.selected = v.selected /\ c.selected = v.selected
        /\ d.selected = v.selected /\ e.selected = v.selected
    OBVIOUS
  <1> HIDE DEF a, b, c, d, e
  <1>2. \E w \in {a, b, c, d, e, v} : \E cmds : OnPicked(v, choice, port) = Kept(w, cmds)
    <2>1. \/ OnPicked(v, choice, port) = Kept(a, <<Endpoint(v, v.svc, choice)>>)
          \/ OnPicked(v, choice, port) = Kept(a, <<>>)
          \/ OnPicked(v, choice, port) = Kept(b, <<>>)
          \/ OnPicked(v, choice, port) = Kept(c, <<Suspend("attach", v.of, choice)>>)
          \/ OnPicked(v, choice, port) = Kept(d, <<Suspend("exec", v.of, choice)>>)
          \/ OnPicked(v, choice, port) = Kept(e, <<StartForward(v, v.of, choice)>>)
          \/ OnPicked(v, choice, port) = Kept(e, <<>>)
          \/ OnPicked(v, choice, port) = Kept(v, <<>>)
      BY DEF OnPicked, a, b, c, d, e
    <2>2. QED
      BY <2>1, Zenon
  <1>3. QED
    BY <1>1, <1>2 DEF Kept

\* sync_namespace: another namespace takes the rows and the selection with it.
LEMMA FollowSelects ==
    ASSUME NEW v, {"rows", "selected"} \subseteq DOMAIN v, NEW ns
    PROVE  Selects(v, FollowNamespace(v, ns).view)
  <1> DEFINE w == [v EXCEPT !.ns = ns, !.rows = <<>>, !.selected = None, !.loaded = FALSE]
  <1>1. FollowNamespace(v, ns) \in {Kept(v, <<>>), Kept(w, <<Watch(w)>>)}
    BY Zenon DEF FollowNamespace
  <1>2. w.rows = <<>>
    OBVIOUS
  <1> HIDE DEF w
  <1>3. Range(Keys(w)) = {}
    BY <1>2, NoKeys
  <1>4. FollowNamespace(v, ns).view \in {v, w}
    BY <1>1 DEF Kept
  <1>5. QED
    BY <1>3, <1>4 DEF Selects

\* Rows that arrive.
LEMMA RowsSelects ==
    ASSUME NEW v, {"rows", "selected"} \subseteq DOMAIN v, NEW e
    PROVE  Selects(v, OnRows(v, e))
  <1>1. PICK rows : OnRows(v, e) = FixSelection([v EXCEPT !.loaded = TRUE, !.rows = rows])
    BY Zenon DEF OnRows
  <1> DEFINE u == [v EXCEPT !.loaded = TRUE, !.rows = rows]
  <1>2. "selected" \in DOMAIN u /\ u.selected = v.selected
    OBVIOUS
  <1> HIDE DEF u
  <1>3. Selects(u, FixSelection(u))
    BY <1>2, FixSelects
  <1>4. Selects(v, FixSelection(u))
    BY <1>2, <1>3 DEF Selects
  <1>5. QED
    BY <1>1, <1>4 DEF u

\* A message that is for views: a table goes on selecting what it selected as long as it shows it.
LEMMA OnMsgSelects ==
    ASSUME NEW v, IsView(v), v.kind = "table", NEW m, NEW s
    PROVE  Selects(v, OnMsg(v, m, s).view)
  <1>0. {"rows", "selected"} \subseteq DOMAIN v /\ Kinds(v) = "table"
    BY DEF IsView, IsTable, Kinds
  <1>1. \A w : w.selected = v.selected => Selects(v, w)
    BY DEF Selects
  <1>2. \A w, cmds : Kept(w, cmds).view = w
    BY DEF Kept
  <1>3. Selects(v, FollowNamespace(v, Ns(s)).view)
    BY <1>0, FollowSelects
  <1>4. CASE m.msg = "Fetched"
    <2>1. OnMsg(v, m, s) = OnAnswer(v, m.answer, Ns(s))
      BY <1>0, <1>4 DEF OnMsg, ViewAnswer
    <2>2. QED
      BY <1>0, <1>1, <2>1, AnswerSelects
  <1>5. CASE m.msg = "Picked"
    <2>1. OnMsg(v, m, s) = ViewPicked(v, m.choice)
      BY <1>5 DEF OnMsg
    <2>2. \E port : OnMsg(v, m, s) = OnPicked(v, m.choice, port)
      BY <1>0, <2>1, Zenon DEF ViewPicked
    <2>3. QED
      BY <1>0, <1>1, <2>2, PickedSelects
  <1>6. CASE m.msg \in {"LogLines", "Started"}
    <2> DEFINE x == SubSeq(v.lines \o m.lines, AtLeast0(Len(v.lines \o m.lines) - Ring) + 1, Len(v.lines \o m.lines))
               y == IF v.auto THEN v.back ELSE v.back + Len(Matching(v, m.lines))
               z == Append(v.handles, m.stream)
               w == [v EXCEPT !.lines = x, !.back = y]
               u == [v EXCEPT !.handles = z]
    <2>1. PushLines(v, m.lines) = w /\ LogsStarted(v, m.stream) = u
      BY Zenon DEF PushLines, LogsStarted
    <2>2. OnMsg(v, m, s) = Kept(PushLines(v, m.lines), <<>>) \/ OnMsg(v, m, s) = Kept(LogsStarted(v, m.stream), <<>>)
      BY <1>6 DEF OnMsg
    <2> HIDE DEF x, y, z
    <2>3. w.selected = v.selected /\ u.selected = v.selected
      BY <1>0
    <2> HIDE DEF w, u
    <2>4. QED
      BY <1>1, <1>2, <2>1, <2>2, <2>3
  <1>7. CASE m.msg = "Rows"
    <2>1. OnMsg(v, m, s) = Kept(OnRows(v, m.rows), <<>>)
      BY <1>7 DEF OnMsg
    <2>2. QED
      BY <1>0, <1>2, <2>1, RowsSelects
  <1>8. CASE m.msg \in {"Tick", "NamespaceChanged"}
    <2>1. OnMsg(v, m, s) = FollowNamespace(v, Ns(s))
      BY <1>0, <1>8 DEF OnMsg, ViewTick
    <2>2. QED
      BY <1>3, <2>1
  <1>9. CASE m.msg = "Metrics"
    <2>1. OnMsg(v, m, s) = Kept(OnMetrics(v, m.polled), <<>>)
      BY <1>0, <1>9 DEF OnMsg
    <2>2. OnMetrics(v, m.polled) = v \/ \E x : OnMetrics(v, m.polled) = [v EXCEPT !.metrics = x]
      BY Zenon DEF OnMetrics
    <2>3. \A x : [v EXCEPT !.metrics = x].selected = v.selected
      BY <1>0
    <2>4. OnMetrics(v, m.polled).selected = v.selected
      BY <2>2, <2>3
    <2>5. QED
      BY <1>1, <1>2, <2>1, <2>4
  <1>10. CASE m.msg \notin {"Tick", "Fetched", "Picked", "LogLines", "Started", "Rows", "NamespaceChanged", "Metrics"}
    <2>1. OnMsg(v, m, s) = Kept(v, <<>>)
      BY <1>0, <1>10 DEF OnMsg
    <2>2. QED
      BY <1>1, <1>2, <2>1
  <1>11. QED
    BY <1>4, <1>5, <1>6, <1>7, <1>8, <1>9, <1>10

-----------------------------------------------------------------------------
(* What became of the tables *)

\* Each table that is still there selects what it selected, as long as it shows it.
Fate(s, u) ==
    \A i \in DOMAIN s.views, j \in DOMAIN u.views :
        s.views[i].kind = "table" /\ s.views[i].id = u.views[j].id => Selects(s.views[i], u.views[j])

\* Every view heard of the message once at most.
Heard(s, u, m) ==
    /\ Same(s, u, {"views"}) /\ IsSeq(u.views) /\ DOMAIN u.views = DOMAIN s.views
    /\ \A i \in DOMAIN s.views : u.views[i] = s.views[i] \/ \E r : u.views[i] = OnMsg(s.views[i], m, r).view

\* One view is put in the place of another.
LEMMA PutsIs ==
    ASSUME NEW s, DOMAIN s = Fields, IsSeq(s.views), NEW i \in DOMAIN s.views, NEW w
    PROVE  /\ Same(s, Puts(s, i, w), {"views"}) /\ IsSeq(Puts(s, i, w).views)
           /\ DOMAIN Puts(s, i, w).views = DOMAIN s.views
           /\ Puts(s, i, w).views[i] = w /\ \A j \in DOMAIN s.views : j # i => Puts(s, i, w).views[j] = s.views[j]
  <1> DEFINE a == s.views
             b == [a EXCEPT ![i] = w]
             u == [s EXCEPT !.views = b]
  <1>1. DOMAIN b = DOMAIN a /\ b[i] = w /\ \A j \in DOMAIN a : j # i => b[j] = a[j]
    OBVIOUS
  <1>2. IsSeq(b)
    <2>1. DOMAIN a = 1..Len(a) /\ Len(a) \in Nat
      BY SeqHas
    <2> HIDE DEF a
    <2>2. b = [j \in 1..Len(a) |-> b[j]]
      BY <2>1
    <2> HIDE DEF b
    <2>3. QED
      BY <2>1, <2>2, SeqIs
  <1> HIDE DEF b
  <1>3. u.views = b /\ DOMAIN u = DOMAIN s /\ \A f \in Fields \ {"views"} : u[f] = s[f]
    BY DEF Fields
  <1>4. Puts(s, i, w) = u
    BY DEF Puts, b
  <1> HIDE DEF u
  <1>5. QED
    BY <1>1, <1>2, <1>3, <1>4 DEF Same

\* Without a message nothing is heard.
LEMMA NothingHeard ==
    ASSUME NEW s, DOMAIN s = Fields, IsSeq(s.views), NEW m
    PROVE  Heard(s, s, m)
  BY DEF Heard, Same

\* route
LEMMA RouteHeard ==
    ASSUME NEW s, DOMAIN s = Fields, IsSeq(s.views), NEW id, NEW m
    PROVE  Heard(s, Route(s, id, m).t, m)
  <1> DEFINE u == Route(s, id, m).t
  <1>1. u = s \/ \E at \in DOMAIN s.views : u = Puts(s, at, OnMsg(s.views[at], m, s).view)
    <2>1. Pair(s, <<>>).t = s
      BY PairIs
    <2>2. ASSUME NEW at \in DOMAIN s.views
          PROVE  Told(Pair(s, <<>>), at, OnMsg(s.views[at], m, s)).t = Puts(s, at, OnMsg(s.views[at], m, s).view)
      <3> DEFINE did == OnMsg(s.views[at], m, s)
                 p == Pair(s, <<>>)
      <3> HIDE DEF did, p
      <3>1. Told(p, at, did).t = Puts(p.t, at, did.view)
        BY ToldIs
      <3>2. QED
        BY <2>1, <3>1 DEF did, p
    <2>3. QED
      BY <2>1, <2>2, RouteIs
  <1> HIDE DEF u
  <1>2. u = s => Heard(s, u, m)
    BY NothingHeard
  <1>3. u # s => Heard(s, u, m)
    <2>0. SUFFICES ASSUME u # s PROVE Heard(s, u, m)
      OBVIOUS
    <2>1. PICK at \in DOMAIN s.views : u = Puts(s, at, OnMsg(s.views[at], m, s).view)
      BY <1>1, <2>0
    <2> DEFINE w == OnMsg(s.views[at], m, s).view
    <2>2. w = OnMsg(s.views[at], m, s).view /\ u = Puts(s, at, w)
      BY <2>1
    <2> HIDE DEF w
    <2>3. /\ Same(s, u, {"views"}) /\ IsSeq(u.views) /\ DOMAIN u.views = DOMAIN s.views
          /\ u.views[at] = w /\ \A j \in DOMAIN s.views : j # at => u.views[j] = s.views[j]
      BY <2>2, PutsIs
    <2>4. QED
      BY <2>2, <2>3 DEF Heard
  <1>4. QED
    BY <1>2, <1>3 DEF u

\* A message for all views.
LEMMA AllHeard ==
    ASSUME NEW s, DOMAIN s = Fields, IsSeq(s.views), NEW m
    PROVE  Heard(s, OnAll(s, m).t, m)
  <1> DEFINE places == [i \in DOMAIN s.views |-> i]
             n == Len(s.views)
  <1>1. DOMAIN s.views = 1..n /\ n \in Nat
    BY SeqHas
  <1>2. IsSeq(places) /\ Len(places) = n /\ \A i \in 1..n : places[i] = i
    <2>1. places = [i \in 1..n |-> places[i]] /\ \A i \in 1..n : places[i] = i
      BY <1>1
    <2> HIDE DEF places
    <2>2. QED
      BY <1>1, <2>1, SeqIs
  <1>3. OnAll(s, m) = Tell(s, places, m)
    BY DEF OnAll
  <1> HIDE DEF places
  <1>4. PICK g : /\ g[0] = Pair(s, <<>>)
                 /\ \A i \in 1..Len(places) :
                       g[i] = Told(g[i - 1], places[i], OnMsg(g[i - 1].t.views[places[i]], m, g[i - 1].t))
                 /\ Tell(s, places, m) = g[Len(places)]
    BY <1>2, TellTrail
  <1> DEFINE P(i) == /\ Heard(s, g[i].t, m)
                     /\ \A j \in (i + 1)..n : g[i].t.views[j] = s.views[j]
             S == {i \in 0..n : P(i)}
  <1> HIDE DEF n
  <1>5. 0 \in S
    <2>1. g[0].t = s
      BY <1>4, PairIs
    <2>2. Heard(s, s, m)
      BY NothingHeard
    <2>3. QED
      BY <1>1, <2>1, <2>2
  <1>6. ASSUME NEW i \in 1..n, i - 1 \in S PROVE i \in S
    <2> DEFINE u == g[i - 1].t
               w == OnMsg(u.views[i], m, u).view
    <2>1. Heard(s, u, m) /\ \A j \in i..n : u.views[j] = s.views[j]
      BY <1>6
    <2>2. g[i].t = Puts(u, i, w)
      <3>1. g[i] = Told(g[i - 1], i, OnMsg(u.views[i], m, u))
        BY <1>2, <1>4
      <3> DEFINE p == g[i - 1]
                 did == OnMsg(u.views[i], m, u)
      <3>2. g[i] = Told(p, i, did)
        BY <3>1
      <3> HIDE DEF p, did
      <3>3. Told(p, i, did).t = Puts(p.t, i, did.view)
        BY ToldIs
      <3>4. QED
        BY <3>2, <3>3 DEF p, did
    <2>3. w = OnMsg(s.views[i], m, u).view
      BY <2>1
    <2> HIDE DEF u, w
    <2>4. DOMAIN u = Fields /\ IsSeq(u.views) /\ i \in DOMAIN u.views /\ DOMAIN u.views = DOMAIN s.views
      BY <1>1, <2>1 DEF Heard, Same
    <2> DEFINE x == Puts(u, i, w)
    <2>5. /\ Same(u, x, {"views"}) /\ IsSeq(x.views) /\ DOMAIN x.views = DOMAIN u.views
          /\ x.views[i] = w /\ \A j \in DOMAIN u.views : j # i => x.views[j] = u.views[j]
      BY <2>4, PutsIs
    <2> HIDE DEF x
    <2>6. Same(s, x, {"views"})
      BY <2>1, <2>5 DEF Heard, Same
    <2>7. Heard(s, x, m)
      BY <2>1, <2>3, <2>4, <2>5, <2>6 DEF Heard
    <2>8. \A j \in (i + 1)..n : x.views[j] = s.views[j]
      BY <1>1, <2>1, <2>4, <2>5
    <2>9. P(i)
      BY <2>2, <2>7, <2>8 DEF x
    <2>10. i \in 0..n
      BY <1>1
    <2> HIDE DEF P
    <2>11. QED
      BY <2>9, <2>10
  <1> HIDE DEF P, S
  <1>7. n \in S
    BY <1>1, <1>5, <1>6, CountUp
  <1>8. Heard(s, g[n].t, m)
    BY <1>7 DEF S, P
  <1>9. QED
    BY <1>2, <1>3, <1>4, <1>8

\* What is heard leaves the views their numbers, and tables their selection.
LEMMA HeardIs ==
    ASSUME NEW s, Stack(s), NEW u, NEW m, Heard(s, u, m), m.msg = "Fetched" => Lists(m.answer)
    PROVE  /\ \A i \in DOMAIN s.views : IsView(u.views[i]) /\ u.views[i].id = s.views[i].id
           /\ Fate(s, u)
  <1>1. ASSUME NEW i \in DOMAIN s.views
        PROVE  /\ IsView(u.views[i]) /\ u.views[i].id = s.views[i].id
               /\ s.views[i].kind = "table" => Selects(s.views[i], u.views[i])
    <2> DEFINE v == s.views[i]
    <2>1. IsView(v)
      BY DEF Stack
    <2> HIDE DEF v
    <2>2. ASSUME NEW r
          PROVE  /\ IsView(OnMsg(v, m, r).view) /\ OnMsg(v, m, r).view.id = v.id
                 /\ v.kind = "table" => Selects(v, OnMsg(v, m, r).view)
      <3>1. Goes(v, OnMsg(v, m, r), Ns(r))
        BY <2>1, OnMsgGoes
      <3>2. QED
        BY <2>1, <3>1, OnMsgSelects DEF Goes
    <2>3. u.views[i] = v \/ \E r : u.views[i] = OnMsg(v, m, r).view
      BY DEF Heard, v
    <2>4. Selects(v, v)
      BY DEF Selects
    <2> DEFINE w == u.views[i]
    <2> HIDE DEF w
    <2>5. w = v \/ \E r : w = OnMsg(v, m, r).view
      BY <2>3 DEF w
    <2>6. IsView(w) /\ w.id = v.id /\ (v.kind = "table" => Selects(v, w))
      BY <2>1, <2>2, <2>4, <2>5
    <2>7. QED
      BY <2>6 DEF v, w
  <1>2. Fate(s, u)
    <2>1. SUFFICES ASSUME NEW i \in DOMAIN s.views, NEW j \in DOMAIN u.views,
                          s.views[i].kind = "table", s.views[i].id = u.views[j].id
                   PROVE  Selects(s.views[i], u.views[j])
      BY DEF Fate
    <2>2. j \in DOMAIN s.views
      BY DEF Heard
    <2>3. s.views[j].id = s.views[i].id
      BY <1>1, <2>1, <2>2
    <2>4. i = j
      BY <2>2, <2>3 DEF Stack
    <2>5. QED
      BY <1>1, <2>1, <2>4
  <1>3. QED
    BY <1>1, <1>2

\* The commands of a step take views from the stack at most, from the top.
Trims(s, u) ==
    /\ DOMAIN u = Fields /\ IsSeq(u.views) /\ DOMAIN u.views \subseteq DOMAIN s.views
    /\ \A i \in DOMAIN u.views : u.views[i] = s.views[i]

\* pop_view
LEMMA PopTrims ==
    ASSUME NEW s, DOMAIN s = Fields, IsSeq(s.views)
    PROVE  Trims(s, PopView(s))
  <1> DEFINE n == Len(s.views) - 1
             a == s.views
             b == SubSeq(a, 1, n)
             u == [s EXCEPT !.full = FALSE, !.views = Front(@)]
             x == [context |-> u.session.context, favorites |-> u.config.of[u.session.context].favorites]
             w == [u EXCEPT !.shown = x]
  <1>1. PopView(s) = IF Len(s.views) <= 1 THEN s ELSE SyncChrome(u)
    BY Zenon DEF PopView
  <1>2. SyncChrome(u) \in {u, w}
    BY Zenon DEF SyncChrome
  <1>3. u.views = b /\ DOMAIN u = Fields
    BY DEF Fields, Front
  <1> HIDE DEF u, x
  <1>4. w.views = b /\ DOMAIN w = Fields
    BY <1>3 DEF Fields
  <1> HIDE DEF w
  <1>5. CASE Len(s.views) <= 1
    <2>1. PopView(s) = s
      BY <1>1, <1>5
    <2>2. QED
      BY <2>1 DEF Trims
  <1>6. CASE ~(Len(s.views) <= 1)
    <2>1. IsSeq(a) /\ DOMAIN a = 1..Len(a) /\ n \in 0..Len(a)
      BY <1>6, SeqHas
    <2>2. SyncChrome(u).views = b /\ DOMAIN SyncChrome(u) = Fields
      BY <1>2, <1>3, <1>4
    <2> HIDE DEF a, n
    <2>3. IsSeq(b) /\ Len(b) = n /\ \A j \in 1..n : b[j] = a[j]
      BY <2>1, SubSeqIs
    <2> HIDE DEF b
    <2>4. DOMAIN b = 1..n
      BY <2>3, SeqHas
    <2>5. 1..n \subseteq DOMAIN a
      BY <2>1
    <2>6. Trims(s, SyncChrome(u))
      BY <2>2, <2>3, <2>4, <2>5 DEF Trims, a
    <2>7. QED
      BY <1>1, <1>6, <2>6
  <1>7. QED
    BY <1>5, <1>6

\* A command that is executed by itself.
LEMMA StepTrims ==
    ASSUME NEW s, DOMAIN s = Fields, IsSeq(s.views), NEW c, c.cmd \in PlainKinds
    PROVE  Trims(s, Execute1(s, c))
  <1> DEFINE op == Execute1(s, c)
  <1>1. \A u : u.views = s.views /\ DOMAIN u = Fields => Trims(s, u)
    BY DEF Trims
  <1>2. CASE c.cmd = "PopView"
    <2>1. op = PopView(s)
      BY <1>2 DEF Execute1
    <2>2. QED
      BY <2>1, PopTrims
  <1>3. CASE c.cmd \in {"SetTheme", "SaveConfig"}
    <2> DEFINE w(r) == [r EXCEPT !.saved = r.config, !.dropped = @ \ {Save}]
               u == SetTheme(s, c.theme)
               theme == [s EXCEPT !.theme = c.theme, !.config.theme = c.theme]
    <2>1. u = s \/ u = theme
      BY Zenon DEF SetTheme
    <2>2. theme.views = s.views /\ DOMAIN theme = Fields
      BY DEF Fields
    <2> HIDE DEF u, theme
    <2>3. \A r : r.views = s.views /\ DOMAIN r = Fields => w(r).views = s.views /\ DOMAIN w(r) = Fields
      BY DEF Fields
    <2>4. op = w(u) \/ op = w(s)
      BY <1>3 DEF Execute1, WriteConfig, u
    <2> HIDE DEF w
    <2>5. op.views = s.views /\ DOMAIN op = Fields
      BY <2>1, <2>2, <2>3, <2>4
    <2>6. QED
      BY <1>1, <2>5
  <1>4. CASE c.cmd \in PlainKinds \ {"PopView", "SetTheme", "SaveConfig"}
    <2> DEFINE tasks == Tasks!BagAdd(s.tasks, c)
               watching == [v \in DOMAIN s.watching \cup {c.view} |->
                               IF v = c.view THEN <<c.ns, c.selector>> ELSE s.watching[v]]
               dropped == s.dropped \ WatchesOf(c.view, s.dropped)
               forwards == SelectSeq(s.forwards, LAMBDA f : f.id # c.id)
               pick == OpenPick(s.dialogs, c.view, c.title, c.options)
               undo == OpenConfirm(s.dialogs, c.view, [what |-> "Undo", of |-> c.of.name])
               did == s.did \cup {c.what}
               u1 == [s EXCEPT !.tasks = tasks]
               u2 == [s EXCEPT !.watching = watching, !.dropped = dropped]
               u3 == [s EXCEPT !.forwards = forwards]
               u4 == [s EXCEPT !.dialogs = pick]
               u5 == [s EXCEPT !.dialogs = undo]
               u6 == [s EXCEPT !.did = did]
               u7 == [s EXCEPT !.theme = c.theme]
    <2>1. op \in {u1, u2, u3, u4, u5, u6, u7, s}
      <3>1. CASE c.cmd \in {"Fetch", "Ping", "Connect", "Forward", "StartLogs"}
        <4>1. op = Start(s, c)
          BY <3>1 DEF Execute1
        <4>2. Start(s, c) = u1
          BY Zenon DEF Start
        <4>3. QED
          BY <4>1, <4>2
      <3>2. CASE c.cmd = "Watch"
        BY <3>2 DEF Execute1
      <3>3. CASE c.cmd = "StopForward"
        BY <3>3 DEF Execute1
      <3>4. CASE c.cmd = "Pick"
        BY <3>4 DEF Execute1
      <3>5. CASE c.cmd = "ConfirmUndo"
        BY <3>5 DEF Execute1
      <3>6. CASE c.cmd \in {"Mutate", "Suspend"}
        BY <3>6 DEF Execute1
      <3>7. CASE c.cmd = "PreviewTheme"
        BY <3>7 DEF Execute1
      <3>8. CASE c.cmd \in {"Stop", "PollMetrics", "SaveResource"}
        BY <3>8 DEF Execute1
      <3>9. QED
        BY <1>4, <3>1, <3>2, <3>3, <3>4, <3>5, <3>6, <3>7, <3>8 DEF PlainKinds
    <2> HIDE DEF tasks, watching, forwards, pick, undo, did, op
    <2>2. \A u \in {u1, u2, u3, u4, u5, u6, u7, s} : u.views = s.views /\ DOMAIN u = Fields
      BY DEF Fields
    <2>3. QED
      BY <1>1, <2>1, <2>2 DEF op
  <1>5. QED
    BY <1>2, <1>3, <1>4

\* All of them.
LEMMA RunTrims ==
    ASSUME NEW p, DOMAIN p.t = Fields, IsSeq(p.t.views), Plain(p.cmds)
    PROVE  Trims(p.t, Run(p))
  <1> DEFINE cmds == p.cmds
             n == Len(cmds)
  <1>1. IsSeq(cmds) /\ n \in Nat /\ DOMAIN cmds = 1..n /\ \A i \in 1..n : cmds[i].cmd \in PlainKinds
    BY SeqHas DEF Plain
  <1>2. PICK g : /\ g[0] = p.t
                 /\ \A i \in 1..n : g[i] = Execute(g[i - 1], cmds[i])
                 /\ Run(p) = g[n]
    BY <1>1, RunTrail
  <1> DEFINE S == {i \in 0..n : Trims(p.t, g[i])}
  <1> HIDE DEF cmds, n
  <1>3. 0 \in S
    <2>1. Trims(p.t, p.t)
      BY DEF Trims
    <2>2. QED
      BY <1>1, <1>2, <2>1
  <1>4. ASSUME NEW i \in 1..n, i - 1 \in S PROVE i \in S
    <2> DEFINE u == g[i - 1]
               c == cmds[i]
    <2>1. Trims(p.t, u) /\ g[i] = Execute(u, c) /\ c.cmd \in PlainKinds
      BY <1>1, <1>2, <1>4
    <2> HIDE DEF u, c
    <2>2. Execute(u, c) = u \/ Execute(u, c) = Execute1(u, c)
      <3>1. CASE u.quit
        <4>1. Execute(u, c) = u
          BY <3>1 DEF Execute
        <4>2. QED
          BY <4>1
      <3>2. CASE ~u.quit
        BY <2>1, <3>2, PlainExecute
      <3>3. QED
        BY <3>1, <3>2
    <2>3. Trims(u, Execute1(u, c))
      BY <2>1, StepTrims DEF Trims
    <2>4. Trims(p.t, g[i])
      BY <2>1, <2>2, <2>3 DEF Trims
    <2>5. QED
      BY <1>1, <2>4
  <1> HIDE DEF S
  <1>5. n \in S
    BY <1>1, <1>3, <1>4, CountUp
  <1>6. QED
    BY <1>2, <1>5 DEF S

\* What became of the tables is decided before the commands are executed.
LEMMA FateRun ==
    ASSUME NEW s, NEW p, DOMAIN p.t = Fields, IsSeq(p.t.views), Plain(p.cmds), Fate(s, p.t)
    PROVE  Fate(s, Run(p))
  <1> DEFINE u == Run(p)
  <1>1. Trims(p.t, u)
    BY RunTrims
  <1> HIDE DEF u
  <1>2. Fate(s, u)
    BY <1>1 DEF Trims, Fate
  <1>3. QED
    BY <1>2 DEF u

-----------------------------------------------------------------------------
(* Where the views are replaced, none is one of those there were *)

\* All views have a number from n on, and so will the next.
Begun(s, n) ==
    /\ DOMAIN s = Fields /\ s.next \in Nat /\ s.next >= n /\ IsSeq(s.views)
    /\ \A i \in DOMAIN s.views : IsView(s.views[i]) /\ s.views[i].id \in Nat /\ s.views[i].id >= n

\* What is sound has begun with the first number.
LEMMA SoundBegun ==
    ASSUME NEW s, Shaped(s)
    PROVE  Begun(s, 0)
  BY DEF Shaped, Stack, Begun

\* Views that are all new tell nothing of those that were there.
LEMMA BegunFate ==
    ASSUME NEW s, Stack(s), NEW u, Begun(u, s.next)
    PROVE  Fate(s, u)
  <1>1. SUFFICES ASSUME NEW i \in DOMAIN s.views, NEW j \in DOMAIN u.views, s.views[i].id = u.views[j].id
                 PROVE  FALSE
    BY DEF Fate
  <1>2. s.views[i].id \in Nat /\ s.views[i].id < s.next /\ u.views[j].id >= s.next /\ s.next \in Nat
    BY DEF Stack, Begun
  <1>3. QED
    BY <1>1, <1>2

\* Other fields.
LEMMA BegunSame ==
    ASSUME NEW s, NEW n, Begun(s, n), NEW u, DOMAIN u = DOMAIN s, u.views = s.views, u.next = s.next
    PROVE  Begun(u, n)
  BY DEF Begun

\* The header.
LEMMA SyncBegun ==
    ASSUME NEW s, DOMAIN s = Fields
    PROVE  DOMAIN SyncChrome(s) = Fields /\ SyncChrome(s).views = s.views /\ SyncChrome(s).next = s.next
  <1> DEFINE x == [context |-> s.session.context, favorites |-> s.config.of[s.session.context].favorites]
             u == [s EXCEPT !.shown = x]
  <1>1. SyncChrome(s) = u \/ SyncChrome(s) = s
    BY Zenon DEF SyncChrome
  <1> HIDE DEF x
  <1>2. DOMAIN u = Fields /\ u.views = s.views /\ u.next = s.next
    BY DEF Fields
  <1>3. QED
    BY <1>1, <1>2

\* push_view
LEMMA PushBegun ==
    ASSUME NEW s, NEW n \in Nat, Begun(s, n), NEW v, IsView(v), v.id = s.next
    PROVE  Begun(PushView(s, v).t, n) /\ Len(PushView(s, v).t.views) = Len(s.views) + 1
  <1> DEFINE did == FirstTick(v, s)
             w == did.view
             u == Stacks(s, w)
  <1>1. Goes(v, did, Ns(s))
    BY FirstTickGoes
  <1>2. PushView(s, v).t = SyncChrome(u)
    <2> HIDE DEF did
    <2>1. PushView(s, v) = Pair(SyncChrome(u), did.cmds)
      BY DEF PushView, Pushed, Stacks, did
    <2> HIDE DEF u
    <2>2. QED
      BY <2>1, PairIs
  <1>3. IsView(w) /\ w.id = s.next
    BY <1>1 DEF Goes
  <1> HIDE DEF w
  <1>4. DOMAIN u = Fields /\ u.views = Append(s.views, w) /\ u.next = s.next + 1
    BY DEF Begun, Stacks, Fields
  <1> HIDE DEF u
  <1> DEFINE a == s.views
             b == Append(a, w)
  <1>5. IsSeq(a) /\ Len(a) \in Nat /\ DOMAIN a = 1..Len(a)
    BY SeqHas DEF Begun
  <1> HIDE DEF a
  <1>6. IsSeq(b) /\ Len(b) = Len(a) + 1 /\ b[Len(a) + 1] = w /\ \A j \in DOMAIN a : b[j] = a[j]
    BY <1>5, AppendIs
  <1> HIDE DEF b
  <1>7. DOMAIN b = 1..(Len(a) + 1)
    BY <1>6, SeqHas
  <1>8. \A j \in DOMAIN b : b[j] = w \/ j \in DOMAIN a
    BY <1>5, <1>6, <1>7
  <1>9. u.views = b
    BY <1>4 DEF a, b
  <1>10. Begun(u, n) /\ Len(u.views) = Len(s.views) + 1
    <2>1. \A j \in DOMAIN b : IsView(b[j]) /\ b[j].id \in Nat /\ b[j].id >= n
      BY <1>3, <1>6, <1>8 DEF Begun, a
    <2>2. u.next \in Nat /\ u.next >= n
      BY <1>4 DEF Begun
    <2>3. QED
      BY <1>4, <1>6, <1>9, <2>1, <2>2 DEF Begun, a
  <1>11. DOMAIN SyncChrome(u) = Fields /\ SyncChrome(u).views = u.views /\ SyncChrome(u).next = u.next
    BY <1>4, SyncBegun
  <1>12. Begun(SyncChrome(u), n)
    BY <1>4, <1>10, <1>11, BegunSame
  <1>13. QED
    BY <1>2, <1>10, <1>11, <1>12

\* A table in the place of all views.
LEMMA TableBegun ==
    ASSUME NEW s, NEW k, Begun(s, k), NEW n \in Nat, s.next >= n, NEW kind
    PROVE  Begun(OpenTable(s, kind).t, n) /\ Len(OpenTable(s, kind).t.views) = 1
  <1> DEFINE v == NewTable(s.next, kind, Ns(s))
             u == [s EXCEPT !.views = <<>>]
  <1>1. IsView(v) /\ v.id = s.next
    BY TableNew DEF IsNew
  <1>2. OpenTable(s, kind) = PushView(u, v)
    BY DEF OpenTable, ReplaceViews
  <1> HIDE DEF v
  <1>3. DOMAIN u = Fields /\ u.views = <<>> /\ u.next = s.next
    BY DEF Begun, Fields
  <1> HIDE DEF u
  <1>4. IsSeq(u.views) /\ DOMAIN u.views = {} /\ Len(u.views) = 0
    BY <1>3, EmptyIsSeq
  <1>5. Begun(u, n)
    BY <1>3, <1>4 DEF Begun
  <1>6. IsView(v) /\ v.id = u.next
    BY <1>1, <1>3
  <1>7. Begun(PushView(u, v).t, n) /\ Len(PushView(u, v).t.views) = Len(u.views) + 1
    BY <1>5, <1>6, PushBegun
  <1>8. QED
    BY <1>2, <1>4, <1>7

\* A filter of the view on top.
LEMMA FilterBegun ==
    ASSUME NEW s, NEW n, Begun(s, n), Len(s.views) > 0, NEW f, IsFilter(f)
    PROVE  Begun(WithTop(s, SetViewFilter(Top(s), f)).t, n)
  <1> DEFINE i == Len(s.views)
             did == SetViewFilter(Top(s), f)
             w == did.view
             u == Puts(s, i, w)
  <1>1. i \in DOMAIN s.views /\ DOMAIN s = Fields /\ IsSeq(s.views)
    <2>1. IsSeq(s.views)
      BY DEF Begun
    <2>2. DOMAIN s.views = 1..i /\ i \in Nat
      BY <2>1, SeqHas
    <2>3. QED
      BY <2>1, <2>2 DEF Begun
  <1>2. IsView(Top(s)) /\ Top(s).id \in Nat /\ Top(s).id >= n
    BY <1>1 DEF Begun, Top
  <1>3. Goes(Top(s), did, None)
    BY <1>2, SetViewFilterGoes
  <1>4. IsView(w) /\ w.id = Top(s).id
    BY <1>3 DEF Goes
  <1>5. WithTop(s, did).t = u
    BY DEF WithTop, Pair, Puts
  <1> HIDE DEF w, i
  <1>6. /\ Same(s, u, {"views"}) /\ IsSeq(u.views) /\ DOMAIN u.views = DOMAIN s.views
        /\ u.views[i] = w /\ \A j \in DOMAIN s.views : j # i => u.views[j] = s.views[j]
    BY <1>1, PutsIs
  <1> HIDE DEF u
  <1>7. DOMAIN u = Fields /\ u.next = s.next
    BY <1>1, <1>6 DEF Same, Fields
  <1>8. Begun(u, n)
    BY <1>2, <1>4, <1>6, <1>7 DEF Begun
  <1>9. QED
    BY <1>5, <1>8

\* set_namespace: the views keep their numbers, tables their selection.
LEMMA SetNamespaceBegun ==
    ASSUME NEW s, NEW n, Begun(s, n), NEW ns
    PROVE  /\ Begun(SetNamespace(s, ns).t, n) /\ SetNamespace(s, ns).t.next = s.next
           /\ Stack(s) => Fate(s, SetNamespace(s, ns).t)
  <1> DEFINE a == [s EXCEPT !.session.ns = ns]
             b == SyncChrome(a)
             c == Remember(b, ns)
             u == SyncChrome(c)
             m == [msg |-> "NamespaceChanged"]
             q == OnAll(u, m)
  <1>0. DOMAIN s = Fields
    BY DEF Begun
  <1>1. SetNamespace(s, ns) = Pair(s, <<>>) \/ SetNamespace(s, ns) = Then(q, <<Save>>)
    BY DEF SetNamespace
  <1>2. DOMAIN a = Fields /\ a.views = s.views /\ a.next = s.next
    BY <1>0 DEF Fields
  <1> HIDE DEF a
  <1>3. DOMAIN b = Fields /\ b.views = s.views /\ b.next = s.next
    BY <1>2, SyncBegun
  <1> HIDE DEF b
  <1>4. DOMAIN c = Fields /\ c.views = s.views /\ c.next = s.next
    <2>1. \E x : c = [b EXCEPT !.config.of[b.shown.context] = x]
      BY Zenon DEF Remember
    <2>2. \A x : /\ DOMAIN [b EXCEPT !.config.of[b.shown.context] = x] = Fields
                 /\ [b EXCEPT !.config.of[b.shown.context] = x].views = s.views
                 /\ [b EXCEPT !.config.of[b.shown.context] = x].next = s.next
      BY <1>3 DEF Fields
    <2> HIDE DEF c
    <2>3. QED
      BY <2>1, <2>2
  <1> HIDE DEF c
  <1>5. DOMAIN u = Fields /\ u.views = s.views /\ u.next = s.next
    BY <1>4, SyncBegun
  <1>6. m.msg # "Fetched"
    OBVIOUS
  <1> HIDE DEF u, m
  <1>7. IsSeq(u.views)
    BY <1>5 DEF Begun
  <1> DEFINE w == q.t
  <1>8. Heard(u, w, m)
    BY <1>5, <1>7, AllHeard
  <1> HIDE DEF q, w
  <1>9. /\ DOMAIN w = Fields /\ w.next = s.next /\ IsSeq(w.views) /\ DOMAIN w.views = DOMAIN s.views
    BY <1>5, <1>8 DEF Heard, Same, Fields
  <1>10. ASSUME NEW i \in DOMAIN s.views PROVE IsView(w.views[i]) /\ w.views[i].id = s.views[i].id
    <2> DEFINE v == s.views[i]
    <2>1. IsView(v)
      BY DEF Begun
    <2>2. w.views[i] = v \/ \E r : w.views[i] = OnMsg(v, m, r).view
      BY <1>5, <1>8 DEF Heard
    <2> HIDE DEF v
    <2>3. ASSUME NEW r PROVE IsView(OnMsg(v, m, r).view) /\ OnMsg(v, m, r).view.id = v.id
      <3>1. Goes(v, OnMsg(v, m, r), Ns(r))
        BY <1>6, <2>1, OnMsgGoes
      <3>2. QED
        BY <3>1 DEF Goes
    <2> DEFINE x == w.views[i]
    <2>4. x = v \/ \E r : x = OnMsg(v, m, r).view
      BY <2>2
    <2> HIDE DEF x
    <2>5. IsView(x) /\ x.id = v.id
      BY <2>1, <2>3, <2>4
    <2>6. QED
      BY <2>5 DEF x, v
  <1>11. Begun(w, n)
    BY <1>9, <1>10 DEF Begun
  <1>12. ASSUME Stack(s) PROVE Fate(s, w)
    <2>1. Stack(u)
      BY <1>5, <1>12 DEF Stack
    <2>2. Fate(u, w)
      BY <1>6, <1>8, <2>1, HeardIs
    <2>3. QED
      BY <1>5, <2>2 DEF Fate
  <1>13. Stack(s) => Fate(s, s)
    <2>1. ASSUME Stack(s) PROVE Heard(s, s, m)
      BY <1>0, <2>1, NothingHeard DEF Stack
    <2>2. QED
      BY <1>6, <2>1, HeardIs
  <1>14. SetNamespace(s, ns).t = s \/ SetNamespace(s, ns).t = w
    <2>1. Pair(s, <<>>).t = s /\ Then(q, <<Save>>).t = w
      BY PairIs, ThenHas DEF w
    <2>2. QED
      BY <1>1, <2>1
  <1>15. QED
    BY <1>9, <1>11, <1>12, <1>13, <1>14

\* So does a namespace that is asked for, if any.
LEMMA MovedBegun ==
    ASSUME NEW s, NEW n, Begun(s, n), NEW ns
    PROVE  /\ Begun(Moved(s, ns).t, n) /\ Moved(s, ns).t.next = s.next
           /\ Stack(s) => Fate(s, Moved(s, ns).t)
  <1>1. Moved(s, ns) = Pair(s, <<>>) \/ Moved(s, ns) = SetNamespace(s, ns)
    BY DEF Moved
  <1>2. Stack(s) => Fate(s, s)
    <2>1. ASSUME Stack(s) PROVE Heard(s, s, [msg |-> "Tick"])
      BY <2>1, NothingHeard DEF Stack, Begun
    <2> DEFINE m == [msg |-> "Tick"]
    <2>2. m.msg # "Fetched" /\ (Stack(s) => Heard(s, s, m))
      BY <2>1
    <2> HIDE DEF m
    <2>3. QED
      BY <2>2, HeardIs
  <1>3. Pair(s, <<>>).t = s
    BY PairIs
  <1>4. QED
    BY <1>1, <1>2, <1>3, SetNamespaceBegun

\* open_kind_command
LEMMA KindBegun ==
    ASSUME NEW s, NEW n \in Nat, Begun(s, n), NEW c, IsCommand(c), c.cmd = "kind"
    PROVE  Begun(OpenKindCommand(s, c).t, n)
  <1>a. DOMAIN c = {"cmd", "kind", "ns", "filter", "context"} /\ (c.filter = None \/ IsFilter(c.filter))
    BY DEF IsCommand
  <1>1. CASE c.context # None
    <2> DEFINE d == [c EXCEPT !.context = None]
               u == [s EXCEPT !.pending = d]
    <2>1. OpenKindCommand(s, c).t = u
      BY <1>1 DEF OpenKindCommand, Pair
    <2> HIDE DEF d
    <2>2. DOMAIN u = DOMAIN s /\ u.views = s.views /\ u.next = s.next
      BY DEF Begun, Fields
    <2> HIDE DEF u
    <2>3. QED
      BY <2>1, <2>2, BegunSame
  <1>2. CASE c.context = None /\ (~HasSession(s) \/ c.kind \notin scene.kinds)
    <2>1. OpenKindCommand(s, c).t = s
      BY <1>2 DEF OpenKindCommand, Pair
    <2>2. QED
      BY <2>1
  <1>3. CASE c.context = None /\ ~(~HasSession(s) \/ c.kind \notin scene.kinds)
    <2> DEFINE p0 == Moved(s, c.ns)
               x == s.shown.context
               p == [p0 EXCEPT !.t.config.of[x].lastKind = c.kind]
               q == WithTable(p, c.kind)
               r == Then(q, <<Save>>)
               u == p0.t
               w == [u EXCEPT !.config.of[x].lastKind = c.kind]
    <2>1. OpenKindCommand(s, c) = MaybeFiltered(r, c.filter)
      BY <1>3 DEF OpenKindCommand
    <2>2. Begun(u, n) /\ "t" \in DOMAIN p0
      <3>1. Moved(s, c.ns) = Pair(s, <<>>) \/ Moved(s, c.ns) = SetNamespace(s, c.ns)
        BY DEF Moved
      <3>2. \A y, z : DOMAIN Pair(y, z) = {"t", "cmds"}
        BY DEF Pair
      <3> DEFINE a == OnAll(SyncChrome(Remember(SyncChrome([s EXCEPT !.session.ns = c.ns]), c.ns)), [msg |-> "NamespaceChanged"])
      <3>3. SetNamespace(s, c.ns) = Pair(s, <<>>) \/ SetNamespace(s, c.ns) = Then(a, <<Save>>)
        BY DEF SetNamespace
      <3> HIDE DEF a
      <3>4. Then(a, <<Save>>) = Pair(a.t, a.cmds \o <<Save>>)
        BY DEF Then
      <3>5. "t" \in DOMAIN p0
        BY <3>1, <3>2, <3>3, <3>4
      <3> HIDE DEF p0
      <3>6. Begun(Moved(s, c.ns).t, n)
        BY MovedBegun
      <3>7. QED
        BY <3>5, <3>6 DEF p0
    <2> HIDE DEF p0, x
    <2>3. p.t = w
      BY <2>2
    <2> HIDE DEF p
    <2>4. DOMAIN w = DOMAIN u /\ w.views = u.views /\ w.next = u.next
      BY <2>2 DEF Begun, Fields
    <2> HIDE DEF u, w
    <2>5. Begun(w, n)
      BY <2>2, <2>4, BegunSame
    <2>6. WithTable(p, c.kind).t = OpenTable(w, c.kind).t
      BY <2>3 DEF WithTable, Add, Pair
    <2>7. Begun(OpenTable(w, c.kind).t, n) /\ Len(OpenTable(w, c.kind).t.views) = 1
      BY <2>5, TableBegun DEF Begun
    <2>8. Begun(q.t, n) /\ Len(q.t.views) = 1
      BY <2>6, <2>7
    <2> HIDE DEF q
    <2>9. r.t = q.t
      BY ThenHas
    <2> HIDE DEF r
    <2>10. WithFilter(r, c.filter).t = WithTop(r.t, SetViewFilter(Top(r.t), c.filter)).t
      BY DEF WithFilter, Add, Pair
    <2>11. Begun(r.t, n) /\ Len(r.t.views) > 0
      <3>1. Begun(r.t, n) /\ Len(r.t.views) = 1
        BY <2>8, <2>9, Zenon
      <3>2. QED
        BY <3>1
    <2> DEFINE y == r.t
               f == c.filter
    <2>12. Begun(y, n) /\ Len(y.views) > 0 /\ (f = None \/ IsFilter(f))
      BY <1>a, <2>11
    <2> HIDE DEF y, f
    <2>13. IsFilter(f) => Begun(WithTop(y, SetViewFilter(Top(y), f)).t, n)
      BY <2>12, FilterBegun
    <2>14. MaybeFiltered(r, f) = IF f = None THEN r ELSE WithFilter(r, f)
      BY DEF MaybeFiltered
    <2>15. MaybeFiltered(r, f).t = y \/ (IsFilter(f) /\ MaybeFiltered(r, f).t = WithTop(y, SetViewFilter(Top(y), f)).t)
      BY <2>10, <2>12, <2>14 DEF y, f
    <2>16. QED
      BY <2>1, <2>12, <2>13, <2>15 DEF f
  <1>4. QED
    BY <1>1, <1>2, <1>3

\* open_kind_filtered: tables of a kind that is not known stay, and follow the namespace.
LEMMA FilteredFate ==
    ASSUME NEW s, Shaped(s), NEW kind, NEW ns, NEW f, IsFilter(f)
    PROVE  Fate(s, OpenKindFiltered(s, kind, ns, f).t)
  <1> DEFINE p == Moved(s, ns)
             u == p.t
             n == s.next
  <1>1. Stack(s) /\ Begun(s, 0) /\ n \in Nat
    BY SoundBegun DEF Shaped, Stack
  <1>2. Begun(u, 0) /\ u.next = n /\ Fate(s, u)
    BY <1>1, MovedBegun
  <1>3. CASE kind \notin scene.kinds
    <2> DEFINE d == u.dropped \cup Range(p.cmds)
               w == [u EXCEPT !.dropped = d]
    <2>1. OpenKindFiltered(s, kind, ns, f) = Pair(w, <<>>)
      BY <1>3 DEF OpenKindFiltered, Drop
    <2> HIDE DEF u, d
    <2>2. w.views = u.views
      BY <1>2 DEF Begun, Fields
    <2> HIDE DEF w
    <2>3. Fate(s, w)
      BY <1>2, <2>2 DEF Fate
    <2>4. QED
      BY <2>1, <2>3, PairIs
  <1>4. CASE kind \in scene.kinds
    <2> DEFINE q == OpenTable(u, kind)
               w == q.t
               x == WithTop(w, SetViewFilter(Top(w), f))
    <2>1. OpenKindFiltered(s, kind, ns, f).t = x.t
      BY <1>4 DEF OpenKindFiltered, WithFilter, WithTable, Add, Pair
    <2> HIDE DEF u
    <2>2. u.next >= n
      BY <1>1, <1>2
    <2>3. Begun(w, n) /\ Len(w.views) = 1
      BY <1>1, <1>2, <2>2, TableBegun
    <2> HIDE DEF q, w
    <2>4. Len(w.views) > 0
      BY <2>3
    <2>5. Begun(x.t, n)
      BY <2>3, <2>4, FilterBegun
    <2> HIDE DEF x
    <2> DEFINE y == x.t
    <2> HIDE DEF y
    <2>6. Begun(y, s.next)
      BY <2>5 DEF y
    <2>7. Fate(s, y)
      BY <1>1, <2>6, BegunFate
    <2>8. QED
      BY <2>1, <2>7 DEF y
  <1>5. QED
    BY <1>3, <1>4

\* What waited for the connect.
LEMMA PendingBegun ==
    ASSUME NEW s, NEW n \in Nat, Begun(s, n), Recalls(s)
    PROVE  Begun(Pending(s).t, n)
  <1>1. CASE s.pending = None
    <2> DEFINE v == NewNamespaces(s.next)
    <2>1. Pending(s) = PushView(s, v)
      BY <1>1 DEF Pending
    <2>2. IsView(v) /\ v.id = s.next
      BY ListNew DEF IsNew
    <2> HIDE DEF v
    <2>3. Begun(PushView(s, v).t, n)
      BY <2>2, PushBegun
    <2>4. QED
      BY <2>1, <2>3
  <1>2. CASE s.pending # None
    <2> DEFINE u == [s EXCEPT !.pending = None]
               c == s.pending
    <2>1. IsCommand(c) /\ c.cmd = "kind"
      BY <1>2 DEF Recalls
    <2>2. Pending(s) = HandleCommand(u, c)
      BY <1>2 DEF Pending
    <2>3. DOMAIN u = DOMAIN s /\ u.views = s.views /\ u.next = s.next
      BY DEF Begun, Fields
    <2> HIDE DEF u, c
    <2>4. Begun(u, n)
      BY <2>3, BegunSame
    <2>5. HandleCommand(u, c) = OpenKindCommand(u, c)
      BY <2>1 DEF HandleCommand
    <2>6. Begun(OpenKindCommand(u, c).t, n)
      BY <2>1, <2>4, KindBegun
    <2>7. QED
      BY <2>2, <2>5, <2>6
  <1>3. QED
    BY <1>1, <1>2

\* on_connected: the landing view and what waited for the connect are new.
LEMMA ConnectedFate ==
    ASSUME NEW s, NEW ok \in BOOLEAN, Sound(s, <<>>, 0, Owing(Settled, FALSE, ok)), scene \in Scenes
    PROVE  Fate(s, OnConnected(s, ok).t)
  <1> DEFINE n == s.next
             none == <<>>
             o == Owing(Settled, FALSE, ok)
  <1>0. Sound(s, none, 0, o)
    OBVIOUS
  <1> HIDE DEF none, o
  <1>1. Stack(s) /\ Begun(s, 0) /\ n \in Nat /\ DOMAIN s = Fields
    BY <1>0, SoundBegun DEF Sound, Shaped, Stack
  <1>2. CASE ok
    <2> DEFINE u == SyncChrome(s)
               last == u.config.of[u.session.context].lastKind
               kind == IF last \in scene.kinds THEN last ELSE "Pod"
               p == OpenTable(u, kind)
               w == p.t
               q == Pending(w)
    <2>1. OnConnected(s, ok).t = q.t
      <3>1. OnConnected(s, ok) = Then(WithPending(p), <<[cmd |-> "PollMetrics"]>>)
        BY <1>2 DEF OnConnected, Landing
      <3> HIDE DEF p
      <3>2. WithPending(p).t = q.t
        BY DEF WithPending, Add, Pair
      <3> HIDE DEF q
      <3>3. QED
        BY <3>1, <3>2, ThenHas
    <2> HIDE DEF kind, last
    <2>2. DOMAIN u = Fields /\ u.views = s.views /\ u.next = n
      BY <1>1, SyncBegun
    <2>3. Sound(u, none, 0, o)
      BY <1>0, SyncSound
    <2> HIDE DEF u
    <2>4. Begun(u, 0) /\ u.next >= n
      BY <1>1, <2>2, BegunSame
    <2>5. Begun(w, n)
      BY <1>1, <2>4, TableBegun
    <2>6. Leaves(none, p, Renewed(o))
      BY <2>3, OpenTableLeaves
    <2> HIDE DEF p
    <2>7. Recalls(w)
      BY <2>6 DEF Leaves, Sound, Shaped
    <2> HIDE DEF w
    <2>8. Begun(q.t, n)
      BY <1>1, <2>5, <2>7, PendingBegun
    <2> HIDE DEF q
    <2> DEFINE x == q.t
    <2> HIDE DEF x
    <2>9. Begun(x, s.next)
      BY <2>8 DEF x
    <2>10. Fate(s, x)
      BY <1>1, <2>9, BegunFate
    <2>11. QED
      BY <2>1, <2>10 DEF x
  <1>3. CASE ~ok
    <2> DEFINE u == [s EXCEPT !.pending = None]
               v == NewContexts(u.next, scene.contexts)
    <2>1. OnConnected(s, ok) = IF s.views = <<>> THEN PushView(u, v) ELSE Pair(u, <<>>)
      BY <1>3 DEF OnConnected
    <2>2. u.views = s.views
      BY <1>1 DEF Fields
    <2>3. CASE s.views = <<>>
      <3>1. DOMAIN s.views = {}
        BY <2>3
      <3>2. QED
        BY <3>1 DEF Fate
    <2>4. CASE s.views # <<>>
      <3>1. OnConnected(s, ok).t = u
        BY <2>1, <2>4, PairIs
      <3>2. Fate(s, u)
        <4>1. SUFFICES ASSUME NEW i \in DOMAIN s.views, NEW j \in DOMAIN s.views, s.views[i].id = s.views[j].id
                       PROVE  Selects(s.views[i], s.views[j])
          BY <2>2 DEF Fate
        <4>2. i = j
          BY <1>1, <4>1 DEF Stack
        <4>3. QED
          BY <4>2 DEF Selects
      <3>3. QED
        BY <3>1, <3>2
    <2>5. QED
      BY <2>3, <2>4
  <1>4. QED
    BY <1>2, <1>3

-----------------------------------------------------------------------------
(* The selection in the steps of the app *)

\* The same views, and so the same fate.
LEMMA FateSame ==
    ASSUME NEW s, NEW u, u.views = s.views
    PROVE  (Stack(s) => Fate(s, u)) /\ \A w : Fate(u, w) => Fate(s, w)
  <1>1. ASSUME Stack(s) PROVE Fate(s, u)
    <2>1. SUFFICES ASSUME NEW i \in DOMAIN s.views, NEW j \in DOMAIN s.views, s.views[i].id = s.views[j].id
                   PROVE  Selects(s.views[i], s.views[j])
      BY DEF Fate
    <2>2. i = j
      BY <1>1, <2>1 DEF Stack
    <2>3. QED
      BY <2>2 DEF Selects
  <1>2. QED
    BY <1>1 DEF Fate

\* An operation and the commands it adds.
LEMMA LeavesFate ==
    ASSUME NEW s, NEW cmds, NEW owed, NEW p, Leaves(cmds, p, owed), Fate(s, p.t)
    PROVE  Fate(s, Run(p))
  <1>1. DOMAIN p.t = Fields /\ IsSeq(p.t.views) /\ Plain(p.cmds)
    BY DEF Leaves, Sound, Shaped, Stack
  <1>2. QED
    BY <1>1, FateRun

\* A message for all views and all it leads to.
LEMMA AllFate ==
    ASSUME NEW s, NEW owed, Sound(s, <<>>, 0, owed), NEW m, m.msg # "Fetched"
    PROVE  Fate(s, Run(OnAll(s, m)))
  <1> DEFINE p == OnAll(s, m)
             u == p.t
             none == <<>>
  <1>0. Sound(s, none, 0, owed)
    OBVIOUS
  <1> HIDE DEF none
  <1>1. Leaves(none, p, owed)
    BY <1>0, AllSound DEF Leaves
  <1>2. Stack(s) /\ DOMAIN s = Fields /\ IsSeq(s.views)
    BY <1>0 DEF Sound, Shaped, Stack
  <1>3. Heard(s, u, m)
    BY <1>2, AllHeard
  <1> HIDE DEF u
  <1>4. Fate(s, u)
    BY <1>2, <1>3, HeardIs
  <1> HIDE DEF p
  <1>5. Fate(s, p.t)
    BY <1>4 DEF u
  <1>6. Fate(s, Run(p))
    BY <1>1, <1>5, LeavesFate
  <1>7. QED
    BY <1>6 DEF p

\* A message for one view.
LEMMA RouteFate ==
    ASSUME NEW s, NEW owed, Sound(s, <<>>, 0, owed), NEW id, NEW m, m.msg = "Fetched" => Lists(m.answer)
    PROVE  Fate(s, Run(Route(s, id, m)))
  <1> DEFINE p == Route(s, id, m)
             u == p.t
             none == <<>>
  <1>0. Sound(s, none, 0, owed)
    OBVIOUS
  <1> HIDE DEF none
  <1>1. Leaves(none, p, owed)
    BY <1>0, RouteSound DEF Leaves
  <1>2. Stack(s) /\ DOMAIN s = Fields /\ IsSeq(s.views)
    BY <1>0 DEF Sound, Shaped, Stack
  <1>3. Heard(s, u, m)
    BY <1>2, RouteHeard
  <1> HIDE DEF u
  <1>4. Fate(s, u)
    BY <1>2, <1>3, HeardIs
  <1> HIDE DEF p
  <1>5. Fate(s, p.t)
    BY <1>4 DEF u
  <1>6. Fate(s, Run(p))
    BY <1>1, <1>5, LeavesFate
  <1>7. QED
    BY <1>6 DEF p

\* Nothing to do.
LEMMA NothingFate ==
    ASSUME NEW s, NEW owed, Sound(s, <<>>, 0, owed)
    PROVE  Fate(s, Run(Pair(s, <<>>)))
  <1> DEFINE none == <<>>
             p == Pair(s, none)
  <1>1. p.t = s /\ p.cmds = none /\ Plain(none)
    BY PairIs, PlainNone
  <1> HIDE DEF none, p
  <1>2. DOMAIN p.t = Fields /\ IsSeq(p.t.views) /\ Stack(s)
    BY <1>1 DEF Sound, Shaped, Stack
  <1>3. Fate(s, p.t)
    BY <1>1, <1>2, FateSame
  <1>4. Fate(s, Run(p))
    BY <1>1, <1>2, <1>3, FateRun
  <1>5. QED
    BY <1>4 DEF p, none

\* The owner of a row.
LEMMA OwnerFate ==
    ASSUME NEW s, Sound(s, <<>>, 0, Settled), scene \in Scenes, NEW a
    PROVE  Fate(s, Run(Owner(s, a)))
  <1> DEFINE nss == IF s.views = <<>> THEN {} ELSE {x.ns : x \in Targets(Top(s))}
             ns == IF nss = {} THEN None ELSE CHOOSE n \in nss : TRUE
             f == [labels |-> None, names |-> {a.found.name}]
             kind == a.found.kind
             q == OpenKindFiltered(s, kind, ns, f)
  <1>1. Owner(s, a) = IF a.found = None THEN Pair(s, <<>>) ELSE q
    BY Zenon DEF Owner
  <1>2. IsFilter(f)
    BY DEF IsFilter
  <1> HIDE DEF ns, nss, f, kind
  <1>4. a.found # None => Leaves(<<>>, q, Settled)
    BY <1>2, OpenFilteredLeaves
  <1>5. Shaped(s)
    BY DEF Sound
  <1> HIDE DEF q
  <1> DEFINE u == q.t
  <1>6. Fate(s, u)
    BY <1>2, <1>5, FilteredFate DEF q
  <1>7. Fate(s, q.t)
    BY <1>6
  <1> HIDE DEF u
  <1>8. a.found # None => Fate(s, Run(q))
    BY <1>4, <1>7, LeavesFate
  <1>9. Fate(s, Run(Pair(s, <<>>)))
    BY NothingFate
  <1>10. QED
    BY <1>1, <1>8, <1>9

\* An answer to a request.
LEMMA AnswerFate ==
    ASSUME NEW s, Sound(s, <<>>, 0, Settled), scene \in Scenes, NEW id, NEW b \in BOOLEAN, NEW a, Lists(a)
    PROVE  Fate(s, Run(CASE ~b -> Pair(s, <<>>)
                         [] b /\ a.what = "Owner" -> Owner(s, a)
                         [] OTHER -> Route(s, id, [msg |-> "Fetched", answer |-> a])))
  <1> DEFINE m == [msg |-> "Fetched", answer |-> a]
             what == a.what
             p1 == Pair(s, <<>>)
             p2 == Owner(s, a)
             p3 == Route(s, id, m)
             p == CASE ~b -> p1
                    [] b /\ what = "Owner" -> p2
                    [] OTHER -> p3
  <1>1. Fate(s, Run(p1))
    BY NothingFate
  <1>2. Fate(s, Run(p2))
    BY OwnerFate
  <1>3. Fate(s, Run(p3))
    <2>1. m.msg = "Fetched" => Lists(m.answer)
      OBVIOUS
    <2> HIDE DEF m
    <2>2. QED
      BY <2>1, RouteFate
  <1> HIDE DEF p1, p2, p3, what
  <1>4. p = p1 \/ p = p2 \/ p = p3
    OBVIOUS
  <1> HIDE DEF p
  <1>5. Fate(s, Run(p))
    BY <1>1, <1>2, <1>3, <1>4
  <1>6. QED
    BY <1>5 DEF p, p1, p2, p3, m, what

\* Msg::Connected and all it leads to.
LEMMA LandedFate ==
    ASSUME NEW s, Sound(s, <<>>, 0, Settled), NEW task, task.cmd = "Connected", scene \in Scenes
    PROVE  Fate(Ended(s, task), Run(OnConnected(Ended(s, task), task.ok)))
  <1> DEFINE u == Ended(s, task)
             ok == IF task.ok THEN TRUE ELSE FALSE
             p == OnConnected(u, ok)
  <1>1. Sound(u, <<>>, 0, Dues(task))
    BY EndedSound
  <1>2. Dues(task) = Owing(Settled, FALSE, ok)
    BY DEF Dues, Owing, Settled
  <1>3. ok \in BOOLEAN
    OBVIOUS
  <1>4. OnConnected(u, task.ok) = p
    <2> HIDE DEF u
    <2> DEFINE a == Then(WithPending(Landing(SyncChrome(u))), <<[cmd |-> "PollMetrics"]>>)
               dropped == [u EXCEPT !.pending = None]
               b == IF u.views = <<>> THEN PushView(dropped, NewContexts(dropped.next, scene.contexts)) ELSE Pair(dropped, <<>>)
    <2>1. OnConnected(u, task.ok) = (IF task.ok THEN a ELSE b) /\ p = (IF ok THEN a ELSE b)
      BY Zenon DEF OnConnected
    <2> HIDE DEF a, b, p
    <2>2. QED
      BY <2>1
  <1> HIDE DEF u, ok
  <1>5. Leaves(<<>>, p, Settled) /\ Fate(u, p.t)
    BY <1>1, <1>2, <1>3, ConnectedLeaves, ConnectedFate
  <1> HIDE DEF p
  <1>6. Fate(u, Run(p))
    BY <1>5, LeavesFate
  <1>7. QED
    BY <1>4, <1>6 DEF u

\* Every step but a key.
LEMMA StepFate ==
    ASSUME GoodInv, Next, keys \in Nat, keys' = keys
    PROVE  Fate(t, t')
  <1>0. scene \in Scenes /\ Good(t) /\ Stack(t) /\ DOMAIN t = Fields
    BY DEF GoodInv, Good, Shaped
  <1>a. ~t.quit => Sound(t, <<>>, 0, Settled)
    BY <1>0, GoodIs
  <1>b. \A task : Ended(t, task).views = t.views
    BY <1>0 DEF Ended, Fields
  <1>c. ASSUME NEW task, NEW w, Fate(Ended(t, task), w) PROVE Fate(t, w)
    <2> DEFINE s == Ended(t, task)
    <2>1. s.views = t.views /\ Fate(s, w)
      BY <1>b, <1>c
    <2> HIDE DEF s
    <2>2. QED
      BY <2>1, FateSame
  <1>1. ASSUME NEW k \in scene.keys, Key(k) PROVE FALSE
    BY <1>1 DEF Key
  <1>2. ASSUME Tick PROVE Fate(t, t')
    <2> DEFINE s == SyncChrome(t)
               m == [msg |-> "Tick"]
    <2>1. ~t.quit /\ t' = Run(OnAll(s, m))
      BY <1>2 DEF Tick, Running, Uses
    <2>2. m.msg # "Fetched"
      OBVIOUS
    <2>3. Sound(s, <<>>, 0, Settled)
      BY <1>a, <2>1, SyncSound
    <2>4. s.views = t.views
      BY <1>0, SyncBegun
    <2> HIDE DEF s, m
    <2> DEFINE w == Run(OnAll(s, m))
    <2>5. Fate(s, w)
      BY <2>2, <2>3, AllFate
    <2> HIDE DEF w
    <2>6. Fate(t, w)
      BY <2>4, <2>5, FateSame
    <2>7. QED
      BY <2>1, <2>6 DEF w
  <1>3. ASSUME NEW v, NEW e, Rows(v, e) PROVE Fate(t, t')
    <2> DEFINE m == [msg |-> "Rows", rows |-> e]
    <2>1. ~t.quit /\ t' = Run(Route(t, v.id, m))
      BY <1>3 DEF Rows, Running, Uses
    <2>2. m.msg # "Fetched"
      OBVIOUS
    <2> HIDE DEF m
    <2>3. QED
      BY <1>a, <2>1, <2>2, RouteFate
  <1>4. ASSUME NEW x, MetricsCome(x) PROVE Fate(t, t')
    <2> DEFINE m == [msg |-> "Metrics", polled |-> x]
    <2>1. ~t.quit /\ t' = Run(OnAll(t, m))
      BY <1>4 DEF MetricsCome, Running, Uses
    <2>2. m.msg # "Fetched"
      OBVIOUS
    <2> HIDE DEF m
    <2>3. QED
      BY <1>a, <2>1, <2>2, AllFate
  <1>5. ASSUME NEW task, NEW a, Answer(task, a), Lists(a)
        PROVE  Fate(t, t')
    <2> DEFINE s == Ended(t, task)
               b == OnStack(t, task.view)
               id == task.view
               p == CASE ~b -> Pair(s, <<>>)
                      [] b /\ a.what = "Owner" -> Owner(s, a)
                      [] OTHER -> Route(s, task.view, [msg |-> "Fetched", answer |-> a])
    <2>1. ~t.quit /\ task.cmd = "Fetch" /\ t' = Run(p)
      BY <1>5, Zenon DEF Answer, Running, Uses, Done, Ended
    <2>2. Sound(s, <<>>, 0, Settled)
      BY <1>a, <2>1, PlainEnd
    <2>3. b \in BOOLEAN
      BY DEF OnStack
    <2>4. \A w : Fate(s, w) => Fate(t, w)
      BY <1>c
    <2> HIDE DEF s, b, id
    <2>5. Fate(s, Run(CASE ~b -> Pair(s, <<>>)
                        [] b /\ a.what = "Owner" -> Owner(s, a)
                        [] OTHER -> Route(s, id, [msg |-> "Fetched", answer |-> a])))
      BY <1>0, <1>5, <2>2, <2>3, AnswerFate
    <2>6. Fate(s, Run(p))
      BY <2>5 DEF id
    <2> HIDE DEF p
    <2>7. QED
      BY <2>1, <2>4, <2>6
  <1>6. ASSUME NEW task, Pong(task) PROVE Fate(t, t')
    <2> DEFINE s == Ended(t, task)
               m == [msg |-> "Pinged", context |-> task.context]
    <2>1. ~t.quit /\ task.cmd = "Ping" /\ t' = Run(OnAll(s, m))
      BY <1>6 DEF Pong, Running, Uses, Done, Ended
    <2>2. Sound(s, <<>>, 0, Dues(task))
      BY <1>a, <2>1, EndedSound
    <2>3. m.msg # "Fetched"
      OBVIOUS
    <2>4. \A w : Fate(s, w) => Fate(t, w)
      BY <1>c
    <2> HIDE DEF s, m
    <2>5. Fate(s, Run(OnAll(s, m)))
      BY <2>2, <2>3, AllFate
    <2>6. QED
      BY <2>1, <2>4, <2>5
  <1>7. ASSUME NEW task, NEW ok \in BOOLEAN, Connect(task, ok) PROVE Fate(t, t')
    <2> DEFINE known == ok /\ task.context \in Range(scene.contexts)
               last == t.config.of[task.context].ns
               x == [context |-> task.context, ns |-> IF last = None THEN scene.own[task.context] ELSE last]
               b == Tasks!BagAdd(Ended(t, task).tasks, [cmd |-> "Connected", ok |-> known])
               s == Ended(t, task)
               w == [s EXCEPT !.tasks = b]
               u == [w EXCEPT !.session = x]
    <2>1. t' = IF known THEN u ELSE w
      BY <1>7, Zenon DEF Connect, Done, Ended, Start
    <2> HIDE DEF known, x, b
    <2>2. DOMAIN s = Fields /\ s.views = t.views
      BY <1>0, <1>b DEF Ended
    <2> HIDE DEF s
    <2>3. w.views = t.views /\ u.views = t.views
      BY <2>2 DEF Fields
    <2> HIDE DEF w, u
    <2>4. t'.views = t.views
      BY <2>1, <2>3
    <2>5. QED
      BY <1>0, <2>4, FateSame
  <1>8. ASSUME NEW task, Connected(task) PROVE Fate(t, t')
    <2>1. ~t.quit /\ task.cmd = "Connected" /\ t' = Run(OnConnected(Ended(t, task), task.ok))
      BY <1>8 DEF Connected, Running, Uses, Done, Ended
    <2>2. Sound(t, <<>>, 0, Settled)
      BY <1>a, <2>1
    <2> DEFINE w == Run(OnConnected(Ended(t, task), task.ok))
    <2>3. Fate(Ended(t, task), w)
      BY <1>0, <2>1, <2>2, LandedFate
    <2> HIDE DEF w
    <2>4. Fate(t, w)
      BY <1>c, <2>3
    <2>5. QED
      BY <2>1, <2>4 DEF w
  <1>9. ASSUME NEW task, NEW ok \in BOOLEAN, Forwarded(task, ok) PROVE Fate(t, t')
    <2> DEFINE s == Ended(t, task)
               forwards == Append(s.forwards, [id |-> t.forward, pod |-> task.pod, port |-> task.port])
               n == s.forward + 1
               u == [s EXCEPT !.forwards = forwards, !.forward = n]
    <2>1. t' = s \/ t' = u
      BY <1>9 DEF Forwarded, Done, Ended
    <2> HIDE DEF forwards, n
    <2>2. DOMAIN s = Fields /\ s.views = t.views
      BY <1>0, <1>b DEF Ended
    <2> HIDE DEF s
    <2>3. u.views = t.views
      BY <2>2 DEF Fields
    <2> HIDE DEF u
    <2>4. t'.views = t.views
      BY <2>1, <2>2, <2>3
    <2>5. QED
      BY <1>0, <2>4, FateSame
  <1>10. ASSUME NEW task, Started(task) PROVE Fate(t, t')
    <2> DEFINE m == [msg |-> "Started", stream |-> task.target]
               s == Ended(t, task)
    <2>1. ~t.quit /\ task.cmd = "StartLogs" /\ t' = Run(Route(s, task.view, m))
      BY <1>10 DEF Started, Running, Uses, Done, Ended
    <2>2. Sound(s, <<>>, 0, Settled)
      BY <1>a, <2>1, PlainEnd
    <2>3. m.msg # "Fetched"
      OBVIOUS
    <2>4. \A w : Fate(s, w) => Fate(t, w)
      BY <1>c
    <2> HIDE DEF m, s
    <2>5. Fate(s, Run(Route(s, task.view, m)))
      BY <2>2, <2>3, RouteFate
    <2>6. QED
      BY <2>1, <2>4, <2>5
  <1>11. ASSUME NEW v, NEW target, NEW hits, Lines(v, target, hits) PROVE Fate(t, t')
    <2> DEFINE batch == [i \in DOMAIN hits |-> [from |-> target, n |-> lines + i, hit |-> hits[i]]]
               m == [msg |-> "LogLines", lines |-> batch]
    <2>1. ~t.quit /\ t' = Run(Route(t, v.id, m))
      BY <1>11, Zenon DEF Lines, Running, Uses
    <2>2. m.msg # "Fetched"
      OBVIOUS
    <2> HIDE DEF m
    <2>3. QED
      BY <1>a, <2>1, <2>2, RouteFate
  <1>13. ASSUME Answers PROVE Fate(t, t')
    <2>1. PICK task \in BagToSet(t.tasks) :
             \E found \in scene.answers[task.what] : Answer(task, [what |-> task.what, of |-> task.of, found |-> found])
      BY <1>13 DEF Answers
    <2>a. PICK found \in scene.answers[task.what] : Answer(task, [what |-> task.what, of |-> task.of, found |-> found])
      BY <2>1
    <2> DEFINE a == [what |-> task.what, of |-> task.of, found |-> found]
    <2>2. Lists(a)
      BY <1>0, SceneAnswers
    <2>3. Answer(task, a)
      BY <2>a
    <2> HIDE DEF a
    <2>4. QED
      BY <1>5, <2>2, <2>3
  <1>14. ASSUME Refusals PROVE Fate(t, t')
    <2> DEFINE a == [what |-> "error", found |-> None]
    <2>1. PICK task \in BagToSet(t.tasks) : Answer(task, a)
      BY <1>14 DEF Refusals
    <2>2. Lists(a) /\ a.what # "Owner"
      BY DEF Lists
    <2> HIDE DEF a
    <2>3. QED
      BY <1>5, <2>1, <2>2
  <1>15. QED
    BY <1>1, <1>2, <1>3, <1>4, <1>6, <1>7, <1>8, <1>9, <1>10, <1>11, <1>13, <1>14
       DEF Next, Keys1, RowsCome, MetricsAll, Pongs, Connects, Arrivals, Forwards, Starts, LinesCome

\* As many keys as are left
KeysLeft == keys \in Nat

\* fix_selection of pods.rs and resources.rs: whatever comes while no key is pressed, the selected row of every
\* table stays selected as long as it is shown.
THEOREM SelectionStaysKept == Spec => SelectionKept
  <1>1. Init => KeysLeft
    BY SceneHas DEF Init, KeysLeft, IsScene
  <1>2. KeysLeft /\ [Next]_vars => KeysLeft'
    <2> SUFFICES ASSUME KeysLeft, [Next]_vars PROVE KeysLeft'
      OBVIOUS
    <2>1. CASE Keys1
      <3>1. keys > 0 /\ keys' = keys - 1
        BY <2>1, Zenon DEF Keys1, Key
      <3>2. QED
        BY <3>1 DEF KeysLeft
    <2>2. CASE RowsCome \/ MetricsAll \/ Tick
      <3>1. keys' = keys
        BY <2>2, Zenon DEF RowsCome, Rows, MetricsAll, MetricsCome, Tick
      <3>2. QED
        BY <3>1 DEF KeysLeft
    <2>3. CASE Answers \/ Refusals
      <3>1. keys' = keys
        BY <2>3, Zenon DEF Answers, Refusals, Answer
      <3>2. QED
        BY <3>1 DEF KeysLeft
    <2>4. CASE Pongs \/ Connects \/ Arrivals \/ Forwards \/ Starts
      <3>1. keys' = keys
        BY <2>4, Zenon DEF Pongs, Pong, Connects, Connect, Arrivals, Connected, Forwards, Forwarded, Starts, Started
      <3>2. QED
        BY <3>1 DEF KeysLeft
    <2>5. CASE LinesCome
      <3>1. keys' = keys
        BY <2>5, Zenon DEF LinesCome, Lines
      <3>2. QED
        BY <3>1 DEF KeysLeft
    <2>6. CASE UNCHANGED vars
      BY <2>6 DEF KeysLeft, vars
    <2>7. QED
      BY <2>1, <2>2, <2>3, <2>4, <2>5, <2>6 DEF Next
  <1>3. ASSUME GoodInv, KeysLeft, [Next]_vars, keys' = keys, NEW v \in TablesOf(t), NEW w \in TablesOf(t'),
               v.id = w.id, v.selected \in Range(Keys(v)), v.selected \in Range(Keys(w))
        PROVE  w.selected = v.selected
    <2>1. Fate(t, t')
      <3>1. CASE Next
        BY <1>3, <3>1, StepFate DEF KeysLeft
      <3>2. CASE UNCHANGED vars
        <4>1. t'.views = t.views /\ Stack(t)
          BY <1>3, <3>2 DEF vars, GoodInv, Good, Shaped
        <4>2. QED
          BY <4>1, FateSame
      <3>3. QED
        BY <1>3, <3>1, <3>2
    <2>2. PICK i \in DOMAIN t.views : v = t.views[i]
      BY DEF TablesOf, Range
    <2>3. PICK j \in DOMAIN t'.views : w = t'.views[j]
      BY DEF TablesOf, Range
    <2>4. v.kind = "table"
      BY KindsAre DEF TablesOf
    <2>5. Selects(v, w)
      BY <1>3, <2>1, <2>2, <2>3, <2>4 DEF Fate
    <2>6. QED
      BY <1>3, <2>5 DEF Selects
  <1>4. GoodInv /\ KeysLeft /\ [Next]_vars =>
            [keys' = keys =>
                \A v \in TablesOf(t), w \in TablesOf(t') :
                    v.id = w.id /\ v.selected \in Range(Keys(v)) /\ v.selected \in Range(Keys(w))
                        => w.selected = v.selected]_vars
    BY <1>3
  <1>5. QED
    BY <1>1, <1>2, <1>4, GoodAlways, PTL DEF Spec, SelectionKept

=============================================================================
