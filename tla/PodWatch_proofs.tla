--------------------------- MODULE PodWatch_proofs ---------------------------
(***************************************************************************)
(* Theorems about PodWatch, for every set of pods and every number of       *)
(* changes and of errors of the watch.                                      *)
(***************************************************************************)
EXTENDS PodWatch, SequenceTheorems, WellFoundedInduction, TLAPS

\* A bounded set of numbers that is not empty has a greatest one, the latest
\* change of a pod for instance: the one with the least distance from the bound.
LEMMA GreatestExists ==
    ASSUME NEW S, S \subseteq Nat, S # {}, NEW n \in Nat, \A i \in S : i <= n
    PROVE  \E i \in S : \A j \in S : j <= i
  <1> DEFINE below == {ss \in Nat \X Nat : ss[1] < ss[2]}
             T == {m \in Nat : n - m \in S}
  <1>1. IsWellFoundedOn(below, Nat)
    <2>1. below = OpToRel(<, Nat)
      BY Zenon DEF OpToRel
    <2>2. QED
      BY <2>1, NatLessThanWellFounded, Zenon
  <1>2. \A i \in S : n - i \in T /\ n - (n - i) = i
    OBVIOUS
  <1>3. T \subseteq Nat /\ T # {}
    BY <1>2
  <1>4. PICK m \in T : \A k \in T : <<k, m>> \notin below
    BY ONLY <1>1, <1>3, WFMin, Zenon
  <1>5. \A k \in T : m <= k
    <2>1. \A i, j \in Nat : <<j, i>> \notin below => i <= j
      OBVIOUS
    <2> HIDE DEF below, T
    <2>2. QED
      BY <1>3, <1>4, <2>1
  <1>6. \A j \in S : m <= n - j
    BY <1>2, <1>5
  <1>7. m \in Nat /\ n - m \in S
    BY <1>4
  <1> HIDE DEF T, below
  <1>8. QED
    BY <1>6, <1>7

\* The moment of pod k's history an event takes it to.
Moment(ev, k) ==
    CASE ev.type = "snapshot" -> ev.at
      [] ev.type = "upsert"   -> ev.rows[k]
      [] ev.type = "delete"   -> ev.keys[k]
      [] ev.type = "status"   -> 0

\* Event ev, if it speaks of pod k, shows it as it was at a moment the table
\* has not passed and the watcher has reached.
Truthful(ev, k) ==
    Touches(ev, k) => /\ RowOf(ev, k) = RowAt(k, Moment(ev, k))
                      /\ Moment(ev, k) \in upto[k]..at

InFlightTruthful == \A i \in DOMAIN channel : \A k \in Keys : Truthful(channel[i], k)

\* What is sent later takes a pod to a later moment.
InOrder ==
    \A i, j \in DOMAIN channel : \A k \in Keys :
        i < j /\ Touches(channel[i], k) /\ Touches(channel[j], k) =>
            Moment(channel[i], k) <= Moment(channel[j], k)

\* The table shows every pod as it was at the moment it has reached.
TableTruthful == \A k \in Keys : view[k] = RowAt(k, upto[k]) /\ upto[k] <= at

\* Version v of pod k is later than all that is in the table or in flight.
Latest(k, v) ==
    /\ v \in upto[k]..at
    /\ \A i \in DOMAIN channel : Touches(channel[i], k) => Moment(channel[i], k) <= v

\* What is batched is true and later than all that was sent.
BatchTruthful ==
    \A k \in Keys : /\ upserts[k] # Absent => RowAt(k, upserts[k]) = upserts[k] /\ Latest(k, upserts[k])
                    /\ deletes[k] # Absent => RowAt(k, deletes[k]) = Absent /\ Latest(k, deletes[k])

\* The batch is empty while a list is made, and what is buffered is what was listed.
ListTruthful ==
    /\ mode \in {"init", "pages"} => upserts = NoRows /\ deletes = NoRows
    /\ mode = "init" => buffer = NoRows
    /\ mode = "pages" => \A k \in Keys \ listed : buffer[k] = RowAt(k, at)

\* Change j of pod k has reached the table, is in flight or is batched.
Reaches(j, k) ==
    \/ j <= upto[k] \/ j <= upserts[k] \/ j <= deletes[k]
    \/ \E i \in DOMAIN channel : Touches(channel[i], k) /\ j <= Moment(channel[i], k)

AllReach == mode = "live" => \A j \in 1..at : Reaches(j, log[j].key)

Inv ==
    /\ TypeOK /\ InFlightTruthful /\ InOrder /\ TableTruthful /\ BatchTruthful
    /\ ListTruthful /\ AllReach

-----------------------------------------------------------------------------
(* The history of a pod *)

Changes == [key : Keys, alive : BOOLEAN]

\* Max is the member no other exceeds.
LEMMA MaxIs ==
    ASSUME NEW S, S \subseteq Nat, NEW n \in S, \A j \in S : j <= n
    PROVE  Max(S) = n
  <1>1. \A m \in S : (\A j \in S : m >= j) => m = n
    OBVIOUS
  <1>2. \A j \in S : n >= j
    OBVIOUS
  <1>3. QED
    BY <1>1, <1>2 DEF Max

\* The changes of pod k among the first i.
ChangesOf(k, i) == {j \in 1..i : log[j].key = k}

\* The latest of them, if there is one, is a change of pod k.
LEMMA LatestChange ==
    ASSUME NEW k, NEW i \in Nat, ChangesOf(k, i) # {}
    PROVE  Max(ChangesOf(k, i)) \in ChangesOf(k, i)
  <1>1. ChangesOf(k, i) \subseteq Nat /\ \A j \in ChangesOf(k, i) : j <= i
    BY DEF ChangesOf
  <1>2. PICK n \in ChangesOf(k, i) : \A j \in ChangesOf(k, i) : j <= n
    BY <1>1, GreatestExists
  <1>3. Max(ChangesOf(k, i)) = n
    BY <1>1, <1>2, MaxIs
  <1>4. QED
    BY <1>2, <1>3

\* RowAt by the changes of the pod.
LEMMA RowAtIs ==
    ASSUME NEW k, NEW i
    PROVE  RowAt(k, i) = IF ChangesOf(k, i) = {} THEN 0
                         ELSE IF log[Max(ChangesOf(k, i))].alive THEN Max(ChangesOf(k, i)) ELSE 0
  <1>1. \A S : Feed!Max(S) = Max(S)
    BY DEF Feed!Max, Max
  <1>2. QED
    BY <1>1 DEF RowAt, Feed!RowAt, Feed!Absent, ChangesOf

\* A row is a version the cluster has reached.
LEMMA RowAtRange ==
    ASSUME NEW k, NEW i \in Nat
    PROVE  RowAt(k, i) \in 0..i
  <1>1. CASE ChangesOf(k, i) = {}
    BY <1>1, RowAtIs
  <1>2. CASE ChangesOf(k, i) # {}
    <2>1. Max(ChangesOf(k, i)) \in 1..i
      BY <1>2, LatestChange DEF ChangesOf
    <2>2. QED
      BY <1>2, <2>1, RowAtIs
  <1>3. QED
    BY <1>1, <1>2

\* What the cluster does later does not change what a pod was.
LEMMA PastStays ==
    ASSUME log \in Seq(Changes), NEW c \in Changes, log' = Append(log, c)
    PROVE  /\ log' \in Seq(Changes) /\ Len(log') = Len(log) + 1
           /\ \A j \in 1..Len(log) : log'[j] = log[j]
           /\ \A k, i : i \in 0..Len(log) => RowAt(k, i)' = RowAt(k, i)
  <1>1. /\ log' \in Seq(Changes) /\ Len(log') = Len(log) + 1 /\ Len(log) \in Nat
        /\ \A j \in 1..Len(log) : log'[j] = log[j]
    BY AppendProperties
  <1>2. ASSUME NEW k, NEW i \in 0..Len(log) PROVE RowAt(k, i)' = RowAt(k, i)
    <2> DEFINE new == {j \in 1..i : log'[j].key = k}
    <2>1. new = ChangesOf(k, i)
      BY <1>1 DEF ChangesOf
    <2>2. RowAt(k, i)' = IF new = {} THEN 0 ELSE IF log'[Max(new)].alive THEN Max(new) ELSE 0
      <3>1. \A S : Feed!Max(S) = Max(S)
        BY DEF Feed!Max, Max
      <3>2. QED
        BY <3>1 DEF RowAt, Feed!RowAt, Feed!Absent
    <2> HIDE DEF new
    <2>3. ChangesOf(k, i) # {} => Max(ChangesOf(k, i)) \in 1..Len(log)
      <3>1. ChangesOf(k, i) \subseteq 1..Len(log)
        BY <1>1 DEF ChangesOf
      <3>2. QED
        BY <1>1, <3>1, LatestChange
    <2>4. QED
      BY <1>1, <2>1, <2>2, <2>3, RowAtIs
  <1>3. QED
    BY <1>1, <1>2

\* A pod no change concerns stays as it was.
LEMMA RowAtSame ==
    ASSUME NEW k, NEW n \in Nat, NEW m \in 0..n, \A j \in m + 1..n : log[j].key # k
    PROVE  RowAt(k, m) = RowAt(k, n)
  <1>1. ChangesOf(k, m) = ChangesOf(k, n)
    BY DEF ChangesOf
  <1>2. QED
    BY <1>1, RowAtIs

\* A change makes the row of its pod.
LEMMA RowAtChange ==
    ASSUME NEW n \in Nat \ {0}
    PROVE  RowAt(log[n].key, n) = IF log[n].alive THEN n ELSE 0
  <1> DEFINE S == ChangesOf(log[n].key, n)
  <1>1. S \subseteq Nat /\ n \in S /\ \A j \in S : j <= n
    BY DEF ChangesOf
  <1> HIDE DEF S
  <1>2. Max(S) = n
    BY <1>1, MaxIs
  <1>3. QED
    BY <1>1, <1>2, RowAtIs DEF S

-----------------------------------------------------------------------------
(* Events *)

\* What each event says of a pod.
LEMMA EventSays ==
    ASSUME NEW k
    PROVE  /\ \A rows : /\ Touches(Upsert(rows), k) <=> rows[k] # Absent
                        /\ RowOf(Upsert(rows), k) = rows[k] /\ Moment(Upsert(rows), k) = rows[k]
           /\ \A keys : /\ Touches(Delete(keys), k) <=> keys[k] # Absent
                        /\ RowOf(Delete(keys), k) = Absent /\ Moment(Delete(keys), k) = keys[k]
           /\ \A rows, i : /\ Touches(Snapshot(rows, i), k)
                           /\ RowOf(Snapshot(rows, i), k) = rows[k] /\ Moment(Snapshot(rows, i), k) = i
           /\ \A state : ~Touches(Status(state), k)
  BY DEF Touches, RowOf, Moment, Upsert, Delete, Snapshot, Status

\* An event that says something of a pod speaks of a moment of the cluster.
LEMMA MomentRange ==
    ASSUME NEW n \in Nat, Len(log) = n, NEW ev \in Sent, NEW k \in Keys, Touches(ev, k)
    PROVE  Moment(ev, k) \in 0..n
  BY DEF Sent, Rows, Touches, Moment

\* A row of the past is the same after a step that leaves the cluster.
LEMMA LogRests == ASSUME log' = log PROVE \A k, i : RowAt(k, i)' = RowAt(k, i)
  BY DEF RowAt, Feed!RowAt

\* What TypeOK says of the numbers.
LEMMA Numbers ==
    ASSUME TypeOK
    PROVE  /\ log \in Seq(Changes) /\ Len(log) \in Nat /\ at \in 0..Len(log)
           /\ \A j \in 1..at : log[j].key \in Keys
           /\ \A k \in Keys : /\ upto[k] \in 0..Len(log) /\ upserts[k] \in 0..Len(log)
                              /\ deletes[k] \in 0..Len(log)
           /\ channel \in Seq(Sent) /\ Len(channel) \in Nat /\ DOMAIN channel = 1..Len(channel)
           /\ \A i \in DOMAIN channel : channel[i] \in Sent
           /\ \A i \in DOMAIN channel : \A k \in Keys :
                 Touches(channel[i], k) => Moment(channel[i], k) \in 0..Len(log)
  <1>1. /\ log \in Seq(Changes) /\ Len(log) \in Nat /\ at \in 0..Len(log)
        /\ \A k \in Keys : /\ upto[k] \in 0..Len(log) /\ upserts[k] \in 0..Len(log)
                           /\ deletes[k] \in 0..Len(log)
    BY DEF TypeOK, Rows, Changes
  <1>2. channel \in Seq(Sent) /\ Len(channel) \in Nat /\ DOMAIN channel = 1..Len(channel)
    BY DEF TypeOK
  <1>3. \A i \in DOMAIN channel : channel[i] \in Sent
    BY <1>2, ElementOfSeq
  <1>4. \A j \in 1..at : log[j].key \in Keys
    <2>1. \A j \in 1..Len(log) : log[j] \in Changes
      BY <1>1, ElementOfSeq
    <2>2. \A j \in 1..at : j \in 1..Len(log)
      BY <1>1
    <2>3. QED
      BY <2>1, <2>2 DEF Changes
  <1>5. QED
    BY <1>1, <1>2, <1>3, <1>4, MomentRange

\* The events a flush sends.
LEMMA FlushedIs ==
    ASSUME TypeOK
    PROVE  /\ Flushed \in Seq(Sent) /\ Len(Flushed) \in Nat
           /\ \A i \in DOMAIN Flushed : Flushed[i] \in {Upsert(upserts), Delete(deletes)}
           /\ \A k \in Keys : upserts[k] # Absent => \E i \in DOMAIN Flushed : Flushed[i] = Upsert(upserts)
           /\ \A k \in Keys : deletes[k] # Absent => \E i \in DOMAIN Flushed : Flushed[i] = Delete(deletes)
  <1>1. Upsert(upserts) \in Sent /\ Delete(deletes) \in Sent
    BY DEF TypeOK, Upsert, Delete, Sent
  <1> DEFINE u == IF Some(upserts) = {} THEN <<>> ELSE <<Upsert(upserts)>>
             d == IF Some(deletes) = {} THEN <<>> ELSE <<Delete(deletes)>>
  <1>2. /\ u \in Seq(Sent) /\ (u = <<>> \/ u = <<Upsert(upserts)>>)
        /\ d \in Seq(Sent) /\ (d = <<>> \/ d = <<Delete(deletes)>>)
    BY <1>1
  <1>3. /\ \A k \in Keys : upserts[k] # Absent => u = <<Upsert(upserts)>>
        /\ \A k \in Keys : deletes[k] # Absent => d = <<Delete(deletes)>>
    BY DEF Some
  <1>4. Flushed = u \o d
    BY DEF Flushed
  <1> HIDE DEF u, d
  <1>5. /\ u \o d \in Seq(Sent) /\ Len(u \o d) = Len(u) + Len(d)
        /\ \A i \in 1..Len(u) + Len(d) : (u \o d)[i] = IF i <= Len(u) THEN u[i] ELSE d[i - Len(u)]
    BY <1>2, ConcatProperties
  <1>6. DOMAIN (u \o d) = 1..Len(u) + Len(d) /\ Len(u) \in 0..1 /\ Len(d) \in 0..1
    BY <1>2, <1>5
  <1>7. /\ Len(u) = 1 => u[1] = Upsert(upserts) /\ u = <<Upsert(upserts)>>
        /\ Len(d) = 1 => d[1] = Delete(deletes) /\ d = <<Delete(deletes)>>
        /\ Len(<<Upsert(upserts)>>) = 1 /\ Len(<<Delete(deletes)>>) = 1
    BY <1>2
  <1>8. \A i \in DOMAIN (u \o d) : (u \o d)[i] \in {Upsert(upserts), Delete(deletes)}
    BY <1>5, <1>6, <1>7
  <1>9. u = <<Upsert(upserts)>> => 1 \in DOMAIN (u \o d) /\ (u \o d)[1] = Upsert(upserts)
    BY <1>5, <1>6, <1>7
  <1>10. d = <<Delete(deletes)>> => Len(u) + 1 \in DOMAIN (u \o d) /\ (u \o d)[Len(u) + 1] = Delete(deletes)
    BY <1>5, <1>6, <1>7
  <1>11. QED
    BY <1>3, <1>4, <1>5, <1>6, <1>8, <1>9, <1>10

\* After a send the channel holds what it held and then what was sent.
LEMMA SentAfter ==
    ASSUME channel \in Seq(Sent), NEW events \in Seq(Sent), channel' = channel \o events
    PROVE  /\ channel' \in Seq(Sent)
           /\ \A i \in DOMAIN channel : i \in DOMAIN channel' /\ channel'[i] = channel[i]
           /\ \A i \in DOMAIN channel' :
                 \/ i \in DOMAIN channel /\ channel'[i] = channel[i]
                 \/ i > Len(channel) /\ i - Len(channel) \in DOMAIN events
                    /\ channel'[i] = events[i - Len(channel)]
           /\ \A j \in DOMAIN events : Len(channel) + j \in DOMAIN channel'
                                       /\ channel'[Len(channel) + j] = events[j]
  <1>1. /\ channel' \in Seq(Sent) /\ Len(channel') = Len(channel) + Len(events)
        /\ \A i \in 1..Len(channel) + Len(events) :
              channel'[i] = IF i <= Len(channel) THEN channel[i] ELSE events[i - Len(channel)]
    BY ConcatProperties
  <1>2. /\ Len(channel) \in Nat /\ DOMAIN channel = 1..Len(channel)
        /\ Len(events) \in Nat /\ DOMAIN events = 1..Len(events)
        /\ DOMAIN channel' = 1..Len(channel) + Len(events)
    BY <1>1
  <1>3. QED
    BY <1>1, <1>2

-----------------------------------------------------------------------------
(* Type correctness *)

LEMMA InitTypeOK == Init => TypeOK
  <1> SUFFICES ASSUME Init PROVE TypeOK
    OBVIOUS
  <1>1. log = <<>> /\ Len(log) = 0 /\ log \in Seq(Changes) /\ channel = <<>> /\ channel \in Seq(Sent)
    BY EmptySeq DEF Init
  <1>2. NoRows \in Rows /\ [k \in Keys |-> 0] \in Rows
    <2>1. 0 \in 0..Len(log) /\ Absent = 0
      BY <1>1 DEF Absent, Feed!Absent
    <2>2. QED
      BY <2>1 DEF NoRows, Rows
  <1>3. BatchOK
    BY DEF Init, NoRows, BatchOK
  <1>4. at \in 0..Len(log) /\ errors \in 0..MaxErrors
    BY <1>1, PodWatchAssumption DEF Init
  <1>5. /\ mode \in {"empty", "init", "pages", "live"} /\ (mode \in {"init", "pages"} => buffering)
        /\ listed \subseteq Keys /\ status \in {"starting", "live", "reconnecting"}
        /\ buffering \in BOOLEAN /\ running \in BOOLEAN
    BY DEF Init
  <1>6. QED
    BY <1>1, <1>2, <1>3, <1>4, <1>5 DEF Init, TypeOK, Changes

\* What was typed stays typed when the cluster moves on.
LEMMA ChangeTypeOK ==
    ASSUME TypeOK, NEW k \in Keys, NEW alive \in BOOLEAN, Change(k, alive)
    PROVE  TypeOK'
  <1>1. [key |-> k, alive |-> alive] \in Changes /\ log' = Append(log, [key |-> k, alive |-> alive])
    BY DEF Change, Feed!Change, Changes
  <1>2. log' \in Seq(Changes) /\ Len(log') = Len(log) + 1 /\ Len(log) \in Nat
    BY <1>1, PastStays DEF TypeOK, Changes
  <1>3. Rows \subseteq Rows'
    BY <1>2 DEF Rows
  <1>4. Sent \subseteq Sent'
    BY <1>2, <1>3 DEF Sent
  <1>5. channel' \in Seq(Sent')
    BY <1>4, SeqMonotonic DEF Change, TypeOK
  <1>6. at \in 0..Len(log')
    BY <1>2 DEF TypeOK
  <1>7. QED
    BY <1>2, <1>3, <1>5, <1>6 DEF Change, TypeOK, BatchOK, watcher, driver, table, Changes

\* Sending typed events keeps the channel typed.
LEMMA SendTyped ==
    ASSUME TypeOK, NEW events \in Seq(Sent), Send(events), log' = log
    PROVE  channel' \in Seq(Sent')
  BY SentAfter DEF TypeOK, Send, Sent, Rows

\* Single events are typed.
LEMMA EventTyped ==
    ASSUME TypeOK
    PROVE  /\ \A rows \in Rows : <<Snapshot(rows, at), Status("live")>> \in Seq(Sent)
           /\ <<Status("reconnecting")>> \in Seq(Sent)
  <1>1. /\ \A rows \in Rows : Snapshot(rows, at) \in Sent
        /\ Status("live") \in Sent /\ Status("reconnecting") \in Sent
    BY DEF TypeOK, Snapshot, Status, Sent
  <1> HIDE DEF TypeOK
  <1>2. QED
    BY <1>1

\* The watcher and its driver keep every variable typed.
LEMMA DriverTypeOK ==
    ASSUME TypeOK,
           Tick \/ ListStarts \/ ListArrives \/ (\E k \in Keys : ListedPod(k)) \/ ListEnds \/ Reported
           \/ (\E next \in {"empty", "live"} : Fails(next)) \/ Stop
    PROVE  TypeOK'
  <1>1. Len(log) \in Nat /\ at \in 0..Len(log)
    BY Numbers
  <1>2. NoRows \in Rows
    BY <1>1 DEF NoRows, Rows, Absent, Feed!Absent
  <1>3. ASSUME log' = log PROVE Rows' = Rows /\ Sent' = Sent
    BY <1>3 DEF Rows, Sent
  <1>4. ASSUME upserts' = NoRows, deletes' = NoRows PROVE BatchOK'
    BY <1>4 DEF BatchOK, NoRows
  <1>5. CASE Tick
    <2>1. channel' \in Seq(Sent')
      BY <1>5, FlushedIs, SendTyped DEF Tick
    <2>2. QED
      BY <1>2, <1>3, <1>4, <1>5, <2>1 DEF Tick, TypeOK, watcher, table
  <1>6. CASE ListStarts
    BY <1>2, <1>3, <1>4, <1>6 DEF ListStarts, ClearBatch, FreshBuffer, TypeOK, table
  <1>7. CASE ListArrives
    <2>1. Now \in 0..Len(log)
      BY <1>1 DEF Now, Feed!Now
    <2>2. QED
      BY <1>3, <1>7, <2>1 DEF ListArrives, TypeOK, BatchOK, driver, table
  <1>8. ASSUME NEW k \in Keys, ListedPod(k) PROVE TypeOK'
    <2>1. RowAt(k, at) \in 0..Len(log)
      BY <1>1, RowAtRange
    <2>2. buffer' \in Rows
      BY <1>8, <2>1 DEF ListedPod, TypeOK, Rows
    <2>3. QED
      BY <1>3, <1>8, <2>2 DEF ListedPod, TypeOK, BatchOK, table
  <1>9. CASE ListEnds
    <2>1. (IF buffering THEN buffer ELSE NoRows) \in Rows
      BY <1>2 DEF TypeOK
    <2>2. channel' \in Seq(Sent')
      BY <1>9, <2>1, EventTyped, SendTyped DEF ListEnds
    <2>3. QED
      BY <1>2, <1>3, <1>9, <2>2 DEF ListEnds, TypeOK, BatchOK, table
  <1>10. CASE Reported
    <2>1. at + 1 \in 1..Len(log)
      BY <1>1, <1>10 DEF Reported, Now, Feed!Now
    <2>2. upserts' \in Rows /\ deletes' \in Rows /\ BatchOK'
      <3>1. 0 \in 0..Len(log) /\ at + 1 \in 0..Len(log) /\ Absent = 0
        BY <1>1, <2>1 DEF Absent, Feed!Absent
      <3>2. CASE log[at + 1].alive
        BY ZenonT(60), <1>10, <3>1, <3>2 DEF Reported, BatchUpsert, TypeOK, BatchOK, Rows
      <3>3. CASE ~log[at + 1].alive
        BY <1>10, <3>1, <3>3 DEF Reported, BatchDelete, TypeOK, BatchOK, Rows
      <3>4. QED
        BY <3>2, <3>3
    <2>3. QED
      BY <1>3, <1>10, <2>1, <2>2 DEF Reported, TypeOK, table
  <1>11. ASSUME NEW next \in {"empty", "live"}, Fails(next) PROVE TypeOK'
    <2>1. channel' \in Seq(Sent')
      BY <1>11, EventTyped, SendTyped DEF Fails
    <2>2. errors' \in 0..MaxErrors
      BY <1>11, PodWatchAssumption DEF Fails, TypeOK
    <2>3. QED
      BY <1>3, <1>11, <2>1, <2>2 DEF Fails, TypeOK, BatchOK, driver, table
  <1>12. CASE Stop
    BY <1>3, <1>12 DEF Stop, TypeOK, BatchOK, watcher, driver, table
  <1>13. QED
    BY <1>5, <1>6, <1>7, <1>8, <1>9, <1>10, <1>11, <1>12

\* What the table takes from an event keeps it typed.
LEMMA ReceiveTypeOK == TypeOK /\ Receive => TypeOK'
  <1> SUFFICES ASSUME TypeOK, Receive PROVE TypeOK'
    OBVIOUS
  <1>1. Head(channel) \in Sent /\ channel' \in Seq(Sent) /\ log' = log
    BY HeadTailProperties DEF TypeOK, Receive
  <1>2. Rows' = Rows /\ Sent' = Sent
    BY <1>1 DEF Rows, Sent
  <1>3. Len(log) \in Nat
    BY Numbers
  <1>4. view' \in Rows /\ upto' \in Rows /\ status' \in {"starting", "live", "reconnecting"}
    <2> DEFINE ev == Head(channel)
    <2>1. Apply(ev) /\ view \in Rows /\ upto \in Rows /\ status \in {"starting", "live", "reconnecting"}
      BY DEF Receive, TypeOK
    <2>2. Absent \in 0..Len(log)
      BY <1>3 DEF Absent, Feed!Absent
    <2> HIDE DEF ev
    <2>3. CASE ev.type = "snapshot"
      <3>1. ev.rows \in Rows /\ ev.at \in 0..Len(log)
        BY <1>1, <2>3 DEF Sent, ev
      <3>2. QED
        BY <2>1, <2>3, <3>1 DEF Apply, SnapshotRows, Rows
    <2>4. CASE ev.type = "upsert"
      <3>1. ev.rows \in Rows
        BY <1>1, <2>4 DEF Sent, ev
      <3>2. QED
        BY <2>1, <2>4, <3>1 DEF Apply, Rows
    <2>5. CASE ev.type = "delete"
      <3>1. ev.keys \in Rows
        BY <1>1, <2>5 DEF Sent, ev
      <3>2. QED
        BY <2>1, <2>2, <2>5, <3>1 DEF Apply, Rows
    <2>6. CASE ev.type = "status"
      <3>1. ev.state \in {"live", "reconnecting"}
        BY <1>1, <2>6 DEF Sent, ev
      <3>2. QED
        BY <2>1, <2>6, <3>1 DEF Apply
    <2>7. QED
      BY <1>1, <2>3, <2>4, <2>5, <2>6 DEF Sent, ev
  <1>5. QED
    BY <1>1, <1>2, <1>4 DEF Receive, TypeOK, BatchOK, watcher, driver

LEMMA StepTypeOK == TypeOK /\ [Next]_vars => TypeOK'
  <1> SUFFICES ASSUME TypeOK, [Next]_vars PROVE TypeOK'
    OBVIOUS
  <1>1. CASE UNCHANGED vars
    BY <1>1 DEF vars, TypeOK, BatchOK, Rows, Sent
  <1>2. CASE Next
    BY <1>2, ChangeTypeOK, DriverTypeOK, ReceiveTypeOK DEF Next
  <1>3. QED
    BY <1>1, <1>2

\* Whatever the cluster does and wherever its watch breaks, versions never run
\* ahead of it, and a pod is never batched both as changed and as deleted.
THEOREM WatchTypeCorrect == Spec => []TypeOK
  BY InitTypeOK, StepTypeOK, PTL DEF Spec

-----------------------------------------------------------------------------
(* The invariant: what the batch and the events in flight say *)

LEMMA InvInit == Init => Inv
  <1> SUFFICES ASSUME Init PROVE Inv
    OBVIOUS
  <1>1. TypeOK
    BY InitTypeOK
  <1>2. DOMAIN channel = {} /\ Absent = 0
    BY DEF Init, Absent, Feed!Absent
  <1>3. \A k \in Keys : view[k] = RowAt(k, upto[k]) /\ upto[k] <= at
    <2>1. \A k \in Keys : RowAt(k, 0) = 0
      BY RowAtRange
    <2>2. QED
      BY <1>2, <2>1 DEF Init, NoRows
  <1>4. BatchTruthful
    BY DEF Init, NoRows, BatchTruthful
  <1>5. QED
    BY <1>1, <1>2, <1>3, <1>4
       DEF Init, Inv, InFlightTruthful, InOrder, TableTruthful, ListTruthful, AllReach

\* A step of the watcher alone that goes no further than the cluster.
LEMMA TableRests ==
    ASSUME Inv, UNCHANGED <<log, channel, view, upto>>, at' \in at..Len(log)
    PROVE  InFlightTruthful' /\ InOrder' /\ TableTruthful'
  <1>1. \A k, i : RowAt(k, i)' = RowAt(k, i)
    BY LogRests
  <1>2. at \in Nat /\ Len(log) \in Nat /\ \A k \in Keys : upto[k] \in Nat
    BY Numbers DEF Inv
  <1>3. ASSUME NEW i \in DOMAIN channel, NEW k \in Keys PROVE Truthful(channel[i], k)'
    <2>1. SUFFICES ASSUME Touches(channel[i], k)
                   PROVE  /\ RowOf(channel[i], k) = RowAt(k, Moment(channel[i], k))
                          /\ Moment(channel[i], k) \in upto[k]..at'
      BY <1>1 DEF Truthful
    <2>2. /\ RowOf(channel[i], k) = RowAt(k, Moment(channel[i], k))
          /\ Moment(channel[i], k) \in upto[k]..at
      BY <1>3, <2>1 DEF Inv, InFlightTruthful, Truthful
    <2>3. QED
      BY <1>2, <2>2
  <1>4. InFlightTruthful'
    BY <1>3 DEF InFlightTruthful
  <1>5. InOrder'
    BY DEF Inv, InOrder
  <1>6. TableTruthful'
    <2>1. \A k \in Keys : view[k] = RowAt(k, upto[k]) /\ upto[k] <= at
      BY DEF Inv, TableTruthful
    <2>2. \A k \in Keys : view[k] = RowAt(k, upto[k])' /\ upto[k] <= at'
      BY <1>1, <1>2, <2>1
    <2>3. QED
      BY <2>2 DEF TableTruthful
  <1>7. QED
    BY <1>4, <1>5, <1>6

\* The same for the batch.
LEMMA BatchRests ==
    ASSUME Inv, UNCHANGED <<log, channel, view, upto, upserts, deletes>>, at' \in at..Len(log)
    PROVE  BatchTruthful'
  <1>1. \A k, i : RowAt(k, i)' = RowAt(k, i)
    BY LogRests
  <1>2. at \in Nat /\ Len(log) \in Nat /\ \A k \in Keys : upto[k] \in Nat
    BY Numbers DEF Inv
  <1>3. \A k, v : Latest(k, v) => v \in upto[k]..at'
                    /\ \A i \in DOMAIN channel : Touches(channel[i], k) => Moment(channel[i], k) <= v
    BY <1>2 DEF Latest
  <1>4. QED
    BY <1>1, <1>3 DEF Inv, BatchTruthful, Latest

\* An empty batch says nothing.
LEMMA BatchEmpty == ASSUME upserts' = NoRows, deletes' = NoRows PROVE BatchTruthful'
  BY DEF NoRows, BatchTruthful

\* What has reached the table, is in flight or is batched still does.
LEMMA ReachRests ==
    ASSUME Inv, UNCHANGED <<log, at, channel, upto, upserts, deletes>>, mode' = "live" => mode = "live"
    PROVE  AllReach'
  BY DEF Inv, AllReach, Reaches

-----------------------------------------------------------------------------
(* The cluster moves on *)

LEMMA ChangeKeeps ==
    ASSUME Inv, NEW c \in Keys, NEW alive \in BOOLEAN, Change(c, alive)
    PROVE  Inv'
  <1>1. TypeOK'
    BY ChangeTypeOK DEF Inv
  <1>2. log' = Append(log, [key |-> c, alive |-> alive]) /\ [key |-> c, alive |-> alive] \in Changes
    BY DEF Change, Feed!Change, Changes
  <1>3. UNCHANGED <<mode, at, listed, upserts, deletes, buffering, buffer, channel, view, upto>>
    BY DEF Change, watcher, driver, table
  <1>4. /\ \A j \in 1..Len(log) : log'[j] = log[j]
        /\ \A k, i : i \in 0..Len(log) => RowAt(k, i)' = RowAt(k, i)
    BY <1>2, PastStays, Numbers DEF Inv
  <1>5. /\ at \in 0..Len(log) /\ Len(log) \in Nat
        /\ \A k \in Keys : upto[k] \in 0..Len(log) /\ upserts[k] \in 0..Len(log) /\ deletes[k] \in 0..Len(log)
        /\ \A i \in DOMAIN channel : \A k \in Keys :
              Touches(channel[i], k) => Moment(channel[i], k) \in 0..Len(log)
    BY Numbers DEF Inv
  <1>6. InFlightTruthful'
    <2>1. ASSUME NEW i \in DOMAIN channel, NEW k \in Keys PROVE Truthful(channel[i], k)'
      <3>1. Touches(channel[i], k) => RowAt(k, Moment(channel[i], k))' = RowAt(k, Moment(channel[i], k))
        BY <1>3, <1>4, <1>5
      <3>2. QED
        BY <1>3, <2>1, <3>1 DEF Inv, InFlightTruthful, Truthful
    <2>2. QED
      BY <1>3, <2>1 DEF InFlightTruthful
  <1>7. InOrder'
    BY <1>3 DEF Inv, InOrder
  <1>8. TableTruthful'
    <2>1. \A k \in Keys : RowAt(k, upto[k])' = RowAt(k, upto[k])
      BY <1>3, <1>4, <1>5
    <2>2. QED
      BY <1>3, <2>1 DEF Inv, TableTruthful
  <1>9. BatchTruthful'
    <2>1. \A k \in Keys : /\ RowAt(k, upserts[k])' = RowAt(k, upserts[k])
                          /\ RowAt(k, deletes[k])' = RowAt(k, deletes[k])
      BY <1>3, <1>4, <1>5
    <2>2. QED
      BY <1>3, <2>1 DEF Inv, BatchTruthful, Latest
  <1>10. ListTruthful'
    <2>1. \A k \in Keys : RowAt(k, at)' = RowAt(k, at)
      BY <1>3, <1>4, <1>5
    <2>2. QED
      BY <1>3, <2>1 DEF Inv, ListTruthful, NoRows
  <1>11. AllReach'
    BY <1>3, <1>4, <1>5 DEF Inv, AllReach, Reaches
  <1>12. QED
    BY <1>1, <1>6, <1>7, <1>8, <1>9, <1>10, <1>11 DEF Inv

-----------------------------------------------------------------------------
(* What the driver sends *)

\* True events that are later than all that was sent keep the channel true and in order.
LEMMA SendKeeps ==
    ASSUME Inv, NEW events \in Seq(Sent), Send(events), UNCHANGED <<log, at, view, upto>>,
           \A j \in DOMAIN events : \A k \in Keys : Touches(events[j], k) =>
              RowOf(events[j], k) = RowAt(k, Moment(events[j], k)) /\ Latest(k, Moment(events[j], k)),
           \A i, j \in DOMAIN events : \A k \in Keys :
              i < j /\ Touches(events[i], k) /\ Touches(events[j], k) =>
                 Moment(events[i], k) <= Moment(events[j], k)
    PROVE  InFlightTruthful' /\ InOrder' /\ TableTruthful'
  <1>1. \A k, i : RowAt(k, i)' = RowAt(k, i)
    BY LogRests
  <1>2. /\ Len(channel) \in Nat /\ DOMAIN channel = 1..Len(channel)
        /\ DOMAIN events = 1..Len(events) /\ Len(events) \in Nat
        /\ DOMAIN channel' \subseteq Nat
    BY SentAfter, Numbers DEF Inv, Send
  <1>3. \A i \in DOMAIN channel' :
          \/ i \in DOMAIN channel /\ channel'[i] = channel[i]
          \/ i > Len(channel) /\ i - Len(channel) \in DOMAIN events
             /\ channel'[i] = events[i - Len(channel)]
    BY SentAfter, Numbers DEF Inv, Send
  <1>4. ASSUME NEW i \in DOMAIN channel', NEW k \in Keys, Touches(channel'[i], k)
        PROVE  /\ RowOf(channel'[i], k) = RowAt(k, Moment(channel'[i], k))
               /\ Moment(channel'[i], k) \in upto[k]..at
    <2>1. CASE i \in DOMAIN channel /\ channel'[i] = channel[i]
      BY <1>4, <2>1 DEF Inv, InFlightTruthful, Truthful
    <2>2. CASE i - Len(channel) \in DOMAIN events /\ channel'[i] = events[i - Len(channel)]
      BY <1>4, <2>2 DEF Latest
    <2>3. QED
      BY <1>3, <2>1, <2>2
  <1>5. InFlightTruthful'
    BY <1>1, <1>4 DEF InFlightTruthful, Truthful
  <1>6. InOrder'
    <2>1. SUFFICES ASSUME NEW i \in DOMAIN channel', NEW j \in DOMAIN channel', NEW k \in Keys,
                          i < j, Touches(channel'[i], k), Touches(channel'[j], k)
                   PROVE  Moment(channel'[i], k) <= Moment(channel'[j], k)
      BY DEF InOrder
    <2>2. CASE j \in DOMAIN channel /\ channel'[j] = channel[j]
      <3>1. i \in DOMAIN channel /\ channel'[i] = channel[i]
        BY <1>2, <1>3, <2>1, <2>2
      <3>2. QED
        BY <2>1, <2>2, <3>1 DEF Inv, InOrder
    <2>3. CASE j > Len(channel) /\ j - Len(channel) \in DOMAIN events /\ channel'[j] = events[j - Len(channel)]
      <3>1. CASE i \in DOMAIN channel /\ channel'[i] = channel[i]
        BY <2>1, <2>3, <3>1 DEF Latest
      <3>2. CASE i > Len(channel) /\ i - Len(channel) \in DOMAIN events /\ channel'[i] = events[i - Len(channel)]
        <4>1. i - Len(channel) < j - Len(channel)
          BY <1>2, <2>1, <2>3, <3>2
        <4>2. QED
          BY <2>1, <2>3, <3>2, <4>1
      <3>3. QED
        BY <1>3, <3>1, <3>2
    <2>4. QED
      BY <1>3, <2>2, <2>3
  <1>7. TableTruthful'
    BY <1>1 DEF Inv, TableTruthful
  <1>8. QED
    BY <1>5, <1>6, <1>7

\* What the flush would send is true, later than all that was sent and in order.
LEMMA FlushedSays ==
    ASSUME Inv
    PROVE  /\ \A j \in DOMAIN Flushed : \A k \in Keys : Touches(Flushed[j], k) =>
                 RowOf(Flushed[j], k) = RowAt(k, Moment(Flushed[j], k)) /\ Latest(k, Moment(Flushed[j], k))
           /\ \A i, j \in DOMAIN Flushed : \A k \in Keys :
                 i < j /\ Touches(Flushed[i], k) /\ Touches(Flushed[j], k) =>
                    Moment(Flushed[i], k) <= Moment(Flushed[j], k)
  <1>1. \A i \in DOMAIN Flushed : Flushed[i] \in {Upsert(upserts), Delete(deletes)}
    BY FlushedIs DEF Inv
  <1>2. ASSUME NEW j \in DOMAIN Flushed, NEW k \in Keys, Touches(Flushed[j], k)
        PROVE  /\ RowOf(Flushed[j], k) = RowAt(k, Moment(Flushed[j], k))
               /\ Latest(k, Moment(Flushed[j], k))
    <2>1. CASE Flushed[j] = Upsert(upserts)
      <3>1. /\ upserts[k] # Absent /\ RowOf(Flushed[j], k) = upserts[k]
            /\ Moment(Flushed[j], k) = upserts[k]
        BY <1>2, <2>1, EventSays
      <3>2. QED
        BY <3>1 DEF Inv, BatchTruthful
    <2>2. CASE Flushed[j] = Delete(deletes)
      <3>1. /\ deletes[k] # Absent /\ RowOf(Flushed[j], k) = Absent
            /\ Moment(Flushed[j], k) = deletes[k]
        BY <1>2, <2>2, EventSays
      <3>2. QED
        BY <3>1 DEF Inv, BatchTruthful
    <2>3. QED
      BY <1>1, <2>1, <2>2
  <1>3. ASSUME NEW i \in DOMAIN Flushed, NEW j \in DOMAIN Flushed, NEW k \in Keys,
               Touches(Flushed[i], k), Touches(Flushed[j], k)
        PROVE  Moment(Flushed[i], k) <= Moment(Flushed[j], k)
    <2>1. /\ Flushed[i] = Upsert(upserts) => upserts[k] # Absent
          /\ Flushed[j] = Upsert(upserts) => upserts[k] # Absent
          /\ Flushed[i] = Delete(deletes) => deletes[k] # Absent
          /\ Flushed[j] = Delete(deletes) => deletes[k] # Absent
      BY <1>3, EventSays
    <2>2. Absent \in {upserts[k], deletes[k]}
      BY DEF Inv, TypeOK, BatchOK
    <2>3. Flushed[i] = Flushed[j]
      BY <1>1, <2>1, <2>2
    <2>4. Moment(Flushed[i], k) \in Nat
      <3>1. Moment(Flushed[i], k) \in {upserts[k], deletes[k]}
        BY <1>1, EventSays
      <3>2. QED
        BY <3>1, Numbers DEF Inv
    <2>5. QED
      BY <2>3, <2>4
  <1>4. QED
    BY <1>2, <1>3

\* flush
LEMMA TickKeeps == Inv /\ Tick => Inv'
  <1> SUFFICES ASSUME Inv, Tick PROVE Inv'
    OBVIOUS
  <1>1. TypeOK'
    BY DriverTypeOK DEF Inv
  <1>2. /\ UNCHANGED <<log, mode, at, listed, buffering, buffer, view, upto>> /\ Send(Flushed)
        /\ upserts' = NoRows /\ deletes' = NoRows
    BY DEF Tick, watcher, table
  <1>3. /\ Flushed \in Seq(Sent) /\ Len(Flushed) \in Nat
        /\ \A i \in DOMAIN Flushed : Flushed[i] \in {Upsert(upserts), Delete(deletes)}
        /\ \A k \in Keys : upserts[k] # Absent => \E i \in DOMAIN Flushed : Flushed[i] = Upsert(upserts)
        /\ \A k \in Keys : deletes[k] # Absent => \E i \in DOMAIN Flushed : Flushed[i] = Delete(deletes)
    BY FlushedIs DEF Inv
  <1>4. /\ \A j \in DOMAIN Flushed : \A k \in Keys : Touches(Flushed[j], k) =>
              RowOf(Flushed[j], k) = RowAt(k, Moment(Flushed[j], k)) /\ Latest(k, Moment(Flushed[j], k))
        /\ \A i, j \in DOMAIN Flushed : \A k \in Keys :
              i < j /\ Touches(Flushed[i], k) /\ Touches(Flushed[j], k) =>
                 Moment(Flushed[i], k) <= Moment(Flushed[j], k)
    BY FlushedSays
  <1>6. InFlightTruthful' /\ InOrder' /\ TableTruthful'
    BY <1>2, <1>3, <1>4, SendKeeps
  <1>7. ListTruthful'
    BY <1>2, LogRests DEF Inv, ListTruthful, NoRows
  <1>8. AllReach'
    <2>1. SUFFICES ASSUME mode = "live", NEW j \in 1..at, Reaches(j, log[j].key)
                   PROVE  Reaches(j, log[j].key)'
      BY <1>2 DEF Inv, AllReach
    <2> DEFINE k == log[j].key
    <2>2. k \in Keys
      BY Numbers DEF Inv
    <2> HIDE DEF k
    <2>3. /\ \A i \in DOMAIN channel : i \in DOMAIN channel' /\ channel'[i] = channel[i]
          /\ \A i \in DOMAIN Flushed : Len(channel) + i \in DOMAIN channel'
                                       /\ channel'[Len(channel) + i] = Flushed[i]
      BY <1>2, <1>3, SentAfter, Numbers DEF Inv, Send
    <2>4. upserts[k] \in Nat /\ deletes[k] \in Nat /\ Absent = 0
      BY <2>2, Numbers DEF Inv, Absent, Feed!Absent
    <2>5. CASE j <= upserts[k]
      <3>1. upserts[k] # Absent
        BY <2>4, <2>5
      <3>2. PICK i \in DOMAIN channel' : channel'[i] = Upsert(upserts)
        BY <1>3, <2>2, <2>3, <3>1
      <3>3. Touches(channel'[i], k) /\ j <= Moment(channel'[i], k)
        BY <2>5, <3>1, <3>2, EventSays
      <3>4. QED
        BY <1>2, <3>3 DEF Reaches, k
    <2>6. CASE j <= deletes[k]
      <3>1. deletes[k] # Absent
        BY <2>4, <2>6
      <3>2. PICK i \in DOMAIN channel' : channel'[i] = Delete(deletes)
        BY <1>3, <2>2, <2>3, <3>1
      <3>3. Touches(channel'[i], k) /\ j <= Moment(channel'[i], k)
        BY <2>6, <3>1, <3>2, EventSays
      <3>4. QED
        BY <1>2, <3>3 DEF Reaches, k
    <2>7. CASE j <= upto[k] \/ \E i \in DOMAIN channel : Touches(channel[i], k) /\ j <= Moment(channel[i], k)
      BY <1>2, <2>3, <2>7 DEF Reaches, k
    <2>8. QED
      BY <2>1, <2>5, <2>6, <2>7 DEF Reaches, k
  <1>9. QED
    BY <1>1, <1>2, <1>6, <1>7, <1>8, BatchEmpty DEF Inv

\* The snapshot
LEMMA ListEndsKeeps == Inv /\ ListEnds => Inv'
  <1> SUFFICES ASSUME Inv, ListEnds PROVE Inv'
    OBVIOUS
  <1>1. TypeOK'
    BY DriverTypeOK DEF Inv
  <1> DEFINE snap == Snapshot(buffer, at)
             events == <<snap, Status("live")>>
  <1>2. /\ UNCHANGED <<log, at, listed, upserts, deletes, view, upto>> /\ Send(events)
        /\ mode = "pages" /\ mode' = "live" /\ listed = {} /\ buffer' = NoRows
    BY DEF ListEnds, table, Inv, TypeOK
  <1>3. /\ events \in Seq(Sent) /\ DOMAIN events = {1, 2} /\ events[1] = snap
        /\ \A k \in Keys : ~Touches(events[2], k)
    <2>1. events \in Seq(Sent)
      BY EventTyped DEF Inv, TypeOK
    <2>2. DOMAIN events = {1, 2} /\ events[1] = snap /\ events[2] = Status("live")
      OBVIOUS
    <2>3. QED
      BY <2>1, <2>2, EventSays
  <1>4. ASSUME NEW k \in Keys
        PROVE  /\ Touches(snap, k) /\ Moment(snap, k) = at /\ RowOf(snap, k) = RowAt(k, at)
               /\ Latest(k, at)
    <2>1. Touches(snap, k) /\ Moment(snap, k) = at /\ RowOf(snap, k) = buffer[k]
      BY EventSays
    <2>2. buffer[k] = RowAt(k, at)
      BY <1>2 DEF Inv, ListTruthful
    <2>3. upto[k] \in Nat /\ at \in Nat /\ upto[k] <= at
      BY Numbers DEF Inv, TableTruthful
    <2>4. \A i \in DOMAIN channel : Touches(channel[i], k) => Moment(channel[i], k) <= at
      BY <2>3 DEF Inv, InFlightTruthful, Truthful
    <2>5. Latest(k, at)
      BY <2>3, <2>4 DEF Latest
    <2>6. QED
      BY <2>1, <2>2, <2>5
  <1> HIDE DEF snap, events
  <1>5. \A i, j \in DOMAIN events : \A k \in Keys :
          i < j /\ Touches(events[i], k) /\ Touches(events[j], k) =>
             Moment(events[i], k) <= Moment(events[j], k)
    <2>1. \A i, j \in {1, 2} : i < j => j = 2
      OBVIOUS
    <2>2. QED
      BY <1>3, <2>1
  <1>6. InFlightTruthful' /\ InOrder' /\ TableTruthful'
    BY <1>2, <1>3, <1>4, SendKeeps
  <1>7. BatchTruthful'
    BY <1>2, BatchEmpty DEF Inv, ListTruthful
  <1>8. ListTruthful'
    BY <1>2 DEF ListTruthful
  <1>9. AllReach'
    <2>1. SUFFICES ASSUME NEW j \in 1..at PROVE Reaches(j, log[j].key)'
      BY <1>2 DEF AllReach
    <2>2. log[j].key \in Keys
      BY Numbers DEF Inv
    <2>3. PICK i \in DOMAIN channel' : channel'[i] = snap
      BY ZenonT(60), <1>2, <1>3, SentAfter, Numbers DEF Inv, Send
    <2>4. Touches(channel'[i], log[j].key) /\ j <= Moment(channel'[i], log[j].key)
      BY <1>4, <2>1, <2>2, <2>3
    <2>5. QED
      BY <1>2, <2>4 DEF Reaches
  <1>10. QED
    BY <1>1, <1>6, <1>7, <1>8, <1>9 DEF Inv

\* An error of the watch
LEMMA FailsKeeps == ASSUME Inv, NEW next \in {"empty", "live"}, Fails(next) PROVE Inv'
  <1>1. TypeOK'
    BY DriverTypeOK DEF Inv
  <1> DEFINE events == <<Status("reconnecting")>>
  <1>2. /\ UNCHANGED <<log, at, upserts, deletes, buffer, view, upto>> /\ Send(events)
        /\ mode' = next /\ (next = "live" => mode = "live")
    BY DEF Fails, table, driver
  <1>3. events \in Seq(Sent) /\ \A i \in DOMAIN events : \A k \in Keys : ~Touches(events[i], k)
    <2>1. events \in Seq(Sent)
      BY EventTyped DEF Inv
    <2>2. \A i \in DOMAIN events : events[i] = Status("reconnecting")
      OBVIOUS
    <2> HIDE DEF events
    <2>3. QED
      BY <2>1, <2>2, EventSays
  <1> HIDE DEF events
  <1>4. InFlightTruthful' /\ InOrder' /\ TableTruthful'
    BY <1>2, <1>3, SendKeeps
  <1>5. /\ \A i \in DOMAIN channel : i \in DOMAIN channel' /\ channel'[i] = channel[i]
        /\ \A i \in DOMAIN channel' : \A k \in Keys :
              Touches(channel'[i], k) => i \in DOMAIN channel /\ channel'[i] = channel[i]
    BY <1>2, <1>3, SentAfter, Numbers DEF Inv, Send
  <1>6. BatchTruthful'
    <2>1. ASSUME NEW k \in Keys, NEW v, Latest(k, v) PROVE Latest(k, v)'
      BY <1>2, <1>5, <2>1 DEF Latest
    <2>2. \A k, i : RowAt(k, i)' = RowAt(k, i)
      BY <1>2, LogRests
    <2>3. ASSUME NEW k \in Keys
          PROVE  /\ upserts'[k] # Absent => RowAt(k, upserts[k])' = upserts'[k] /\ Latest(k, upserts[k])'
                 /\ deletes'[k] # Absent => RowAt(k, deletes[k])' = Absent /\ Latest(k, deletes[k])'
      <3>1. /\ upserts[k] # Absent => RowAt(k, upserts[k]) = upserts[k] /\ Latest(k, upserts[k])
            /\ deletes[k] # Absent => RowAt(k, deletes[k]) = Absent /\ Latest(k, deletes[k])
        BY DEF Inv, BatchTruthful
      <3>2. QED
        BY <1>2, <2>1, <2>2, <3>1
    <2>4. QED
      BY <2>3 DEF BatchTruthful
  <1>7. ListTruthful'
    BY <1>2 DEF ListTruthful
  <1>8. AllReach'
    BY <1>2, <1>5 DEF Inv, AllReach, Reaches
  <1>9. QED
    BY <1>1, <1>4, <1>6, <1>7, <1>8 DEF Inv

-----------------------------------------------------------------------------
(* What the watcher reports *)

\* The list: nothing is sent, and what is buffered is what was listed.
LEMMA ListingKeeps ==
    Inv /\ (ListStarts \/ ListArrives \/ \E k \in Keys : ListedPod(k)) => Inv'
  <1> SUFFICES ASSUME Inv, ListStarts \/ ListArrives \/ \E k \in Keys : ListedPod(k)
               PROVE  Inv'
    OBVIOUS
  <1>1. TypeOK'
    BY DriverTypeOK DEF Inv
  <1>2. at \in 0..Len(log) /\ Len(log) \in Nat /\ at \in at..Len(log)
    BY Numbers DEF Inv
  <1>3. CASE ListStarts
    <2>1. /\ UNCHANGED <<log, at, channel, view, upto>> /\ mode' = "init" /\ buffer' = NoRows
          /\ upserts' = NoRows /\ deletes' = NoRows
      BY <1>3 DEF ListStarts, ClearBatch, FreshBuffer, table
    <2>2. InFlightTruthful' /\ InOrder' /\ TableTruthful'
      BY <1>2, <2>1, TableRests
    <2>3. ListTruthful' /\ AllReach'
      BY <2>1 DEF ListTruthful, NoRows, AllReach
    <2>4. QED
      BY <1>1, <2>1, <2>2, <2>3, BatchEmpty DEF Inv
  <1>4. CASE ListArrives
    <2>1. /\ UNCHANGED <<log, channel, view, upto, upserts, deletes, buffer>>
          /\ mode = "init" /\ mode' = "pages" /\ at' = Len(log)
          /\ listed' = {k \in Keys : RowAt(k, Len(log)) # Absent}
      BY <1>4 DEF ListArrives, Now, Feed!Now, table, driver
    <2>2. at' \in at..Len(log)
      BY <1>2, <2>1
    <2>3. InFlightTruthful' /\ InOrder' /\ TableTruthful' /\ BatchTruthful'
      BY <2>1, <2>2, TableRests, BatchRests
    <2>4. ListTruthful'
      <3>1. \A k \in Keys \ listed' : buffer[k] = RowAt(k, Len(log))
        BY <2>1 DEF Inv, ListTruthful, NoRows
      <3>2. \A k, i : RowAt(k, i)' = RowAt(k, i)
        BY <2>1, LogRests
      <3>3. QED
        BY <2>1, <3>1, <3>2 DEF Inv, ListTruthful, NoRows
    <2>5. AllReach'
      BY <2>1 DEF AllReach
    <2>6. QED
      BY <1>1, <2>3, <2>4, <2>5 DEF Inv
  <1>5. ASSUME NEW k \in Keys, ListedPod(k) PROVE Inv'
    <2>1. /\ UNCHANGED <<log, mode, at, channel, view, upto, upserts, deletes>>
          /\ mode = "pages" /\ listed' = listed \ {k}
          /\ buffer' = [buffer EXCEPT ![k] = RowAt(k, at)]
      BY <1>5 DEF ListedPod, table, Inv, TypeOK
    <2>2. InFlightTruthful' /\ InOrder' /\ TableTruthful' /\ BatchTruthful'
      BY <1>2, <2>1, TableRests, BatchRests
    <2>3. ListTruthful'
      <3>1. \A j \in Keys \ listed' : buffer'[j] = RowAt(j, at)
        BY <2>1 DEF Inv, ListTruthful, TypeOK, Rows
      <3>2. \A j, i : RowAt(j, i)' = RowAt(j, i)
        BY <2>1, LogRests
      <3>3. QED
        BY <2>1, <3>1, <3>2 DEF Inv, ListTruthful, NoRows
    <2>4. AllReach'
      BY <2>1 DEF AllReach
    <2>5. QED
      BY <1>1, <2>2, <2>3, <2>4 DEF Inv
  <1>6. QED
    BY <1>3, <1>4, <1>5

\* A delta enters the batch.
LEMMA ReportedKeeps == Inv /\ Reported => Inv'
  <1> SUFFICES ASSUME Inv, Reported PROVE Inv'
    OBVIOUS
  <1>1. TypeOK'
    BY DriverTypeOK DEF Inv
  <1> DEFINE n == at + 1
             q == log[n].key
  <1>2. /\ UNCHANGED <<log, mode, channel, view, upto>> /\ at' = n /\ mode = "live"
        /\ n \in 1..Len(log) /\ at \in Nat /\ Len(log) \in Nat /\ n > at
    BY Numbers DEF Reported, table, Now, Feed!Now, Inv
  <1>3. q \in Keys
    <2>1. log[n] \in Changes
      BY <1>2, Numbers, ElementOfSeq DEF Inv
    <2>2. QED
      BY <2>1 DEF Changes
  <1>4. \A k, i : RowAt(k, i)' = RowAt(k, i)
    BY <1>2, LogRests
  <1>5. RowAt(q, n) = IF log[n].alive THEN n ELSE 0
    BY <1>2, RowAtChange
  <1>6. \/ /\ log[n].alive
           /\ upserts' = [upserts EXCEPT ![q] = n] /\ deletes' = [deletes EXCEPT ![q] = Absent]
        \/ /\ ~log[n].alive
           /\ upserts' = [upserts EXCEPT ![q] = Absent] /\ deletes' = [deletes EXCEPT ![q] = n]
    BY DEF Reported, BatchUpsert, BatchDelete
  <1> HIDE DEF q, n
  <1>7. upserts \in [Keys -> 0..Len(log)] /\ deletes \in [Keys -> 0..Len(log)] /\ Absent = 0
    BY DEF Inv, TypeOK, Rows, Absent, Feed!Absent
  <1>8. \A k \in Keys : k # q => upserts'[k] = upserts[k] /\ deletes'[k] = deletes[k]
    BY <1>6, <1>7
  <1>9. \/ log[n].alive /\ upserts'[q] = n /\ deletes'[q] = 0
        \/ ~log[n].alive /\ upserts'[q] = 0 /\ deletes'[q] = n
    BY <1>3, <1>6, <1>7
  <1>10. InFlightTruthful' /\ InOrder' /\ TableTruthful'
    <2>1. at' \in at..Len(log)
      BY <1>2
    <2>2. QED
      BY <1>2, <2>1, TableRests
  <1>11. \A k \in Keys : /\ upto[k] \in Nat /\ upto[k] <= at
                         /\ \A i \in DOMAIN channel : Touches(channel[i], k) => Moment(channel[i], k) \in upto[k]..at
    BY Numbers DEF Inv, TableTruthful, InFlightTruthful, Truthful
  <1>12. \A k \in Keys : \A v : k = q /\ v = n => Latest(k, v)'
    <2>1. n \in upto[q]..n
      BY <1>2, <1>3, <1>11
    <2>2. \A i \in DOMAIN channel : Touches(channel[i], q) => Moment(channel[i], q) <= n
      BY <1>2, <1>3, <1>11
    <2>3. QED
      BY <1>2, <2>1, <2>2 DEF Latest
  <1>13. \A k \in Keys : \A v : Latest(k, v) => Latest(k, v)'
    BY <1>2, <1>11 DEF Latest
  <1>14. BatchTruthful'
    <2>1. SUFFICES ASSUME NEW k \in Keys
                   PROVE  /\ upserts'[k] # Absent => RowAt(k, upserts'[k]) = upserts'[k] /\ Latest(k, upserts[k])'
                          /\ deletes'[k] # Absent => RowAt(k, deletes'[k]) = Absent /\ Latest(k, deletes[k])'
      BY <1>4 DEF BatchTruthful
    <2>2. CASE k = q
      <3>1. CASE log[n].alive
        BY <1>5, <1>7, <1>9, <1>12, <2>2, <3>1
      <3>2. CASE ~log[n].alive
        BY <1>5, <1>7, <1>9, <1>12, <2>2, <3>2
      <3>3. QED
        BY <3>1, <3>2
    <2>3. CASE k # q
      <3>1. /\ upserts[k] # Absent => RowAt(k, upserts[k]) = upserts[k] /\ Latest(k, upserts[k])
            /\ deletes[k] # Absent => RowAt(k, deletes[k]) = Absent /\ Latest(k, deletes[k])
        BY DEF Inv, BatchTruthful
      <3>2. upserts'[k] = upserts[k] /\ deletes'[k] = deletes[k]
        BY <1>8, <2>3
      <3>3. QED
        BY <1>13, <3>1, <3>2
    <2>4. QED
      BY <2>2, <2>3
  <1>15. ListTruthful'
    BY <1>2 DEF ListTruthful
  <1>16. AllReach'
    <2>1. SUFFICES ASSUME NEW j \in 1..n PROVE Reaches(j, log[j].key)'
      BY <1>2 DEF AllReach
    <2>2. CASE log[j].key = q
      <3>1. j <= upserts'[q] \/ j <= deletes'[q]
        BY <1>2, <1>9
      <3>2. QED
        BY <1>2, <2>2, <3>1 DEF Reaches
    <2>3. CASE log[j].key # q
      <3>1. j \in 1..at
        BY <1>2, <2>1, <2>3 DEF q, n
      <3>2. Reaches(j, log[j].key) /\ log[j].key \in Keys
        BY <1>2, <3>1, Numbers DEF Inv, AllReach
      <3>3. QED
        BY <1>2, <1>8, <2>3, <3>2 DEF Reaches
    <2>4. QED
      BY <2>2, <2>3
  <1>17. QED
    BY <1>1, <1>10, <1>14, <1>15, <1>16 DEF Inv

\* The stream is stopped.
LEMMA StopKeeps == Inv /\ Stop => Inv'
  <1> SUFFICES ASSUME Inv, Stop PROVE Inv'
    OBVIOUS
  <1>1. TypeOK'
    BY DriverTypeOK DEF Inv
  <1>2. UNCHANGED <<log, mode, at, listed, upserts, deletes, buffering, buffer, channel, view, upto>>
    BY DEF Stop, watcher, driver, table
  <1>3. \A k, i : RowAt(k, i)' = RowAt(k, i)
    BY <1>2, LogRests
  <1>4. at' \in at..Len(log)
    BY <1>2, Numbers DEF Inv
  <1>5. QED
    BY <1>1, <1>2, <1>3, <1>4, TableRests, BatchRests, ReachRests DEF Inv, ListTruthful, NoRows

-----------------------------------------------------------------------------
(* What the table applies *)

\* An event takes each pod it speaks of to its row and moment, and leaves the others.
LEMMA ApplySays ==
    ASSUME TypeOK, NEW ev \in Sent, Apply(ev)
    PROVE  /\ view' = [k \in Keys |-> IF Touches(ev, k) THEN RowOf(ev, k) ELSE view[k]]
           /\ upto' = [k \in Keys |-> IF Touches(ev, k) THEN Moment(ev, k) ELSE upto[k]]
  <1>1. view = [k \in Keys |-> view[k]] /\ upto = [k \in Keys |-> upto[k]]
    BY DEF TypeOK, Rows
  <1>2. CASE ev.type = "snapshot"
    <2>1. ev.rows = [k \in Keys |-> ev.rows[k]]
      BY <1>2 DEF Sent, Rows
    <2>2. QED
      BY <1>2, <2>1 DEF Apply, SnapshotRows, Touches, RowOf, Moment
  <1>3. CASE ev.type = "upsert"
    BY <1>3 DEF Apply, Touches, RowOf, Moment
  <1>4. CASE ev.type = "delete"
    BY <1>4 DEF Apply, Touches, RowOf, Moment
  <1>5. CASE ev.type = "status"
    BY <1>1, <1>5 DEF Apply, Touches, RowOf, Moment
  <1>6. QED
    BY <1>2, <1>3, <1>4, <1>5 DEF Sent

\* What Receive does to the table and the channel.
LEMMA ReceiveFacts ==
    ASSUME Inv, Receive
    PROVE  /\ UNCHANGED <<log, mode, at, listed, upserts, deletes, buffering, buffer>>
           /\ 1 \in DOMAIN channel
           /\ view' = [k \in Keys |-> IF Touches(channel[1], k) THEN RowOf(channel[1], k) ELSE view[k]]
           /\ upto' = [k \in Keys |-> IF Touches(channel[1], k) THEN Moment(channel[1], k) ELSE upto[k]]
           /\ \A i \in DOMAIN channel' : i \in Nat /\ i > 0 /\ i + 1 \in DOMAIN channel /\ channel'[i] = channel[i + 1]
           /\ \A i \in DOMAIN channel : i # 1 => i - 1 \in DOMAIN channel' /\ channel'[i - 1] = channel[i]
  <1>1. /\ UNCHANGED <<log, mode, at, listed, upserts, deletes, buffering, buffer>>
        /\ channel # <<>> /\ channel' = Tail(channel) /\ Apply(Head(channel))
    BY DEF Receive, watcher, driver
  <1>2. channel \in Seq(Sent)
    BY Numbers DEF Inv
  <1>3. Head(channel) = channel[1] /\ 1 \in DOMAIN channel /\ channel[1] \in Sent
    BY <1>1, <1>2
  <1>4. /\ Len(channel) \in Nat /\ DOMAIN channel = 1..Len(channel)
        /\ DOMAIN channel' = 1..Len(channel) - 1
        /\ \A i \in 1..Len(channel) - 1 : channel'[i] = channel[i + 1]
    BY <1>1, <1>2
  <1>5. QED
    BY <1>1, <1>3, <1>4, ApplySays DEF Inv

\* The table only moves forward, to the moment the event speaks of.
LEMMA ForwardOnly ==
    ASSUME Inv, Receive, NEW k \in Keys
    PROVE  /\ view'[k] = RowAt(k, upto'[k]) /\ upto'[k] \in upto[k]..at
           /\ Touches(channel[1], k) => upto'[k] = Moment(channel[1], k)
  <1>1. /\ 1 \in DOMAIN channel
        /\ view'[k] = IF Touches(channel[1], k) THEN RowOf(channel[1], k) ELSE view[k]
        /\ upto'[k] = IF Touches(channel[1], k) THEN Moment(channel[1], k) ELSE upto[k]
    BY ReceiveFacts
  <1>2. CASE Touches(channel[1], k)
    BY <1>1, <1>2 DEF Inv, InFlightTruthful, Truthful
  <1>3. CASE ~Touches(channel[1], k)
    <2>1. view[k] = RowAt(k, upto[k]) /\ upto[k] <= at /\ upto[k] \in Nat /\ at \in Nat
      BY Numbers DEF Inv, TableTruthful
    <2>2. QED
      BY <1>1, <1>3, <2>1
  <1>4. QED
    BY <1>2, <1>3

LEMMA ReceiveKeeps == Inv /\ Receive => Inv'
  <1> SUFFICES ASSUME Inv, Receive PROVE Inv'
    OBVIOUS
  <1>1. TypeOK'
    BY ReceiveTypeOK DEF Inv
  <1>2. /\ UNCHANGED <<log, mode, at, listed, upserts, deletes, buffering, buffer>>
        /\ 1 \in DOMAIN channel
        /\ \A i \in DOMAIN channel' : i \in Nat /\ i > 0 /\ i + 1 \in DOMAIN channel /\ channel'[i] = channel[i + 1]
        /\ \A i \in DOMAIN channel : i # 1 => i - 1 \in DOMAIN channel' /\ channel'[i - 1] = channel[i]
    BY ReceiveFacts
  <1>3. \A k, i : RowAt(k, i)' = RowAt(k, i)
    BY <1>2, LogRests
  <1>4. \A k \in Keys : /\ view'[k] = RowAt(k, upto'[k]) /\ upto'[k] \in upto[k]..at
                        /\ Touches(channel[1], k) => upto'[k] = Moment(channel[1], k)
                        /\ ~Touches(channel[1], k) => upto'[k] = upto[k]
    BY ForwardOnly, ReceiveFacts
  <1>5. /\ at \in Nat /\ DOMAIN channel \subseteq Nat
        /\ \A k \in Keys : upto[k] \in Nat /\ upserts[k] \in Nat /\ deletes[k] \in Nat
    BY Numbers DEF Inv
  <1>6. InFlightTruthful'
    <2>1. SUFFICES ASSUME NEW i \in DOMAIN channel', NEW k \in Keys, Touches(channel'[i], k)
                   PROVE  /\ RowOf(channel'[i], k) = RowAt(k, Moment(channel'[i], k))
                          /\ Moment(channel'[i], k) \in upto'[k]..at
      BY <1>2, <1>3 DEF InFlightTruthful, Truthful
    <2>2. i + 1 \in DOMAIN channel /\ channel'[i] = channel[i + 1] /\ 1 < i + 1
      BY <1>2, <1>5
    <2>3. /\ RowOf(channel'[i], k) = RowAt(k, Moment(channel'[i], k))
          /\ Moment(channel'[i], k) \in upto[k]..at
      BY <2>1, <2>2 DEF Inv, InFlightTruthful, Truthful
    <2>4. CASE Touches(channel[1], k)
      <3>1. Moment(channel[1], k) <= Moment(channel'[i], k)
        BY <1>2, <2>1, <2>2, <2>4 DEF Inv, InOrder
      <3>2. QED
        BY <1>4, <1>5, <2>3, <2>4, <3>1
    <2>5. CASE ~Touches(channel[1], k)
      BY <1>4, <2>3, <2>5
    <2>6. QED
      BY <2>4, <2>5
  <1>7. InOrder'
    <2>1. SUFFICES ASSUME NEW i \in DOMAIN channel', NEW j \in DOMAIN channel', NEW k \in Keys,
                          i < j, Touches(channel'[i], k), Touches(channel'[j], k)
                   PROVE  Moment(channel'[i], k) <= Moment(channel'[j], k)
      BY DEF InOrder
    <2>2. i + 1 < j + 1
      BY <1>2, <1>5, <2>1
    <2>3. QED
      BY <1>2, <2>1, <2>2 DEF Inv, InOrder
  <1>8. TableTruthful'
    BY <1>2, <1>3, <1>4, <1>5 DEF TableTruthful
  <1>9. BatchTruthful'
    <2>1. ASSUME NEW k \in Keys, NEW v, Latest(k, v) PROVE Latest(k, v)'
      <3>1. v \in upto'[k]..at
        BY <1>2, <1>4, <1>5, <2>1 DEF Latest
      <3>2. \A i \in DOMAIN channel' : Touches(channel'[i], k) => Moment(channel'[i], k) <= v
        BY <1>2, <2>1 DEF Latest
      <3>3. QED
        BY <1>2, <3>1, <3>2 DEF Latest
    <2>2. ASSUME NEW k \in Keys
          PROVE  /\ upserts'[k] # Absent => RowAt(k, upserts'[k]) = upserts'[k] /\ Latest(k, upserts[k])'
                 /\ deletes'[k] # Absent => RowAt(k, deletes'[k]) = Absent /\ Latest(k, deletes[k])'
      <3>1. /\ upserts[k] # Absent => RowAt(k, upserts[k]) = upserts[k] /\ Latest(k, upserts[k])
            /\ deletes[k] # Absent => RowAt(k, deletes[k]) = Absent /\ Latest(k, deletes[k])
        BY DEF Inv, BatchTruthful
      <3>2. QED
        BY <1>2, <2>1, <3>1 DEF Latest
    <2>3. QED
      BY <1>3, <2>2 DEF BatchTruthful
  <1>10. ListTruthful'
    BY <1>2, <1>3 DEF Inv, ListTruthful, NoRows
  <1>11. AllReach'
    <2>1. SUFFICES ASSUME mode = "live", NEW j \in 1..at, Reaches(j, log[j].key)
                   PROVE  Reaches(j, log[j].key)'
      BY <1>2 DEF Inv, AllReach
    <2> DEFINE k == log[j].key
    <2>2. k \in Keys
      BY Numbers DEF Inv
    <2> HIDE DEF k
    <2>3. CASE j <= upto[k]
      <3>1. j <= upto'[k]
        BY <1>4, <1>5, <2>2, <2>3
      <3>2. QED
        BY <1>2, <3>1 DEF Reaches, k
    <2>4. CASE j <= upserts[k] \/ j <= deletes[k]
      BY <1>2, <2>4 DEF Reaches, k
    <2>5. ASSUME NEW i \in DOMAIN channel, Touches(channel[i], k), j <= Moment(channel[i], k)
          PROVE  Reaches(j, log[j].key)'
      <3>1. CASE i = 1
        BY <1>2, <1>4, <2>2, <2>5, <3>1 DEF Reaches, k
      <3>2. CASE i # 1
        BY <1>2, <2>5, <3>2 DEF Reaches, k
      <3>3. QED
        BY <3>1, <3>2
    <2>6. QED
      BY <2>1, <2>3, <2>4, <2>5 DEF Reaches, k
  <1>12. QED
    BY <1>1, <1>6, <1>7, <1>8, <1>9, <1>10, <1>11 DEF Inv

LEMMA InvStep == Inv /\ [Next]_vars => Inv'
  <1> SUFFICES ASSUME Inv, [Next]_vars PROVE Inv'
    OBVIOUS
  <1>1. CASE UNCHANGED vars
    <2>1. UNCHANGED <<log, mode, at, listed, upserts, deletes, buffering, buffer, channel, view, upto>>
      BY <1>1 DEF vars
    <2>2. TypeOK'
      BY <1>1, StepTypeOK DEF Inv
    <2>3. at' \in at..Len(log) /\ \A k, i : RowAt(k, i)' = RowAt(k, i)
      BY <2>1, Numbers, LogRests DEF Inv
    <2>4. QED
      BY <2>1, <2>2, <2>3, TableRests, BatchRests, ReachRests DEF Inv, ListTruthful, NoRows
  <1>2. CASE Next
    BY <1>2, ChangeKeeps, TickKeeps, ListingKeeps, ListEndsKeeps, ReportedKeeps, FailsKeeps,
       StopKeeps, ReceiveKeeps DEF Next
  <1>3. QED
    BY <1>1, <1>2

\* However changes, lists, relists, errors, flushes and the table's applications
\* interleave, every event in flight shows its pods as they were at a moment the table
\* has not passed, moments never go back on the way, and every change the live watcher
\* has reported is in the table, in flight or in the batch.
THEOREM WatchInvariant == Spec => []Inv
  BY InvInit, InvStep, PTL DEF Spec

-----------------------------------------------------------------------------
(* Nothing is lost *)

Pending == channel \o Flushed

\* What is in flight and then in the batch, as one sequence of events.
LEMMA PendingSays ==
    ASSUME Inv, NEW k \in Keys
    PROVE  /\ DOMAIN Pending \subseteq Nat
           /\ \E n \in Nat : \A i \in DOMAIN Pending : i <= n
           /\ \A i \in DOMAIN Pending : Touches(Pending[i], k) =>
                 /\ RowOf(Pending[i], k) = RowAt(k, Moment(Pending[i], k))
                 /\ Moment(Pending[i], k) \in upto[k]..at
           /\ \A i, j \in DOMAIN Pending : i < j /\ Touches(Pending[i], k) /\ Touches(Pending[j], k) =>
                 Moment(Pending[i], k) <= Moment(Pending[j], k)
           /\ \A i \in DOMAIN channel : i \in DOMAIN Pending /\ Pending[i] = channel[i]
           /\ \A j \in DOMAIN Flushed : \E i \in DOMAIN Pending : Pending[i] = Flushed[j]
  <1>1. channel \in Seq(Sent) /\ Flushed \in Seq(Sent)
    BY Numbers, FlushedIs DEF Inv
  <1>2. /\ Len(channel) \in Nat /\ DOMAIN channel = 1..Len(channel)
        /\ Len(Flushed) \in Nat /\ DOMAIN Flushed = 1..Len(Flushed)
    BY <1>1
  <1>3. /\ DOMAIN Pending = 1..Len(channel) + Len(Flushed)
        /\ \A i \in 1..Len(channel) + Len(Flushed) :
              Pending[i] = IF i <= Len(channel) THEN channel[i] ELSE Flushed[i - Len(channel)]
    <2>1. /\ channel \o Flushed \in Seq(Sent) /\ Len(channel \o Flushed) = Len(channel) + Len(Flushed)
          /\ \A i \in 1..Len(channel) + Len(Flushed) :
                (channel \o Flushed)[i] = IF i <= Len(channel) THEN channel[i] ELSE Flushed[i - Len(channel)]
      BY <1>1, ConcatProperties
    <2>2. QED
      BY <2>1 DEF Pending
  <1>4. \A i \in DOMAIN Pending :
          \/ i \in DOMAIN channel /\ Pending[i] = channel[i]
          \/ i > Len(channel) /\ i - Len(channel) \in DOMAIN Flushed
             /\ Pending[i] = Flushed[i - Len(channel)]
    BY <1>2, <1>3
  <1>5. /\ \A i \in DOMAIN channel : i \in DOMAIN Pending /\ Pending[i] = channel[i]
        /\ \A j \in DOMAIN Flushed : Len(channel) + j \in DOMAIN Pending
                                     /\ Pending[Len(channel) + j] = Flushed[j]
    BY <1>2, <1>3
  <1>6. ASSUME NEW i \in DOMAIN Pending, Touches(Pending[i], k)
        PROVE  /\ RowOf(Pending[i], k) = RowAt(k, Moment(Pending[i], k))
               /\ Moment(Pending[i], k) \in upto[k]..at
    <2>1. CASE i \in DOMAIN channel /\ Pending[i] = channel[i]
      BY <1>6, <2>1 DEF Inv, InFlightTruthful, Truthful
    <2>2. CASE i - Len(channel) \in DOMAIN Flushed /\ Pending[i] = Flushed[i - Len(channel)]
      BY <1>6, <2>2, FlushedSays DEF Latest
    <2>3. QED
      BY <1>4, <2>1, <2>2
  <1>7. ASSUME NEW i \in DOMAIN Pending, NEW j \in DOMAIN Pending, i < j,
               Touches(Pending[i], k), Touches(Pending[j], k)
        PROVE  Moment(Pending[i], k) <= Moment(Pending[j], k)
    <2>1. CASE j \in DOMAIN channel /\ Pending[j] = channel[j]
      <3>1. i \in DOMAIN channel /\ Pending[i] = channel[i]
        BY <1>2, <1>3, <1>4, <1>7, <2>1
      <3>2. QED
        BY <1>7, <2>1, <3>1 DEF Inv, InOrder
    <2>2. CASE j > Len(channel) /\ j - Len(channel) \in DOMAIN Flushed /\ Pending[j] = Flushed[j - Len(channel)]
      <3>1. CASE i \in DOMAIN channel /\ Pending[i] = channel[i]
        BY <1>7, <2>2, <3>1, FlushedSays DEF Latest
      <3>2. CASE i > Len(channel) /\ i - Len(channel) \in DOMAIN Flushed /\ Pending[i] = Flushed[i - Len(channel)]
        <4>1. i - Len(channel) < j - Len(channel)
          BY <1>2, <1>3, <1>7, <2>2, <3>2
        <4>2. QED
          BY <1>7, <2>2, <3>2, <4>1, FlushedSays
      <3>3. QED
        BY <1>4, <3>1, <3>2
    <2>3. QED
      BY <1>4, <2>1, <2>2
  <1>8. DOMAIN Pending \subseteq Nat /\ \E n \in Nat : \A i \in DOMAIN Pending : i <= n
    BY <1>2, <1>3
  <1>9. QED
    BY <1>5, <1>6, <1>7, <1>8

\* A change that reaches the table late is in an event not yet applied.
LEMMA PendingReaches ==
    ASSUME Inv, NEW k \in Keys, NEW j \in Nat \ {0}, Reaches(j, k), j > upto[k]
    PROVE  \E i \in DOMAIN Pending : Touches(Pending[i], k) /\ j <= Moment(Pending[i], k)
  <1>1. upserts[k] \in Nat /\ deletes[k] \in Nat /\ upto[k] \in Nat /\ Absent = 0
    BY Numbers DEF Inv, Absent, Feed!Absent
  <1>2. CASE j <= upserts[k]
    <2>1. upserts[k] # Absent
      BY <1>1, <1>2
    <2>2. PICK i \in DOMAIN Pending : Pending[i] = Upsert(upserts)
      BY <2>1, FlushedIs, PendingSays DEF Inv
    <2>3. QED
      BY <1>2, <2>1, <2>2, EventSays
  <1>3. CASE j <= deletes[k]
    <2>1. deletes[k] # Absent
      BY <1>1, <1>3
    <2>2. PICK i \in DOMAIN Pending : Pending[i] = Delete(deletes)
      BY <2>1, FlushedIs, PendingSays DEF Inv
    <2>3. QED
      BY <1>3, <2>1, <2>2, EventSays
  <1>4. CASE \E i \in DOMAIN channel : Touches(channel[i], k) /\ j <= Moment(channel[i], k)
    BY <1>4, PendingSays
  <1>5. QED
    BY <1>1, <1>2, <1>3, <1>4 DEF Reaches

LEMMA LosesNothing == Inv => NothingLost
  <1> SUFFICES ASSUME Inv, mode = "live", NEW k \in Keys PROVE Outcome(k) = RowAt(k, at)
    BY DEF NothingLost
  <1> DEFINE about == {i \in DOMAIN Pending : Touches(Pending[i], k)}
  <1>1. Outcome(k) = IF about = {} THEN view[k] ELSE RowOf(Pending[Max(about)], k)
    BY DEF Outcome, Pending
  <1>2. /\ at \in Nat /\ upto[k] \in 0..at /\ view[k] = RowAt(k, upto[k])
        /\ about \subseteq Nat /\ \E n \in Nat : \A i \in about : i <= n
    BY Numbers, PendingSays DEF Inv, TableTruthful
  <1>3. ASSUME NEW j \in 1..at, log[j].key = k, j > upto[k]
        PROVE  \E i \in about : j <= Moment(Pending[i], k)
    <2>1. Reaches(j, k)
      BY <1>3 DEF Inv, AllReach
    <2>2. QED
      BY <1>3, <2>1, PendingReaches
  <1>4. CASE about = {}
    <2>1. \A j \in upto[k] + 1..at : log[j].key # k
      BY <1>2, <1>3, <1>4
    <2>2. QED
      BY <1>1, <1>2, <1>4, <2>1, RowAtSame
  <1>5. CASE about # {}
    <2>1. /\ \A i \in about : /\ RowOf(Pending[i], k) = RowAt(k, Moment(Pending[i], k))
                              /\ Moment(Pending[i], k) \in upto[k]..at
          /\ \A i, j \in about : i < j => Moment(Pending[i], k) <= Moment(Pending[j], k)
      BY PendingSays
    <2> HIDE DEF about
    <2>2. PICK n \in about : \A i \in about : i <= n
      BY <1>2, <1>5, GreatestExists
    <2>3. Max(about) = n
      BY <1>2, <2>2, MaxIs
    <2> DEFINE m == Moment(Pending[n], k)
    <2>4. m \in upto[k]..at /\ m \in 0..at /\ RowOf(Pending[n], k) = RowAt(k, m)
      BY <1>2, <2>1
    <2>5. \A i \in about : Moment(Pending[i], k) <= m
      BY <1>2, <2>1, <2>2
    <2> HIDE DEF m
    <2>6. \A j \in m + 1..at : log[j].key # k
      BY <1>2, <1>3, <2>1, <2>4, <2>5
    <2>7. RowAt(k, m) = RowAt(k, at)
      BY <1>2, <2>4, <2>6, RowAtSame
    <2>8. QED
      BY <1>1, <1>5, <2>3, <2>4, <2>7
  <1>6. QED
    BY <1>4, <1>5

\* NothingLost: on the way from a live watcher to the table no change is lost or
\* overtaken, whatever relists, errors, flushes and late applications lie between.
THEOREM ReportedIsNotLost == Spec => []NothingLost
  BY WatchInvariant, LosesNothing, PTL

-----------------------------------------------------------------------------
(* The feed *)

LEMMA FeedInit == Init => Feed!Init
  BY DEF Init, Feed!Init, NoRows, Absent

LEMMA FeedStep ==
    Inv /\ Inv' /\ [Next]_vars => [Feed!ClusterStep \/ Feed!Show \/ Feed!Leave]_Feed!vars
  <1> SUFFICES ASSUME Inv, Inv', [Next]_vars
               PROVE  [Feed!ClusterStep \/ Feed!Show \/ Feed!Leave]_Feed!vars
    OBVIOUS
  <1>1. CASE Receive
    <2>1. UNCHANGED <<log, running>> /\ Len(log) \in Nat
      BY <1>1, Numbers DEF Receive, Inv
    <2>2. /\ \A k \in Keys : upto'[k] \in upto[k]..at /\ view'[k] = RowAt(k, upto'[k])
          /\ \A k \in Keys : upto[k] \in 0..Len(log) /\ at \in 0..Len(log)
      BY <1>1, ForwardOnly, Numbers DEF Inv
    <2>3. upto' = [k \in Keys |-> upto'[k]] /\ view' = [k \in Keys |-> view'[k]]
      BY DEF Inv, TypeOK, Rows
    <2>4. Feed!Show
      <3>1. upto' \in [Keys -> 0..Feed!Now] /\ \A k \in Keys : upto'[k] >= upto[k]
        BY <2>1, <2>2, <2>3 DEF Feed!Now
      <3>2. view' = [k \in Keys |-> Feed!RowAt(k, upto'[k])]
        BY <2>2, <2>3 DEF RowAt
      <3>3. QED
        BY <2>1, <3>1, <3>2 DEF Feed!Show
    <2>5. QED
      BY <2>4
  <1>2. CASE \E k \in Keys, alive \in BOOLEAN : Change(k, alive)
    BY <1>2 DEF Change, Feed!ClusterStep, table
  <1>3. CASE Stop
    BY <1>3 DEF Stop, Feed!Leave, table
  <1>4. CASE \/ Tick \/ ListStarts \/ ListArrives \/ (\E k \in Keys : ListedPod(k)) \/ ListEnds
             \/ Reported \/ (\E next \in {"empty", "live"} : Fails(next))
    BY <1>4 DEF Tick, ListStarts, ListArrives, ListedPod, ListEnds, Reported, Fails, table, Feed!vars
  <1>5. CASE UNCHANGED vars
    BY <1>5 DEF vars, Feed!vars
  <1>6. QED
    BY <1>1, <1>2, <1>3, <1>4, <1>5 DEF Next

\* The watcher, the batches and the events in flight implement the safety part of the
\* feed: a row shows its pod as it was at one moment and only moves forward in its
\* history, so one that a relist or a later delta has replaced never comes back.
THEOREM WatchFeedsTable == Spec => Feed!Safe
  BY WatchInvariant, FeedInit, FeedStep, PTL DEF Spec, Feed!Safe
=============================================================================
