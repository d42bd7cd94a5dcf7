-------------------------- MODULE TableWatch_proofs --------------------------
(* What drive_table_events sends is never older than what it sent, and no change *)
(* the watch reported is forgotten, proved for any number of changes and errors.  *)
EXTENDS TableWatch, TLAPS

\* An item that has a change, or a relist that is not the first, asks for a fetch.
Reported == \E i \in DOMAIN items : items[i] = "Change"
Relisted ==
    \E i \in DOMAIN items :
        items[i] = "InitDone" /\ (~first \/ \E j \in 1..(i - 1) : items[j] = "InitDone")

\* A fetch is under way or will be made, or there is no driver left to make it.
Coming ==
    \/ driver.at = "ended" \/ deadline \/ Reported \/ Relisted
    \/ driver.at = "select" /\ failed
    \/ driver.at = "fetching" /\ driver.got \in {None, Failure}

\* The version the table has, or gets with the answer that is there.
Latest == IF driver.at = "fetching" THEN driver.got ELSE table

\* The watch reports nothing that neither a fetch to come nor the table has.
NothingMissed ==
    listed # None => Coming \/ Latest = None \/ Latest < listed \/ Latest >= watch.seen

\* first_relist falls with the first list the watcher finished.
FirstListTold == listed # None => ~first \/ \E i \in DOMAIN items : items[i] = "InitDone"

\* An answer is no older than the table it replaces.
Onward ==
    driver.at = "fetching" /\ driver.got \in Nat /\ table # None => table <= driver.got

Inv == TypeOK /\ NothingMissed /\ FirstListTold /\ Onward

Item == {"InitDone", "Change", "Err"}

-----------------------------------------------------------------------------

\* An item is added behind the others.
LEMMA Added ==
    ASSUME NEW s \in Seq(Item), NEW x \in Item
    PROVE  /\ Append(s, x) \in Seq(Item)
           /\ DOMAIN Append(s, x) = 1..(Len(s) + 1) /\ Append(s, x)[Len(s) + 1] = x
           /\ \A i \in DOMAIN s : i \in DOMAIN Append(s, x) /\ Append(s, x)[i] = s[i]
OBVIOUS

\* The first item is taken, the others move up.
LEMMA Taken ==
    ASSUME NEW s \in Seq(Item), s # <<>>
    PROVE  /\ Tail(s) \in Seq(Item) /\ Head(s) = s[1] /\ Head(s) \in Item
           /\ \A i \in DOMAIN s : i # 1 => i - 1 \in DOMAIN Tail(s) /\ Tail(s)[i - 1] = s[i]
OBVIOUS

\* What asks for a fetch still does when the watch reports more.
LEMMA MoreItems ==
    ASSUME TypeOK, NEW x \in Item, items' = Append(items, x), UNCHANGED first
    PROVE  /\ Reported => Reported'
           /\ Relisted => Relisted'
           /\ (\E i \in DOMAIN items : items[i] = "InitDone") =>
                  \E i \in DOMAIN items' : items'[i] = "InitDone"
           /\ x = "Change" => Reported'
<1>1. items \in Seq(Item) BY DEF TypeOK, Item
<1>2. /\ DOMAIN items' = 1..(Len(items) + 1) /\ items'[Len(items) + 1] = x
      /\ \A i \in DOMAIN items : i \in DOMAIN items' /\ items'[i] = items[i]
  BY <1>1, Added
<1>3. DOMAIN items = 1..Len(items) /\ Len(items) \in Nat BY <1>1
<1>4. Relisted => Relisted'
  <2>1. SUFFICES ASSUME Relisted PROVE Relisted' OBVIOUS
  <2>2. PICK i \in DOMAIN items :
            items[i] = "InitDone" /\ (~first \/ \E j \in 1..(i - 1) : items[j] = "InitDone")
    BY <2>1 DEF Relisted
  <2>3. \A j \in 1..(i - 1) : j \in DOMAIN items BY <1>3
  <2> QED BY <1>2, <2>2, <2>3 DEF Relisted
<1> QED BY <1>2, <1>3, <1>4 DEF Reported

\* The watcher lists when nothing but its first list is on the way, or relists.
LEMMA RelistAsks ==
    ASSUME TypeOK, FirstListTold, items' = Append(items, "InitDone"), UNCHANGED first,
           listed # None
    PROVE  Relisted'
<1>1. items \in Seq(Item) /\ "InitDone" \in Item BY DEF TypeOK, Item
<1>2. /\ DOMAIN items' = 1..(Len(items) + 1) /\ items'[Len(items) + 1] = "InitDone"
      /\ \A i \in DOMAIN items : i \in DOMAIN items' /\ items'[i] = items[i]
  BY <1>1, Added
<1>3. DOMAIN items = 1..Len(items) /\ Len(items) \in Nat BY <1>1
<1>4. CASE ~first BY <1>2, <1>3, <1>4 DEF Relisted
<1>5. CASE \E i \in DOMAIN items : items[i] = "InitDone"
  <2>1. PICK i \in DOMAIN items : items[i] = "InitDone" BY <1>5
  <2>2. i \in 1..(Len(items) + 1 - 1) /\ items'[i] = "InitDone" BY <2>1, <1>2, <1>3
  <2>3. Len(items) + 1 \in DOMAIN items' BY <1>2, <1>3
  <2> QED BY <1>2, <2>2, <2>3 DEF Relisted
<1> QED BY <1>4, <1>5 DEF FirstListTold

-----------------------------------------------------------------------------

\* A fetch begins, and no watcher has listed.
LEMMA InvInit == Init => Inv
<1> SUFFICES ASSUME Init PROVE Inv OBVIOUS
<1> USE TableWatchAssumption
<1>1. items \in Seq(Item) BY DEF Init
<1>2. TypeOK
  <2>1. watch \in [at : {"listing", "watching"}, seen : 0..server] BY DEF Init
  <2>2. driver \in [at : {"fetching", "select", "ended"}, got : 0..server \cup {None, Failure}]
    BY DEF Init
  <2>3. server \in Versions BY DEF Init, Versions
  <2>4. items \in Seq({"InitDone", "Change", "Err"}) BY <1>1 DEF Item
  <2>5. table = None /\ listed = None /\ driver.at = "fetching" /\ first = TRUE /\ deadline = FALSE
        /\ failed = FALSE
    BY DEF Init
  <2>6. first \in BOOLEAN /\ deadline \in BOOLEAN /\ failed \in BOOLEAN BY <2>5
  <2> QED BY <2>1, <2>2, <2>3, <2>4, <2>5, <2>6 DEF TypeOK
<1> QED BY <1>2 DEF Init, Inv, NothingMissed, FirstListTold, Onward

\* A change makes no older version one the cluster never had.
LEMMA ChangeKeeps == Inv /\ Change => Inv'
<1> SUFFICES ASSUME Inv, Change PROVE Inv' OBVIOUS
<1> USE TableWatchAssumption
<1>1. server' = server + 1 /\ server' \in Nat /\ server' <= MaxChanges /\ server \in Nat
  BY DEF Inv, TypeOK, Change, Versions
<1>2. TypeOK' BY <1>1 DEF Inv, TypeOK, Change, Versions
<1> QED
  BY <1>2 DEF Inv, Change, NothingMissed, Coming, Latest, Reported, Relisted, FirstListTold, Onward

\* What the watcher reports is an item before it counts as seen.
LEMMA WatchKeeps == Inv /\ (WatchLists \/ WatchReports \/ WatchBreaks) => Inv'
<1> SUFFICES ASSUME Inv, WatchLists \/ WatchReports \/ WatchBreaks PROVE Inv' OBVIOUS
<1> USE TableWatchAssumption
<1>1. PICK x \in Item, w \in [at : {"listing", "watching"}, seen : 0..server] :
          /\ Yields(x, w)
          /\ \/ x = "InitDone" /\ w.seen = server
                /\ listed' = IF listed = None THEN server ELSE listed
             \/ x = "Change" /\ UNCHANGED listed
             \/ x = "Err" /\ w.seen = watch.seen /\ UNCHANGED listed
  <2>1. server \in Nat /\ watch.at \in {"listing", "watching"} /\ watch.seen \in 0..server
        /\ watch = [at |-> watch.at, seen |-> watch.seen]
    BY DEF Inv, TypeOK, Versions
  <2>2. CASE WatchLists BY <2>1, <2>2 DEF WatchLists, Item
  <2>3. CASE WatchReports
    <3>1. [watch EXCEPT !.seen = @ + 1] \in [at : {"listing", "watching"}, seen : 0..server]
      BY <2>1, <2>3 DEF WatchReports
    <3> QED BY <2>3, <3>1 DEF WatchReports, Item
  <2>4. CASE WatchBreaks
    <3>1. \A at \in {"listing", "watching"} :
              /\ [watch EXCEPT !.at = at] \in [at : {"listing", "watching"}, seen : 0..server]
              /\ [watch EXCEPT !.at = at].seen = watch.seen
      BY <2>1
    <3> QED BY <2>1, <2>4, <3>1 DEF WatchBreaks, Item
  <2> QED BY <2>2, <2>3, <2>4
<1>2. /\ items' = Append(items, x) /\ watch' = w
      /\ UNCHANGED <<server, driver, first, deadline, table, failed, leaving>>
  BY <1>1 DEF Yields
<1>3. items \in Seq(Item) /\ items' \in Seq(Item) BY <1>2, Added DEF Inv, TypeOK, Item
<1>4. TypeOK' BY <1>1, <1>2, <1>3 DEF Inv, TypeOK, Item, Versions
<1>5. FirstListTold'
  <2>1. CASE x = "InitDone"
    <3>1. Len(items) + 1 \in DOMAIN items' /\ items'[Len(items) + 1] = x BY <1>2, <1>3, Added
    <3> QED BY <2>1, <3>1 DEF FirstListTold
  <2>2. CASE x # "InitDone" BY <1>1, <1>2, <2>2, MoreItems DEF Inv, FirstListTold
  <2> QED BY <2>1, <2>2
<1>6. Coming => Coming' BY <1>2, MoreItems DEF Inv, Coming
<1>7. NothingMissed'
  <2>1. CASE x = "InitDone" /\ listed = None
    <3>1. listed' = server /\ watch'.seen = server /\ server \in Nat
      BY <1>1, <1>2, <2>1 DEF Inv, TypeOK, Versions
    <3>2. Latest' \in 0..server \cup {None, Failure} BY <1>2, <1>4 DEF Latest, TypeOK
    <3>3. Latest' = Failure => Coming' \/ Latest' = None
      <4>1. CASE driver'.at = "fetching" BY <4>1 DEF Latest, Coming
      <4>2. CASE driver'.at # "fetching"
        <5>1. Latest' \in 0..server \cup {None} BY <1>2, <1>4, <4>2 DEF Latest, TypeOK
        <5> QED BY <3>1, <5>1
      <4> QED BY <4>1, <4>2
    <3> QED BY <3>1, <3>2, <3>3 DEF NothingMissed
  <2>2. CASE x = "InitDone" /\ listed # None
    BY <1>2, <2>2, RelistAsks DEF Inv, NothingMissed, Coming
  <2>3. CASE x = "Change" BY <1>2, <2>3, MoreItems DEF Inv, NothingMissed, Coming
  <2>4. CASE x = "Err" BY <1>1, <1>2, <1>6, <2>4 DEF Inv, NothingMissed, Latest
  <2> QED BY <1>1, <2>1, <2>2, <2>3, <2>4
<1>8. Onward' BY <1>2 DEF Inv, Onward
<1> QED BY <1>4, <1>5, <1>7, <1>8 DEF Inv

\* A fetch answers with what the cluster holds, at least what was seen and sent.
LEMMA FetchKeeps == Inv /\ (FetchReads \/ FetchSends) => Inv'
<1> SUFFICES ASSUME Inv, FetchReads \/ FetchSends PROVE Inv' OBVIOUS
<1> USE TableWatchAssumption
<1>0. server \in Nat /\ watch.seen \in 0..server /\ table \in 0..server \cup {None}
  BY DEF Inv, TypeOK, Versions
<1>1. CASE FetchReads
  <2>1. UNCHANGED <<server, watch, items, first, deadline, table, failed, leaving, listed>>
    BY <1>1 DEF FetchReads
  <2>2. driver.at = "fetching" /\ driver'.at = "fetching" /\ driver'.got \in {server, Failure}
    BY <1>1 DEF FetchReads, Answers, Inv, TypeOK
  <2>3. TypeOK'
    <3>1. driver' \in [at : {"fetching"}, got : {server, Failure}]
      BY <1>1 DEF FetchReads, Answers, Inv, TypeOK
    <3> QED BY <2>1, <3>1, <1>0 DEF Inv, TypeOK, Versions
  <2>4. NothingMissed' BY <2>1, <2>2, <1>0 DEF NothingMissed, Coming, Latest
  <2>5. FirstListTold' /\ Onward' BY <2>1, <2>2, <1>0 DEF Inv, FirstListTold, Onward
  <2> QED BY <2>3, <2>4, <2>5 DEF Inv
<1>2. CASE FetchSends
  <2>1. /\ driver.at = "fetching" /\ driver.got \in 0..server \cup {Failure}
        /\ UNCHANGED <<server, watch, items, first, deadline, leaving, errors, listed>>
        /\ driver' = [at |-> IF leaving = "gone" THEN "ended" ELSE "select", got |-> None]
        /\ failed' = (driver.got = Failure)
        /\ table' = IF driver.got = Failure \/ leaving = "gone" THEN table ELSE driver.got
    BY <1>2 DEF FetchSends, Sent, Inv, TypeOK
  <2>2. TypeOK' BY <2>1, <1>0 DEF Inv, TypeOK, Versions
  <2>3. NothingMissed'
    <3>1. CASE leaving = "gone" BY <2>1, <3>1 DEF NothingMissed, Coming
    <3>2. CASE driver.got = Failure BY <2>1, <3>2 DEF NothingMissed, Coming
    <3>3. CASE leaving # "gone" /\ driver.got # Failure
      <4>1. Latest' = Latest BY <2>1, <3>3 DEF Latest
      <4>2. Coming => Coming' BY <2>1, <3>3 DEF Coming, Reported, Relisted
      <4> QED BY <2>1, <4>1, <4>2 DEF Inv, NothingMissed
    <3> QED BY <3>1, <3>2, <3>3
  <2>4. FirstListTold' /\ Onward' BY <2>1 DEF Inv, FirstListTold, Onward
  <2> QED BY <2>2, <2>3, <2>4 DEF Inv
<1> QED BY <1>1, <1>2

\* An item that is taken sets the deadline, or the first list is told.
LEMMA TakeKeeps == Inv /\ TakeItem => Inv'
<1> SUFFICES ASSUME Inv, TakeItem PROVE Inv' OBVIOUS
<1> USE TableWatchAssumption
<1>1. /\ driver.at = "select" /\ items # <<>> /\ items' = Tail(items)
      /\ UNCHANGED <<server, watch, table, failed, leaving, errors, listed>>
  BY DEF TakeItem
<1>2. items \in Seq(Item) BY DEF Inv, TypeOK, Item
<1>3. /\ items' \in Seq(Item) /\ Head(items) = items[1] /\ Head(items) \in Item
      /\ \A i \in DOMAIN items : i # 1 => i - 1 \in DOMAIN items' /\ items'[i - 1] = items[i]
  BY <1>1, <1>2, Taken
<1>4. /\ driver' \in [at : {"select", "ended"}, got : {None}]
      /\ \/ items[1] = "InitDone" /\ deadline' = RelistSets /\ first' = FALSE
         \/ items[1] = "Change" /\ deadline' = TRUE /\ UNCHANGED first
         \/ items[1] = "Err" /\ UNCHANGED <<deadline, first>>
  <2>1. driver \in [at : {"select", "ended"}, got : {None}] BY <1>1 DEF Inv, TypeOK
  <2>2. CASE items[1] = "InitDone"
    <3>1. Head(items) = "InitDone" BY <1>3, <2>2
    <3>2. deadline' = RelistSets /\ first' = FALSE /\ Sent("select") BY <3>1, Zenon DEF TakeItem
    <3>3. driver' \in [at : {"select", "ended"}, got : {None}] BY <3>2 DEF Sent
    <3> QED BY <2>2, <3>2, <3>3
  <2>3. CASE items[1] = "Change" BY <1>3, <2>1, <2>3 DEF TakeItem
  <2>4. CASE items[1] = "Err" BY <1>3, <2>4 DEF TakeItem, Sent
  <2> QED BY <1>3, <2>2, <2>3, <2>4 DEF Item
<1>5. TypeOK'
  <2>1. RelistSets \in BOOLEAN BY DEF RelistSets
  <2>2. first' \in BOOLEAN /\ deadline' \in BOOLEAN BY <1>4, <2>1 DEF Inv, TypeOK
  <2> QED BY <1>1, <1>3, <1>4, <2>2 DEF Inv, TypeOK, Item, Versions
<1>6. Coming => Coming'
  <2> SUFFICES ASSUME Coming, driver'.at = "select", ~deadline' PROVE Coming' BY <1>4 DEF Coming
  <2>1. items[1] # "Change" /\ (items[1] = "InitDone" => first) /\ ~deadline
    <3>1. CASE items[1] = "InitDone"
      <4>1. deadline' = RelistSets BY <1>4, <3>1
      <4>2. ~RelistSets BY <4>1
      <4> QED BY <3>1, <4>2 DEF RelistSets
    <3>2. CASE items[1] # "InitDone" BY <1>4, <3>2
    <3> QED BY <3>1, <3>2
  <2>2. CASE Reported BY <1>3, <2>1, <2>2 DEF Reported, Coming
  <2>3. CASE Relisted
    <3>1. PICK i \in DOMAIN items :
              items[i] = "InitDone" /\ (~first \/ \E j \in 1..(i - 1) : items[j] = "InitDone")
      BY <2>3 DEF Relisted
    <3>2. DOMAIN items = 1..Len(items) /\ Len(items) \in Nat BY <1>2
    <3>3. CASE items[1] = "InitDone"
      <4>1. first /\ ~first' BY <1>4, <2>1, <3>3
      <4>2. i # 1 BY <3>1, <4>1
      <4>3. i - 1 \in DOMAIN items' /\ items'[i - 1] = "InitDone" BY <1>3, <3>1, <4>2
      <4> QED BY <4>1, <4>3 DEF Relisted, Coming
    <3>4. CASE items[1] # "InitDone"
      <4>1. i # 1 /\ i - 1 \in DOMAIN items' /\ items'[i - 1] = "InitDone" BY <1>3, <3>1, <3>4
      <4>2. UNCHANGED first BY <1>4, <2>1, <3>4
      <4>3. CASE ~first BY <4>1, <4>2, <4>3 DEF Relisted, Coming
      <4>4. CASE \E j \in 1..(i - 1) : items[j] = "InitDone"
        <5>1. PICK j \in 1..(i - 1) : items[j] = "InitDone" BY <4>4
        <5>2. j # 1 /\ j \in DOMAIN items BY <3>2, <3>4, <5>1
        <5>3. j - 1 \in 1..(i - 1 - 1) /\ items'[j - 1] = "InitDone" BY <1>3, <3>2, <5>1, <5>2
        <5> QED BY <4>1, <5>3 DEF Relisted, Coming
      <4> QED BY <3>1, <4>3, <4>4
    <3> QED BY <3>3, <3>4
  <2>4. CASE failed BY <1>1, <2>4 DEF Coming
  <2> QED BY <1>1, <2>1, <2>2, <2>3, <2>4 DEF Coming
<1>7. NothingMissed' BY <1>1, <1>4, <1>6 DEF Inv, NothingMissed, Latest
<1>8. FirstListTold'
  <2>1. CASE items[1] = "InitDone" BY <1>4, <2>1 DEF FirstListTold
  <2>2. CASE items[1] # "InitDone"
    <3>1. UNCHANGED first BY <1>4, <2>2
    <3> QED BY <1>1, <1>3, <2>2, <3>1 DEF Inv, FirstListTold
  <2> QED BY <2>1, <2>2
<1>9. Onward' BY <1>1, <1>4 DEF Onward
<1> QED BY <1>5, <1>7, <1>8, <1>9 DEF Inv

\* The deadline, the clock and the handle take nothing away but the deadline itself,
\* for a fetch.
LEMMA RestKeeps == Inv /\ (Due \/ Stops \/ Resync \/ Leave) => Inv'
<1> SUFFICES ASSUME Inv, Due \/ Stops \/ Resync \/ Leave PROVE Inv' OBVIOUS
<1> USE TableWatchAssumption
<1>1. UNCHANGED <<server, watch, items, first, table, failed, errors, listed>>
  BY DEF Due, Stops, Resync, Leave
<1>2. \/ driver' = [at |-> "fetching", got |-> None] /\ deadline' = FALSE
      \/ driver' = [driver EXCEPT !.at = "ended"] /\ driver.at = "select" /\ UNCHANGED deadline
      \/ driver.at = "select" /\ UNCHANGED driver /\ deadline' = TRUE
      \/ UNCHANGED <<driver, deadline>>
  BY DEF Due, Stops, Resync, Leave, ResyncSets
<1>3. TypeOK'
  <2>1. /\ driver' \in [at : {"fetching", "select", "ended"}, got : 0..server \cup {None, Failure}]
        /\ driver'.at # "fetching" => driver'.got = None
    BY <1>2 DEF Inv, TypeOK
  <2>2. deadline' \in BOOLEAN BY <1>2 DEF Inv, TypeOK
  <2> QED BY <1>1, <2>1, <2>2 DEF Inv, TypeOK, Versions
<1>4. NothingMissed' /\ Onward'
  BY <1>1, <1>2 DEF Inv, TypeOK, NothingMissed, Coming, Latest, Reported, Relisted, Onward
<1>5. FirstListTold' BY <1>1 DEF Inv, FirstListTold
<1> QED BY <1>3, <1>4, <1>5 DEF Inv

\* Every step keeps the invariant.
LEMMA InvStep == Inv /\ [Next]_vars => Inv'
<1> SUFFICES ASSUME Inv, [Next]_vars PROVE Inv' OBVIOUS
<1>1. CASE UNCHANGED vars
  BY <1>1 DEF vars, Inv, TypeOK, Versions, NothingMissed, Coming, Latest, Reported, Relisted,
              FirstListTold, Onward
<1>2. CASE Next
  BY <1>2, ChangeKeeps, WatchKeeps, FetchKeeps, TakeKeeps, RestKeeps DEF Next, Driver
<1> QED BY <1>1, <1>2

\* The invariant of drive_table_events.
THEOREM DriverInvariant == Spec => []Inv
BY InvInit, InvStep, PTL DEF Spec

\* TypeOK: tables and answers are versions the cluster had, and the driver holds an
\* answer only while it fetches.
THEOREM DriverTypeCorrect == Spec => []TypeOK
<1>1. Inv => TypeOK BY DEF Inv, TypeOK
<1> QED BY <1>1, DriverInvariant, PTL

\* CaughtUp: once the first table is as new as the watcher's first list, drive_table_events
\* leaves no change to the resync, whatever fails in between.
THEOREM NoChangeForgotten == Spec => []CaughtUp
<1>1. Inv => CaughtUp
  <2> SUFFICES ASSUME Inv, Idle, listed # None, table # None, table >= listed
               PROVE  table = server
    BY DEF CaughtUp
  <2> USE TableWatchAssumption
  <2>1. /\ server \in Nat /\ table \in 0..server /\ listed \in 0..server
        /\ driver.at = "select" /\ watch.seen = server
    BY DEF Inv, TypeOK, Idle, Versions
  <2>2. ~Coming BY DEF Coming, Idle, Reported, Relisted
  <2>3. Latest = table BY <2>1 DEF Latest
  <2> QED BY <2>1, <2>2, <2>3 DEF Inv, NothingMissed
<1> QED BY <1>1, DriverInvariant, PTL

\* The safety half of MirrorsCluster: each table drive_table_events sends is one the
\* cluster held and none is older than the one before.
THEOREM NeverGoesBack == Spec => Abstract!Safe
<1> USE TableWatchAssumption
<1>1. Init => Abstract!Init BY DEF Init, Abstract!Init
<1>2. Inv /\ [Next]_vars => [Abstract!Change \/ Abstract!Show \/ Abstract!Leave]_(Abstract!vars)
  <2> SUFFICES ASSUME Inv, [Next]_vars
               PROVE  Abstract!Change \/ Abstract!Show \/ Abstract!Leave \/ UNCHANGED Abstract!vars
    OBVIOUS
  <2>1. CASE Change BY <2>1 DEF Change, Abstract!Change
  <2>2. CASE FetchSends
    <3>1. CASE driver.got = Failure \/ leaving = "gone"
      BY <2>2, <3>1 DEF FetchSends, Abstract!vars
    <3>2. CASE driver.got # Failure /\ leaving # "gone"
      <4>1. driver.got \in 0..server /\ table' = driver.got /\ UNCHANGED <<server, leaving>>
        BY <2>2, <3>2 DEF FetchSends, Inv, TypeOK
      <4>2. server \in Nat /\ table \in 0..server \cup {None} BY DEF Inv, TypeOK, Versions
      <4>3. table # None => table <= driver.got
        BY <2>2, <4>1, <4>2 DEF FetchSends, Inv, Onward
      <4> QED BY <4>1, <4>2, <4>3 DEF Abstract!Show
    <3> QED BY <3>1, <3>2
  <2>3. CASE Leave BY <2>3 DEF Leave, Abstract!Leave
  <2>4. CASE WatchLists \/ WatchReports \/ WatchBreaks \/ FetchReads \/ Due \/ TakeItem \/ Stops
             \/ Resync \/ UNCHANGED vars
    BY <2>4 DEF WatchLists, WatchReports, WatchBreaks, Yields, FetchReads, Due, TakeItem, Stops,
                Resync, vars, Abstract!vars
  <2> QED BY <2>1, <2>2, <2>3, <2>4 DEF Next, Driver
<1> QED BY <1>1, <1>2, DriverInvariant, PTL DEF Spec, Abstract!Safe
=============================================================================
