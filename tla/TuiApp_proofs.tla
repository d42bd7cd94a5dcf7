---------------------------- MODULE TuiApp_proofs ----------------------------
(***************************************************************************)
(* Theorems about TuiApp, for every set of sittings: any contexts,           *)
(* namespaces, keys, shells and events.                                      *)
(***************************************************************************)
EXTENDS TuiApp, SequenceTheorems, TLAPS

\* What an update works on is typed, and what it names exists.
Typed(w) == w \in Worlds /\ SessionThere(w) /\ WatchesThere(w)

\* Views are numbered as they are made.
Numbered(w) ==
    /\ \A i \in DOMAIN w.watches : w.watches[i].view < w.app.next
    /\ w.app.pods \in PodsViews => w.app.pods.id < w.app.next

\* Each Started tells the view of its watch, in the order the watches were started.
Told(w) ==
    /\ \A i \in DOMAIN w.queue : w.queue[i].type = "Started" =>
          w.watches[w.queue[i].watch].view = w.queue[i].view
    /\ \A i, j \in DOMAIN w.queue :
          i < j /\ w.queue[i].type = "Started" /\ w.queue[j].type = "Started" =>
             w.queue[i].watch < w.queue[j].watch

\* The handle a view holds is of its own watch, older than any still to be reported.
Held(w) ==
    w.app.pods \in PodsViews /\ w.app.pods.handle # None =>
        /\ w.watches[w.app.pods.handle].view = w.app.pods.id
        /\ \A i \in DOMAIN w.queue :
              w.queue[i].type = "Started" => w.app.pods.handle < w.queue[i].watch

\* NoWatchLeaks, LatestWatchKept
Owned(w) ==
    \A v \in DOMAIN w.watches : w.watches[v].state = "on" =>
        \/ \E i \in DOMAIN w.queue : w.queue[i].type = "Started" /\ w.queue[i].watch = v
        \/ w.app.pods \in PodsViews /\ w.app.pods.handle = v

Kept(w) ==
    w.app.pods \in PodsViews =>
        \E v \in DOMAIN w.watches :
            /\ w.watches[v].view = w.app.pods.id /\ w.watches[v].state = "on"
            /\ w.watches[v].ns = w.app.pods.watched
            /\ \A u \in DOMAIN w.watches : w.watches[u].view = w.app.pods.id => u <= v

\* What holds of a world at any moment of an update, and between updates.
Sound(w) == Typed(w) /\ Numbered(w) /\ Told(w) /\ Held(w) /\ Owned(w)

Good(w) == Sound(w) /\ Kept(w)

Inv == sitting \in Sittings /\ keys \in [all : Nat, shells : Nat] /\ Good(World)

-----------------------------------------------------------------------------
(* The pieces of an update *)

LEMMA NoneIs ==
    ASSUME sitting \in Sittings
    PROVE  None \notin Nat /\ None \notin Contexts /\ None \notin Namespaces
           /\ None \notin PodsViews /\ None # "contexts"
  BY TuiAppAssumption DEF Contexts, Namespaces, PodsViews

\* A watch is added and its Started queued.
LEMMA StartWatchIs ==
    ASSUME NEW w \in Worlds, w.app.pods \in PodsViews, w.active \in Sessions,
           NEW x, x = StartWatch(w)
    PROVE  /\ x \in Worlds
           /\ x.active = w.active /\ x.connects = w.connects
           /\ x.app.over = w.app.over /\ x.app.next = w.app.next /\ x.app.modal = w.app.modal
           /\ x.app.pods = [w.app.pods EXCEPT !.pending = TRUE] /\ x.app.pods \in PodsViews
           /\ x.watches = Append(w.watches, [view |-> w.app.pods.id, ctx |-> w.active.ctx,
                                   ns |-> w.app.pods.watched, sent |-> 0, state |-> "on"])
           /\ x.queue = Append(w.queue, [type |-> "Started", view |-> w.app.pods.id,
                                 watch |-> Len(w.watches) + 1])
  <1> DEFINE task == [view |-> w.app.pods.id, ctx |-> w.active.ctx,
                      ns |-> w.app.pods.watched, sent |-> 0, state |-> "on"]
             msg == [type |-> "Started", view |-> w.app.pods.id, watch |-> Len(w.watches) + 1]
             pods == [w.app.pods EXCEPT !.pending = TRUE]
  <1>1. w.app \in Apps /\ w.watches \in Seq(WatchTasks) /\ w.queue \in Seq(Messages)
    BY DEF Worlds
  <1>2. task \in WatchTasks
    BY DEF PodsViews, PodsViewsOf, Contexts, Namespaces, Sessions, WatchTasks
  <1>3. msg \in Messages
    BY <1>1 DEF PodsViews, PodsViewsOf, Contexts, Namespaces, Messages
  <1>4. pods \in PodsViews
    BY DEF PodsViews, PodsViewsOf, Contexts, Namespaces
  <1>5. Append(w.watches, task) \in Seq(WatchTasks) /\ Append(w.queue, msg) \in Seq(Messages)
    BY <1>1, <1>2, <1>3
  <1>6. [w.app EXCEPT !.pods = pods] \in Apps
    BY <1>1, <1>4 DEF Apps
  <1>7. x = [w EXCEPT !.app = [w.app EXCEPT !.pods = pods], !.watches = Append(w.watches, task),
                      !.queue = Append(w.queue, msg)]
    BY <1>1 DEF StartWatch
  <1> HIDE DEF task, msg, pods
  <1>8. /\ x.app = [w.app EXCEPT !.pods = pods] /\ x.watches = Append(w.watches, task)
        /\ x.queue = Append(w.queue, msg)
    BY <1>7 DEF Worlds
  <1>9. x \in Worlds
    BY <1>5, <1>6, <1>7 DEF Worlds
  <1>10. /\ x.app.pods = pods /\ x.app.over = w.app.over /\ x.app.next = w.app.next
         /\ x.app.modal = w.app.modal
    BY <1>1, <1>8 DEF Apps
  <1>11. x.active = w.active /\ x.connects = w.connects
    BY <1>7 DEF Worlds
  <1>12. QED
    BY <1>4, <1>8, <1>9, <1>10, <1>11 DEF task, msg, pods

\* The members of a sequence with one more.
LEMMA AppendIs ==
    ASSUME NEW S, NEW s \in Seq(S), NEW e \in S
    PROVE  /\ Append(s, e) \in Seq(S) /\ DOMAIN Append(s, e) = 1..Len(s) + 1
           /\ Len(s) \in Nat /\ DOMAIN s = 1..Len(s)
           /\ Append(s, e)[Len(s) + 1] = e
           /\ \A i \in DOMAIN s : i \in DOMAIN Append(s, e) /\ Append(s, e)[i] = s[i]
           /\ \A i \in DOMAIN Append(s, e) :
                 \/ i \in DOMAIN s /\ Append(s, e)[i] = s[i]
                 \/ i = Len(s) + 1 /\ Append(s, e)[i] = e
  <1>1. /\ Append(s, e) \in Seq(S) /\ Len(Append(s, e)) = Len(s) + 1
        /\ \A i \in 1..Len(s) : Append(s, e)[i] = s[i]
        /\ Append(s, e)[Len(s) + 1] = e
    BY AppendProperties
  <1>2. Len(s) \in Nat /\ DOMAIN s = 1..Len(s) /\ DOMAIN Append(s, e) = 1..Len(s) + 1
    BY <1>1
  <1>3. QED
    BY <1>1, <1>2

\* A started watch is the latest of its view, is owned and leaves all else owned.
LEMMA StartWatchGood ==
    ASSUME sitting \in Sittings, NEW w, Sound(w), w.app.pods \in PodsViews
    PROVE  Good(StartWatch(w))
  <1> DEFINE x == StartWatch(w)
             p == w.app.pods
             task == [view |-> p.id, ctx |-> w.active.ctx, ns |-> p.watched,
                      sent |-> 0, state |-> "on"]
             n == Len(w.watches) + 1
             msg == [type |-> "Started", view |-> p.id, watch |-> n]
  <1>1. w \in Worlds /\ w.active \in Sessions
    BY DEF Sound, Typed, SessionThere, NeedsSession
  <1>2. /\ x \in Worlds /\ x.active = w.active /\ x.connects = w.connects
        /\ x.app.over = w.app.over /\ x.app.next = w.app.next /\ x.app.modal = w.app.modal
        /\ x.app.pods = [p EXCEPT !.pending = TRUE] /\ x.app.pods \in PodsViews
        /\ x.watches = Append(w.watches, task) /\ x.queue = Append(w.queue, msg)
    BY <1>1, StartWatchIs
  <1>3. /\ task \in WatchTasks /\ task.view = p.id /\ task.ns = p.watched /\ task.state = "on"
        /\ msg \in Messages /\ msg.type = "Started" /\ msg.view = p.id /\ msg.watch = n
        /\ p.id \in Nat /\ n \in Nat
    <2>1. w.watches \in Seq(WatchTasks)
      BY <1>1 DEF Worlds
    <2>2. QED
      BY <1>1, <2>1 DEF PodsViews, PodsViewsOf, Contexts, Namespaces, Sessions, WatchTasks, Messages
  <1>4. /\ x.app.pods.id = p.id /\ x.app.pods.watched = p.watched
        /\ x.app.pods.handle = p.handle /\ x.app.pods.rows = p.rows
    BY <1>2 DEF PodsViews, PodsViewsOf, Contexts, Namespaces
  <1> HIDE DEF x, task, msg
  <1>5. /\ n = Len(w.watches) + 1 /\ DOMAIN w.watches = 1..Len(w.watches) /\ Len(w.watches) \in Nat
        /\ DOMAIN x.watches = 1..n /\ x.watches[n] = task /\ n \in DOMAIN x.watches
        /\ \A v \in DOMAIN w.watches : v < n /\ v \in DOMAIN x.watches /\ x.watches[v] = w.watches[v]
        /\ \A v \in DOMAIN x.watches : v = n \/ (v \in DOMAIN w.watches /\ x.watches[v] = w.watches[v])
        /\ \A v \in DOMAIN x.watches : v <= n
    <2>1. w.watches \in Seq(WatchTasks)
      BY <1>1 DEF Worlds
    <2>2. QED
      BY <1>2, <1>3, <2>1, AppendIs
  <1> DEFINE last == Len(w.queue) + 1
  <1>7. /\ last \in DOMAIN x.queue /\ x.queue[last] = msg
        /\ \A i \in DOMAIN x.queue : i = last \/ (i < last /\ i \in DOMAIN w.queue /\ x.queue[i] = w.queue[i])
        /\ \A i \in DOMAIN w.queue : i \in DOMAIN x.queue /\ x.queue[i] = w.queue[i]
    <2>1. w.queue \in Seq(Messages) /\ msg \in Messages
      BY <1>1, <1>3 DEF Worlds
    <2>2. /\ Len(w.queue) \in Nat /\ DOMAIN w.queue = 1..Len(w.queue)
          /\ DOMAIN x.queue = 1..Len(w.queue) + 1 /\ x.queue[Len(w.queue) + 1] = msg
          /\ \A i \in DOMAIN w.queue : i \in DOMAIN x.queue /\ x.queue[i] = w.queue[i]
      BY <1>2, <2>1, AppendIs
    <2>3. QED
      BY <2>2
  <1> HIDE DEF n, last
  <1>8. DOMAIN x.queue \subseteq Nat
    BY <1>2 DEF Worlds
  <1> HIDE DEF p
  <1>9. Typed(x)
    <2>1. x.active \in Sessions
      BY <1>1, <1>2
    <2>2. WatchesThere(x)
      <3>1. \A i \in DOMAIN x.queue :
               x.queue[i].type \in {"Started", "Pod"} => x.queue[i].watch \in DOMAIN x.watches
        BY <1>3, <1>5, <1>7 DEF Sound, Typed, WatchesThere
      <3>2. x.app.pods.handle \in DOMAIN x.watches \cup {None} /\ x.app.pods.rows \subseteq DOMAIN x.watches
        BY <1>4, <1>5 DEF p, Sound, Typed, WatchesThere
      <3>3. QED
        BY <3>1, <3>2 DEF WatchesThere
    <2>3. QED
      BY <1>2, <2>1, <2>2 DEF Typed, SessionThere
  <1>10. Numbered(x)
    BY <1>2, <1>3, <1>4, <1>5 DEF p, Sound, Numbered
  <1>11. Told(x)
    <2>1. \A i \in DOMAIN x.queue : x.queue[i].type = "Started" =>
             x.watches[x.queue[i].watch].view = x.queue[i].view
      <3>1. x.watches[x.queue[last].watch].view = x.queue[last].view
        BY <1>3, <1>5, <1>7
      <3>2. ASSUME NEW i \in DOMAIN w.queue, w.queue[i].type = "Started"
            PROVE  x.watches[w.queue[i].watch].view = w.queue[i].view
        BY <1>5, <3>2 DEF Sound, Typed, WatchesThere, Told
      <3>3. QED
        BY <1>7, <3>1, <3>2
    <2>2. ASSUME NEW i \in DOMAIN x.queue, NEW j \in DOMAIN x.queue, i < j,
                 x.queue[i].type = "Started", x.queue[j].type = "Started"
          PROVE  x.queue[i].watch < x.queue[j].watch
      <3>1. i # last
        BY <1>7, <1>8, <2>2
      <3>2. CASE j = last
        BY <1>3, <1>5, <1>7, <2>2, <3>1, <3>2 DEF Sound, Typed, WatchesThere
      <3>3. CASE j # last
        BY <1>7, <2>2, <3>1, <3>3 DEF Sound, Told
      <3>4. QED
        BY <3>2, <3>3
    <2>3. QED
      BY <2>1, <2>2 DEF Told
  <1>12. Held(x)
    <2>1. SUFFICES ASSUME p.handle # None
                   PROVE  /\ x.watches[p.handle].view = p.id
                          /\ \A i \in DOMAIN x.queue :
                                x.queue[i].type = "Started" => p.handle < x.queue[i].watch
      BY <1>4 DEF Held
    <2>2. p.handle \in DOMAIN w.watches
      BY <2>1 DEF p, Sound, Typed, WatchesThere
    <2>3. QED
      BY <1>3, <1>5, <1>7, <2>1, <2>2 DEF p, Sound, Held
  <1>13. Owned(x)
    BY <1>2, <1>3, <1>4, <1>5, <1>7 DEF p, Sound, Owned
  <1>14. Kept(x)
    BY <1>3, <1>4, <1>5 DEF Kept
  <1>15. QED
    BY <1>9, <1>10, <1>11, <1>12, <1>13, <1>14 DEF Good, Sound, x

\* What the sequences of a world hold.
LEMMA Members ==
    ASSUME NEW w \in Worlds
    PROVE  /\ w.watches \in Seq(WatchTasks) /\ DOMAIN w.watches \subseteq Nat
           /\ \A v \in DOMAIN w.watches : w.watches[v] \in WatchTasks /\ w.watches[v].view \in Nat
           /\ w.queue \in Seq(Messages) /\ DOMAIN w.queue \subseteq Nat
           /\ \A i \in DOMAIN w.queue : w.queue[i] \in Messages
           /\ w.connects \in Seq(ConnectTasks) /\ DOMAIN w.connects \subseteq Nat
           /\ \A i \in DOMAIN w.connects : w.connects[i] \in ConnectTasks
           /\ w.fetches \in Seq(FetchTasks) /\ DOMAIN w.fetches \subseteq Nat
           /\ \A i \in DOMAIN w.fetches : w.fetches[i] \in FetchTasks
  <1>1. /\ w.watches \in Seq(WatchTasks) /\ w.queue \in Seq(Messages)
        /\ w.connects \in Seq(ConnectTasks) /\ w.fetches \in Seq(FetchTasks)
    BY DEF Worlds
  <1>2. /\ DOMAIN w.watches \subseteq Nat /\ DOMAIN w.queue \subseteq Nat
        /\ DOMAIN w.connects \subseteq Nat /\ DOMAIN w.fetches \subseteq Nat
    BY <1>1
  <1>3. /\ \A v \in DOMAIN w.watches : w.watches[v] \in WatchTasks
        /\ \A i \in DOMAIN w.queue : w.queue[i] \in Messages
        /\ \A i \in DOMAIN w.connects : w.connects[i] \in ConnectTasks
        /\ \A i \in DOMAIN w.fetches : w.fetches[i] \in FetchTasks
    BY <1>1, ElementOfSeq
  <1>4. \A task \in WatchTasks : task.view \in Nat
    BY DEF WatchTasks
  <1>5. QED
    BY <1>1, <1>2, <1>3, <1>4

\* A watch is told to stop: nothing else changes.
LEMMA StopHandleIs ==
    ASSUME sitting \in Sittings, NEW w \in Worlds, NEW h \in DOMAIN w.watches \cup {None},
           NEW x, x = StopHandle(w, h)
    PROVE  /\ x \in Worlds /\ x.active = w.active /\ x.app = w.app /\ x.queue = w.queue
           /\ x.connects = w.connects /\ DOMAIN x.watches = DOMAIN w.watches
           /\ \A v \in DOMAIN w.watches :
                 /\ x.watches[v].view = w.watches[v].view /\ x.watches[v].ns = w.watches[v].ns
                 /\ x.watches[v].ctx = w.watches[v].ctx
                 /\ x.watches[v].state = "on" => v # h
                 /\ v # h => x.watches[v] = w.watches[v]
  <1>1. w.watches \in Seq(WatchTasks) /\ DOMAIN w.watches \subseteq Nat
    BY DEF Worlds
  <1>2. CASE h = None
    <2>1. x = w
      BY <1>2 DEF StopHandle
    <2>2. \A v \in DOMAIN w.watches : v # h
      BY <1>1, <1>2, NoneIs
    <2>3. QED
      BY <2>1, <2>2
  <1>3. CASE h \in DOMAIN w.watches
    <2> DEFINE watches2 == [w.watches EXCEPT ![h] = [w.watches[h] EXCEPT !.state = "stopped"]]
    <2>1. h # None
      BY <1>1, <1>3, NoneIs
    <2>2. x = [w EXCEPT !.watches = watches2]
      BY <1>3, <2>1 DEF StopHandle, Worlds
    <2>3. \A v \in DOMAIN w.watches : w.watches[v] \in WatchTasks
      BY <1>1, ElementOfSeq
    <2>4. [w.watches[h] EXCEPT !.state = "stopped"] \in WatchTasks
      BY <1>3, <2>3 DEF WatchTasks
    <2>5. watches2 \in Seq(WatchTasks)
      BY <1>1, <1>3, <2>4, ExceptSeq
    <2>6. /\ DOMAIN watches2 = DOMAIN w.watches
          /\ \A v \in DOMAIN w.watches :
                /\ v # h => watches2[v] = w.watches[v]
                /\ v = h => watches2[v] = [w.watches[h] EXCEPT !.state = "stopped"]
      BY <1>3
    <2> HIDE DEF watches2
    <2>7. /\ x \in Worlds /\ x.watches = watches2 /\ x.active = w.active /\ x.app = w.app
          /\ x.queue = w.queue /\ x.connects = w.connects
      BY <2>2, <2>5 DEF Worlds
    <2>8. \A v \in DOMAIN w.watches :
             /\ watches2[v].view = w.watches[v].view /\ watches2[v].ns = w.watches[v].ns
             /\ watches2[v].ctx = w.watches[v].ctx
             /\ watches2[v].state = "on" => v # h
      BY <2>3, <2>6 DEF WatchTasks
    <2>9. QED
      BY <2>6, <2>7, <2>8
  <1>4. QED
    BY <1>2, <1>3

\* A piece that starts no watch, reports none and gives the view no other handle
\* leaves the world sound, if a watch that loses its owner is stopped.
LEMMA SoundRests ==
    ASSUME NEW w, Sound(w), NEW y \in Worlds, SessionThere(y), y.queue = w.queue,
           DOMAIN y.watches = DOMAIN w.watches, y.app.next >= w.app.next,
           \A v \in DOMAIN w.watches :
              /\ y.watches[v].view = w.watches[v].view
              /\ y.watches[v].state = "on" =>
                    /\ w.watches[v].state = "on"
                    /\ w.app.pods \in PodsViews /\ w.app.pods.handle = v =>
                          y.app.pods \in PodsViews /\ y.app.pods.handle = v,
           y.app.pods \in PodsViews =>
              /\ y.app.pods.id < y.app.next /\ y.app.pods.rows \subseteq DOMAIN w.watches
              /\ \/ y.app.pods.handle = None
                 \/ /\ w.app.pods \in PodsViews /\ y.app.pods.handle = w.app.pods.handle
                    /\ y.app.pods.id = w.app.pods.id
    PROVE  Sound(y)
  <1>1. WatchesThere(y)
    BY DEF Sound, Typed, WatchesThere
  <1>2. Numbered(y)
    <2>1. w.app.next \in Nat /\ y.app.next \in Nat
      BY DEF Sound, Typed, Worlds, Apps
    <2>2. \A v \in DOMAIN w.watches : w.watches[v].view \in Nat
      BY Members DEF Sound, Typed
    <2>3. QED
      BY <2>1, <2>2 DEF Sound, Numbered
  <1>3. Told(y)
    BY DEF Sound, Typed, WatchesThere, Told
  <1>4. Held(y)
    BY DEF Sound, Typed, WatchesThere, Held
  <1>5. Owned(y)
    BY DEF Sound, Owned
  <1>6. QED
    BY <1>1, <1>2, <1>3, <1>4, <1>5 DEF Sound, Typed

\* restart_watch after stop_old: the old watch is stopped, a new one is owned.
LEMMA RestartGood ==
    ASSUME sitting \in Sittings, NEW w, Sound(w), w.app.pods \in PodsViews
    PROVE  Good(Restart(w)) /\ Restart(w).app.pods \in PodsViews
  <1> DEFINE p == w.app.pods
             x == StopHandle(w, p.handle)
             y == [x EXCEPT !.app = [x.app EXCEPT !.pods = [p EXCEPT !.handle = None, !.rows = {}]]]
  <1>1. w \in Worlds /\ w.active \in Sessions /\ p.handle \in DOMAIN w.watches \cup {None}
    BY DEF Sound, Typed, SessionThere, NeedsSession, WatchesThere
  <1>2. /\ x \in Worlds /\ x.active = w.active /\ x.app = w.app /\ x.queue = w.queue
        /\ x.connects = w.connects /\ DOMAIN x.watches = DOMAIN w.watches
        /\ \A v \in DOMAIN w.watches :
              /\ x.watches[v].view = w.watches[v].view
              /\ x.watches[v].state = "on" => v # p.handle
              /\ v # p.handle => x.watches[v] = w.watches[v]
    BY <1>1, StopHandleIs
  <1>3. Restart(w) = StartWatch(y)
    <2>1. [x EXCEPT !.app.pods.handle = None, !.app.pods.rows = {}] = y
      BY <1>2 DEF Worlds, Apps
    <2>2. QED
      BY <2>1 DEF Restart
  <1>4. [p EXCEPT !.handle = None, !.rows = {}] \in PodsViews
    BY DEF PodsViews, PodsViewsOf, Contexts, Namespaces
  <1> HIDE DEF x
  <1>5. /\ y \in Worlds /\ y.active = w.active /\ y.queue = w.queue /\ y.connects = w.connects
        /\ y.watches = x.watches /\ y.app.next = w.app.next /\ y.app.over = w.app.over
        /\ y.app.modal = w.app.modal
        /\ y.app.pods = [p EXCEPT !.handle = None, !.rows = {}]
    BY <1>1, <1>2, <1>4 DEF Worlds, Apps
  <1> HIDE DEF y
  <1>6. /\ y.app.pods \in PodsViews /\ y.app.pods.id = p.id /\ y.app.pods.handle = None
        /\ y.app.pods.rows = {}
    BY <1>4, <1>5 DEF PodsViews, PodsViewsOf, Contexts, Namespaces
  <1>7. SessionThere(y)
    BY <1>1, <1>5, <1>6 DEF SessionThere
  <1>8. p.id < w.app.next /\ w.app.next \in Nat
    BY <1>1 DEF Sound, Numbered, Worlds, Apps
  <1>9. Sound(y)
    <2>1. DOMAIN y.watches = DOMAIN w.watches /\ y.app.next >= w.app.next
      BY <1>2, <1>5, <1>8
    <2>2. \A v \in DOMAIN w.watches :
             /\ y.watches[v].view = w.watches[v].view
             /\ y.watches[v].state = "on" => w.watches[v].state = "on" /\ p.handle # v
      BY <1>2, <1>5
    <2>3. y.app.pods.id < y.app.next /\ y.app.pods.rows \subseteq DOMAIN w.watches
      BY <1>5, <1>6, <1>8
    <2>4. y \in Worlds /\ y.queue = w.queue /\ y.app.pods.handle = None
      BY <1>5, <1>6
    <2> HIDE DEF p
    <2>5. QED
      BY <1>7, <2>1, <2>2, <2>3, <2>4, SoundRests DEF p
  <1>10. StartWatch(y).app.pods \in PodsViews
    BY <1>1, <1>5, <1>6, StartWatchIs
  <1>11. QED
    BY <1>3, <1>6, <1>9, <1>10, StartWatchGood

\* sync_namespace: a view that follows another namespace by now is restarted in it.
LEMMA SyncNamespaceGood ==
    ASSUME sitting \in Sittings, NEW w, Good(w)
    PROVE  /\ Good(SyncNamespace(w))
           /\ w.app.pods \in PodsViews => SyncNamespace(w).app.pods \in PodsViews
  <1>1. CASE w.app.pods = None \/ w.app.pods.watched = w.active.ns
    BY <1>1 DEF SyncNamespace
  <1>2. CASE ~(w.app.pods = None \/ w.app.pods.watched = w.active.ns)
    <2> DEFINE p == w.app.pods
               y == [w EXCEPT !.app = [w.app EXCEPT !.pods = [p EXCEPT !.watched = w.active.ns]]]
    <2>1. w \in Worlds /\ p \in PodsViews /\ w.active \in Sessions
      <3>1. w \in Worlds
        BY DEF Good, Sound, Typed
      <3>2. p \in PodsViews
        BY <1>2, <3>1 DEF Worlds, Apps
      <3>3. QED
        BY <3>1, <3>2 DEF Good, Sound, Typed, SessionThere, NeedsSession
    <2>2. SyncNamespace(w) = Restart(y)
      <3>1. [w EXCEPT !.app.pods.watched = w.active.ns] = y
        BY <2>1 DEF Worlds, Apps
      <3>2. QED
        BY <1>2, <3>1 DEF SyncNamespace
    <2>3. [p EXCEPT !.watched = w.active.ns] \in PodsViews
      BY <2>1 DEF PodsViews, PodsViewsOf, Contexts, Namespaces, Sessions
    <2>4. /\ y \in Worlds /\ y.active = w.active /\ y.queue = w.queue
          /\ y.watches = w.watches /\ y.app.next = w.app.next
          /\ y.app.pods = [p EXCEPT !.watched = w.active.ns]
      BY <2>1, <2>3 DEF Worlds, Apps
    <2> HIDE DEF y
    <2>5. /\ y.app.pods \in PodsViews /\ y.app.pods.id = p.id /\ y.app.pods.handle = p.handle
          /\ y.app.pods.rows = p.rows
      BY <2>1, <2>3, <2>4 DEF PodsViews, PodsViewsOf, Contexts, Namespaces
    <2>6. SessionThere(y)
      BY <2>1, <2>4, <2>5 DEF SessionThere
    <2>7. p.id < w.app.next /\ w.app.next \in Nat /\ p.rows \subseteq DOMAIN w.watches
      BY <2>1 DEF Good, Sound, Numbered, Typed, WatchesThere, Worlds, Apps
    <2>8. y.app.next >= w.app.next /\ y.app.pods.id < y.app.next
      BY <2>4, <2>5, <2>7
    <2> HIDE DEF p
    <2>9. Sound(y)
      BY <2>1, <2>4, <2>5, <2>6, <2>7, <2>8, SoundRests DEF p, Good
    <2>10. QED
      BY <2>2, <2>5, <2>9, RestartGood
  <1>3. QED
    BY <1>1, <1>2

LEMMA SetNamespaceGood ==
    ASSUME sitting \in Sittings, NEW w, Good(w), w.active \in Sessions, NEW n \in Namespaces
    PROVE  /\ Good(SetNamespace(w, n))
           /\ w.app.pods \in PodsViews => SetNamespace(w, n).app.pods \in PodsViews
  <1> DEFINE y == [w EXCEPT !.active = [w.active EXCEPT !.ns = n]]
  <1>1. w \in Worlds
    BY DEF Good, Sound, Typed
  <1>2. SetNamespace(w, n) = IF w.active.ns = n THEN w ELSE SyncNamespace(y)
    <2>1. [w EXCEPT !.active.ns = n] = y
      BY <1>1 DEF Worlds
    <2>2. QED
      BY <2>1 DEF SetNamespace
  <1>3. [w.active EXCEPT !.ns = n] \in Sessions
    BY DEF Sessions
  <1>4. /\ y \in Worlds /\ y.active \in Sessions /\ y.app = w.app /\ y.queue = w.queue
        /\ y.watches = w.watches
    BY <1>1, <1>3 DEF Worlds
  <1> HIDE DEF y
  <1>5. Good(y)
    <2>1. Typed(y)
      BY <1>4 DEF Good, Sound, Typed, SessionThere, WatchesThere
    <2>2. Numbered(y) /\ Told(y) /\ Held(y) /\ Owned(y) /\ Kept(y)
      BY <1>4 DEF Good, Sound, Numbered, Told, Held, Owned, Kept
    <2>3. QED
      BY <2>1, <2>2 DEF Good, Sound
  <1>6. QED
    BY <1>2, <1>4, <1>5, SyncNamespaceGood

\* replace_views: the view that leaves stops its watch, the new one starts its own.
LEMMA ReplaceViewsGood ==
    ASSUME sitting \in Sittings, NEW w, Sound(w), w.active \in Sessions
    PROVE  /\ Good(ReplaceViews(w)) /\ ReplaceViews(w).active = w.active
           /\ ReplaceViews(w).app.pods \in PodsViews
  <1> DEFINE x == IF w.app.pods = None THEN w ELSE StopHandle(w, w.app.pods.handle)
             view == [id |-> w.app.next, watched |-> w.active.ns, handle |-> None,
                      pending |-> FALSE, rows |-> {}, picking |-> None]
             y == [x EXCEPT !.app = [x.app EXCEPT !.next = @ + 1, !.over = None, !.pods = view]]
  <1>1. w \in Worlds /\ (w.app.pods # None => w.app.pods \in PodsViews) /\ w.app.next \in Nat
    BY DEF Sound, Typed, Worlds, Apps
  <1>2. /\ x \in Worlds /\ x.active = w.active /\ x.app = w.app /\ x.queue = w.queue
        /\ DOMAIN x.watches = DOMAIN w.watches
        /\ \A v \in DOMAIN w.watches :
              /\ x.watches[v].view = w.watches[v].view
              /\ x.watches[v].state = "on" =>
                    w.watches[v].state = "on" /\ (w.app.pods # None => w.app.pods.handle # v)
    <2>1. CASE w.app.pods = None
      BY <1>1, <2>1
    <2>2. CASE w.app.pods # None
      <3>1. w.app.pods.handle \in DOMAIN w.watches \cup {None}
        BY <1>1, <2>2 DEF Sound, Typed, WatchesThere
      <3>2. QED
        BY <1>1, <2>2, <3>1, StopHandleIs
    <2>3. QED
      BY <2>1, <2>2
  <1> HIDE DEF x
  <1>3. ReplaceViews(w) = StartWatch(y)
    <2>1. [x EXCEPT !.app.next = @ + 1, !.app.over = None, !.app.pods = view] = y
      BY <1>2 DEF Worlds, Apps
    <2>2. QED
      BY <2>1 DEF ReplaceViews, x
  <1>4. view \in PodsViews /\ view.id = w.app.next /\ view.handle = None /\ view.rows = {}
    BY <1>1 DEF PodsViews, PodsViewsOf, Contexts, Namespaces, Sessions
  <1> HIDE DEF view
  <1>5. /\ y \in Worlds /\ y.active = w.active /\ y.queue = w.queue /\ y.watches = x.watches
        /\ y.app.next = w.app.next + 1 /\ y.app.pods = view
    <2> DEFINE app2 == [x.app EXCEPT !.next = @ + 1, !.over = None, !.pods = view]
    <2>1. app2 \in Apps /\ app2.next = w.app.next + 1 /\ app2.pods = view
      <3>1. x.app = w.app /\ w.app \in Apps
        BY <1>1, <1>2 DEF Worlds
      <3>2. ASSUME NEW next \in Nat
            PROVE  LET a == [w.app EXCEPT !.next = next, !.over = None, !.pods = view]
                   IN  a \in Apps /\ a.next = next /\ a.pods = view
        BY <1>4, <3>1 DEF Apps
      <3>3. app2 = [w.app EXCEPT !.next = w.app.next + 1, !.over = None, !.pods = view]
        BY <3>1
      <3>4. w.app.next + 1 \in Nat
        BY <1>1
      <3> HIDE DEF app2
      <3>5. QED
        BY <3>2, <3>3, <3>4
    <2> HIDE DEF app2
    <2>2. y = [x EXCEPT !.app = app2]
      BY DEF app2
    <2>3. QED
      BY <1>2, <2>1, <2>2 DEF Worlds
  <1> HIDE DEF y
  <1>6. SessionThere(y)
    BY <1>4, <1>5 DEF SessionThere
  <1>7. Sound(y)
    <2>1. /\ DOMAIN y.watches = DOMAIN w.watches /\ y.app.next >= w.app.next
          /\ y.app.pods.id < y.app.next /\ y.app.pods.rows \subseteq DOMAIN w.watches
          /\ y.app.pods.handle = None
      BY <1>1, <1>2, <1>4, <1>5
    <2>2. \A v \in DOMAIN w.watches :
             /\ y.watches[v].view = w.watches[v].view
             /\ y.watches[v].state = "on" =>
                   w.watches[v].state = "on" /\ (w.app.pods # None => w.app.pods.handle # v)
      BY <1>2, <1>5
    <2>3. CASE w.app.pods # None
      BY <1>5, <1>6, <2>1, <2>2, <2>3, SoundRests
    <2>4. CASE w.app.pods = None
      <3>1. w.app.pods \notin PodsViews
        BY <2>4, NoneIs
      <3>2. QED
        BY <1>5, <1>6, <2>1, <2>2, <3>1, SoundRests
    <2>5. QED
      BY <2>3, <2>4
  <1>8. y.app.pods \in PodsViews /\ y.active \in Sessions
    BY <1>4, <1>5
  <1>9. StartWatch(y).active = w.active /\ StartWatch(y).app.pods \in PodsViews
    BY <1>5, <1>8, StartWatchIs
  <1>10. QED
    BY <1>3, <1>7, <1>8, <1>9, StartWatchGood

\* A piece that leaves the queue, the watches and what the view makes of them.
LEMMA AsideGood ==
    ASSUME NEW w, Good(w), NEW y \in Worlds, SessionThere(y), y.queue = w.queue,
           y.watches = w.watches, y.app.next = w.app.next,
           \/ y.app.pods = w.app.pods
           \/ /\ w.app.pods \in PodsViews /\ y.app.pods \in PodsViews
              /\ y.app.pods.id = w.app.pods.id /\ y.app.pods.watched = w.app.pods.watched
              /\ y.app.pods.handle = w.app.pods.handle /\ y.app.pods.rows \subseteq DOMAIN w.watches
    PROVE  Good(y)
  <1>1. Sound(w) /\ Kept(w)
    BY DEF Good
  <1>2. y.app.pods \in PodsViews =>
           /\ w.app.pods \in PodsViews
           /\ y.app.pods.id = w.app.pods.id /\ y.app.pods.watched = w.app.pods.watched
           /\ y.app.pods.handle = w.app.pods.handle /\ y.app.pods.rows \subseteq DOMAIN w.watches
    BY <1>1 DEF Sound, Typed, WatchesThere
  <1>3. w.app.next \in Nat /\ (w.app.pods \in PodsViews => w.app.pods.id < w.app.next)
    BY <1>1 DEF Sound, Typed, Numbered, Worlds, Apps
  <1>4. Sound(y)
    <2>1. y.app.next >= w.app.next /\ DOMAIN y.watches = DOMAIN w.watches
      BY <1>3
    <2>2. \A v \in DOMAIN w.watches :
             /\ y.watches[v].view = w.watches[v].view
             /\ y.watches[v].state = "on" =>
                   /\ w.watches[v].state = "on"
                   /\ w.app.pods \in PodsViews /\ w.app.pods.handle = v =>
                         y.app.pods \in PodsViews /\ y.app.pods.handle = v
      BY <1>2
    <2>3. y.app.pods \in PodsViews =>
             /\ y.app.pods.id < y.app.next /\ y.app.pods.rows \subseteq DOMAIN w.watches
             /\ y.app.pods.handle = w.app.pods.handle /\ y.app.pods.id = w.app.pods.id
      BY <1>2, <1>3
    <2>4. QED
      BY <1>1, <1>2, <2>1, <2>2, <2>3, SoundRests
  <1>5. Kept(y)
    BY <1>1, <1>2 DEF Kept
  <1>6. QED
    BY <1>4, <1>5 DEF Good

\* What an update comes to is what the next state is.
LEMMA BecomesGood ==
    ASSUME sitting \in Sittings, NEW x, Good(x), Becomes(x), keys' \in [all : Nat, shells : Nat]
    PROVE  Inv'
  <1>1. x \in Worlds
    BY DEF Good, Sound, Typed
  <1>2. World' = x /\ sitting' = sitting
    BY <1>1 DEF Becomes, World, Worlds
  <1>3. Contexts' = Contexts /\ Namespaces' = Namespaces /\ PodsViews' = PodsViews
    BY <1>2 DEF Contexts, Namespaces, PodsViews, PodsViewsOf
  <1>4. Sessions' = Sessions /\ Worlds' = Worlds
    BY <1>2, <1>3 DEF Sessions, Worlds, Apps, Modals, Messages, WatchTasks, ConnectTasks,
                      FetchTasks, Deeds
  <1>5. Typed(World)'
    BY <1>2, <1>3, <1>4 DEF Good, Sound, Typed, SessionThere, NeedsSession, WatchesThere
  <1>6. Numbered(World)' /\ Told(World)' /\ Held(World)'
    BY <1>2, <1>3 DEF Good, Sound, Numbered, Told, Held
  <1>7. Owned(World)' /\ Kept(World)'
    BY <1>2, <1>3 DEF Good, Sound, Owned, Kept
  <1>8. QED
    BY <1>2, <1>5, <1>6, <1>7 DEF Inv, Good, Sound

\* The world is what the variables are.
LEMMA WorldIs ==
    /\ World.active = active /\ World.app = app /\ World.queue = queue /\ World.watches = watches
    /\ World.connects = connects /\ World.fetches = fetches /\ World.mode = mode /\ World.done = done
  BY DEF World

-----------------------------------------------------------------------------
(* Messages *)

LEMMA TailIs ==
    ASSUME NEW S, NEW s \in Seq(S), s # <<>>
    PROVE  /\ Tail(s) \in Seq(S) /\ 1 \in DOMAIN s /\ Head(s) = s[1] /\ Head(s) \in S
           /\ \A i \in DOMAIN Tail(s) : i \in Nat /\ 1 < i + 1 /\ i + 1 \in DOMAIN s /\ Tail(s)[i] = s[i + 1]
           /\ \A i \in DOMAIN s : i # 1 => i - 1 \in DOMAIN Tail(s) /\ Tail(s)[i - 1] = s[i]
  <1>1. /\ Tail(s) \in Seq(S) /\ Head(s) \in S /\ Len(s) \in Nat /\ Len(s) > 0 /\ DOMAIN s = 1..Len(s)
        /\ Len(Tail(s)) = Len(s) - 1 /\ Head(s) = s[1]
        /\ \A i \in 1..Len(s) - 1 : Tail(s)[i] = s[i + 1]
    BY HeadTailProperties
  <1>2. DOMAIN Tail(s) = 1..Len(s) - 1
    BY <1>1
  <1>3. QED
    BY <1>1, <1>2

\* The world with its first message taken.
Taken(w) == [w EXCEPT !.queue = Tail(@)]

\* The message taken owns what it reports until it is handled.
LEMMA TakenIs ==
    ASSUME NEW w, Good(w), w.queue # <<>>, NEW m, m = Head(w.queue), NEW x, x = Taken(w)
    PROVE  /\ m \in Messages
           /\ x.active = w.active /\ x.app = w.app /\ x.watches = w.watches
           /\ Typed(x) /\ Numbered(x) /\ Told(x) /\ Held(x) /\ Kept(x)
           /\ m.type # "Started" => Owned(x)
           /\ m.type \in {"Started", "Pod"} => m.watch \in DOMAIN x.watches
           /\ m.type = "Connected" /\ m.ok => w.active \in Sessions
           /\ m.type = "Started" =>
                 /\ x.watches[m.watch].view = m.view
                 /\ \A i \in DOMAIN x.queue : x.queue[i].type = "Started" => m.watch < x.queue[i].watch
                 /\ x.app.pods \in PodsViews /\ x.app.pods.handle # None => x.app.pods.handle < m.watch
                 /\ \A v \in DOMAIN x.watches : x.watches[v].state = "on" =>
                       \/ \E i \in DOMAIN x.queue : x.queue[i].type = "Started" /\ x.queue[i].watch = v
                       \/ x.app.pods \in PodsViews /\ x.app.pods.handle = v
                       \/ v = m.watch
  <1>1. w \in Worlds /\ w.queue \in Seq(Messages)
    BY DEF Good, Sound, Typed, Worlds
  <1>2. /\ Tail(w.queue) \in Seq(Messages) /\ 1 \in DOMAIN w.queue /\ m = w.queue[1] /\ m \in Messages
        /\ \A i \in DOMAIN Tail(w.queue) :
              i \in Nat /\ 1 < i + 1 /\ i + 1 \in DOMAIN w.queue /\ Tail(w.queue)[i] = w.queue[i + 1]
        /\ \A i \in DOMAIN w.queue :
              i # 1 => i - 1 \in DOMAIN Tail(w.queue) /\ Tail(w.queue)[i - 1] = w.queue[i]
    BY <1>1, TailIs
  <1>3. /\ x \in Worlds /\ x.queue = Tail(w.queue) /\ x.active = w.active /\ x.app = w.app
        /\ x.watches = w.watches /\ x.connects = w.connects
    BY <1>1, <1>2 DEF Worlds, Taken
  <1>4. /\ \A i \in DOMAIN x.queue :
              i \in Nat /\ 1 < i + 1 /\ i + 1 \in DOMAIN w.queue /\ x.queue[i] = w.queue[i + 1]
        /\ \A i \in DOMAIN w.queue : i = 1 \/ (i - 1 \in DOMAIN x.queue /\ x.queue[i - 1] = w.queue[i])
    BY <1>2, <1>3
  <1>5. Typed(x)
    BY <1>3, <1>4 DEF Good, Sound, Typed, SessionThere, NeedsSession, WatchesThere
  <1>6. Numbered(x) /\ Kept(x)
    BY <1>3 DEF Good, Sound, Numbered, Kept
  <1>7. Told(x)
    <2>1. \A i \in DOMAIN x.queue : x.queue[i].type = "Started" =>
             x.watches[x.queue[i].watch].view = x.queue[i].view
      BY <1>3, <1>4 DEF Good, Sound, Told
    <2>2. ASSUME NEW i \in DOMAIN x.queue, NEW j \in DOMAIN x.queue, i < j,
                 x.queue[i].type = "Started", x.queue[j].type = "Started"
          PROVE  x.queue[i].watch < x.queue[j].watch
      <3>1. i + 1 < j + 1
        BY <1>4, <2>2
      <3>2. QED
        BY <1>4, <2>2, <3>1 DEF Good, Sound, Told
    <2>3. QED
      BY <2>1, <2>2 DEF Told
  <1>8. Held(x)
    BY <1>3, <1>4 DEF Good, Sound, Held
  <1>9. \A v \in DOMAIN x.watches : x.watches[v].state = "on" =>
           \/ \E i \in DOMAIN x.queue : x.queue[i].type = "Started" /\ x.queue[i].watch = v
           \/ x.app.pods \in PodsViews /\ x.app.pods.handle = v
           \/ m.type = "Started" /\ v = m.watch
    <2>1. SUFFICES ASSUME NEW v \in DOMAIN x.watches, x.watches[v].state = "on",
                          NEW i \in DOMAIN w.queue, w.queue[i].type = "Started", w.queue[i].watch = v
                   PROVE  \/ \E j \in DOMAIN x.queue : x.queue[j].type = "Started" /\ x.queue[j].watch = v
                          \/ m.type = "Started" /\ v = m.watch
      BY <1>3 DEF Good, Sound, Owned
    <2>2. CASE i = 1
      BY <1>2, <2>1, <2>2
    <2>3. CASE i # 1
      <3>1. i - 1 \in DOMAIN x.queue /\ x.queue[i - 1] = w.queue[i]
        BY <1>4, <2>3
      <3>2. QED
        BY <2>1, <3>1
    <2>4. QED
      BY <2>2, <2>3
  <1>10. m.type # "Started" => Owned(x)
    BY <1>9 DEF Owned
  <1>11. /\ m.type \in {"Started", "Pod"} => m.watch \in DOMAIN x.watches
         /\ m.type = "Connected" /\ m.ok => w.active \in Sessions
    BY <1>2, <1>3 DEF Good, Sound, Typed, SessionThere, NeedsSession, WatchesThere
  <1>12. m.type = "Started" =>
            /\ x.watches[m.watch].view = m.view
            /\ \A i \in DOMAIN x.queue : x.queue[i].type = "Started" => m.watch < x.queue[i].watch
            /\ x.app.pods \in PodsViews /\ x.app.pods.handle # None => x.app.pods.handle < m.watch
    BY <1>2, <1>3, <1>4 DEF Good, Sound, Told, Held
  <1>13. QED
    BY <1>2, <1>3, <1>5, <1>6, <1>7, <1>8, <1>9, <1>10, <1>11, <1>12

\* on_started: the handle of the latest watch replaces an older one, which is stopped.
LEMMA OnStartedGood ==
    ASSUME sitting \in Sittings, NEW w, Good(w), w.queue # <<>>, Head(w.queue).type = "Started",
           w.app.pods \in PodsViews, w.app.pods.id = Head(w.queue).view
    PROVE  Good(OnStarted(Taken(w), Head(w.queue)))
  <1> DEFINE m == Head(w.queue)
             x == Taken(w)
             p == w.app.pods
             z == StopHandle(x, p.handle)
             y == [z EXCEPT !.app = [z.app EXCEPT !.pods = [p EXCEPT !.handle = m.watch, !.pending = FALSE]]]
  <1>0. m = Head(w.queue) /\ x = Taken(w)
    OBVIOUS
  <1> HIDE DEF x, m
  <1>1. /\ m \in Messages /\ m.type = "Started" /\ m.view = p.id
        /\ x.active = w.active /\ x.app = w.app /\ x.watches = w.watches
        /\ Typed(x) /\ Numbered(x) /\ Told(x) /\ Held(x) /\ Kept(x)
        /\ m.watch \in DOMAIN x.watches /\ x.watches[m.watch].view = p.id
        /\ \A i \in DOMAIN x.queue : x.queue[i].type = "Started" => m.watch < x.queue[i].watch
        /\ p.handle # None => p.handle < m.watch
        /\ \A v \in DOMAIN x.watches : x.watches[v].state = "on" =>
              \/ \E i \in DOMAIN x.queue : x.queue[i].type = "Started" /\ x.queue[i].watch = v
              \/ p.handle = v
              \/ v = m.watch
    BY <1>0, TakenIs
  <1>2. /\ x \in Worlds /\ p.handle \in DOMAIN x.watches \cup {None} /\ p.rows \subseteq DOMAIN x.watches
        /\ p \in PodsViews /\ x.active \in Sessions /\ DOMAIN x.watches \subseteq Nat
    BY <1>1, Members DEF Typed, WatchesThere, SessionThere, NeedsSession
  <1>3. /\ z \in Worlds /\ z.active = x.active /\ z.app = x.app /\ z.queue = x.queue
        /\ z.connects = x.connects /\ DOMAIN z.watches = DOMAIN x.watches
        /\ \A v \in DOMAIN x.watches :
              /\ z.watches[v].view = x.watches[v].view
              /\ z.watches[v].state = "on" => v # p.handle
              /\ v # p.handle => z.watches[v] = x.watches[v]
    BY <1>2, StopHandleIs
  <1>4. OnStarted(x, m) = y
    <2>1. [z EXCEPT !.app.pods.handle = m.watch, !.app.pods.pending = FALSE] = y
      BY ZenonT(60), <1>1, <1>3 DEF Worlds, Apps
    <2>2. QED
      BY <1>1, <2>1 DEF OnStarted
  <1>5. [p EXCEPT !.handle = m.watch, !.pending = FALSE] \in PodsViews
    BY <1>1, <1>2 DEF PodsViews, PodsViewsOf
  <1> HIDE DEF z
  <1>6. /\ y \in Worlds /\ y.active = x.active /\ y.queue = x.queue /\ y.connects = x.connects
        /\ y.watches = z.watches /\ y.app.next = x.app.next /\ y.app.over = x.app.over
        /\ y.app.pods = [p EXCEPT !.handle = m.watch, !.pending = FALSE]
    BY <1>1, <1>3, <1>5 DEF Worlds, Apps
  <1> HIDE DEF y
  <1>7. /\ y.app.pods \in PodsViews /\ y.app.pods.id = p.id /\ y.app.pods.handle = m.watch
        /\ y.app.pods.rows = p.rows /\ y.app.pods.watched = p.watched
    BY <1>2, <1>5, <1>6 DEF PodsViews, PodsViewsOf
  <1>8. Typed(y)
    <2>1. SessionThere(y)
      BY <1>2, <1>6, <1>7 DEF SessionThere
    <2>2. WatchesThere(y)
      BY <1>1, <1>2, <1>3, <1>6, <1>7 DEF Typed, WatchesThere
    <2>3. QED
      BY <1>6, <2>1, <2>2 DEF Typed
  <1>9. Numbered(y)
    BY <1>1, <1>3, <1>6, <1>7 DEF Numbered
  <1>10. Told(y)
    BY <1>1, <1>3, <1>6 DEF Told, Typed, WatchesThere
  <1>11. Held(y)
    BY <1>1, <1>3, <1>6, <1>7 DEF Held
  <1>12. Owned(y)
    BY <1>1, <1>3, <1>6, <1>7 DEF Owned
  <1>13. Kept(y)
    <2>1. PICK v \in DOMAIN x.watches :
             /\ x.watches[v].view = p.id /\ x.watches[v].state = "on"
             /\ x.watches[v].ns = p.watched
             /\ \A u \in DOMAIN x.watches : x.watches[u].view = p.id => u <= v
      BY <1>1, <1>2 DEF Kept
    <2>2. m.watch <= v /\ v \in Nat /\ m.watch \in Nat
      BY <1>1, <1>2, <2>1
    <2>3. v # p.handle
      <3>1. CASE p.handle = None
        BY <1>2, <2>2, <3>1, NoneIs
      <3>2. CASE p.handle \in DOMAIN x.watches
        <4>1. p.handle < m.watch /\ p.handle \in Nat
          BY <1>1, <1>2, <3>2, NoneIs
        <4>2. QED
          BY <2>2, <4>1
      <3>3. QED
        BY <1>2, <3>1, <3>2
    <2>4. z.watches[v] = x.watches[v]
      BY <1>3, <2>3
    <2>5. QED
      BY <1>3, <1>6, <1>7, <2>1, <2>4 DEF Kept
  <1>14. QED
    BY <1>4, <1>8, <1>9, <1>10, <1>11, <1>12, <1>13 DEF Good, Sound, x, m

\* A Started that comes when its view is gone: its watch is stopped.
LEMMA LateStartedGood ==
    ASSUME sitting \in Sittings, NEW w, Good(w), w.queue # <<>>, Head(w.queue).type = "Started",
           w.app.pods \in PodsViews => w.app.pods.id # Head(w.queue).view
    PROVE  Good(StopHandle(Taken(w), Head(w.queue).watch))
  <1> DEFINE m == Head(w.queue)
             x == Taken(w)
             y == StopHandle(x, m.watch)
  <1>0. m = Head(w.queue) /\ x = Taken(w)
    OBVIOUS
  <1> HIDE DEF x, m
  <1>1. /\ m \in Messages /\ m.type = "Started"
        /\ x.active = w.active /\ x.app = w.app /\ x.watches = w.watches
        /\ Typed(x) /\ Numbered(x) /\ Told(x) /\ Held(x) /\ Kept(x)
        /\ m.watch \in DOMAIN x.watches /\ x.watches[m.watch].view = m.view
        /\ \A v \in DOMAIN x.watches : x.watches[v].state = "on" =>
              \/ \E i \in DOMAIN x.queue : x.queue[i].type = "Started" /\ x.queue[i].watch = v
              \/ x.app.pods \in PodsViews /\ x.app.pods.handle = v
              \/ v = m.watch
    BY <1>0, TakenIs
  <1>2. x.app.pods \in PodsViews => x.app.pods.id # m.view
    BY <1>1 DEF m
  <1>3. x \in Worlds
    BY <1>1 DEF Typed
  <1>4. /\ y \in Worlds /\ y.active = x.active /\ y.app = x.app /\ y.queue = x.queue
        /\ y.connects = x.connects /\ DOMAIN y.watches = DOMAIN x.watches
        /\ \A v \in DOMAIN x.watches :
              /\ y.watches[v].view = x.watches[v].view
              /\ y.watches[v].state = "on" => v # m.watch
              /\ v # m.watch => y.watches[v] = x.watches[v]
    BY <1>1, <1>3, StopHandleIs
  <1> HIDE DEF y
  <1>5. Typed(y)
    BY <1>1, <1>4 DEF Typed, SessionThere, NeedsSession, WatchesThere
  <1>6. Numbered(y) /\ Held(y)
    BY <1>1, <1>4 DEF Numbered, Held, Typed, WatchesThere
  <1>7. Told(y)
    BY <1>1, <1>4 DEF Told, Typed, WatchesThere
  <1>8. Owned(y)
    BY <1>1, <1>4 DEF Owned
  <1>9. Kept(y)
    <2>1. SUFFICES ASSUME x.app.pods \in PodsViews PROVE Kept(y)
      BY <1>4 DEF Kept
    <2>2. PICK v \in DOMAIN x.watches :
             /\ x.watches[v].view = x.app.pods.id /\ x.watches[v].state = "on"
             /\ x.watches[v].ns = x.app.pods.watched
             /\ \A u \in DOMAIN x.watches : x.watches[u].view = x.app.pods.id => u <= v
      BY <1>1, <2>1 DEF Kept
    <2>3. v # m.watch
      BY <1>1, <1>2, <2>1, <2>2
    <2>4. y.watches[v] = x.watches[v]
      BY <1>4, <2>3
    <2>5. QED
      BY <1>4, <2>2, <2>4 DEF Kept
  <1>10. QED
    BY <1>5, <1>6, <1>7, <1>8, <1>9 DEF Good, Sound, y, x, m

Modes == {"loop", "suspended", "draining", "unreachable"}

\* A world in which the app, what was done, the fetches and the mode changed.
Shows(w, a, d, f, md) == [w EXCEPT !.app = a, !.done = d, !.fetches = f, !.mode = md]

\* A piece that changes only what the view shows, what lies over it, the modal, what is
\* fetched, what was done and the mode.
LEMMA ShowsGood ==
    ASSUME NEW w, Good(w), NEW a \in Apps, NEW d \in SUBSET Deeds, NEW f \in Seq(FetchTasks),
           NEW md \in Modes, a.next = w.app.next,
           a.modal # None => w.active \in Sessions,
           a.over \in {None, "namespaces"} => a.pods \in PodsViews,
           \/ a.pods = w.app.pods
           \/ /\ w.app.pods \in PodsViews /\ a.pods \in PodsViews
              /\ a.pods.id = w.app.pods.id /\ a.pods.watched = w.app.pods.watched
              /\ a.pods.handle = w.app.pods.handle /\ a.pods.rows \subseteq DOMAIN w.watches
    PROVE  Good(Shows(w, a, d, f, md))
  <1> DEFINE y == Shows(w, a, d, f, md)
  <1>1. w \in Worlds /\ SessionThere(w)
    BY DEF Good, Sound, Typed
  <1>2. /\ y \in Worlds /\ y.app = a /\ y.active = w.active /\ y.queue = w.queue
        /\ y.watches = w.watches /\ y.connects = w.connects
    BY <1>1 DEF Worlds, Modes, Shows
  <1> HIDE DEF y
  <1>3. SessionThere(y)
    BY <1>1, <1>2 DEF SessionThere, NeedsSession
  <1>4. Good(y)
    BY <1>2, <1>3, AsideGood
  <1>5. QED
    BY <1>4 DEF y

LEMMA OnConnectedGood ==
    ASSUME sitting \in Sittings, NEW w, Good(w), NEW m, m.ok \in BOOLEAN,
           m.ok => w.active \in Sessions
    PROVE  Good(OnConnected(w, m))
  <1> DEFINE landed == ReplaceViews(w)
  <1>1. w \in Worlds /\ SessionThere(w)
    BY DEF Good, Sound, Typed
  <1>2. CASE ~m.ok
    <2> DEFINE a == [w.app EXCEPT !.followUp = None]
    <2>1. /\ a \in Apps /\ a.next = w.app.next /\ a.modal = w.app.modal /\ a.over = w.app.over
          /\ a.pods = w.app.pods
      BY <1>1 DEF Worlds, Apps
    <2>2. w.done \in SUBSET Deeds /\ w.fetches \in Seq(FetchTasks) /\ w.mode \in Modes
      BY <1>1 DEF Worlds, Modes
    <2>3. OnConnected(w, m) = Shows(w, a, w.done, w.fetches, w.mode)
      BY <1>1, <1>2 DEF OnConnected, Worlds, Shows
    <2> HIDE DEF a
    <2>4. /\ a.modal # None => w.active \in Sessions
          /\ a.over \in {None, "namespaces"} => a.pods \in PodsViews
      BY <1>1, <2>1 DEF SessionThere, NeedsSession
    <2>5. QED
      BY <2>1, <2>2, <2>3, <2>4, ShowsGood
  <1>3. CASE m.ok
    <2>1. /\ Good(landed) /\ landed.active = w.active /\ landed.app.pods \in PodsViews
          /\ w.active \in Sessions
      BY <1>3, ReplaceViewsGood DEF Good
    <2>2. landed \in Worlds
      BY <2>1 DEF Good, Sound, Typed
    <2> HIDE DEF landed
    <2>3. landed.done \in SUBSET Deeds /\ landed.fetches \in Seq(FetchTasks) /\ landed.mode \in Modes
      BY <2>2 DEF Worlds, Modes
    <2>4. CASE w.app.followUp = None
      <3> DEFINE a == [landed.app EXCEPT !.over = "namespaces"]
      <3>1. /\ a \in Apps /\ a.next = landed.app.next /\ a.pods = landed.app.pods
        BY <2>2 DEF Worlds, Apps
      <3>2. OnConnected(w, m) = Shows(landed, a, landed.done, landed.fetches, landed.mode)
        BY <1>3, <2>2, <2>4 DEF OnConnected, Worlds, landed, Shows
      <3> HIDE DEF a
      <3>3. QED
        BY <2>1, <2>3, <3>1, <3>2, ShowsGood
    <2>5. CASE w.app.followUp # None
      <3> DEFINE a == [landed.app EXCEPT !.followUp = None]
                 d == landed.done \cup {[what |-> "followUp", of |-> w.app.followUp, on |-> w.active.ctx]}
                 y == Shows(landed, a, d, landed.fetches, landed.mode)
      <3>1. /\ a \in Apps /\ a.next = landed.app.next /\ a.pods = landed.app.pods
            /\ a.over = landed.app.over /\ a.modal = landed.app.modal
        BY <2>2 DEF Worlds, Apps
      <3>2. w.app.followUp \in Contexts
        BY <1>1, <2>5 DEF Worlds, Apps
      <3>3. d \in SUBSET Deeds
        BY <2>1, <2>3, <3>2 DEF Deeds, Sessions
      <3>4. OnConnected(w, m) = ReplaceViews(y)
        <4>1. [landed EXCEPT !.app.followUp = None, !.done = @ \cup
                 {[what |-> "followUp", of |-> w.app.followUp, on |-> w.active.ctx]}] = y
          BY <2>2 DEF Worlds, Shows
        <4>2. QED
          BY <1>3, <2>5, <4>1 DEF OnConnected, landed
      <3> HIDE DEF a, d
      <3>5. Good(y)
        BY <2>1, <2>3, <3>1, <3>3, ShowsGood
      <3>6. y.active = landed.active
        BY <2>2 DEF Worlds, Shows
      <3> HIDE DEF y
      <3>7. QED
        BY <2>1, <3>4, <3>5, <3>6, ReplaceViewsGood DEF Good
    <2>6. QED
      BY <2>4, <2>5
  <1>4. QED
    BY <1>2, <1>3

\* What the view makes of rows and of the containers of a pod.
LEMMA ToViewGood ==
    ASSUME NEW w, Good(w), NEW m \in Messages, w.app.pods \in PodsViews
    PROVE  /\ m.type = "Pod" /\ m.watch \in DOMAIN w.watches => Good(OnPod(w, m))
           /\ m.type = "Fetched" => Good(OnFetched(w, m))
  <1> DEFINE p == w.app.pods
  <1>1. w \in Worlds /\ w.active \in Sessions /\ p.rows \subseteq DOMAIN w.watches
    BY DEF Good, Sound, Typed, SessionThere, NeedsSession, WatchesThere
  <1>2. /\ w.done \in SUBSET Deeds /\ w.fetches \in Seq(FetchTasks) /\ w.mode \in Modes
        /\ w.app \in Apps
    BY <1>1 DEF Worlds, Modes
  <1>3. ASSUME NEW q \in PodsViews, q.id = p.id, q.watched = p.watched, q.handle = p.handle,
               q.rows \subseteq DOMAIN w.watches, NEW modal \in Modals \cup {None},
               NEW d \in SUBSET Deeds, NEW md \in Modes
        PROVE  Good(Shows(w, [w.app EXCEPT !.pods = q, !.modal = modal], d, w.fetches, md))
    <2> DEFINE a == [w.app EXCEPT !.pods = q, !.modal = modal]
    <2>1. a \in Apps /\ a.next = w.app.next /\ a.pods = q
      BY <1>2 DEF Apps
    <2> HIDE DEF a
    <2>2. Good(Shows(w, a, d, w.fetches, md))
      BY <1>1, <1>2, <1>3, <2>1, ShowsGood
    <2>3. QED
      BY <2>2 DEF a
  <1>4. ASSUME m.type = "Pod", m.watch \in DOMAIN w.watches PROVE Good(OnPod(w, m))
    <2> DEFINE q == [p EXCEPT !.rows = IF m.event = "Snapshot" THEN {m.watch} ELSE p.rows \cup {m.watch}]
    <2>1. /\ q \in PodsViews /\ q.id = p.id /\ q.watched = p.watched /\ q.handle = p.handle
          /\ q.rows \subseteq DOMAIN w.watches
      <3>1. DOMAIN w.watches \subseteq Nat
        BY <1>1, Members
      <3>2. QED
        BY <1>1, <1>4, <3>1 DEF PodsViews, PodsViewsOf
    <2>2. w.app.modal \in Modals \cup {None}
      BY <1>2 DEF Apps
    <2>3. OnPod(w, m) = Shows(w, [w.app EXCEPT !.pods = q, !.modal = w.app.modal], w.done, w.fetches, w.mode)
      BY <1>1, <1>2 DEF OnPod, Worlds, Apps, Shows
    <2> HIDE DEF q
    <2>4. QED
      BY <1>2, <1>3, <2>1, <2>2, <2>3
  <1>5. ASSUME m.type = "Fetched" PROVE Good(OnFetched(w, m))
    <2>1. m.of \in Contexts /\ m.view \in Nat
      BY <1>5 DEF Messages
    <2>2. CASE m.single
      <3> DEFINE q == [p EXCEPT !.picking = None]
                 d == w.done \cup {[what |-> "shell", of |-> m.of, on |-> w.active.ctx]}
                 md == IF mode = "draining" THEN "unreachable" ELSE "suspended"
      <3>1. /\ q \in PodsViews /\ q.id = p.id /\ q.watched = p.watched /\ q.handle = p.handle
            /\ q.rows \subseteq DOMAIN w.watches
        BY <1>1 DEF PodsViews, PodsViewsOf
      <3>2. w.app.modal \in Modals \cup {None}
        BY <1>2 DEF Apps
      <3>3. d \in SUBSET Deeds /\ md \in Modes
        BY <1>1, <1>2, <2>1 DEF Deeds, Sessions, Modes
      <3>4. OnFetched(w, m) = Shows(w, [w.app EXCEPT !.pods = q, !.modal = w.app.modal], d, w.fetches, md)
        BY ZenonT(60), <1>1, <1>2, <2>2 DEF OnFetched, Suspend, Worlds, Apps, Shows
      <3> HIDE DEF q, d, md
      <3>5. QED
        BY <1>3, <3>1, <3>2, <3>3, <3>4
    <2>3. CASE ~m.single
      <3> DEFINE q == [p EXCEPT !.picking = m.of]
                 modal == [kind |-> "pick", view |-> m.view, of |-> m.of]
      <3>1. /\ q \in PodsViews /\ q.id = p.id /\ q.watched = p.watched /\ q.handle = p.handle
            /\ q.rows \subseteq DOMAIN w.watches
        BY <1>1, <2>1 DEF PodsViews, PodsViewsOf, Contexts
      <3>2. modal \in Modals \cup {None}
        BY <2>1 DEF Modals
      <3>3. OnFetched(w, m) = Shows(w, [w.app EXCEPT !.pods = q, !.modal = modal], w.done, w.fetches, w.mode)
        BY <1>1, <1>2, <2>3 DEF OnFetched, Worlds, Apps, Shows
      <3> HIDE DEF q, modal
      <3>4. QED
        BY <1>2, <1>3, <3>1, <3>2, <3>3
    <2>4. QED
      BY <2>2, <2>3
  <1>6. QED
    BY <1>4, <1>5

\* A message that reports no watch is queued by its task.
LEMMA PostsGood ==
    ASSUME NEW w, Good(w), NEW y \in Worlds, SessionThere(y), NEW msg \in Messages,
           msg.type # "Started", msg.type = "Pod" => msg.watch \in DOMAIN w.watches,
           y.queue = Append(w.queue, msg), y.app = w.app, DOMAIN y.watches = DOMAIN w.watches,
           \A v \in DOMAIN w.watches : /\ y.watches[v].view = w.watches[v].view
                                       /\ y.watches[v].ns = w.watches[v].ns
                                       /\ y.watches[v].state = w.watches[v].state
    PROVE  Good(y)
  <1>1. w \in Worlds /\ w.queue \in Seq(Messages)
    BY DEF Good, Sound, Typed, Worlds
  <1>2. /\ \A i \in DOMAIN w.queue : i \in DOMAIN y.queue /\ y.queue[i] = w.queue[i]
        /\ \A i \in DOMAIN y.queue : y.queue[i] = msg \/ (i \in DOMAIN w.queue /\ y.queue[i] = w.queue[i])
    BY <1>1, AppendIs
  <1>3. \A i \in DOMAIN y.queue :
           y.queue[i].type = "Started" => i \in DOMAIN w.queue /\ y.queue[i] = w.queue[i]
    BY <1>2
  <1>4. Typed(y)
    BY <1>2 DEF Good, Sound, Typed, WatchesThere
  <1>5. Numbered(y) /\ Kept(y)
    BY DEF Good, Sound, Numbered, Kept
  <1>6. Told(y)
    BY <1>3 DEF Good, Sound, Told, Typed, WatchesThere
  <1>7. Held(y)
    BY <1>3 DEF Good, Sound, Held, Typed, WatchesThere
  <1>8. Owned(y)
    BY <1>2 DEF Good, Sound, Owned
  <1>9. QED
    BY <1>4, <1>5, <1>6, <1>7, <1>8 DEF Good, Sound

-----------------------------------------------------------------------------
(* The steps *)

\* What a step may rely on.
LEMMA WorldFacts ==
    ASSUME Inv
    PROVE  /\ sitting \in Sittings /\ keys \in [all : Nat, shells : Nat] /\ Good(World)
           /\ World \in Worlds /\ SessionThere(World) /\ WatchesThere(World)
           /\ active \in Sessions \cup {None} /\ app \in Apps /\ app.pods \in PodsViews \cup {None}
           /\ app.modal \in Modals \cup {None}
           /\ (app.pods # None \/ app.modal # None => active \in Sessions)
           /\ done \in SUBSET Deeds /\ fetches \in Seq(FetchTasks) /\ mode \in Modes
           /\ None \notin PodsViews
  <1>1. /\ sitting \in Sittings /\ keys \in [all : Nat, shells : Nat] /\ Good(World)
        /\ World \in Worlds /\ SessionThere(World) /\ WatchesThere(World)
    BY DEF Inv, Good, Sound, Typed
  <1>2. /\ active \in Sessions \cup {None} /\ app \in Apps /\ done \in SUBSET Deeds
        /\ fetches \in Seq(FetchTasks) /\ mode \in Modes
    BY <1>1, WorldIs DEF Worlds, Modes
  <1>3. app.pods \in PodsViews \cup {None} /\ app.modal \in Modals \cup {None}
    BY <1>2 DEF Apps
  <1>4. app.pods # None \/ app.modal # None => active \in Sessions
    BY <1>1, <1>3, WorldIs DEF SessionThere, NeedsSession
  <1>5. QED
    BY <1>1, <1>2, <1>3, <1>4, NoneIs

\* Whatever message the loop takes, and whether its view is still there or not
LEMMA TakeKeeps == Inv /\ Take => Inv'
  <1> SUFFICES ASSUME Inv, Take PROVE Inv'
    OBVIOUS
  <1> DEFINE m == Head(queue)
             x == Taken(World)
  <1>1. /\ sitting \in Sittings /\ keys \in [all : Nat, shells : Nat] /\ Good(World)
        /\ app.pods \in PodsViews \cup {None} /\ None \notin PodsViews
    BY WorldFacts
  <1>2. queue # <<>> /\ Becomes(Handle(x, m)) /\ keys' = keys
    BY DEF Take, Taken
  <1>3. /\ World.queue = queue /\ World.app = app /\ World.active = active /\ World.watches = watches
    BY WorldIs
  <1>4. /\ m \in Messages
        /\ x.active = active /\ x.app = app /\ x.watches = watches
        /\ Typed(x) /\ Numbered(x) /\ Told(x) /\ Held(x) /\ Kept(x)
        /\ m.type # "Started" => Owned(x)
        /\ m.type \in {"Started", "Pod"} => m.watch \in DOMAIN x.watches
        /\ m.type = "Connected" /\ m.ok => active \in Sessions
    BY <1>1, <1>2, <1>3, TakenIs
  <1>5. m.type # "Started" => Good(x)
    BY <1>4 DEF Good, Sound
  <1> HIDE DEF x, m
  <1>6. OnStack(m.view) <=> app.pods \in PodsViews /\ app.pods.id = m.view
    BY <1>1 DEF OnStack
  <1>7. Good(Handle(x, m))
    <2>1. CASE m.type = "Connected"
      <3>1. Handle(x, m) = OnConnected(x, m)
        BY <2>1 DEF Handle
      <3>2. m.ok \in BOOLEAN
        BY <1>4, <2>1 DEF Messages
      <3>3. QED
        BY <1>1, <1>4, <1>5, <2>1, <3>1, <3>2, OnConnectedGood
    <2>2. CASE m.type = "Started"
      <3>1. CASE OnStack(m.view)
        <4>1. Handle(x, m) = OnStarted(x, m)
          BY <2>2, <3>1 DEF Handle
        <4>2. QED
          BY <1>1, <1>2, <1>3, <1>6, <2>2, <3>1, <4>1, OnStartedGood DEF x, m
      <3>2. CASE ~OnStack(m.view)
        <4>1. Handle(x, m) = StopHandle(x, m.watch)
          BY <2>2, <3>2 DEF Handle
        <4>2. QED
          BY <1>1, <1>2, <1>3, <1>6, <2>2, <3>2, <4>1, LateStartedGood DEF x, m
      <3>3. QED
        BY <3>1, <3>2
    <2>3. CASE m.type = "Pod"
      <3>1. Handle(x, m) = IF OnStack(m.view) THEN OnPod(x, m) ELSE x
        BY <2>3 DEF Handle
      <3>2. QED
        BY <1>4, <1>5, <1>6, <2>3, <3>1, ToViewGood
    <2>4. CASE m.type = "Fetched"
      <3>1. Handle(x, m) = IF OnStack(m.view) THEN OnFetched(x, m) ELSE x
        BY <2>4 DEF Handle
      <3>2. QED
        BY <1>4, <1>5, <1>6, <2>4, <3>1, ToViewGood
    <2>5. m.type \in {"Connected", "Started", "Pod", "Fetched"}
      BY <1>4 DEF Messages
    <2>6. QED
      BY <2>1, <2>2, <2>3, <2>4, <2>5
  <1>8. QED
    BY <1>1, <1>2, <1>7, BecomesGood

LEMMA TickKeeps == Inv /\ Tick => Inv'
  <1> SUFFICES ASSUME Inv, Tick PROVE Inv'
    OBVIOUS
  <1>1. /\ sitting \in Sittings /\ keys \in [all : Nat, shells : Nat] /\ Good(World)
        /\ app.pods \in PodsViews /\ World.app = app /\ keys' = keys
    BY WorldFacts, WorldIs DEF Tick
  <1>2. Good(StartWatch(World)) /\ Good(SyncNamespace(World))
    BY <1>1, StartWatchGood, SyncNamespaceGood DEF Good
  <1>3. Becomes(StartWatch(World)) \/ Becomes(SyncNamespace(World))
    BY DEF Tick
  <1>4. QED
    BY <1>1, <1>2, <1>3, BecomesGood

\* A step that changes only what is shown, fetched and done.
LEMMA ShowsKeeps ==
    ASSUME Inv, NEW a \in Apps, NEW d \in SUBSET Deeds, NEW f \in Seq(FetchTasks), NEW md \in Modes,
           Becomes(Shows(World, a, d, f, md)), keys' \in [all : Nat, shells : Nat],
           a.next = app.next, a.modal # None => active \in Sessions,
           a.over \in {None, "namespaces"} => a.pods \in PodsViews,
           \/ a.pods = app.pods
           \/ /\ app.pods \in PodsViews /\ a.pods \in PodsViews
              /\ a.pods.id = app.pods.id /\ a.pods.watched = app.pods.watched
              /\ a.pods.handle = app.pods.handle /\ a.pods.rows = app.pods.rows
    PROVE  Inv'
  <1>1. /\ sitting \in Sittings /\ Good(World) /\ WatchesThere(World) /\ World.app = app
        /\ World.active = active /\ World.watches = watches
    BY WorldFacts, WorldIs
  <1>2. app.pods \in PodsViews => app.pods.rows \subseteq DOMAIN watches
    BY <1>1 DEF WatchesThere
  <1>3. Good(Shows(World, a, d, f, md))
    BY <1>1, <1>2, ShowsGood
  <1>4. QED
    BY <1>1, <1>3, BecomesGood

LEMMA PressIs ==
    ASSUME keys \in [all : Nat, shells : Nat], Press
    PROVE  keys' \in [all : Nat, shells : Nat]
  BY DEF Press

\* `:ctx` and `<kind> @ctx`
LEMMA CommandContextKeeps ==
    ASSUME Inv, NEW c \in Contexts, CommandContext(c) \/ CommandPodsAt(c)
    PROVE  Inv'
  <1> DEFINE task == [ctx |-> c, state |-> "connecting"]
  <1>1. /\ sitting \in Sittings /\ Good(World) /\ keys' \in [all : Nat, shells : Nat]
        /\ World \in Worlds /\ SessionThere(World) /\ None \notin PodsViews
    BY WorldFacts, PressIs DEF CommandContext, CommandPodsAt
  <1>2. task \in ConnectTasks /\ task.state = "connecting"
    BY DEF ConnectTasks
  <1>3. ASSUME NEW followUp \in Contexts \cup {None}, NEW y,
               y = [World EXCEPT !.app = [World.app EXCEPT !.followUp = followUp],
                                 !.connects = Append(World.connects, task)]
        PROVE  Good(y)
    <2> HIDE DEF task
    <2>1. World.connects \in Seq(ConnectTasks) /\ World.app \in Apps
      BY <1>1 DEF Worlds
    <2>2. /\ Append(World.connects, task) \in Seq(ConnectTasks)
          /\ \A i \in DOMAIN Append(World.connects, task) :
                \/ i \in DOMAIN World.connects /\ Append(World.connects, task)[i] = World.connects[i]
                \/ Append(World.connects, task)[i] = task
      BY <1>2, <2>1, AppendIs
    <2> DEFINE a == [World.app EXCEPT !.followUp = followUp]
    <2>3. /\ a \in Apps /\ a.next = World.app.next /\ a.pods = World.app.pods
          /\ a.modal = World.app.modal /\ a.over = World.app.over
      BY <2>1 DEF Apps
    <2> HIDE DEF a
    <2>4. y = [World EXCEPT !.app = a, !.connects = Append(World.connects, task)]
      BY <1>3 DEF a
    <2>5. /\ y \in Worlds /\ y.app = a /\ y.active = World.active /\ y.queue = World.queue
          /\ y.watches = World.watches /\ y.connects = Append(World.connects, task)
      BY <1>1, <2>2, <2>3, <2>4 DEF Worlds
    <2>6. SessionThere(y)
      BY <1>1, <1>2, <2>2, <2>3, <2>5 DEF SessionThere, NeedsSession
    <2>7. QED
      BY <1>1, <2>3, <2>5, <2>6, AsideGood
  <1>4. CASE CommandContext(c)
    <2> DEFINE y == [World EXCEPT !.connects = Append(@, task)]
    <2>1. World.app.followUp \in Contexts \cup {None} /\ World.app \in Apps
      BY <1>1 DEF Worlds, Apps
    <2>2. y = [World EXCEPT !.app = [World.app EXCEPT !.followUp = World.app.followUp],
                            !.connects = Append(World.connects, task)]
      BY <1>1, <2>1 DEF Worlds, Apps
    <2>3. Becomes(y)
      BY <1>4 DEF CommandContext
    <2> HIDE DEF y, task
    <2>4. Good(y)
      BY <1>3, <2>1, <2>2
    <2>5. QED
      BY <1>1, <2>3, <2>4, BecomesGood
  <1>5. CASE CommandPodsAt(c)
    <2> DEFINE y == [World EXCEPT !.app.followUp = c, !.connects = Append(@, task)]
    <2>1. y = [World EXCEPT !.app = [World.app EXCEPT !.followUp = c],
                            !.connects = Append(World.connects, task)]
      BY <1>1 DEF Worlds, Apps
    <2>2. Becomes(y)
      BY <1>5 DEF CommandPodsAt
    <2> HIDE DEF y, task
    <2>3. Good(y)
      BY <1>3, <2>1
    <2>4. QED
      BY <1>1, <2>2, <2>3, BecomesGood
  <1>6. QED
    BY <1>4, <1>5

\* The keys that change the view or its watch
LEMMA NavigateKeeps ==
    ASSUME Inv, CommandPods \/ Filter \/ \E n \in Namespaces : CommandNamespace(n) \/ PickNamespace(n)
    PROVE  Inv'
  <1>1. /\ sitting \in Sittings /\ Good(World) /\ keys' \in [all : Nat, shells : Nat]
        /\ SessionThere(World) /\ World.app = app /\ World.active = active
        /\ active \in Sessions \cup {None}
    BY WorldFacts, WorldIs, PressIs DEF CommandPods, Filter, CommandNamespace, PickNamespace
  <1>2. CASE CommandPods
    <2>1. active \in Sessions /\ Becomes(ReplaceViews(World))
      BY <1>1, <1>2 DEF CommandPods
    <2>2. Good(ReplaceViews(World))
      BY <1>1, <2>1, ReplaceViewsGood DEF Good
    <2>3. QED
      BY <1>1, <2>1, <2>2, BecomesGood
  <1>3. CASE Filter
    <2>1. app.pods \in PodsViews /\ Becomes(Restart(World))
      BY <1>1, <1>3 DEF Filter, SessionThere
    <2>2. Good(Restart(World))
      BY <1>1, <2>1, RestartGood DEF Good
    <2>3. QED
      BY <1>1, <2>1, <2>2, BecomesGood
  <1>4. ASSUME NEW n \in Namespaces, CommandNamespace(n) PROVE Inv'
    <2>1. active \in Sessions /\ Becomes(SetNamespace(World, n))
      BY <1>1, <1>4 DEF CommandNamespace
    <2>2. Good(SetNamespace(World, n))
      BY <1>1, <2>1, SetNamespaceGood
    <2>3. QED
      BY <1>1, <2>1, <2>2, BecomesGood
  <1>5. ASSUME NEW n \in Namespaces, PickNamespace(n) PROVE Inv'
    <2> DEFINE x == SetNamespace(World, n)
               a == [x.app EXCEPT !.over = None]
    <2>1. app.pods \in PodsViews /\ active \in Sessions /\ Becomes([x EXCEPT !.app.over = None])
      BY <1>1, <1>5 DEF PickNamespace, SessionThere, NeedsSession
    <2>2. Good(x) /\ x.app.pods \in PodsViews
      BY <1>1, <2>1, SetNamespaceGood
    <2> HIDE DEF x
    <2>3. x \in Worlds /\ x.active \in Sessions
      BY <2>2 DEF Good, Sound, Typed, SessionThere, NeedsSession
    <2>4. /\ x.app \in Apps /\ x.done \in SUBSET Deeds /\ x.fetches \in Seq(FetchTasks)
          /\ x.mode \in Modes
      BY <2>3 DEF Worlds, Modes
    <2>5. a \in Apps /\ a.next = x.app.next /\ a.pods = x.app.pods
      BY <2>4 DEF Apps
    <2>6. [x EXCEPT !.app.over = None] = Shows(x, a, x.done, x.fetches, x.mode)
      BY <2>3 DEF Shows, Worlds
    <2> HIDE DEF a
    <2>7. Good(Shows(x, a, x.done, x.fetches, x.mode))
      BY <2>2, <2>3, <2>4, <2>5, ShowsGood
    <2>8. QED
      BY <1>1, <2>1, <2>6, <2>7, BecomesGood
  <1>6. QED
    BY <1>2, <1>3, <1>4, <1>5

\* The keys that act on a row, and the modals
LEMMA RowKeyKeeps ==
    ASSUME Inv,
           \/ Escape \/ ConfirmDelete \/ PickContainer \/ CancelModal
           \/ app.pods # None /\ \E i \in app.pods.rows : AskDelete(i) \/ Kill(i) \/ Shell(i)
    PROVE  Inv'
  <1>1. /\ sitting \in Sittings /\ Good(World) /\ keys \in [all : Nat, shells : Nat]
        /\ World \in Worlds /\ SessionThere(World) /\ WatchesThere(World)
        /\ active \in Sessions \cup {None} /\ app \in Apps /\ app.pods \in PodsViews \cup {None}
        /\ app.modal \in Modals \cup {None}
        /\ (app.pods # None \/ app.modal # None => active \in Sessions)
        /\ done \in SUBSET Deeds /\ fetches \in Seq(FetchTasks) /\ mode \in Modes
        /\ None \notin PodsViews
    BY WorldFacts
  <1>2. /\ World.active = active /\ World.app = app /\ World.watches = watches
        /\ World.fetches = fetches /\ World.mode = mode /\ World.done = done
    BY WorldIs
  <1>3. /\ app.over \in {None, "namespaces"} => app.pods \in PodsViews
        /\ app.pods # None => app.pods.rows \subseteq DOMAIN watches
    BY <1>1, <1>2 DEF SessionThere, WatchesThere
  <1>4. Press => keys' \in [all : Nat, shells : Nat]
    BY <1>1, PressIs
  <1>5. CASE Escape
    <2> DEFINE a == [app EXCEPT !.over = None]
    <2>1. a \in Apps /\ a.next = app.next /\ a.pods = app.pods /\ a.modal = app.modal
      BY <1>1 DEF Apps
    <2>2. [World EXCEPT !.app.over = None] = Shows(World, a, done, fetches, mode)
      BY <1>1, <1>2 DEF Shows, Worlds
    <2> HIDE DEF a
    <2>3. Becomes(Shows(World, a, done, fetches, mode)) /\ app.pods # None /\ Press
      BY <1>5, <2>2 DEF Escape
    <2>4. QED
      BY <1>1, <1>4, <2>1, <2>3, ShowsKeeps
  <1>6. ASSUME NEW modal \in Modals \cup {None}, NEW d \in SUBSET Deeds, NEW f \in Seq(FetchTasks),
               modal # None => active \in Sessions, keys' \in [all : Nat, shells : Nat],
               Becomes(Shows(World, [app EXCEPT !.modal = modal], d, f, mode))
        PROVE  Inv'
    <2> DEFINE a == [app EXCEPT !.modal = modal]
    <2>1. a \in Apps /\ a.next = app.next /\ a.pods = app.pods /\ a.modal = modal /\ a.over = app.over
      BY <1>1 DEF Apps
    <2> HIDE DEF a
    <2>2. QED
      BY <1>1, <1>3, <1>6, <2>1, ShowsKeeps DEF a
  <1>7. CASE ConfirmDelete
    <2> DEFINE d == done \cup {[what |-> "delete", of |-> app.modal.of, on |-> active.ctx]}
    <2>1. active \in Sessions /\ app.modal \in Modals
      BY <1>1, <1>7 DEF ConfirmDelete, NoModal
    <2>2. d \in SUBSET Deeds
      BY <1>1, <2>1 DEF Deeds, Sessions, Modals
    <2>3. Deleted([World EXCEPT !.app.modal = None], app.modal.of) =
             Shows(World, [app EXCEPT !.modal = None], d, fetches, mode)
      BY <1>1, <1>2 DEF Deleted, Shows, Worlds
    <2> HIDE DEF d
    <2>4. Becomes(Shows(World, [app EXCEPT !.modal = None], d, fetches, mode)) /\ Press
      BY <1>7, <2>3 DEF ConfirmDelete
    <2>5. QED
      BY <1>1, <1>4, <1>6, <2>2, <2>4
  <1>8. ASSUME NEW i \in app.pods.rows, app.pods # None, AskDelete(i) PROVE Inv'
    <2> DEFINE modal == [kind |-> "delete", view |-> app.pods.id, of |-> watches[i].ctx]
    <2>1. watches[i].ctx \in Contexts
      BY <1>1, <1>2, <1>3, <1>8, Members DEF WatchTasks
    <2>2. modal \in Modals \cup {None}
      BY <1>1, <1>8, <2>1 DEF Modals, PodsViews, PodsViewsOf
    <2>3. [World EXCEPT !.app.modal = modal] =
             Shows(World, [app EXCEPT !.modal = modal], done, fetches, mode)
      BY <1>1, <1>2 DEF Shows, Worlds
    <2>4. Becomes([World EXCEPT !.app.modal = modal]) /\ Press
      BY <1>8 DEF AskDelete
    <2> HIDE DEF modal
    <2>5. QED
      BY <1>1, <1>4, <1>6, <1>8, <2>2, <2>3, <2>4
  <1>9. app = [app EXCEPT !.modal = app.modal]
    BY <1>1 DEF Apps
  <1>10. ASSUME NEW i \in app.pods.rows, app.pods # None, Kill(i) PROVE Inv'
    <2> DEFINE d == done \cup {[what |-> "delete", of |-> watches[i].ctx, on |-> active.ctx]}
    <2>1. watches[i].ctx \in Contexts
      BY <1>1, <1>2, <1>3, <1>10, Members DEF WatchTasks
    <2>2. d \in SUBSET Deeds
      BY <1>1, <1>10, <2>1 DEF Deeds, Sessions
    <2>3. Deleted(World, watches[i].ctx) = Shows(World, app, d, fetches, mode)
      BY <1>1, <1>2 DEF Deleted, Shows, Worlds
    <2> HIDE DEF d
    <2>4. Becomes(Shows(World, app, d, fetches, mode)) /\ Press
      BY <1>10, <2>3 DEF Kill
    <2>5. QED
      BY <1>1, <1>3, <1>4, <2>2, <2>4, ShowsKeeps
  <1>11. ASSUME NEW i \in app.pods.rows, app.pods # None, Shell(i) PROVE Inv'
    <2> DEFINE fetch == [view |-> app.pods.id, of |-> watches[i].ctx, state |-> "under way"]
               f == Append(fetches, fetch)
    <2>1. watches[i].ctx \in Contexts
      BY <1>1, <1>2, <1>3, <1>11, Members DEF WatchTasks
    <2>2. fetch \in FetchTasks
      BY <1>1, <1>11, <2>1 DEF FetchTasks, PodsViews, PodsViewsOf
    <2>3. f \in Seq(FetchTasks)
      <3> HIDE DEF fetch
      <3>1. QED
        BY <1>1, <2>2
    <2>4. [World EXCEPT !.fetches = Append(@, [view |-> app.pods.id, of |-> watches[i].ctx,
                                               state |-> "under way"])]
             = Shows(World, app, done, f, mode)
      BY <1>1, <1>2 DEF Shows, Worlds
    <2>5. Becomes(Shows(World, app, done, f, mode)) /\ keys' = [keys EXCEPT !.shells = @ + 1]
      BY <1>11, <2>4 DEF Shell
    <2> HIDE DEF f
    <2>6. keys' \in [all : Nat, shells : Nat]
      BY <1>1, <2>5
    <2>7. QED
      BY <1>1, <1>3, <2>3, <2>5, <2>6, ShowsKeeps
  <1>12. ASSUME NEW d \in SUBSET Deeds, NEW md \in Modes, app.pods \in PodsViews, Press,
                Becomes(Shows(World, [app EXCEPT !.modal = None,
                                                 !.pods = [app.pods EXCEPT !.picking = None]],
                              d, fetches, md))
         PROVE  Inv'
    <2> DEFINE q == [app.pods EXCEPT !.picking = None]
               a == [app EXCEPT !.modal = None, !.pods = q]
    <2>1. /\ q \in PodsViews /\ q.id = app.pods.id /\ q.watched = app.pods.watched
          /\ q.handle = app.pods.handle /\ q.rows = app.pods.rows
      BY <1>12 DEF PodsViews, PodsViewsOf
    <2> HIDE DEF q
    <2>2. a \in Apps /\ a.next = app.next /\ a.pods = q /\ a.modal = None /\ a.over = app.over
      BY <1>1, <2>1 DEF Apps
    <2> HIDE DEF a
    <2>3. QED
      BY <1>1, <1>4, <1>12, <2>1, <2>2, ShowsKeeps DEF a, q
  <1>13. [World EXCEPT !.app.modal = None] = Shows(World, [app EXCEPT !.modal = None], done, fetches, mode)
    BY <1>1, <1>2 DEF Shows, Worlds
  <1>14. CASE PickContainer
    <2>1. app.modal \in Modals /\ active \in Sessions /\ Press
      BY <1>1, <1>14 DEF PickContainer, NoModal
    <2>2. CASE OnStack(app.modal.view) /\ app.pods.picking # None
      <3> DEFINE d == done \cup {[what |-> "shell", of |-> app.pods.picking, on |-> active.ctx]}
                 md == IF mode = "draining" THEN "unreachable" ELSE "suspended"
                 x == [World EXCEPT !.app.modal = None]
      <3>1. app.pods \in PodsViews /\ app.pods.picking \in Contexts
        BY <1>1, <2>2 DEF OnStack, PodsViews, PodsViewsOf, Contexts
      <3>2. d \in SUBSET Deeds /\ md \in Modes
        BY <1>1, <2>1, <3>1 DEF Deeds, Sessions, Modes
      <3>3. Suspend([x EXCEPT !.app.pods.picking = None], app.pods.picking) =
               Shows(World, [app EXCEPT !.modal = None, !.pods = [app.pods EXCEPT !.picking = None]],
                     d, fetches, md)
        BY <1>1, <1>2 DEF Suspend, Shows, Worlds, Apps
      <3>4. Becomes(Suspend([x EXCEPT !.app.pods.picking = None], app.pods.picking))
        BY <1>14, <2>2 DEF PickContainer
      <3> HIDE DEF d, md, x
      <3>5. QED
        BY <1>12, <2>1, <3>1, <3>2, <3>3, <3>4
    <2>3. CASE ~(OnStack(app.modal.view) /\ app.pods.picking # None)
      <3>1. Becomes([World EXCEPT !.app.modal = None])
        BY <1>14, <2>3 DEF PickContainer
      <3>2. Becomes(Shows(World, [app EXCEPT !.modal = None], done, fetches, mode))
        BY <1>13, <3>1
      <3>3. QED
        BY <1>1, <1>4, <1>6, <2>1, <3>2
    <2>4. QED
      BY <2>2, <2>3
  <1>15. CASE CancelModal
    <2>1. Press
      BY <1>15 DEF CancelModal
    <2>2. CASE app.modal.kind = "pick" /\ OnStack(app.modal.view)
      <3>1. app.pods \in PodsViews
        BY <1>1, <2>2 DEF OnStack
      <3>2. [World EXCEPT !.app.modal = None, !.app.pods.picking = None] =
               Shows(World, [app EXCEPT !.modal = None, !.pods = [app.pods EXCEPT !.picking = None]],
                     done, fetches, mode)
        BY <1>1, <1>2 DEF Shows, Worlds, Apps
      <3>3. Becomes([World EXCEPT !.app.modal = None, !.app.pods.picking = None])
        BY <1>15, <2>2 DEF CancelModal
      <3>4. QED
        BY <1>1, <1>12, <2>1, <3>1, <3>2, <3>3
    <2>3. CASE ~(app.modal.kind = "pick" /\ OnStack(app.modal.view))
      <3>1. Becomes([World EXCEPT !.app.modal = None])
        BY <1>15, <2>3 DEF CancelModal
      <3>2. Becomes(Shows(World, [app EXCEPT !.modal = None], done, fetches, mode))
        BY <1>13, <3>1
      <3>3. QED
        BY <1>1, <1>4, <1>6, <2>1, <3>2
    <2>4. QED
      BY <2>2, <2>3
  <1>16. QED
    BY <1>5, <1>7, <1>8, <1>10, <1>11, <1>14, <1>15

\* A shell comes and goes.
LEMMA ModeKeeps == Inv /\ (Resume \/ Drained) => Inv'
  <1> SUFFICES ASSUME Inv, Resume \/ Drained PROVE Inv'
    OBVIOUS
  <1>1. /\ keys \in [all : Nat, shells : Nat] /\ World \in Worlds /\ app \in Apps
        /\ done \in SUBSET Deeds /\ fetches \in Seq(FetchTasks) /\ SessionThere(World)
        /\ (app.modal # None => active \in Sessions)
    BY WorldFacts
  <1>2. /\ World.app = app /\ World.fetches = fetches /\ World.done = done
    BY WorldIs
  <1>3. app.over \in {None, "namespaces"} => app.pods \in PodsViews
    BY <1>1, <1>2 DEF SessionThere
  <1>4. ASSUME NEW md \in Modes, Becomes([World EXCEPT !.mode = md]), keys' = keys PROVE Inv'
    <2>1. [World EXCEPT !.mode = md] = Shows(World, app, done, fetches, md)
      BY <1>1, <1>2 DEF Shows, Worlds
    <2>2. Becomes(Shows(World, app, done, fetches, md))
      BY <1>4, <2>1
    <2>3. QED
      BY <1>1, <1>3, <1>4, <2>2, ShowsKeeps
  <1>5. {"draining", "loop"} \subseteq Modes
    BY DEF Modes
  <1>6. QED
    BY <1>4, <1>5 DEF Resume, Drained

\* connect_one makes its context the active one, and reports that later.
LEMMA ConnectKeeps ==
    ASSUME Inv, NEW i \in DOMAIN connects, ConnectDone(i) \/ ConnectFails(i) \/ ConnectReports(i)
    PROVE  Inv'
  <1>1. /\ sitting \in Sittings /\ Good(World) /\ keys \in [all : Nat, shells : Nat]
        /\ World \in Worlds /\ SessionThere(World) /\ World.connects = connects
        /\ World.active = active /\ World.queue = queue
    BY WorldFacts, WorldIs
  <1>2. /\ connects \in Seq(ConnectTasks) /\ connects[i] \in ConnectTasks
        /\ queue \in Seq(Messages)
    BY <1>1, Members
  <1>3. ASSUME NEW state \in {"connecting", "active", "failed", "done"}, NEW cs,
               cs = [connects EXCEPT ![i] = [connects[i] EXCEPT !.state = state]]
        PROVE  /\ cs \in Seq(ConnectTasks) /\ DOMAIN cs = DOMAIN connects /\ cs[i].state = state
               /\ \A j \in DOMAIN connects : j # i => cs[j] = connects[j]
    <2> DEFINE task == [connects[i] EXCEPT !.state = state]
    <2>1. task \in ConnectTasks /\ task.state = state
      BY <1>2, <1>3 DEF ConnectTasks
    <2>2. cs = [connects EXCEPT ![i] = task]
      BY <1>3
    <2> HIDE DEF task
    <2>3. QED
      BY <1>2, <2>1, <2>2, ExceptSeq
  <1>4. CASE ConnectDone(i)
    <2>1. PICK n \in Namespaces :
             Becomes([World EXCEPT !.active = [ctx |-> connects[i].ctx, ns |-> n],
                                   !.connects[i].state = "active"])
      BY <1>4 DEF ConnectDone
    <2> DEFINE cs == [connects EXCEPT ![i] = [connects[i] EXCEPT !.state = "active"]]
               session == [ctx |-> connects[i].ctx, ns |-> n]
               y == [World EXCEPT !.active = session, !.connects = cs]
    <2>2. cs \in Seq(ConnectTasks) /\ session \in Sessions
      BY <1>2, <1>3 DEF ConnectTasks, Sessions
    <2>3. [World EXCEPT !.active = [ctx |-> connects[i].ctx, ns |-> n],
                        !.connects[i].state = "active"] = y
      BY <1>1, <1>2 DEF Worlds
    <2> HIDE DEF cs, session
    <2>4. /\ y \in Worlds /\ y.active = session /\ y.app = World.app /\ y.queue = World.queue
          /\ y.watches = World.watches
      BY <1>1, <2>2 DEF Worlds
    <2> HIDE DEF y
    <2>5. SessionThere(y)
      BY <1>1, <2>2, <2>4 DEF SessionThere
    <2>6. Good(y)
      BY <1>1, <2>4, <2>5, AsideGood
    <2>7. keys' = keys
      BY <1>4 DEF ConnectDone
    <2>8. QED
      BY <1>1, <2>1, <2>3, <2>6, <2>7, BecomesGood
  <1>5. CASE ConnectFails(i)
    <2> DEFINE cs == [connects EXCEPT ![i] = [connects[i] EXCEPT !.state = "failed"]]
               y == [World EXCEPT !.connects = cs]
    <2>1. /\ cs \in Seq(ConnectTasks) /\ DOMAIN cs = DOMAIN connects /\ cs[i].state = "failed"
          /\ \A j \in DOMAIN connects : j # i => cs[j] = connects[j]
      BY <1>3
    <2>2. Becomes(y) /\ keys' = keys
      <3>1. [World EXCEPT !.connects[i].state = "failed"] = y
        BY <1>1, <1>2 DEF Worlds
      <3>2. QED
        BY <1>5, <3>1 DEF ConnectFails
    <2> HIDE DEF cs
    <2>3. /\ y \in Worlds /\ y.active = World.active /\ y.app = World.app /\ y.queue = World.queue
          /\ y.watches = World.watches /\ y.connects = cs
      BY <1>1, <2>1 DEF Worlds
    <2> HIDE DEF y
    <2>4. SessionThere(y)
      BY <1>1, <2>1, <2>3 DEF SessionThere, NeedsSession
    <2>5. Good(y)
      BY <1>1, <2>3, <2>4, AsideGood
    <2>6. QED
      BY <1>1, <2>2, <2>5, BecomesGood
  <1>6. CASE ConnectReports(i)
    <2> DEFINE cs == [connects EXCEPT ![i] = [connects[i] EXCEPT !.state = "done"]]
               msg == [type |-> "Connected", ok |-> connects[i].state = "active"]
               y == [World EXCEPT !.connects = cs, !.queue = Append(queue, msg)]
    <2>1. /\ cs \in Seq(ConnectTasks) /\ DOMAIN cs = DOMAIN connects /\ cs[i].state = "done"
          /\ \A j \in DOMAIN connects : j # i => cs[j] = connects[j]
      BY <1>3
    <2>2. msg \in Messages /\ msg.type = "Connected" /\ (msg.ok <=> connects[i].state = "active")
      BY DEF Messages
    <2>3. Becomes(y) /\ keys' = keys
      <3>1. [World EXCEPT !.connects[i].state = "done",
                          !.queue = Append(@, [type |-> "Connected", ok |-> connects[i].state = "active"])] = y
        BY <1>1, <1>2 DEF Worlds
      <3>2. QED
        BY <1>6, <3>1 DEF ConnectReports
    <2> HIDE DEF cs, msg
    <2>4. /\ Append(queue, msg) \in Seq(Messages)
          /\ \A j \in DOMAIN Append(queue, msg) :
                \/ j \in DOMAIN queue /\ Append(queue, msg)[j] = queue[j]
                \/ Append(queue, msg)[j] = msg
      BY <1>2, <2>2, AppendIs
    <2>5. /\ y \in Worlds /\ y.active = active /\ y.app = World.app /\ y.queue = Append(queue, msg)
          /\ y.watches = World.watches /\ y.connects = cs
      BY <1>1, <2>1, <2>4 DEF Worlds
    <2> HIDE DEF y
    <2>6. SessionThere(y)
      <3>1. SUFFICES ASSUME NeedsSession(y) PROVE active \in Sessions
        BY <1>1, <2>5 DEF SessionThere
      <3>2. CASE y.app.pods \in PodsViews \/ y.app.modal # None
        BY <1>1, <2>5, <3>2 DEF SessionThere, NeedsSession
      <3>3. CASE \E j \in DOMAIN y.connects : y.connects[j].state = "active"
        <4>1. PICK j \in DOMAIN connects : cs[j].state = "active"
          BY <2>1, <2>5, <3>3
        <4>2. connects[j].state = "active"
          BY <2>1, <4>1
        <4>3. QED
          BY <1>1, <4>2 DEF SessionThere, NeedsSession
      <3>4. CASE \E j \in DOMAIN y.queue : y.queue[j].type = "Connected" /\ y.queue[j].ok
        <4>1. PICK j \in DOMAIN Append(queue, msg) :
                 Append(queue, msg)[j].type = "Connected" /\ Append(queue, msg)[j].ok
          BY <2>5, <3>4
        <4>2. CASE j \in DOMAIN queue /\ Append(queue, msg)[j] = queue[j]
          BY <1>1, <4>1, <4>2 DEF SessionThere, NeedsSession
        <4>3. CASE Append(queue, msg)[j] = msg
          BY <1>1, <2>2, <4>1, <4>3 DEF SessionThere, NeedsSession
        <4>4. QED
          BY <2>4, <4>2, <4>3
      <3>5. QED
        BY <3>1, <3>2, <3>3, <3>4 DEF NeedsSession
    <2>7. Good(y)
      BY <1>1, <2>2, <2>5, <2>6, PostsGood
    <2>8. QED
      BY <1>1, <2>3, <2>7, BecomesGood
  <1>7. QED
    BY <1>4, <1>5, <1>6

\* What a watch sends, and its end once it is stopped
LEMMA WatchKeeps ==
    ASSUME Inv, NEW i \in DOMAIN watches, WatchSends(i) \/ WatchEnds(i)
    PROVE  Inv'
  <1>1. /\ sitting \in Sittings /\ Good(World) /\ keys \in [all : Nat, shells : Nat]
        /\ World \in Worlds /\ SessionThere(World) /\ World.watches = watches /\ World.queue = queue
    BY WorldFacts, WorldIs
  <1>2. /\ watches \in Seq(WatchTasks) /\ watches[i] \in WatchTasks /\ DOMAIN watches \subseteq Nat
        /\ queue \in Seq(Messages)
    BY <1>1, Members
  <1>3. ASSUME NEW task \in WatchTasks, NEW ws, ws = [watches EXCEPT ![i] = task]
        PROVE  /\ ws \in Seq(WatchTasks) /\ DOMAIN ws = DOMAIN watches /\ ws[i] = task
               /\ \A j \in DOMAIN watches : j # i => ws[j] = watches[j]
    BY <1>2, <1>3, ExceptSeq
  <1>4. CASE WatchSends(i)
    <2> DEFINE task == [watches[i] EXCEPT !.sent = watches[i].sent + 1]
               ws == [watches EXCEPT ![i] = task]
               msg == [type |-> "Pod", view |-> watches[i].view, watch |-> i,
                       event |-> IF watches[i].sent = 0 THEN "Snapshot" ELSE "Upsert"]
               y == [World EXCEPT !.watches = ws, !.queue = Append(queue, msg)]
    <2>1. /\ task \in WatchTasks /\ task.view = watches[i].view /\ task.ns = watches[i].ns
          /\ task.state = watches[i].state
      <3>1. watches[i].sent + 1 \in Nat
        BY <1>2 DEF WatchTasks
      <3>2. ASSUME NEW n \in Nat
            PROVE  LET t == [watches[i] EXCEPT !.sent = n]
                   IN  /\ t \in WatchTasks /\ t.view = watches[i].view /\ t.ns = watches[i].ns
                       /\ t.state = watches[i].state
        BY <1>2 DEF WatchTasks
      <3>3. QED
        BY <3>1, <3>2
    <2>2. msg \in Messages /\ msg.type = "Pod" /\ msg.watch = i
      BY <1>2 DEF Messages, WatchTasks
    <2>3. Becomes(y) /\ keys' = keys
      <3>1. [World EXCEPT !.watches[i].sent = @ + 1,
                !.queue = Append(@, [type |-> "Pod", view |-> watches[i].view, watch |-> i,
                                     event |-> IF watches[i].sent = 0 THEN "Snapshot" ELSE "Upsert"])] = y
        BY <1>1, <1>2 DEF Worlds
      <3>2. QED
        BY <1>4, <3>1 DEF WatchSends
    <2> HIDE DEF task, msg
    <2>4. /\ ws \in Seq(WatchTasks) /\ DOMAIN ws = DOMAIN watches /\ ws[i] = task
          /\ \A j \in DOMAIN watches : j # i => ws[j] = watches[j]
      BY <1>3, <2>1
    <2>5. \A v \in DOMAIN watches : /\ ws[v].view = watches[v].view /\ ws[v].ns = watches[v].ns
                                    /\ ws[v].state = watches[v].state
      BY <2>1, <2>4
    <2> HIDE DEF ws
    <2>6. /\ Append(queue, msg) \in Seq(Messages)
          /\ \A j \in DOMAIN Append(queue, msg) :
                \/ j \in DOMAIN queue /\ Append(queue, msg)[j] = queue[j]
                \/ Append(queue, msg)[j] = msg
      BY <1>2, <2>2, AppendIs
    <2>7. /\ y \in Worlds /\ y.active = World.active /\ y.app = World.app
          /\ y.queue = Append(queue, msg) /\ y.watches = ws /\ y.connects = World.connects
      BY <1>1, <2>4, <2>6 DEF Worlds
    <2> HIDE DEF y
    <2>8. SessionThere(y)
      BY <1>1, <2>2, <2>6, <2>7 DEF SessionThere, NeedsSession
    <2>9. Good(y)
      BY SMTT(30), <1>1, <2>2, <2>4, <2>5, <2>7, <2>8, PostsGood
    <2>10. QED
      BY <1>1, <2>3, <2>9, BecomesGood
  <1>5. CASE WatchEnds(i)
    <2> DEFINE task == [watches[i] EXCEPT !.state = "ended"]
               ws == [watches EXCEPT ![i] = task]
               y == [World EXCEPT !.watches = ws]
    <2>1. /\ task \in WatchTasks /\ task.view = watches[i].view /\ task.ns = watches[i].ns
          /\ task.state = "ended" /\ watches[i].state = "stopped"
      BY <1>2, <1>5 DEF WatchTasks, WatchEnds
    <2>2. Becomes(y) /\ keys' = keys
      <3>1. [World EXCEPT !.watches[i].state = "ended"] = y
        BY <1>1, <1>2 DEF Worlds
      <3>2. QED
        BY <1>5, <3>1 DEF WatchEnds
    <2> HIDE DEF task
    <2>3. /\ ws \in Seq(WatchTasks) /\ DOMAIN ws = DOMAIN watches /\ ws[i] = task
          /\ \A j \in DOMAIN watches : j # i => ws[j] = watches[j]
      BY <1>3, <2>1
    <2> HIDE DEF ws
    <2>4. /\ y \in Worlds /\ y.active = World.active /\ y.app = World.app
          /\ y.queue = World.queue /\ y.watches = ws /\ y.connects = World.connects
      BY <1>1, <2>3 DEF Worlds
    <2> HIDE DEF y
    <2>5. \A v \in DOMAIN watches : /\ ws[v].view = watches[v].view /\ ws[v].ns = watches[v].ns
                                    /\ ws[v].state = "on" <=> watches[v].state = "on"
      BY <2>1, <2>3
    <2>6. SessionThere(y)
      BY <1>1, <2>4 DEF SessionThere, NeedsSession
    <2>7. Sound(y) /\ Kept(y)
      <3>1. Typed(y) /\ Numbered(y) /\ Told(y)
        BY <1>1, <2>3, <2>4, <2>5, <2>6 DEF Good, Sound, Typed, WatchesThere, Numbered, Told
      <3>2. Held(y) /\ Owned(y)
        BY <1>1, <2>3, <2>4, <2>5 DEF Good, Sound, Held, Owned, Typed, WatchesThere
      <3>3. Kept(y)
        BY <1>1, <2>3, <2>4, <2>5 DEF Good, Kept
      <3>4. QED
        BY <3>1, <3>2, <3>3 DEF Sound
    <2>8. QED
      BY <1>1, <2>2, <2>7, BecomesGood DEF Good
  <1>6. QED
    BY <1>4, <1>5

LEMMA FetchKeeps ==
    ASSUME Inv, NEW i \in DOMAIN fetches, FetchDone(i)
    PROVE  Inv'
  <1>1. /\ sitting \in Sittings /\ Good(World) /\ keys \in [all : Nat, shells : Nat]
        /\ World \in Worlds /\ SessionThere(World) /\ World.fetches = fetches /\ World.queue = queue
    BY WorldFacts, WorldIs
  <1>2. fetches \in Seq(FetchTasks) /\ fetches[i] \in FetchTasks /\ queue \in Seq(Messages)
    BY <1>1, Members
  <1>3. PICK single \in BOOLEAN :
           Becomes([World EXCEPT !.fetches[i].state = "done",
                   !.queue = Append(@, [type |-> "Fetched", view |-> fetches[i].view,
                                        of |-> fetches[i].of, single |-> single])])
    BY DEF FetchDone
  <1> DEFINE task == [fetches[i] EXCEPT !.state = "done"]
             fs == [fetches EXCEPT ![i] = task]
             msg == [type |-> "Fetched", view |-> fetches[i].view, of |-> fetches[i].of, single |-> single]
             y == [World EXCEPT !.fetches = fs, !.queue = Append(queue, msg)]
  <1>4. task \in FetchTasks /\ msg \in Messages /\ msg.type = "Fetched"
    BY <1>2 DEF FetchTasks, Messages
  <1>5. Becomes(y) /\ keys' = keys
    <2>1. [World EXCEPT !.fetches[i].state = "done",
               !.queue = Append(@, [type |-> "Fetched", view |-> fetches[i].view,
                                    of |-> fetches[i].of, single |-> single])] = y
      BY <1>1, <1>2 DEF Worlds
    <2>2. QED
      BY <1>3, <2>1 DEF FetchDone
  <1> HIDE DEF task, msg
  <1>6. fs \in Seq(FetchTasks)
    BY <1>2, <1>4, ExceptSeq
  <1> HIDE DEF fs
  <1>7. /\ Append(queue, msg) \in Seq(Messages)
        /\ \A j \in DOMAIN Append(queue, msg) :
              \/ j \in DOMAIN queue /\ Append(queue, msg)[j] = queue[j]
              \/ Append(queue, msg)[j] = msg
    BY <1>2, <1>4, AppendIs
  <1>8. /\ y \in Worlds /\ y.active = World.active /\ y.app = World.app
        /\ y.queue = Append(queue, msg) /\ y.watches = World.watches /\ y.connects = World.connects
    BY <1>1, <1>6, <1>7 DEF Worlds
  <1> HIDE DEF y
  <1>9. SessionThere(y)
    BY <1>1, <1>4, <1>7, <1>8 DEF SessionThere, NeedsSession
  <1>10. Good(y)
    BY <1>1, <1>4, <1>8, <1>9, PostsGood
  <1>11. QED
    BY <1>1, <1>5, <1>10, BecomesGood

\* Started at the contexts, or with a connection that lands on its pods
LEMMA InvInit == Init => Inv
  <1> SUFFICES ASSUME Init PROVE Inv
    OBVIOUS
  <1>1. sitting \in Sittings /\ keys \in [all : Nat, shells : Nat]
    BY DEF Init
  <1>2. ASSUME NEW session \in Sessions \cup {None}, NEW x, x = [AtContexts EXCEPT !.active = session]
        PROVE  Good(x) /\ x.active = session
    <2>1. <<>> \in Seq(Messages) /\ <<>> \in Seq(WatchTasks) /\ <<>> \in Seq(ConnectTasks)
          /\ <<>> \in Seq(FetchTasks)
      BY EmptySeq
    <2>2. AtContexts.app \in Apps /\ AtContexts.app.next = 1
      BY DEF AtContexts, Apps
    <2>3. /\ x \in Worlds /\ x.active = session
      BY <1>2, <2>1, <2>2 DEF AtContexts, Worlds
    <2>4. /\ x.app.pods = None /\ x.app.modal = None /\ x.app.over = "contexts"
          /\ DOMAIN x.queue = {} /\ DOMAIN x.watches = {} /\ DOMAIN x.connects = {}
      BY <1>2 DEF AtContexts
    <2>5. None \notin PodsViews /\ x.app.over \notin {None, "namespaces"}
      BY <1>1, <2>4, NoneIs
    <2>6. Typed(x)
      BY <2>3, <2>4, <2>5 DEF Typed, SessionThere, NeedsSession, WatchesThere
    <2>7. Numbered(x) /\ Told(x) /\ Held(x) /\ Owned(x) /\ Kept(x)
      BY <2>4, <2>5 DEF Numbered, Told, Held, Owned, Kept
    <2>8. QED
      BY <2>3, <2>6, <2>7 DEF Good, Sound
  <1>3. ASSUME NEW w \in Start PROVE Good(w)
    <2>1. CASE w = AtContexts
      <3>1. AtContexts = [AtContexts EXCEPT !.active = None]
        BY DEF AtContexts
      <3>2. Good(AtContexts)
        BY <1>2, <3>1
      <3>3. QED
        BY <2>1, <3>2
    <2>2. ASSUME NEW c \in Contexts, NEW n \in Namespaces,
                 w = ReplaceViews([AtContexts EXCEPT !.active = [ctx |-> c, ns |-> n]])
          PROVE  Good(w)
      <3> DEFINE x == [AtContexts EXCEPT !.active = [ctx |-> c, ns |-> n]]
      <3>1. [ctx |-> c, ns |-> n] \in Sessions
        BY DEF Sessions
      <3>2. Good(x) /\ x.active \in Sessions
        BY <1>2, <3>1
      <3> HIDE DEF x
      <3>3. Good(ReplaceViews(x))
        BY <1>1, <3>2, ReplaceViewsGood DEF Good
      <3>4. QED
        BY <2>2, <3>3 DEF x
    <2>3. \/ w = AtContexts
          \/ \E c \in Contexts, n \in Namespaces :
                w = ReplaceViews([AtContexts EXCEPT !.active = [ctx |-> c, ns |-> n]])
      <3> DEFINE At(c, n) == ReplaceViews([AtContexts EXCEPT !.active = [ctx |-> c, ns |-> n]])
      <3>1. Start = {AtContexts} \cup {At(c, n) : c \in Contexts, n \in Namespaces}
        BY DEF Start
      <3> HIDE DEF At
      <3>2. w = AtContexts \/ \E c \in Contexts, n \in Namespaces : w = At(c, n)
        BY <3>1
      <3>3. QED
        BY <3>2 DEF At
    <2>4. QED
      BY <2>1, <2>2, <2>3
  <1>4. PICK w \in Start :
           /\ active = w.active /\ app = w.app /\ queue = w.queue /\ watches = w.watches
           /\ connects = w.connects /\ fetches = w.fetches /\ mode = w.mode /\ done = w.done
    BY DEF Init
  <1>5. World = w
    <2>1. w \in Worlds
      BY <1>3 DEF Good, Sound, Typed
    <2>2. QED
      BY <1>4, <2>1 DEF World, Worlds
  <1>6. QED
    BY <1>1, <1>3, <1>5 DEF Inv

LEMMA InvStep == Inv /\ [Next]_vars => Inv'
  <1> SUFFICES ASSUME Inv, [Next]_vars PROVE Inv'
    OBVIOUS
  <1>1. CASE Key
    <2>1. CASE \E c \in Contexts : CommandContext(c) \/ CommandPodsAt(c)
      BY <2>1, CommandContextKeeps
    <2>2. CASE CommandPods \/ Filter \/ \E n \in Namespaces : CommandNamespace(n) \/ PickNamespace(n)
      BY <2>2, NavigateKeeps
    <2>3. CASE \/ Escape \/ ConfirmDelete \/ PickContainer \/ CancelModal
               \/ app.pods # None /\ \E i \in app.pods.rows : AskDelete(i) \/ Kill(i) \/ Shell(i)
      BY <2>3, RowKeyKeeps
    <2>4. QED
      BY <1>1, <2>1, <2>2, <2>3 DEF Key
  <1>2. CASE Loop \/ Resume
    BY <1>2, TakeKeeps, TickKeeps, ModeKeeps DEF Loop
  <1>3. CASE Task
    BY <1>3, ConnectKeeps, WatchKeeps, FetchKeeps DEF Task
  <1>4. CASE UNCHANGED vars
    <2>1. sitting' = sitting /\ keys' = keys /\ World' = World
      BY <1>4 DEF vars, World
    <2>2. sitting \in Sittings /\ keys \in [all : Nat, shells : Nat] /\ Good(World) /\ World \in Worlds
      BY WorldFacts
    <2>3. Becomes(World)
      BY <1>4 DEF vars, Becomes, World
    <2>4. QED
      BY <2>1, <2>2, <2>3, BecomesGood
  <1>5. QED
    BY <1>1, <1>2, <1>3, <1>4 DEF Next

\* However keys, connects, late messages and shells interleave, the invariant holds:
\* views are numbered as they are made, each Started tells the view of its watch in the
\* order the watches were started, and a view holds a handle older than any to be reported.
THEOREM AppInvariant == Spec => []Inv
  BY InvInit, InvStep, PTL DEF Spec

\* TypeOK: no update finds a session, a view or a watch missing that it relies on -
\* the commands of app.rs that read the active session, the rows and the handles.
THEOREM AppTypeCorrect == Spec => []TypeOK
  <1>1. Inv => TypeOK
    BY DEF Inv, Good, Sound, Typed, TypeOK
  <1>2. QED
    BY <1>1, AppInvariant, PTL

\* WatchesAreOwned: no change of namespace, context or filter and no late Started leaves
\* a watch running that nobody can stop, and a view never stops its newest watch.
THEOREM AppWatchesAreOwned == Spec => []WatchesAreOwned
  <1>1. Inv => WatchesAreOwned
    <2> SUFFICES ASSUME Inv PROVE WatchesAreOwned
      OBVIOUS
    <2>1. /\ Owned(World) /\ Kept(World) /\ World.app = app /\ World.watches = watches
          /\ World.queue = queue /\ app.pods \in PodsViews \cup {None} /\ None \notin PodsViews
      BY WorldFacts, WorldIs DEF Inv, Good, Sound
    <2>2. NoWatchLeaks
      BY <2>1 DEF Owned, NoWatchLeaks, ToBeTold, Watched
    <2>3. LatestWatchKept
      BY <2>1 DEF Kept, LatestWatchKept, Watched
    <2>4. QED
      BY <2>2, <2>3 DEF WatchesAreOwned
  <1>2. QED
    BY <1>1, AppInvariant, PTL
=============================================================================
