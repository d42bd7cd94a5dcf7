------------------------- MODULE SessionRegistry_proofs -------------------------
(* What the map of SessionHandles and their stop handles keep apart, proved for    *)
(* any number of tabs, sessions, streams and reloads of the page.                  *)
EXTENDS SessionRegistry, SequenceTheorems, TLAPS

Stream == [kind : {"pods", "logs", "exec"}, tab : Tabs, page : Nat,
           state : {"asked", "refused", "starting", "running", "ended", "done"},
           session : Nat \cup {None}, id : Nat \cup {None}, stopped : Causes \cup {None},
           view : {"waiting", "knows", "superseded", "left"}]
Open == [tab : Tabs, page : Nat, state : {"connecting", "open", "failed", "done"}]

IsHandle(h) ==
    /\ h = [session |-> h.session, pods |-> h.pods, logs |-> h.logs, execs |-> h.execs,
            nextExec |-> h.nextExec]
    /\ h.session \in Nat /\ h.pods \in Nat \cup {None} /\ h.nextExec \in Nat

Types ==
    /\ opens \in Seq(Open) /\ page \in Nat /\ closes \subseteq Tabs

\* Stream number j of ss belongs to tab t and its session h, and was started.
Of(j, t, h, ss) ==
    j \in DOMAIN ss /\ ss[j].tab = t /\ ss[j].session = h.session /\ ss[j].state # "asked"

\* What the handle h of tab t keeps: each under its own id, in the map of its kind.
\* "ss" are the streams and "n" the next global id.
Holds(t, h, ss, n) ==
    /\ h.pods # None => Of(h.pods, t, h, ss) /\ ss[h.pods].kind = "pods"
    /\ \A id \in DOMAIN h.logs :
          /\ id \in Nat /\ id < n
          /\ Of(h.logs[id], t, h, ss)
          /\ ss[h.logs[id]].kind = "logs" /\ ss[h.logs[id]].id = id /\ ss[h.logs[id]].state # "done"
    /\ \A id \in DOMAIN h.execs :
          /\ id \in Nat /\ id < h.nextExec
          /\ h.execs[id] \in DOMAIN ss /\ ss[h.execs[id]].kind = "exec"

\* Global ids are counted up and given to one log or table stream each.
Ids(ss, n) ==
    \A i \in DOMAIN ss : ss[i].kind = "logs" /\ ss[i].id # None =>
        /\ ss[i].id < n
        /\ \A j \in DOMAIN ss : ss[j].kind = "logs" /\ ss[j].id = ss[i].id => i = j

\* NeverStoppedForAnother of the streams ss
FairlyStopped(ss) ==
    \A i \in DOMAIN ss :
        /\ ss[i].kind # "exec" => ss[i].stopped # "other"
        /\ ss[i].kind # "pods" => ss[i].stopped # "replaced"

Core ==
    /\ streams \in Seq(Stream) /\ nextId \in Nat /\ stops \subseteq DOMAIN streams
    /\ handles = [t \in Tabs |-> handles[t]]
    /\ \A t \in Tabs : handles[t] # None =>
          IsHandle(handles[t]) /\ Holds(t, handles[t], streams, nextId)
    /\ Ids(streams, nextId)
    /\ FairlyStopped(streams)

Inv == Types /\ Core

-----------------------------------------------------------------------------
(* Streams that change *)

\* A stream keeps its kind and tab, and once started its session and id.
Follows(ss, s2) ==
    /\ DOMAIN ss \subseteq DOMAIN s2
    /\ \A j \in DOMAIN ss :
          /\ s2[j].kind = ss[j].kind /\ s2[j].tab = ss[j].tab
          /\ ss[j].kind # "exec" /\ ss[j].state # "asked" =>
                s2[j].id = ss[j].id /\ s2[j].session = ss[j].session /\ s2[j].state # "asked"

\* What a handle keeps it keeps, if none of its log streams has pruned.
LEMMA HoldsOn ==
    ASSUME NEW t, NEW h, NEW ss, NEW s2, NEW n \in Nat, NEW n2 \in Nat, n <= n2,
           Holds(t, h, ss, n), Follows(ss, s2),
           \A id \in DOMAIN h.logs : s2[h.logs[id]].state # "done"
    PROVE  Holds(t, h, s2, n2)
<1>1. h.pods # None => Of(h.pods, t, h, s2) /\ s2[h.pods].kind = "pods"
  BY DEF Holds, Of, Follows
<1>2. ASSUME NEW id \in DOMAIN h.logs
      PROVE  /\ id \in Nat /\ id < n2
             /\ Of(h.logs[id], t, h, s2)
             /\ s2[h.logs[id]].kind = "logs" /\ s2[h.logs[id]].id = id
  <2>1. /\ id \in Nat /\ id < n /\ Of(h.logs[id], t, h, ss)
        /\ ss[h.logs[id]].kind = "logs" /\ ss[h.logs[id]].id = id
    BY DEF Holds
  <2> QED BY <2>1 DEF Of, Follows
<1>3. ASSUME NEW id \in DOMAIN h.execs
      PROVE  /\ id \in Nat /\ id < h.nextExec
             /\ h.execs[id] \in DOMAIN s2 /\ s2[h.execs[id]].kind = "exec"
  BY DEF Holds, Follows
<1> QED BY <1>1, <1>2, <1>3 DEF Holds

\* Fire changes nothing of a stream but why it was stopped.
LEMMA FireStops ==
    ASSUME NEW ss \in Seq(Stream), NEW hit, NEW cause \in Causes
    PROVE  /\ Fire(ss, hit, cause) \in Seq(Stream)
           /\ DOMAIN Fire(ss, hit, cause) = DOMAIN ss
           /\ \A j \in DOMAIN ss :
                 Fire(ss, hit, cause)[j] = IF j \in hit /\ ss[j].stopped = None
                                           THEN [ss[j] EXCEPT !.stopped = cause] ELSE ss[j]
<1> DEFINE f == Fire(ss, hit, cause)
<1>1. /\ DOMAIN f = DOMAIN ss
      /\ \A j \in DOMAIN ss : f[j] = IF j \in hit /\ ss[j].stopped = None
                                    THEN [ss[j] EXCEPT !.stopped = cause] ELSE ss[j]
  BY DEF Fire
<1>2. DOMAIN ss = 1..Len(ss) /\ Len(ss) \in Nat /\ \A j \in DOMAIN ss : ss[j] \in Stream OBVIOUS
<1>3. \A j \in DOMAIN ss : [ss[j] EXCEPT !.stopped = cause] \in Stream BY <1>2 DEF Stream
<1>4. f \in [1..Len(ss) -> Stream] BY <1>1, <1>2, <1>3 DEF Fire
<1>5. f \in Seq(Stream)
  <2>1. \A g : g \in [1..Len(ss) -> Stream] => g \in Seq(Stream) BY <1>2, SeqDef
  <2> QED BY <1>4, <2>1
<1> QED BY <1>1, <1>5

\* The fields Fire leaves alone.
LEMMA FireLeaves ==
    ASSUME NEW ss \in Seq(Stream), NEW hit, NEW cause \in Causes, NEW j \in DOMAIN ss
    PROVE  LET f == Fire(ss, hit, cause)
           IN  /\ f[j].kind = ss[j].kind /\ f[j].tab = ss[j].tab /\ f[j].state = ss[j].state
               /\ f[j].session = ss[j].session /\ f[j].id = ss[j].id
               /\ f[j].stopped = IF j \in hit /\ ss[j].stopped = None THEN cause ELSE ss[j].stopped
<1>1. ss[j] \in Stream OBVIOUS
<1>2. Fire(ss, hit, cause)[j] = IF j \in hit /\ ss[j].stopped = None
                                THEN [ss[j] EXCEPT !.stopped = cause] ELSE ss[j]
  BY FireStops
<1>3. CASE j \in hit /\ ss[j].stopped = None
  <2>1. Fire(ss, hit, cause)[j] = [ss[j] EXCEPT !.stopped = cause] BY <1>2, <1>3
  <2> QED BY <1>1, <1>3, <2>1 DEF Stream
<1>4. CASE ~(j \in hit /\ ss[j].stopped = None) BY <1>2, <1>4
<1> QED BY <1>3, <1>4

\* One stream is replaced by another record.
LEMMA Put ==
    ASSUME NEW ss \in Seq(Stream), NEW i \in DOMAIN ss, NEW r \in Stream
    PROVE  /\ [ss EXCEPT ![i] = r] \in Seq(Stream)
           /\ DOMAIN [ss EXCEPT ![i] = r] = DOMAIN ss
           /\ \A j \in DOMAIN ss : [ss EXCEPT ![i] = r][j] = IF j = i THEN r ELSE ss[j]
OBVIOUS

\* Streams that are told to stop, for a cause that is theirs
LEMMA Fired ==
    ASSUME NEW ss \in Seq(Stream), NEW hit, NEW cause \in Causes, NEW n,
           Ids(ss, n), FairlyStopped(ss),
           \A j \in DOMAIN ss : j \in hit =>
               (ss[j].kind # "exec" => cause # "other") /\ (ss[j].kind # "pods" => cause # "replaced")
    PROVE  /\ Fire(ss, hit, cause) \in Seq(Stream) /\ DOMAIN Fire(ss, hit, cause) = DOMAIN ss
           /\ \A j \in DOMAIN ss : Fire(ss, hit, cause)[j].state = ss[j].state
           /\ Follows(ss, Fire(ss, hit, cause))
           /\ Ids(Fire(ss, hit, cause), n)
           /\ FairlyStopped(Fire(ss, hit, cause))
<1> DEFINE f == Fire(ss, hit, cause)
<1>1. f \in Seq(Stream) /\ DOMAIN f = DOMAIN ss BY FireStops
<1>2. \A j \in DOMAIN ss :
          /\ f[j].kind = ss[j].kind /\ f[j].tab = ss[j].tab /\ f[j].state = ss[j].state
          /\ f[j].session = ss[j].session /\ f[j].id = ss[j].id
          /\ f[j].stopped = IF j \in hit /\ ss[j].stopped = None THEN cause ELSE ss[j].stopped
  BY FireLeaves
<1> HIDE DEF f
<1>3. Follows(ss, f) BY <1>1, <1>2 DEF Follows
<1>4. Ids(f, n) BY <1>1, <1>2 DEF Ids
<1>5. FairlyStopped(f) BY <1>1, <1>2 DEF FairlyStopped
<1> QED BY <1>1, <1>2, <1>3, <1>4, <1>5 DEF f

\* A stream that goes on, or one that is started under an id that nothing else has
LEMMA PutKeeps ==
    ASSUME NEW ss \in Seq(Stream), NEW i \in DOMAIN ss, NEW r \in Stream,
           NEW n \in Nat, NEW n2 \in Nat, n <= n2, Ids(ss, n), FairlyStopped(ss),
           r.kind = ss[i].kind, r.tab = ss[i].tab, r.stopped = ss[i].stopped,
           ss[i].kind # "exec" /\ ss[i].state # "asked" =>
               r.id = ss[i].id /\ r.session = ss[i].session /\ r.state # "asked",
           r.kind = "logs" /\ r.id # None =>
               r.id < n2 /\ \A j \in DOMAIN ss : j # i /\ ss[j].kind = "logs" => ss[j].id # r.id
    PROVE  /\ [ss EXCEPT ![i] = r] \in Seq(Stream)
           /\ Follows(ss, [ss EXCEPT ![i] = r])
           /\ Ids([ss EXCEPT ![i] = r], n2)
           /\ FairlyStopped([ss EXCEPT ![i] = r])
<1> DEFINE f == [ss EXCEPT ![i] = r]
<1>1. /\ f \in Seq(Stream) /\ DOMAIN f = DOMAIN ss
      /\ \A j \in DOMAIN ss : f[j] = IF j = i THEN r ELSE ss[j]
  BY Put
<1> HIDE DEF f
<1>2. Follows(ss, f) BY <1>1 DEF Follows
<1>3. \A j \in DOMAIN ss : ss[j].id \in Nat \cup {None}
  <2>1. \A j \in DOMAIN ss : ss[j] \in Stream OBVIOUS
  <2> QED BY <2>1 DEF Stream
<1>4. ASSUME NEW a \in DOMAIN f, f[a].kind = "logs", f[a].id # None
      PROVE  f[a].id < n2 /\ \A j \in DOMAIN f : f[j].kind = "logs" /\ f[j].id = f[a].id => a = j
  <2>1. CASE a = i BY <1>1, <1>4, <2>1
  <2>2. CASE a # i
    <3>1. f[a] = ss[a] /\ ss[a].id \in Nat /\ ss[a].id < n BY <1>1, <1>3, <1>4, <2>2 DEF Ids
    <3>2. \A j \in DOMAIN ss : ss[j].kind = "logs" /\ ss[j].id = ss[a].id => a = j
      BY <1>1, <1>4, <3>1 DEF Ids
    <3> QED BY <1>1, <1>4, <2>2, <3>1, <3>2
  <2> QED BY <2>1, <2>2
<1>5. Ids(f, n2) BY <1>4 DEF Ids
<1>6. FairlyStopped(f) BY <1>1 DEF FairlyStopped
<1> QED BY <1>1, <1>2, <1>5, <1>6 DEF f

\* One change of the streams after another
LEMMA FollowsOn ==
    ASSUME NEW ss, NEW s2, NEW s3, Follows(ss, s2), Follows(s2, s3)
    PROVE  Follows(ss, s3)
BY DEF Follows

-----------------------------------------------------------------------------
(* States that change *)

\* Steps that change neither the handles nor which streams there are: one stream
\* gets another state or view, and what keeps it finds it as it was.
LEMMA OneChanges ==
    ASSUME Core, NEW i \in DOMAIN streams, NEW r \in Stream,
           streams' = [streams EXCEPT ![i] = r], UNCHANGED <<handles, nextId>>,
           stops' \subseteq DOMAIN streams,
           r.kind = streams[i].kind, r.tab = streams[i].tab, r.id = streams[i].id,
           r.stopped \in {streams[i].stopped, "session"},
           streams[i].kind # "exec" /\ streams[i].state # "asked" =>
               r.session = streams[i].session /\ r.state # "asked",
           streams[i].kind = "logs" /\ streams[i].state \notin {"asked", "done"} => r.state # "done"
    PROVE  Core'
<1>1. /\ streams' \in Seq(Stream) /\ DOMAIN streams' = DOMAIN streams
      /\ \A j \in DOMAIN streams : streams'[j] = IF j = i THEN r ELSE streams[j]
  BY Put DEF Core
<1>2. Follows(streams, streams') BY <1>1 DEF Follows
<1>3. Ids(streams', nextId') BY <1>1 DEF Core, Ids
<1>4. FairlyStopped(streams') BY <1>1 DEF Core, FairlyStopped
<1>5. ASSUME NEW t \in Tabs, handles[t] # None
      PROVE  IsHandle(handles[t]) /\ Holds(t, handles[t], streams', nextId')
  <2>1. IsHandle(handles[t]) /\ Holds(t, handles[t], streams, nextId) /\ nextId \in Nat
    BY <1>5 DEF Core
  <2>2. \A id \in DOMAIN handles[t].logs : streams'[handles[t].logs[id]].state # "done"
    <3> SUFFICES ASSUME NEW id \in DOMAIN handles[t].logs
                 PROVE  streams'[handles[t].logs[id]].state # "done"
      OBVIOUS
    <3> DEFINE j == handles[t].logs[id]
    <3>1. /\ j \in DOMAIN streams /\ streams[j].kind = "logs"
          /\ streams[j].state \notin {"asked", "done"}
      BY <2>1 DEF Holds, Of
    <3> QED BY <1>1, <3>1
  <2>3. nextId <= nextId' /\ nextId' \in Nat BY <2>1
  <2> QED BY <1>2, <2>1, <2>2, <2>3, HoldsOn
<1> QED BY <1>1, <1>3, <1>4, <1>5 DEF Core

\* Steps that put another handle, or none, in the place of tab t: it is enough to
\* look at that handle and at what changed of the streams.
LEMMA HandleChanges ==
    ASSUME Core, NEW t \in Tabs, NEW h,
           handles' = [handles EXCEPT ![t] = h],
           h # None => IsHandle(h) /\ Holds(t, h, streams', nextId'),
           streams' \in Seq(Stream), Follows(streams, streams'),
           \A j \in DOMAIN streams :
               streams[j].tab # t /\ streams[j].state # "done" => streams'[j].state # "done",
           nextId' \in Nat, nextId <= nextId', stops' \subseteq DOMAIN streams',
           Ids(streams', nextId'), FairlyStopped(streams')
    PROVE  Core'
<1>1. handles' = [u \in Tabs |-> IF u = t THEN h ELSE handles[u]] BY DEF Core
<1>2. ASSUME NEW u \in Tabs, handles'[u] # None
      PROVE  IsHandle(handles'[u]) /\ Holds(u, handles'[u], streams', nextId')
  <2>1. CASE u = t BY <1>1, <1>2, <2>1
  <2>2. CASE u # t
    <3>1. handles'[u] = handles[u] BY <1>1, <2>2
    <3>2. IsHandle(handles[u]) /\ Holds(u, handles[u], streams, nextId) /\ nextId \in Nat
      BY <1>2, <3>1 DEF Core
    <3>3. \A id \in DOMAIN handles[u].logs : streams'[handles[u].logs[id]].state # "done"
      BY <2>2, <3>2 DEF Holds, Of
    <3> QED BY <3>1, <3>2, <3>3, HoldsOn
  <2> QED BY <2>1, <2>2
<1>3. handles' = [u \in Tabs |-> handles'[u]] BY <1>1
<1> QED BY <1>2, <1>3 DEF Core

\* What a handle keeps, by kind
LEMMA HeldKinds ==
    ASSUME NEW t, NEW h, NEW ss, NEW n, Holds(t, h, ss, n)
    PROVE  /\ \A j \in Entries(h.logs) : j \in DOMAIN ss /\ ss[j].kind = "logs"
           /\ \A j \in Entries(h.execs) : j \in DOMAIN ss /\ ss[j].kind = "exec"
           /\ \A j \in {h.pods} \ {None} : j \in DOMAIN ss /\ ss[j].kind = "pods"
BY DEF Holds, Of, Entries

\* An entry is added to a map that lacks its id.
LEMMA Inserted ==
    ASSUME NEW map, NEW id, NEW i, id \notin DOMAIN map
    PROVE  /\ DOMAIN Insert(map, id, i) = DOMAIN map \cup {id}
           /\ Insert(map, id, i)[id] = i
           /\ \A x \in DOMAIN map : Insert(map, id, i)[x] = map[x]
           /\ Entries(map) \subseteq Entries(Insert(map, id, i))
<1>1. /\ DOMAIN Insert(map, id, i) = DOMAIN map \cup {id}
      /\ Insert(map, id, i)[id] = i
      /\ \A x \in DOMAIN map : Insert(map, id, i)[x] = map[x]
  BY DEF Insert
<1> QED BY <1>1 DEF Entries

\* An entry is removed.
LEMMA Removed ==
    ASSUME NEW map, NEW id
    PROVE  /\ DOMAIN WithoutId(map, id) = DOMAIN map \ {id}
           /\ \A x \in DOMAIN map \ {id} : WithoutId(map, id)[x] = map[x]
           /\ \A j \in Entries(map) : j \in Entries(WithoutId(map, id)) \/ (id \in DOMAIN map /\ j = map[id])
<1>1. /\ DOMAIN WithoutId(map, id) = DOMAIN map \ {id}
      /\ \A x \in DOMAIN map \ {id} : WithoutId(map, id)[x] = map[x]
  BY DEF WithoutId, Restrict
<1> QED BY <1>1 DEF Entries

-----------------------------------------------------------------------------
(* The commands *)

\* Nothing is open yet.
LEMMA InvInit == Init => Inv
<1> SUFFICES ASSUME Init PROVE Inv OBVIOUS
<1>1. opens \in Seq(Open) /\ streams \in Seq(Stream) /\ DOMAIN streams = {} BY DEF Init
<1>2. Types BY <1>1 DEF Init, Types
<1>3. \A t \in Tabs : handles[t] = None BY DEF Init
<1>4. handles = [t \in Tabs |-> handles[t]] BY DEF Init
<1> QED BY <1>1, <1>2, <1>3, <1>4 DEF Init, Inv, Core, Ids, FairlyStopped

\* The sessions that are opening and the tabs that are closing.
LEMMA TypesKeep == Inv /\ Next => Types'
<1> SUFFICES ASSUME Inv, Next PROVE Types' OBVIOUS
<1> USE SessionRegistryAssumption
<1>0. opens \in Seq(Open) /\ page \in Nat /\ closes \subseteq Tabs BY DEF Inv, Types
<1>1. CASE \E t \in Tabs : Connect(t)
  <2>1. PICK t \in Tabs : opens' = Append(opens, [tab |-> t, page |-> page, state |-> "connecting"])
    BY <1>1 DEF Connect
  <2>2. [tab |-> t, page |-> page, state |-> "connecting"] \in Open BY <1>0 DEF Open
  <2>3. UNCHANGED <<page, closes>> BY <1>1 DEF Connect
  <2> QED BY <1>0, <2>1, <2>2, <2>3 DEF Types
<1>2. CASE \E i \in DOMAIN opens : OpenSession(i) \/ OpenFails(i) \/ OpenReturns(i)
  <2>1. PICK i \in DOMAIN opens, state \in {"open", "failed", "done"} :
            opens' = [opens EXCEPT ![i].state = state]
    BY <1>2 DEF OpenSession, OpenFails, OpenReturns
  <2>2. opens[i] \in Open BY <1>0
  <2>3. [opens[i] EXCEPT !.state = state] \in Open /\ opens[i].tab \in Tabs BY <2>2 DEF Open
  <2>4. opens' = [opens EXCEPT ![i] = [opens[i] EXCEPT !.state = state]] BY <1>0, <2>1
  <2>5. opens' \in Seq(Open) BY <1>0, <2>3, <2>4
  <2>6. page' = page /\ closes' \subseteq Tabs
    <3>1. \A j \in DOMAIN opens : opens[j].tab \in Tabs
      <4>1. \A j \in DOMAIN opens : opens[j] \in Open BY <1>0
      <4> QED BY <4>1 DEF Open
    <3> QED BY <1>0, <1>2, <3>1 DEF OpenSession, OpenFails, OpenReturns, LateOpenCloses
  <2> QED BY <1>0, <2>5, <2>6 DEF Types
<1>3. CASE (\E t \in Tabs : CloseTab(t)) \/ (\E t \in Tabs : CloseSession(t)) \/ Reload
  BY <1>0, <1>3 DEF Types, CloseTab, CloseSession, Reload
<1>4. CASE UNCHANGED <<opens, page, closes>> BY <1>0, <1>4 DEF Types
<1>5. ASSUME ~(\E t \in Tabs : Connect(t)),
             ~(\E i \in DOMAIN opens : OpenSession(i) \/ OpenFails(i) \/ OpenReturns(i)),
             ~((\E t \in Tabs : CloseTab(t)) \/ (\E t \in Tabs : CloseSession(t)) \/ Reload)
      PROVE  UNCHANGED <<opens, page, closes>>
  BY <1>5 DEF Next, Ask, WatchPods, StreamLogs, ExecStarts, ExecEntered, ExecFails, Ends, Prune, Reply,
              StartAgain, ViewLeaves, GiveUp, StopStream
<1> QED BY <1>1, <1>2, <1>3, <1>4, <1>5

\* A new session starts without streams; those of the one before are all told to stop.
LEMMA OpenKeeps ==
    ASSUME Inv, NEW i \in DOMAIN opens, OpenSession(i)
    PROVE  Core'
<1> USE SessionRegistryAssumption
<1> DEFINE t == opens[i].tab
           hit == Kept(handles[t]) \ Held(NewHandle(i))
<1>1. t \in Tabs /\ i \in Nat
  <2>1. opens[i] \in Open /\ i \in Nat BY DEF Inv, Types
  <2> QED BY <2>1 DEF Open
<1>2. /\ handles' = [handles EXCEPT ![t] = NewHandle(i)]
      /\ streams' = Fire(streams, hit, "session") /\ UNCHANGED <<nextId, stops>>
  BY DEF OpenSession, Opened
<1> HIDE DEF t, hit
<1>3. /\ Core /\ streams \in Seq(Stream) /\ nextId \in Nat /\ stops \subseteq DOMAIN streams
      /\ Ids(streams, nextId) /\ FairlyStopped(streams) /\ "session" \in Causes
  BY DEF Inv, Core, Causes
<1>4. /\ streams' \in Seq(Stream) /\ DOMAIN streams' = DOMAIN streams
      /\ \A j \in DOMAIN streams : streams'[j].state = streams[j].state
      /\ Follows(streams, streams') /\ Ids(streams', nextId) /\ FairlyStopped(streams')
  BY <1>2, <1>3, Fired
<1>5. IsHandle(NewHandle(i)) /\ Holds(t, NewHandle(i), streams', nextId')
  BY <1>1 DEF NewHandle, NoEntries, IsHandle, Holds
<1>6. nextId' \in Nat /\ nextId <= nextId' /\ stops' \subseteq DOMAIN streams' /\ Ids(streams', nextId')
  BY <1>2, <1>3, <1>4
<1> QED BY <1>1, <1>2, <1>3, <1>4, <1>5, <1>6, HandleChanges

\* close_session takes the session out of the map, and all it keeps is told to stop.
LEMMA CloseKeeps ==
    ASSUME Inv, NEW t \in Tabs, CloseSession(t)
    PROVE  Core'
<1> USE SessionRegistryAssumption
<1> DEFINE hit == Kept(handles[t])
<1>2. /\ handles' = [handles EXCEPT ![t] = None]
      /\ streams' = Fire(streams, hit, "session") /\ UNCHANGED <<nextId, stops>>
  BY DEF CloseSession
<1> HIDE DEF hit
<1>3. /\ Core /\ streams \in Seq(Stream) /\ nextId \in Nat /\ stops \subseteq DOMAIN streams
      /\ Ids(streams, nextId) /\ FairlyStopped(streams) /\ "session" \in Causes
  BY DEF Inv, Core, Causes
<1>4. /\ streams' \in Seq(Stream) /\ DOMAIN streams' = DOMAIN streams
      /\ \A j \in DOMAIN streams : streams'[j].state = streams[j].state
      /\ Follows(streams, streams') /\ Ids(streams', nextId) /\ FairlyStopped(streams')
  BY <1>2, <1>3, Fired
<1>6. nextId' \in Nat /\ nextId <= nextId' /\ stops' \subseteq DOMAIN streams' /\ Ids(streams', nextId')
  BY <1>2, <1>3, <1>4
<1> QED BY <1>2, <1>3, <1>4, <1>6, HandleChanges

\* The view asks for a stream, which comes after all the others.
LEMMA AskKeeps ==
    ASSUME Inv, NEW t \in Tabs, NEW kind \in {"pods", "logs", "exec"}, Ask(t, kind)
    PROVE  Core'
<1> USE SessionRegistryAssumption
<1> DEFINE r == [kind |-> kind, tab |-> t, page |-> page, state |-> "asked", session |-> None,
                 id |-> None, stopped |-> None, view |-> "waiting"]
<1>1. r \in Stream BY DEF Inv, Types, Stream
<1>2. streams' = Append(streams, r) /\ UNCHANGED <<handles, nextId, stops>> BY DEF Ask
<1>3. /\ Core /\ streams \in Seq(Stream) /\ nextId \in Nat /\ stops \subseteq DOMAIN streams
      /\ Ids(streams, nextId) /\ FairlyStopped(streams)
  BY DEF Inv, Core
<1>4. r.kind = kind /\ r.id = None /\ r.stopped = None OBVIOUS
<1> HIDE DEF r
<1>5. /\ streams' \in Seq(Stream) /\ DOMAIN streams' = DOMAIN streams \cup {Len(streams) + 1}
      /\ Len(streams) + 1 \notin DOMAIN streams
      /\ \A j \in DOMAIN streams : streams'[j] = streams[j]
      /\ streams'[Len(streams) + 1] = r
  BY <1>1, <1>2, <1>3
<1>6. Follows(streams, streams') BY <1>5 DEF Follows
<1>7. Ids(streams', nextId') BY <1>2, <1>3, <1>4, <1>5 DEF Ids
<1>8. FairlyStopped(streams')
  <2>1. "other" # None /\ "replaced" # None BY DEF Causes
  <2> QED BY <1>3, <1>4, <1>5, <2>1 DEF FairlyStopped
<1>9. handles' = [handles EXCEPT ![t] = handles[t]] BY <1>2, <1>3 DEF Core
<1>10. handles[t] # None => IsHandle(handles[t]) /\ Holds(t, handles[t], streams', nextId')
  <2> SUFFICES ASSUME handles[t] # None
               PROVE  IsHandle(handles[t]) /\ Holds(t, handles[t], streams', nextId')
    OBVIOUS
  <2>1. IsHandle(handles[t]) /\ Holds(t, handles[t], streams, nextId) BY <1>3 DEF Core
  <2>2. \A id \in DOMAIN handles[t].logs : streams'[handles[t].logs[id]].state # "done"
    BY <1>5, <2>1 DEF Holds, Of
  <2>3. nextId <= nextId' /\ nextId' \in Nat BY <1>2, <1>3
  <2> QED BY <1>6, <1>3, <2>1, <2>2, <2>3, HoldsOn
<1>11. nextId' \in Nat /\ nextId <= nextId' /\ stops' \subseteq DOMAIN streams'
  BY <1>2, <1>3, <1>5
<1>12. \A j \in DOMAIN streams : streams[j].tab # t /\ streams[j].state # "done" =>
           streams'[j].state # "done"
  BY <1>5
<1> QED BY <1>3, <1>5, <1>6, <1>7, <1>8, <1>9, <1>10, <1>11, <1>12, HandleChanges

\* A pods, log or table stream starts under the session its tab has: handle h is that
\* session's with the stream entered, and stops no stream but a pods watch.
LEMMA StartKeeps ==
    ASSUME Inv, NEW i \in DOMAIN streams, NEW h, NEW id \in Nat \cup {None}, NEW id2 \in Nat,
           nextId <= id2, Start(i, h, id, id2), UNCHANGED stops,
           streams[i].state = "asked", streams[i].kind # "exec",
           handles[streams[i].tab] # None, IsHandle(h),
           h.session = handles[streams[i].tab].session,
           h.execs = handles[streams[i].tab].execs, h.nextExec = handles[streams[i].tab].nextExec,
           h.pods = handles[streams[i].tab].pods \/ (h.pods = i /\ streams[i].kind = "pods"),
           \A x \in DOMAIN h.logs :
               \/ x \in DOMAIN handles[streams[i].tab].logs /\ h.logs[x] = handles[streams[i].tab].logs[x]
               \/ x = id /\ h.logs[x] = i /\ streams[i].kind = "logs",
           \A j \in Kept(handles[streams[i].tab]) \ Held(h) : streams[j].kind = "pods",
           streams[i].kind = "logs" =>
               id \in Nat /\ id < id2 /\ \A j \in DOMAIN streams : streams[j].kind = "logs" => streams[j].id # id
    PROVE  Core'
<1> USE SessionRegistryAssumption
<1> DEFINE t == streams[i].tab
           old == handles[t]
           hit == Kept(old) \ Held(h)
           f == Fire(streams, hit, "replaced")
           r == [f[i] EXCEPT !.state = "running", !.session = h.session, !.id = id]
<1>1. /\ Core /\ streams \in Seq(Stream) /\ nextId \in Nat /\ stops \subseteq DOMAIN streams
      /\ Ids(streams, nextId) /\ FairlyStopped(streams) /\ "replaced" \in Causes
  BY DEF Inv, Core, Causes
<1>2. t \in Tabs
  <2>1. streams[i] \in Stream BY <1>1
  <2> QED BY <2>1 DEF Stream
<1>3. IsHandle(old) /\ Holds(t, old, streams, nextId) BY <1>1, <1>2 DEF Core
<1>4. /\ f \in Seq(Stream) /\ DOMAIN f = DOMAIN streams
      /\ \A j \in DOMAIN streams : f[j].state = streams[j].state
      /\ Follows(streams, f) /\ Ids(f, nextId) /\ FairlyStopped(f)
  <2>1. \A j \in DOMAIN streams : j \in hit =>
            (streams[j].kind # "exec" => "replaced" # "other")
            /\ (streams[j].kind # "pods" => "replaced" # "replaced")
    OBVIOUS
  <2> HIDE DEF hit
  <2> QED BY <1>1, <2>1, Fired
<1>5. f[i] \in Stream /\ f[i].kind = streams[i].kind /\ f[i].tab = t /\ f[i].state = "asked"
  <2> HIDE DEF f
  <2>1. i \in DOMAIN f /\ f \in Seq(Stream) BY <1>4
  <2>2. f[i] \in Stream BY <2>1
  <2>3. f[i].kind = streams[i].kind /\ f[i].tab = t /\ f[i].state = "asked" BY <1>4 DEF Follows
  <2> QED BY <2>2, <2>3
<1>6. /\ r \in Stream /\ r.kind = f[i].kind /\ r.tab = f[i].tab /\ r.stopped = f[i].stopped
      /\ r.state = "running" /\ r.session = h.session /\ r.id = id
  <2>1. h.session \in Nat BY DEF IsHandle
  <2> HIDE DEF f
  <2> QED BY <1>5, <2>1 DEF Stream
<1>7. streams' = [f EXCEPT ![i] = r] /\ handles' = [handles EXCEPT ![t] = h] /\ nextId' = id2
  <2>1. streams' = [f EXCEPT ![i].state = "running", ![i].session = h.session, ![i].id = id]
    BY DEF Start
  <2>2. handles' = [handles EXCEPT ![t] = h] /\ nextId' = id2 BY DEF Start
  <2> HIDE DEF f
  <2> QED BY <1>4, <1>5, <2>1, <2>2 DEF Stream
<1>8. streams[i].kind = "logs" =>
          id < id2 /\ \A j \in DOMAIN f : j # i /\ f[j].kind = "logs" => f[j].id # id
  <2> SUFFICES ASSUME streams[i].kind = "logs", NEW j \in DOMAIN f, j # i, f[j].kind = "logs"
               PROVE  f[j].id # id
    OBVIOUS
  <2>1. f[j].id = streams[j].id /\ f[j].kind = streams[j].kind BY <1>1, <1>4, FireLeaves
  <2> QED BY <1>4, <2>1
<1> HIDE DEF f, r, hit, t
<1>9. streams' \in Seq(Stream) /\ Follows(f, streams') /\ Ids(streams', id2) /\ FairlyStopped(streams')
  BY <1>1, <1>4, <1>5, <1>6, <1>7, <1>8, PutKeeps
<1>10. Follows(streams, streams') BY <1>4, <1>9, FollowsOn
<1>11. \A j \in DOMAIN streams : streams[j].state # "done" => streams'[j].state # "done"
  BY <1>4, <1>6, <1>7
<1>12. Holds(t, old, streams', id2)
  <2>1. \A x \in DOMAIN old.logs : streams'[old.logs[x]].state # "done"
    BY <1>3, <1>11 DEF Holds, Of
  <2> QED BY <1>1, <1>3, <1>10, <2>1, HoldsOn
<1>13. /\ i \in DOMAIN streams' /\ streams'[i].tab = t /\ streams'[i].kind = streams[i].kind
       /\ streams'[i].session = h.session /\ streams'[i].state = "running" /\ streams'[i].id = id
  BY <1>4, <1>5, <1>6, <1>7
<1>14. h.session = old.session /\ h.execs = old.execs /\ h.nextExec = old.nextExec BY DEF t
<1>15. Holds(t, h, streams', id2)
  <2>1. h.pods # None => Of(h.pods, t, h, streams') /\ streams'[h.pods].kind = "pods"
    <3>0. h.pods = old.pods \/ (h.pods = i /\ streams[i].kind = "pods") BY DEF t
    <3>1. CASE h.pods = old.pods BY <1>12, <1>14, <3>1 DEF Holds, Of
    <3>2. CASE h.pods = i /\ streams[i].kind = "pods" BY <1>13, <3>2 DEF Of
    <3> QED BY <3>0, <3>1, <3>2
  <2>2. ASSUME NEW x \in DOMAIN h.logs
        PROVE  /\ x \in Nat /\ x < id2 /\ Of(h.logs[x], t, h, streams')
               /\ streams'[h.logs[x]].kind = "logs" /\ streams'[h.logs[x]].id = x
               /\ streams'[h.logs[x]].state # "done"
    <3>0. \/ x \in DOMAIN old.logs /\ h.logs[x] = old.logs[x]
          \/ x = id /\ h.logs[x] = i /\ streams[i].kind = "logs"
      BY DEF t
    <3>1. CASE x \in DOMAIN old.logs /\ h.logs[x] = old.logs[x]
      BY <1>12, <1>14, <3>1 DEF Holds, Of
    <3>2. CASE x = id /\ h.logs[x] = i /\ streams[i].kind = "logs"
      BY <1>13, <3>2 DEF Of
    <3> QED BY <3>0, <3>1, <3>2
  <2>3. ASSUME NEW x \in DOMAIN h.execs
        PROVE  /\ x \in Nat /\ x < h.nextExec
               /\ h.execs[x] \in DOMAIN streams' /\ streams'[h.execs[x]].kind = "exec"
    BY <1>12, <1>14 DEF Holds
  <2> QED BY <2>1, <2>2, <2>3 DEF Holds
<1>16. nextId' \in Nat /\ nextId <= nextId' /\ stops' \subseteq DOMAIN streams'
       /\ Ids(streams', nextId') /\ Holds(t, h, streams', nextId')
  BY <1>1, <1>7, <1>9, <1>10, <1>15 DEF Follows
<1> QED BY <1>1, <1>2, <1>7, <1>9, <1>10, <1>11, <1>16, HandleChanges

\* Nothing happens without a session, and the command fails.
LEMMA RefuseKeeps ==
    ASSUME Inv, NEW i \in DOMAIN streams, Refuse(i), UNCHANGED stops,
           streams[i].kind = "exec" \/ streams[i].state = "asked"
    PROVE  Core'
<1> DEFINE r == [streams[i] EXCEPT !.state = "refused"]
<1>1. Core /\ streams \in Seq(Stream) /\ stops \subseteq DOMAIN streams BY DEF Inv, Core
<1>2. streams[i] \in Stream BY <1>1
<1>3. /\ r \in Stream /\ r.kind = streams[i].kind /\ r.tab = streams[i].tab /\ r.id = streams[i].id
      /\ r.stopped = streams[i].stopped /\ r.state = "refused"
  BY <1>2 DEF Stream
<1>4. streams' = [streams EXCEPT ![i] = r] /\ UNCHANGED <<handles, nextId>>
  BY <1>1, <1>2 DEF Refuse, Stream
<1> HIDE DEF r
<1> QED BY <1>1, <1>3, <1>4, OneChanges

\* The pods watch takes the place of the tab's older one.
LEMMA WatchKeeps ==
    ASSUME Inv, NEW i \in DOMAIN streams, WatchPods(i)
    PROVE  Core'
<1> USE SessionRegistryAssumption
<1> DEFINE t == streams[i].tab
           h == handles[t]
           new == [h EXCEPT !.pods = i]
<1>1. Core /\ streams \in Seq(Stream) /\ nextId \in Nat BY DEF Inv, Core
<1>2. /\ streams[i].kind = "pods" /\ streams[i].state = "asked" /\ UNCHANGED stops
      /\ (h # None /\ Start(i, new, None, nextId)) \/ Refuse(i)
  BY DEF WatchPods
<1>3. CASE Refuse(i) BY <1>2, <1>3, RefuseKeeps
<1>4. CASE h # None /\ Start(i, new, None, nextId)
  <2>1. t \in Tabs /\ i \in Nat
    <3>1. streams[i] \in Stream /\ i \in Nat BY <1>1
    <3> QED BY <3>1 DEF Stream
  <2>2. IsHandle(h) /\ Holds(t, h, streams, nextId) BY <1>1, <1>4, <2>1 DEF Core
  <2>3. /\ IsHandle(new) /\ new.session = h.session /\ new.execs = h.execs /\ new.nextExec = h.nextExec
        /\ new.pods = i /\ new.logs = h.logs
    BY <2>1, <2>2 DEF IsHandle
  <2>4. \A j \in Kept(h) \ Held(new) : streams[j].kind = "pods"
    <3>1. \A j \in {h.pods} \ {None} : streams[j].kind = "pods" BY <2>2, HeldKinds
    <3> HIDE DEF new, h
    <3> QED BY <1>4, <2>3, <3>1 DEF Kept, Held
  <2>5. \A x \in DOMAIN new.logs : x \in DOMAIN h.logs /\ new.logs[x] = h.logs[x] BY <2>3
  <2>6. nextId <= nextId BY <1>1
  <2> HIDE DEF new
  <2> QED BY <1>1, <1>2, <1>4, <2>3, <2>4, <2>5, <2>6, StartKeeps
<1> QED BY <1>2, <1>3, <1>4

\* A log or table stream is entered under a new global id.
LEMMA LogsKeeps ==
    ASSUME Inv, NEW i \in DOMAIN streams, StreamLogs(i)
    PROVE  Core'
<1> USE SessionRegistryAssumption
<1> DEFINE t == streams[i].tab
           h == handles[t]
           new == [h EXCEPT !.logs = Insert(h.logs, nextId, i)]
<1>1. Core /\ streams \in Seq(Stream) /\ nextId \in Nat /\ Ids(streams, nextId) BY DEF Inv, Core
<1>2. /\ streams[i].kind = "logs" /\ streams[i].state = "asked" /\ UNCHANGED stops
      /\ (h # None /\ Start(i, new, nextId, nextId + 1)) \/ Refuse(i)
  BY DEF StreamLogs, LogId
<1>3. CASE Refuse(i) BY <1>2, <1>3, RefuseKeeps
<1>4. CASE h # None /\ Start(i, new, nextId, nextId + 1)
  <2>1. t \in Tabs
    <3>1. streams[i] \in Stream BY <1>1
    <3> QED BY <3>1 DEF Stream
  <2>2. IsHandle(h) /\ Holds(t, h, streams, nextId) BY <1>1, <1>4, <2>1 DEF Core
  <2>3. /\ IsHandle(new) /\ new.session = h.session /\ new.execs = h.execs /\ new.nextExec = h.nextExec
        /\ new.pods = h.pods /\ new.logs = Insert(h.logs, nextId, i)
    <3> HIDE DEF h
    <3> QED BY <2>2 DEF IsHandle
  <2> HIDE DEF new
  <2>4. nextId \notin DOMAIN h.logs BY <1>1, <2>2 DEF Holds
  <2>5. /\ DOMAIN new.logs = DOMAIN h.logs \cup {nextId} /\ new.logs[nextId] = i
        /\ \A x \in DOMAIN h.logs : new.logs[x] = h.logs[x]
        /\ Entries(h.logs) \subseteq Entries(new.logs)
    <3>1. /\ DOMAIN Insert(h.logs, nextId, i) = DOMAIN h.logs \cup {nextId}
          /\ Insert(h.logs, nextId, i)[nextId] = i
          /\ \A x \in DOMAIN h.logs : Insert(h.logs, nextId, i)[x] = h.logs[x]
          /\ Entries(h.logs) \subseteq Entries(Insert(h.logs, nextId, i))
      BY <2>4, Inserted
    <3> QED BY <2>3, <3>1
  <2>6. Kept(h) \ Held(new) = {} BY <1>4, <2>3, <2>5 DEF Kept, Held
  <2>7. \A j \in DOMAIN streams : streams[j].kind = "logs" => streams[j].id # nextId
    BY <1>1 DEF Ids
  <2>8. nextId <= nextId + 1 /\ nextId + 1 \in Nat /\ nextId < nextId + 1 BY <1>1
  <2> QED BY <1>1, <1>2, <1>4, <2>3, <2>5, <2>6, <2>7, <2>8, StartKeeps
<1> QED BY <1>2, <1>3, <1>4

\* The cluster is asked for an exec or a port-forward, in the session of now.
LEMMA ExecStartsKeeps ==
    ASSUME Inv, NEW i \in DOMAIN streams, ExecStarts(i)
    PROVE  Core'
<1> USE SessionRegistryAssumption
<1> DEFINE h == handles[streams[i].tab]
           r == [streams[i] EXCEPT !.state = "starting", !.session = h.session]
<1>1. Core /\ streams \in Seq(Stream) /\ stops \subseteq DOMAIN streams BY DEF Inv, Core
<1>2. streams[i] \in Stream BY <1>1
<1>3. CASE h = None BY <1>3, RefuseKeeps DEF ExecStarts
<1>4. CASE h # None
  <2>1. h.session \in Nat
    <3>1. streams[i].tab \in Tabs BY <1>2 DEF Stream
    <3> QED BY <1>1, <1>4, <3>1 DEF Core, IsHandle
  <2>2. /\ streams' = [streams EXCEPT ![i].state = "starting", ![i].session = h.session]
        /\ UNCHANGED <<handles, nextId, stops>> /\ streams[i].kind = "exec"
    BY <1>4 DEF ExecStarts
  <2> HIDE DEF h
  <2>3. /\ r \in Stream /\ r.kind = streams[i].kind /\ r.tab = streams[i].tab /\ r.id = streams[i].id
        /\ r.stopped = streams[i].stopped
    BY <1>2, <2>1 DEF Stream
  <2>4. streams' = [streams EXCEPT ![i] = r] BY <1>1, <1>2, <2>2 DEF Stream
  <2> HIDE DEF r
  <2> QED BY <1>1, <2>2, <2>3, <2>4, OneChanges
<1> QED BY <1>3, <1>4

\* It runs, and is kept by the session of now under an id of its own.
LEMMA ExecEnteredKeeps ==
    ASSUME Inv, NEW i \in DOMAIN streams, ExecEntered(i)
    PROVE  Core'
<1> USE SessionRegistryAssumption
<1> DEFINE t == streams[i].tab
           h == handles[t]
<1>1. /\ Core /\ streams \in Seq(Stream) /\ nextId \in Nat /\ stops \subseteq DOMAIN streams
      /\ Ids(streams, nextId) /\ FairlyStopped(streams)
  BY DEF Inv, Core
<1>2. streams[i] \in Stream BY <1>1
<1>3. t \in Tabs BY <1>2 DEF Stream
<1>4. streams[i].kind = "exec" /\ UNCHANGED <<nextId, stops>> BY DEF ExecEntered
<1>5. CASE h = None
  <2> DEFINE r == [streams[i] EXCEPT !.state = "running", !.stopped = "session"]
  <2>1. /\ streams' = [streams EXCEPT ![i].state = "running", ![i].stopped = "session"]
        /\ UNCHANGED handles
    BY <1>5 DEF ExecEntered
  <2>2. /\ r \in Stream /\ r.kind = streams[i].kind /\ r.tab = streams[i].tab /\ r.id = streams[i].id
        /\ r.stopped = "session"
    BY <1>2 DEF Stream, Causes
  <2>3. streams' = [streams EXCEPT ![i] = r] BY <1>1, <1>2, <2>1 DEF Stream
  <2> HIDE DEF r
  <2> QED BY <1>1, <1>4, <2>1, <2>2, <2>3, OneChanges
<1>6. CASE h # None
  <2> DEFINE id == h.nextExec
             new == [h EXCEPT !.execs = Insert(h.execs, id, i), !.nextExec = id + 1]
             hit == Held(h) \ Held(new)
             f == Fire(streams, hit, "replaced")
             r == [f[i] EXCEPT !.state = "running", !.id = id]
  <2>1. IsHandle(h) /\ Holds(t, h, streams, nextId) BY <1>1, <1>3, <1>6 DEF Core
  <2>2. id \in Nat BY <2>1 DEF IsHandle
  <2>3. /\ IsHandle(new) /\ new.session = h.session /\ new.nextExec = id + 1
        /\ new.pods = h.pods /\ new.logs = h.logs /\ new.execs = Insert(h.execs, id, i)
    <3> DEFINE m == Insert(h.execs, id, i)
               n == id + 1
               one == [h EXCEPT !.execs = m]
    <3>1. IsHandle(h) /\ n \in Nat BY <2>1, <2>2
    <3>2. new = [one EXCEPT !.nextExec = n] OBVIOUS
    <3> HIDE DEF h, id, m, n, new
    <3>3. one = [session |-> h.session, pods |-> h.pods, logs |-> h.logs, execs |-> m,
                 nextExec |-> h.nextExec]
      BY <3>1 DEF IsHandle
    <3> HIDE DEF one
    <3>4. new = [session |-> h.session, pods |-> h.pods, logs |-> h.logs, execs |-> m, nextExec |-> n]
      BY <3>2, <3>3
    <3>5. /\ new.session = h.session /\ new.nextExec = n
          /\ new.pods = h.pods /\ new.logs = h.logs /\ new.execs = m
      BY <3>4
    <3>6. IsHandle(new) BY <3>1, <3>4, <3>5 DEF IsHandle
    <3> QED BY <3>5, <3>6 DEF m, n
  <2>4. /\ streams' = [f EXCEPT ![i].state = "running", ![i].id = id]
        /\ handles' = [handles EXCEPT ![t] = new]
    BY <1>6 DEF ExecEntered, ExecId
  <2> HIDE DEF new
  <2>5. id \notin DOMAIN h.execs BY <2>1, <2>2 DEF Holds
  <2>6. /\ DOMAIN new.execs = DOMAIN h.execs \cup {id} /\ new.execs[id] = i
        /\ \A x \in DOMAIN h.execs : new.execs[x] = h.execs[x]
        /\ Entries(h.execs) \subseteq Entries(new.execs)
    <3>1. /\ DOMAIN Insert(h.execs, id, i) = DOMAIN h.execs \cup {id}
          /\ Insert(h.execs, id, i)[id] = i
          /\ \A x \in DOMAIN h.execs : Insert(h.execs, id, i)[x] = h.execs[x]
          /\ Entries(h.execs) \subseteq Entries(Insert(h.execs, id, i))
      BY <2>5, Inserted
    <3> QED BY <2>3, <3>1
  <2>7. hit = {} BY <2>3, <2>6 DEF Held
  <2>8. /\ f \in Seq(Stream) /\ DOMAIN f = DOMAIN streams
        /\ \A j \in DOMAIN streams : f[j].state = streams[j].state
        /\ Follows(streams, f) /\ Ids(f, nextId) /\ FairlyStopped(f)
    <3>1. "replaced" \in Causes BY DEF Causes
    <3> HIDE DEF hit
    <3> QED BY <1>1, <2>7, <3>1, Fired
  <2> HIDE DEF f, hit, id, h
  <2>9. f[i] \in Stream /\ f[i].kind = "exec" /\ f[i].tab = t
    <3>1. i \in DOMAIN f /\ f \in Seq(Stream) BY <2>8
    <3>2. f[i] \in Stream BY <3>1
    <3>3. f[i].kind = "exec" /\ f[i].tab = t BY <1>4, <2>8 DEF Follows
    <3> QED BY <3>2, <3>3
  <2>10. r \in Stream /\ r.kind = f[i].kind /\ r.tab = f[i].tab /\ r.stopped = f[i].stopped
         /\ r.state = "running"
    BY <2>2, <2>9 DEF Stream
  <2>11. streams' = [f EXCEPT ![i] = r] BY <2>4, <2>8, <2>9 DEF Stream
  <2> HIDE DEF r, t
  <2>12. nextId <= nextId BY <1>1
  <2>13. /\ streams' \in Seq(Stream) /\ Follows(f, streams') /\ Ids(streams', nextId)
         /\ FairlyStopped(streams')
    BY <1>1, <2>8, <2>9, <2>10, <2>11, <2>12, PutKeeps
  <2>14. Follows(streams, streams') BY <2>8, <2>13, FollowsOn
  <2>15. \A j \in DOMAIN streams : streams[j].state # "done" => streams'[j].state # "done"
    BY <2>8, <2>10, <2>11
  <2>16. Holds(t, h, streams', nextId)
    <3>1. \A x \in DOMAIN h.logs : streams'[h.logs[x]].state # "done"
      BY <2>1, <2>15 DEF Holds, Of
    <3> QED BY <1>1, <2>1, <2>12, <2>14, <3>1, HoldsOn
  <2>17. i \in DOMAIN streams' /\ streams'[i].kind = "exec" BY <2>8, <2>9, <2>10, <2>11
  <2>18. Holds(t, new, streams', nextId)
    <3>1. ASSUME NEW x \in DOMAIN new.execs
          PROVE  /\ x \in Nat /\ x < new.nextExec
                 /\ new.execs[x] \in DOMAIN streams' /\ streams'[new.execs[x]].kind = "exec"
      <4>1. CASE x = id BY <2>2, <2>3, <2>6, <2>17, <4>1
      <4>2. CASE x \in DOMAIN h.execs
        <5>1. /\ x \in Nat /\ x < h.nextExec /\ new.execs[x] = h.execs[x]
              /\ h.execs[x] \in DOMAIN streams' /\ streams'[h.execs[x]].kind = "exec"
          BY <2>6, <2>16, <4>2 DEF Holds
        <5>2. h.nextExec = id BY DEF id
        <5> QED BY <2>2, <2>3, <5>1, <5>2
      <4> QED BY <2>6, <4>1, <4>2
    <3> QED BY <2>3, <2>16, <3>1 DEF Holds, Of
  <2>19. nextId' \in Nat /\ nextId <= nextId' /\ stops' \subseteq DOMAIN streams'
         /\ Ids(streams', nextId') /\ Holds(t, new, streams', nextId')
    BY <1>1, <1>4, <2>12, <2>13, <2>14, <2>18 DEF Follows
  <2> QED BY <1>1, <1>3, <2>3, <2>4, <2>13, <2>14, <2>15, <2>19, HandleChanges
<1> QED BY <1>5, <1>6

\* Nothing changes but what the view of a stream knows.
LEMMA ViewKeeps ==
    ASSUME Inv, NEW i \in DOMAIN streams, NEW view \in {"waiting", "knows", "superseded", "left"},
           streams' = [streams EXCEPT ![i].view = view], UNCHANGED <<handles, nextId>>,
           stops' \subseteq DOMAIN streams
    PROVE  Core'
<1> DEFINE r == [streams[i] EXCEPT !.view = view]
<1>1. Core /\ streams \in Seq(Stream) BY DEF Inv, Core
<1>2. streams[i] \in Stream BY <1>1
<1>3. /\ r \in Stream /\ r.kind = streams[i].kind /\ r.tab = streams[i].tab /\ r.id = streams[i].id
      /\ r.stopped = streams[i].stopped /\ r.state = streams[i].state /\ r.session = streams[i].session
  BY <1>2 DEF Stream
<1>4. streams' = [streams EXCEPT ![i] = r] BY <1>1, <1>2 DEF Stream
<1> HIDE DEF r
<1> QED BY <1>1, <1>3, <1>4, OneChanges

\* A reply reaches its view, or the view gives its stream up.
LEMMA ReplyKeeps ==
    ASSUME Inv, NEW i \in DOMAIN streams, Reply(i) \/ StartAgain(i) \/ ViewLeaves(i)
    PROVE  Core'
<1>1. streams \in Seq(Stream) /\ stops \subseteq DOMAIN streams BY DEF Inv, Core
<1>2. PICK view \in {"waiting", "knows", "superseded", "left"} :
          streams' = [streams EXCEPT ![i].view = view]
  <2>1. CASE Reply(i)
    <3>1. streams' = [streams EXCEPT ![i].view = IF streams[i].view = "waiting" THEN "knows" ELSE "left"]
      BY <2>1 DEF Reply
    <3> QED BY <3>1
  <2>2. CASE StartAgain(i) BY <2>2 DEF StartAgain, GiveUp
  <2>3. CASE ViewLeaves(i) BY <2>3 DEF ViewLeaves, GiveUp
  <2> QED BY <2>1, <2>2, <2>3
<1>3. UNCHANGED <<handles, nextId>> /\ stops' \subseteq DOMAIN streams
  BY <1>1 DEF Reply, StartAgain, ViewLeaves, GiveUp, OrphanStopped
<1> QED BY <1>2, <1>3, ViewKeeps

\* A stream's loop comes to its end; a log or table stream has yet to prune.
LEMMA EndsKeeps ==
    ASSUME Inv, NEW i \in DOMAIN streams, Ends(i)
    PROVE  Core'
<1> DEFINE state == IF streams[i].kind = "logs" THEN "ended" ELSE "done"
           r == [streams[i] EXCEPT !.state = state]
<1>1. Core /\ streams \in Seq(Stream) /\ stops \subseteq DOMAIN streams BY DEF Inv, Core
<1>2. streams[i] \in Stream BY <1>1
<1>3. /\ r \in Stream /\ r.kind = streams[i].kind /\ r.tab = streams[i].tab /\ r.id = streams[i].id
      /\ r.stopped = streams[i].stopped /\ r.state = state /\ r.session = streams[i].session
  BY <1>2 DEF Stream
<1>4. streams' = [streams EXCEPT ![i].state = state] /\ UNCHANGED <<handles, nextId, stops>>
  BY DEF Ends
<1>5. state # "asked" /\ (streams[i].kind = "logs" => state # "done") OBVIOUS
<1> HIDE DEF state
<1>6. streams' = [streams EXCEPT ![i] = r] BY <1>1, <1>2, <1>4 DEF Stream
<1> HIDE DEF r
<1> QED BY <1>1, <1>3, <1>4, <1>5, <1>6, OneChanges

\* An ended log or table stream removes its entry, and no other: ids are its own.
LEMMA PruneKeeps ==
    ASSUME Inv, NEW i \in DOMAIN streams, Prune(i)
    PROVE  Core'
<1> USE SessionRegistryAssumption
<1> DEFINE t == streams[i].tab
           h == handles[t]
           r == [streams[i] EXCEPT !.state = "done"]
<1>1. /\ Core /\ streams \in Seq(Stream) /\ nextId \in Nat /\ stops \subseteq DOMAIN streams
      /\ Ids(streams, nextId) /\ FairlyStopped(streams)
  BY DEF Inv, Core
<1>2. streams[i] \in Stream BY <1>1
<1>3. t \in Tabs /\ streams[i].id \in Nat \cup {None} BY <1>2 DEF Stream
<1>4. streams[i].kind = "logs" /\ streams[i].state = "ended" /\ UNCHANGED <<nextId, stops>>
  BY DEF Prune
<1>5. /\ r \in Stream /\ r.kind = "logs" /\ r.tab = t /\ r.id = streams[i].id
      /\ r.stopped = streams[i].stopped /\ r.state = "done" /\ r.session = streams[i].session
  BY <1>2, <1>4 DEF Stream
<1>6. nextId <= nextId BY <1>1
<1>7. ASSUME streams' = [streams EXCEPT ![i] = r]
      PROVE  /\ streams' \in Seq(Stream) /\ Follows(streams, streams') /\ Ids(streams', nextId)
             /\ FairlyStopped(streams')
             /\ \A j \in DOMAIN streams : streams'[j] = IF j = i THEN r ELSE streams[j]
  <2> HIDE DEF r
  <2>1. r.id # None => r.id < nextId /\ \A j \in DOMAIN streams : j # i /\ streams[j].kind = "logs" =>
                           streams[j].id # r.id
    BY <1>1, <1>4, <1>5 DEF Ids
  <2>2. /\ streams' \in Seq(Stream) /\ Follows(streams, streams') /\ Ids(streams', nextId)
        /\ FairlyStopped(streams')
    <3>1. /\ r.kind = streams[i].kind /\ r.tab = streams[i].tab /\ r.stopped = streams[i].stopped
          /\ r.id = streams[i].id /\ r.session = streams[i].session /\ r.state # "asked"
      BY <1>4, <1>5
    <3> QED BY <1>1, <1>5, <1>6, <1>7, <2>1, <3>1, PutKeeps
  <2> QED BY <1>1, <1>5, <1>7, <2>2, Put
<1>8. CASE h = None
  <2>1. streams' = [streams EXCEPT ![i] = r] /\ UNCHANGED handles
    <3>1. streams' = [streams EXCEPT ![i].state = "done"] /\ UNCHANGED handles BY <1>8 DEF Prune
    <3> QED BY <1>1, <1>2, <3>1 DEF Stream
  <2>2. handles' = [handles EXCEPT ![t] = None] BY <1>1, <1>3, <1>8, <2>1 DEF Core
  <2> HIDE DEF r
  <2>3. \A j \in DOMAIN streams : streams[j].tab # t /\ streams[j].state # "done" =>
            streams'[j].state # "done"
    BY <1>7, <2>1
  <2>4. nextId' \in Nat /\ nextId <= nextId' /\ stops' \subseteq DOMAIN streams' /\ Ids(streams', nextId')
    BY <1>1, <1>4, <1>6, <1>7, <2>1 DEF Follows
  <2>5. streams' \in Seq(Stream) /\ Follows(streams, streams') /\ FairlyStopped(streams')
    BY <1>7, <2>1
  <2> HIDE DEF t
  <2> QED BY <1>1, <1>3, <2>2, <2>3, <2>4, <2>5, HandleChanges
<1>9. CASE h # None
  <2> DEFINE id == streams[i].id
             new == [h EXCEPT !.logs = WithoutId(h.logs, id)]
             hit == Held(h) \ (Held(new) \cup {i})
             f == Fire(streams, hit, "other")
  <2>1. IsHandle(h) /\ Holds(t, h, streams, nextId) BY <1>1, <1>3, <1>9 DEF Core
  <2>2. /\ IsHandle(new) /\ new.session = h.session /\ new.nextExec = h.nextExec
        /\ new.pods = h.pods /\ new.execs = h.execs /\ new.logs = WithoutId(h.logs, id)
    <3> HIDE DEF h
    <3> QED BY <2>1 DEF IsHandle
  <2>3. /\ streams' = [f EXCEPT ![i].state = "done"] /\ handles' = [handles EXCEPT ![t] = new]
    BY <1>9 DEF Prune, Pruned
  <2> HIDE DEF new
  <2>4. /\ DOMAIN WithoutId(h.logs, id) = DOMAIN h.logs \ {id}
        /\ \A x \in DOMAIN h.logs \ {id} : WithoutId(h.logs, id)[x] = h.logs[x]
        /\ \A j \in Entries(h.logs) : j \in Entries(WithoutId(h.logs, id)) \/ (id \in DOMAIN h.logs /\ j = h.logs[id])
    BY Removed
  <2> HIDE DEF h
  <2>5. id \in DOMAIN h.logs => h.logs[id] = i
    <3> SUFFICES ASSUME id \in DOMAIN h.logs PROVE h.logs[id] = i OBVIOUS
    <3>1. /\ id \in Nat /\ h.logs[id] \in DOMAIN streams
          /\ streams[h.logs[id]].kind = "logs" /\ streams[h.logs[id]].id = id
      BY <2>1 DEF Holds, Of
    <3> QED BY <1>1, <1>4, <3>1 DEF Ids
  <2>6. hit = {} BY <2>2, <2>4, <2>5 DEF Held
  <2> HIDE DEF hit
  <2>7. f = streams
    <3>1. \A j \in DOMAIN streams : f[j] = streams[j] BY <2>6 DEF Fire
    <3>2. f \in Seq(Stream) /\ DOMAIN f = DOMAIN streams
      <4>1. "other" \in Causes BY DEF Causes
      <4> QED BY <1>1, <4>1, FireStops
    <3> HIDE DEF f
    <3>3. Len(f) = Len(streams) BY <1>1, <3>2
    <3> QED BY <1>1, <3>1, <3>2, <3>3
  <2>8. streams' = [streams EXCEPT ![i] = r]
    <3> HIDE DEF f
    <3> QED BY <1>1, <1>2, <2>3, <2>7 DEF Stream
  <2> HIDE DEF r, f, t
  <2>9. Holds(t, new, streams', nextId)
    <3>1. ASSUME NEW x \in DOMAIN new.logs
          PROVE  /\ x \in Nat /\ x < nextId /\ Of(new.logs[x], t, new, streams')
                 /\ streams'[new.logs[x]].kind = "logs" /\ streams'[new.logs[x]].id = x
                 /\ streams'[new.logs[x]].state # "done"
      <4>1. x # id /\ x \in DOMAIN h.logs /\ new.logs[x] = h.logs[x] BY <2>2, <2>4
      <4>2. /\ x \in Nat /\ x < nextId /\ Of(h.logs[x], t, h, streams)
            /\ streams[h.logs[x]].kind = "logs" /\ streams[h.logs[x]].id = x
            /\ streams[h.logs[x]].state # "done"
        BY <2>1, <4>1 DEF Holds
      <4>3. h.logs[x] # i BY <4>1, <4>2
      <4>4. h.logs[x] \in DOMAIN streams' /\ streams'[h.logs[x]] = streams[h.logs[x]]
        BY <1>7, <2>8, <4>2, <4>3 DEF Of, Follows
      <4> QED BY <2>2, <4>1, <4>2, <4>4 DEF Of
    <3>2. new.pods # None => Of(new.pods, t, new, streams') /\ streams'[new.pods].kind = "pods"
      BY <1>7, <2>1, <2>2, <2>8 DEF Holds, Of, Follows
    <3>3. ASSUME NEW x \in DOMAIN new.execs
          PROVE  /\ x \in Nat /\ x < new.nextExec
                 /\ new.execs[x] \in DOMAIN streams' /\ streams'[new.execs[x]].kind = "exec"
      BY <1>7, <2>1, <2>2, <2>8 DEF Holds, Follows
    <3> QED BY <3>1, <3>2, <3>3 DEF Holds
  <2>10. \A j \in DOMAIN streams : streams[j].tab # t /\ streams[j].state # "done" =>
            streams'[j].state # "done"
    BY <1>7, <2>8 DEF t
  <2>11. nextId' \in Nat /\ nextId <= nextId' /\ stops' \subseteq DOMAIN streams'
         /\ Ids(streams', nextId') /\ Holds(t, new, streams', nextId')
    BY <1>1, <1>4, <1>6, <1>7, <2>8, <2>9 DEF Follows
  <2> QED BY <1>1, <1>3, <1>7, <2>2, <2>3, <2>8, <2>10, <2>11, HandleChanges
<1> QED BY <1>8, <1>9

\* A stop takes out the entry under its stream's id: of a log or table stream that is
\* the stream itself, of an exec it may be another exec.
LEMMA StopKeeps ==
    ASSUME Inv, NEW i \in stops, StopStream(i)
    PROVE  Core'
<1> USE SessionRegistryAssumption
<1> DEFINE t == streams[i].tab
           h == handles[t]
           id == streams[i].id
           new == IF streams[i].kind = "logs" THEN [h EXCEPT !.logs = WithoutId(h.logs, id)]
                  ELSE [h EXCEPT !.execs = WithoutId(h.execs, id)]
           hit == Held(h) \ Held(new)
           cause == IF hit = {i} THEN "own" ELSE "other"
<1>1. /\ Core /\ streams \in Seq(Stream) /\ nextId \in Nat /\ stops \subseteq DOMAIN streams
      /\ Ids(streams, nextId) /\ FairlyStopped(streams) /\ i \in DOMAIN streams
  BY DEF Inv, Core
<1>2. t \in Tabs
  <2>1. streams[i] \in Stream BY <1>1
  <2> QED BY <2>1 DEF Stream
<1>3. stops' \subseteq DOMAIN streams /\ UNCHANGED nextId BY <1>1 DEF StopStream
<1>4. CASE h = None
  <2>1. UNCHANGED <<handles, streams, nextId>> BY <1>4, <1>3 DEF StopStream
  <2> QED BY <1>1, <1>3, <2>1 DEF Core
<1>5. CASE h # None
  <2>1. IsHandle(h) /\ Holds(t, h, streams, nextId) BY <1>1, <1>2, <1>5 DEF Core
  <2>2. handles' = [handles EXCEPT ![t] = new] /\ streams' = Fire(streams, hit, cause)
    BY <1>5 DEF StopStream
  <2>3. /\ IsHandle(new) /\ new.session = h.session /\ new.nextExec = h.nextExec /\ new.pods = h.pods
        /\ \/ streams[i].kind = "logs" /\ new.logs = WithoutId(h.logs, id) /\ new.execs = h.execs
           \/ streams[i].kind # "logs" /\ new.execs = WithoutId(h.execs, id) /\ new.logs = h.logs
    <3> HIDE DEF h
    <3>1. CASE streams[i].kind = "logs" BY <2>1, <3>1 DEF IsHandle
    <3>2. CASE streams[i].kind # "logs" BY <2>1, <3>2 DEF IsHandle
    <3> QED BY <3>1, <3>2
  <2> HIDE DEF h, new
  <2>4. /\ DOMAIN WithoutId(h.logs, id) = DOMAIN h.logs \ {id}
        /\ \A x \in DOMAIN h.logs \ {id} : WithoutId(h.logs, id)[x] = h.logs[x]
        /\ \A j \in Entries(h.logs) : j \in Entries(WithoutId(h.logs, id)) \/ (id \in DOMAIN h.logs /\ j = h.logs[id])
    BY Removed
  <2>5. /\ DOMAIN WithoutId(h.execs, id) = DOMAIN h.execs \ {id}
        /\ \A x \in DOMAIN h.execs \ {id} : WithoutId(h.execs, id)[x] = h.execs[x]
    BY DEF WithoutId, Restrict
  <2>6. /\ DOMAIN new.logs \subseteq DOMAIN h.logs /\ \A x \in DOMAIN new.logs : new.logs[x] = h.logs[x]
        /\ DOMAIN new.execs \subseteq DOMAIN h.execs /\ \A x \in DOMAIN new.execs : new.execs[x] = h.execs[x]
    BY <2>3, <2>4, <2>5
  <2>7. \A j \in DOMAIN streams : j \in hit =>
            (streams[j].kind # "exec" => cause # "other") /\ (streams[j].kind # "pods" => cause # "replaced")
    <3>1. cause # "replaced" OBVIOUS
    <3>2. CASE streams[i].kind = "logs"
      <4>1. id \in DOMAIN h.logs => h.logs[id] = i
        <5> SUFFICES ASSUME id \in DOMAIN h.logs PROVE h.logs[id] = i OBVIOUS
        <5>1. /\ id \in Nat /\ h.logs[id] \in DOMAIN streams
              /\ streams[h.logs[id]].kind = "logs" /\ streams[h.logs[id]].id = id
          BY <2>1 DEF Holds, Of
        <5> QED BY <1>1, <3>2, <5>1 DEF Ids
      <4>2. hit \subseteq {i} BY <2>3, <2>4, <3>2, <4>1 DEF Held
      <4> HIDE DEF hit
      <4>3. \A j \in hit : hit = {i} BY <4>2
      <4> QED BY <3>1, <4>3
    <3>3. CASE streams[i].kind # "logs"
      <4>1. hit \subseteq Entries(h.execs) BY <2>3, <3>3 DEF Held
      <4>2. \A j \in Entries(h.execs) : streams[j].kind = "exec" BY <2>1, HeldKinds
      <4> HIDE DEF hit, cause
      <4> QED BY <3>1, <4>1, <4>2
    <3> QED BY <3>2, <3>3
  <2>8. cause \in Causes BY DEF Causes
  <2> HIDE DEF hit, cause, t
  <2>9. /\ streams' \in Seq(Stream) /\ DOMAIN streams' = DOMAIN streams
        /\ \A j \in DOMAIN streams : streams'[j].state = streams[j].state
        /\ Follows(streams, streams') /\ Ids(streams', nextId) /\ FairlyStopped(streams')
    BY <1>1, <2>2, <2>7, <2>8, Fired
  <2>10. Holds(t, h, streams', nextId)
    <3>1. \A x \in DOMAIN h.logs : streams'[h.logs[x]].state # "done"
      BY <2>1, <2>9 DEF Holds, Of
    <3>2. nextId <= nextId BY <1>1
    <3> QED BY <1>1, <2>1, <2>9, <3>1, <3>2, HoldsOn
  <2>11. Holds(t, new, streams', nextId) BY <2>3, <2>6, <2>10 DEF Holds, Of
  <2>12. nextId' \in Nat /\ nextId <= nextId' /\ stops' \subseteq DOMAIN streams'
         /\ Ids(streams', nextId') /\ Holds(t, new, streams', nextId')
    BY <1>1, <1>3, <2>9, <2>11
  <2> QED BY <1>1, <1>2, <2>2, <2>3, <2>9, <2>12, HandleChanges
<1> QED BY <1>4, <1>5

-----------------------------------------------------------------------------
(* The theorems *)

\* Inv is inductive.
LEMMA InvStep == Inv /\ [Next]_vars => Inv'
<1> SUFFICES ASSUME Inv, [Next]_vars PROVE Core' /\ Types' BY DEF Inv
<1>1. CASE UNCHANGED vars
  BY <1>1 DEF vars, Inv, Core, Types
<1>2. CASE Next
  <2>0. stops \subseteq DOMAIN streams BY DEF Inv, Core
  <2>1. Types' BY <1>2, TypesKeep
  <2>2. ASSUME UNCHANGED <<handles, nextId, streams, stops>> PROVE Core' BY <2>2 DEF Inv, Core
  <2>3. ASSUME NEW t \in Tabs, Connect(t) \/ CloseTab(t) PROVE Core'
    <3>1. UNCHANGED <<handles, nextId, streams, stops>> BY <2>3 DEF Connect, CloseTab
    <3> QED BY <2>2, <3>1
  <2>4. ASSUME NEW i \in DOMAIN opens, OpenFails(i) \/ OpenReturns(i) PROVE Core'
    <3>1. UNCHANGED <<handles, nextId, streams, stops>> BY <2>4 DEF OpenFails, OpenReturns
    <3> QED BY <2>2, <3>1
  <2>5. ASSUME NEW i \in DOMAIN opens, OpenSession(i) PROVE Core' BY <2>5, OpenKeeps
  <2>6. ASSUME NEW t \in Tabs, CloseSession(t) PROVE Core' BY <2>6, CloseKeeps
  <2>7. ASSUME NEW t \in Tabs, NEW kind \in {"pods", "logs", "exec"}, Ask(t, kind) PROVE Core'
    BY <2>7, AskKeeps
  <2>8. ASSUME NEW i \in DOMAIN streams, WatchPods(i) PROVE Core' BY <2>8, WatchKeeps
  <2>9. ASSUME NEW i \in DOMAIN streams, StreamLogs(i) PROVE Core' BY <2>9, LogsKeeps
  <2>10. ASSUME NEW i \in DOMAIN streams, ExecStarts(i) PROVE Core' BY <2>10, ExecStartsKeeps
  <2>11. ASSUME NEW i \in DOMAIN streams, ExecEntered(i) PROVE Core' BY <2>11, ExecEnteredKeeps
  <2>12. ASSUME NEW i \in DOMAIN streams, ExecFails(i) PROVE Core'
    <3>1. streams[i].kind = "exec" /\ Refuse(i) /\ UNCHANGED stops BY <2>12 DEF ExecFails
    <3> QED BY <3>1, RefuseKeeps
  <2>13. ASSUME NEW i \in DOMAIN streams, Ends(i) PROVE Core' BY <2>13, EndsKeeps
  <2>14. ASSUME NEW i \in DOMAIN streams, Prune(i) PROVE Core' BY <2>14, PruneKeeps
  <2>15. ASSUME NEW i \in DOMAIN streams, Reply(i) \/ StartAgain(i) \/ ViewLeaves(i) PROVE Core'
    BY <2>15, ReplyKeeps
  <2>16. ASSUME NEW i \in stops, StopStream(i) PROVE Core' BY <2>16, StopKeeps
  <2>17. ASSUME Reload PROVE Core'
    <3>1. UNCHANGED <<handles, nextId, streams, stops>> BY <2>17 DEF Reload
    <3> QED BY <2>2, <3>1
  <2> QED BY <1>2, <2>1, <2>3, <2>4, <2>5, <2>6, <2>7, <2>8, <2>9, <2>10, <2>11, <2>12, <2>13, <2>14,
             <2>15, <2>16, <2>17 DEF Next
<1> QED BY <1>1, <1>2

\* In every state each session keeps only streams that were started in it, under their
\* own ids, and no stream was stopped for another.
THEOREM RegistryInvariant == Spec => []Inv
BY InvInit, InvStep, PTL DEF Spec

\* A stream is never stopped by a command meant for another: a stop that comes late, or
\* a stream that outlives its session, meets no stream of the session that took its
\* place, and only a pods watch is stopped by the start of another stream.
THEOREM OnlyOwnStreamsStop == Spec => []NeverStoppedForAnother
<1>1. Inv => NeverStoppedForAnother BY DEF Inv, Core, FairlyStopped, NeverStoppedForAnother
<1> QED BY <1>1, RegistryInvariant, PTL

\* The pods, log and table streams a session keeps talk to the session's own cluster.
THEOREM StreamsBelong == Spec => []StreamsUseTheirSession
<1>1. Inv => StreamsUseTheirSession
  <2> SUFFICES ASSUME Inv, NEW t \in Tabs, handles[t] # None, NEW i \in Kept(handles[t]),
                      streams[i].kind # "exec"
               PROVE  streams[i].session = handles[t].session /\ streams[i].tab = t
    BY DEF StreamsUseTheirSession
  <2>1. Holds(t, handles[t], streams, nextId) BY DEF Inv, Core
  <2> QED BY <2>1 DEF Kept, Held, Entries, Holds, Of
<1> QED BY <1>1, RegistryInvariant, PTL

\* A log or table stream that is over has left no entry in any session.
THEOREM EntriesGo == Spec => []NoEntryLeftBehind
<1>1. Inv => NoEntryLeftBehind
  <2> SUFFICES ASSUME Inv, NEW t \in Tabs, NEW i \in Kept(handles[t]), streams[i].kind = "logs"
               PROVE  streams[i].state # "done"
    BY DEF NoEntryLeftBehind
  <2>1. handles[t] # None BY DEF Kept
  <2>2. Holds(t, handles[t], streams, nextId) BY <2>1 DEF Inv, Core
  <2> QED BY <2>1, <2>2 DEF Kept, Held, Entries, Holds, Of
<1> QED BY <1>1, RegistryInvariant, PTL
=============================================================================
