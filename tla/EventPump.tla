----------------------------- MODULE EventPump -----------------------------
(***************************************************************************)
(* Who reads the terminal.  The terminal UI reads its keys in one thread,    *)
(* the event pump; while a shell or an editor has the terminal the pump is    *)
(* parked, by a handshake of two flags (pump_pause, pump_parked).  A shell    *)
(* is fed by a thread of its own that is told to stop when the shell ends,    *)
(* and the main loop throws away what was typed meanwhile before it unparks   *)
(* the pump.  Both waits are bounded.  Every load and store is a step.        *)
(***************************************************************************)
EXTENDS Naturals

CONSTANT MaxSuspends   \* bound on shells and editors

ASSUME EventPumpAssumption == MaxSuspends \in Nat

Suspends == 1..MaxSuspends

VARIABLES
    pause,    \* pump_pause
    parked,   \* pump_parked
    thread,   \* where the pump thread is
    main,     \* where the main loop is
    n,        \* suspends so far; shell k has the stdin thread k
    stdin,    \* where the stdin thread of a shell is
    stop,     \* stdin_stop of a shell
    late      \* a wait (of 250ms or 500ms) gave up on its thread

pumpVars == <<pause, parked, thread, main, n, stdin, stop, late>>

PumpStates == {"top", "parking", "parked", "unparking", "polling", "reading", "dead"}
MainStates == {"loop", "waiting", "editor", "shell", "closing", "discarding"}
StdinStates == {"none", "top", "polling", "reading", "done"}

\* run() started the pump.
PumpInit ==
    /\ pause = FALSE /\ parked = FALSE /\ thread = "top" /\ main = "loop" /\ n = 0 /\ late = FALSE
    /\ stdin = [k \in Suspends |-> "none"] /\ stop = [k \in Suspends |-> FALSE]

-----------------------------------------------------------------------------
(* The pump thread *)

PumpGoes(from, to) == thread = from /\ thread' = to /\ UNCHANGED <<pause, main, n, stdin, stop, late>>

PumpLooks ==
    /\ PumpGoes("top", IF pause THEN "parking" ELSE "polling")
    /\ UNCHANGED parked

PumpParks == PumpGoes("parking", "parked") /\ parked' = TRUE

PumpReleased == ~pause /\ PumpGoes("parked", "unparking") /\ UNCHANGED parked

PumpUnparks == PumpGoes("unparking", "top") /\ parked' = FALSE

\* event::poll reads what is there, event::read takes an event from it; an
\* error of either ends the thread.
PumpPolls ==
    /\ \E to \in {"top", "reading", "dead"} : PumpGoes("polling", to)
    /\ UNCHANGED parked

PumpTakes ==
    /\ \E to \in {"top", "dead"} : PumpGoes("reading", to)
    /\ UNCHANGED parked

PumpThread == PumpLooks \/ PumpParks \/ PumpReleased \/ PumpUnparks \/ PumpPolls \/ PumpTakes

-----------------------------------------------------------------------------
(* The stdin thread of shell k *)

StdinGoes(k, from, to) ==
    /\ stdin[k] = from /\ stdin' = [stdin EXCEPT ![k] = to]
    /\ UNCHANGED <<pause, parked, thread, main, n, stop, late>>

StdinLooks(k) == StdinGoes(k, "top", IF stop[k] THEN "done" ELSE "polling")

\* libc::poll consumes nothing
StdinPolls(k) == \E to \in {"top", "reading"} : StdinGoes(k, "polling", to)

\* an end of file, an error and a shell that is gone end the thread
StdinReads(k) == \E to \in {"top", "done"} : StdinGoes(k, "reading", to)

Stdin(k) == StdinLooks(k) \/ StdinPolls(k) \/ StdinReads(k)

-----------------------------------------------------------------------------
(* The main loop *)

\* Suspend: stop_event_pump tells the pump to park ...
Asked ==
    /\ main = "loop" /\ n < MaxSuspends
    /\ main' = "waiting" /\ pause' = TRUE /\ n' = n + 1
    /\ UNCHANGED <<parked, thread, stdin, stop, late>>

\* Faulty: nobody waits for the pump.
ParkedUnseen == late' = late

\* ... and waits until it did, or for as long as it cares to wait.
ParkedSeen == late' = (late \/ ~(parked \/ thread = "dead"))

\* The child gets the terminal; without a session, or when the shell cannot be
\* opened, there is none.
ChildStarts ==
    /\ main = "waiting" /\ ParkedSeen
    /\ \/ main' = "editor" /\ UNCHANGED stdin
       \/ main' = "shell" /\ stdin' = [stdin EXCEPT ![n] = "top"]
       \/ main' = "discarding" /\ UNCHANGED stdin
    /\ UNCHANGED <<pause, parked, thread, n, stop>>

EditorEnds ==
    /\ main = "editor" /\ main' = "discarding"
    /\ UNCHANGED <<pause, parked, thread, n, stdin, stop, late>>

ShellEnds ==
    /\ main = "shell" /\ main' = "closing" /\ stop' = [stop EXCEPT ![n] = TRUE]
    /\ UNCHANGED <<pause, parked, thread, n, stdin, late>>

\* The wait for the shell's thread is bounded as well.
ShellClosed ==
    /\ main = "closing" /\ main' = "discarding"
    /\ late' = (late \/ stdin[n] # "done")
    /\ UNCHANGED <<pause, parked, thread, n, stdin, stop>>

\* Faulty: the pump is not told to go on.
ResumedPaused == main = "discarding" /\ main' = "loop" /\ pause' = pause

\* What was typed is thrown away, then start_event_pump unparks the pump.
Resumed == main = "discarding" /\ main' = "loop" /\ pause' = FALSE

Resume == Resumed /\ UNCHANGED <<parked, thread, n, stdin, stop, late>>

Main == Asked \/ ChildStarts \/ EditorEnds \/ ShellEnds \/ ShellClosed \/ Resume

PumpNext == PumpThread \/ Main \/ \E k \in Suspends : Stdin(k)

PumpSpec == PumpInit /\ [][PumpNext]_pumpVars

\* Threads are scheduled; a shell or an editor may last, and nobody has to ask
\* for one.
FairPump ==
    /\ PumpSpec /\ WF_pumpVars(PumpThread) /\ \A k \in Suspends : WF_pumpVars(Stdin(k))
    /\ WF_pumpVars(ChildStarts) /\ WF_pumpVars(ShellClosed) /\ WF_pumpVars(Resume)

-----------------------------------------------------------------------------

\* The shape of the state; a stdin thread exists from its shell on only.
PumpTypeOK ==
    /\ pause \in BOOLEAN /\ parked \in BOOLEAN
    /\ thread \in PumpStates /\ main \in MainStates /\ n \in 0..MaxSuspends
    /\ stdin \in [Suspends -> StdinStates] /\ stop \in [Suspends -> BOOLEAN]
    /\ late \in BOOLEAN
    /\ \A k \in Suspends : stdin[k] # "none" => k <= n

PumpAtTty == thread \in {"polling", "reading"}
StdinAtTty(k) == stdin[k] = "reading"

\* "only one reader touches the tty at a time" (runtime.rs): the pump never takes
\* a key that is meant for the child or thrown away, and a shell's thread never
\* one that is meant for the UI, an editor or a later shell.  It is promised as
\* long as the waits outlast the threads they wait for.
OneReader == ~late =>
    /\ PumpAtTty => main \in {"loop", "waiting"}
    /\ \A k \in Suspends : StdinAtTty(k) =>
           /\ main \in {"shell", "closing"}
           /\ \A j \in Suspends : StdinAtTty(j) => j = k

\* Once no child has the terminal the pump reads keys again (unless it died of an
\* error), and a child that was asked for gets the terminal: no order of the two
\* flags leaves the pump parked for good or the loop waiting for it for ever.
KeysComeBack ==
    (main \notin {"editor", "shell"}) ~> (thread \in {"polling", "dead"} \/ main \in {"editor", "shell"})
=============================================================================
