---------------------------- MODULE Shell_proofs ----------------------------
(***************************************************************************)
(* What a shell relies on.  In the terminal UI: while it lasts nobody else    *)
(* reads the keys, for any number of shells and editors, until a bounded     *)
(* wait gives up on the thread it waits for (EventPump).  In its session:    *)
(* what a Closed event that the end of the output caused says, for any       *)
(* amount of output and input (ExecSession).  The two share no state.        *)
(***************************************************************************)
EXTENDS EventPump, ExecSession, SequenceTheorems, TLAPS

-----------------------------------------------------------------------------
(* The hand-over of the terminal *)


Alive(k) == stdin[k] \in {"top", "polling", "reading"}

\* Why it works: the pump is paused whenever the loop is not in charge; parked is
\* set exactly while the thread is in the parked stretch of its code, so a stale
\* TRUE of the last round still means that it looks at pause before it reads; and
\* only the thread of the current shell is alive.  A wait that gave up ends all that.
Orderly ==
    /\ pause <=> main # "loop"
    /\ parked <=> thread \in {"parked", "unparking"}
    /\ main \notin {"loop", "waiting"} => ~PumpAtTty
    /\ \A k \in Suspends : Alive(k) => k = n /\ main \in {"shell", "closing"}

PumpInv == PumpTypeOK /\ (main # "loop" => n \in Suspends) /\ (~late => Orderly)

\* The pump starts unpaused and reads at once; there are no other threads.
LEMMA PumpInitially == ASSUME PumpInit PROVE PumpInv
  <1>1. 0 \in 0..MaxSuspends BY EventPumpAssumption
  <1> QED BY <1>1 DEF PumpInit, PumpInv, Orderly, PumpTypeOK, Alive, PumpAtTty, PumpStates, MainStates, StdinStates

\* The pump thread keeps the invariant: it reads only after it saw pause unset,
\* and the loop does not go on before it is out of that stretch.
LEMMA ThreadKeeps == ASSUME PumpInv, PumpThread PROVE PumpInv'
  <1> USE DEF PumpInv, Orderly, PumpTypeOK, Alive, PumpAtTty, PumpGoes, PumpStates
  <1>1. CASE PumpLooks BY <1>1 DEF PumpLooks
  <1>2. CASE PumpParks BY <1>2 DEF PumpParks
  <1>3. CASE PumpReleased BY <1>3 DEF PumpReleased
  <1>4. CASE PumpUnparks BY <1>4 DEF PumpUnparks
  <1>5. CASE PumpPolls BY <1>5 DEF PumpPolls
  <1>6. CASE PumpTakes BY <1>6 DEF PumpTakes
  <1> QED BY <1>1, <1>2, <1>3, <1>4, <1>5, <1>6 DEF PumpThread

\* A stdin thread that is done, or was never started, stays so.
LEMMA StdinKeeps == ASSUME PumpInv, NEW k \in Suspends, Stdin(k) PROVE PumpInv'
  <1> USE DEF PumpInv, Orderly, PumpTypeOK, Alive, PumpAtTty, StdinGoes, StdinStates
  <1>1. CASE StdinLooks(k) BY <1>1 DEF StdinLooks
  <1>2. CASE StdinPolls(k) BY <1>2 DEF StdinPolls
  <1>3. CASE StdinReads(k) BY <1>3 DEF StdinReads
  <1> QED BY <1>1, <1>2, <1>3 DEF Stdin

\* The loop hands the terminal over only once it saw the pump parked, and takes
\* it back only once the shell's thread is done.
LEMMA MainKeeps == ASSUME PumpInv, Main PROVE PumpInv'
  <1> USE EventPumpAssumption DEF PumpInv, Orderly, PumpTypeOK, Alive, PumpAtTty, MainStates
  <1>1. CASE Asked
    <2>1. n' \in Suspends /\ n' \in 0..MaxSuspends BY <1>1 DEF Asked, Suspends
    <2>2. ~late => \A k \in Suspends : ~Alive(k) BY <1>1 DEF Asked
    <2> QED BY <1>1, <2>1, <2>2 DEF Asked
  <1>2. CASE ChildStarts
    <2>1. n \in Suspends BY <1>2 DEF ChildStarts
    <2>2. PumpTypeOK' BY <1>2, <2>1 DEF ChildStarts, ParkedSeen, StdinStates, Suspends
    <2>3. ~late' => ~late /\ (parked \/ thread = "dead") BY <1>2 DEF ChildStarts, ParkedSeen
    <2>4. ~late' => ~PumpAtTty /\ \A k \in Suspends : ~Alive(k) BY <1>2, <2>3 DEF ChildStarts
    <2> QED BY <1>2, <2>1, <2>2, <2>3, <2>4 DEF ChildStarts, StdinStates
  <1>3. CASE EditorEnds BY <1>3 DEF EditorEnds
  <1>4. CASE ShellEnds BY <1>4 DEF ShellEnds
  <1>5. CASE ShellClosed BY <1>5 DEF ShellClosed
  <1>6. CASE Resume BY <1>6 DEF Resume, Resumed
  <1> QED BY <1>1, <1>2, <1>3, <1>4, <1>5, <1>6 DEF Main

\* Every step keeps the invariant.
LEMMA PumpStepKeeps == ASSUME PumpInv, [PumpNext]_pumpVars PROVE PumpInv'
  <1>1. CASE UNCHANGED pumpVars
    BY <1>1 DEF pumpVars, PumpInv, Orderly, PumpTypeOK, Alive, PumpAtTty
  <1> QED BY <1>1, ThreadKeeps, StdinKeeps, MainKeeps DEF PumpNext

\* The invariant holds in every reachable state.
THEOREM Handshake == PumpSpec => []PumpInv
  <1>1. PumpInit => PumpInv BY PumpInitially
  <1>2. PumpInv /\ [PumpNext]_pumpVars => PumpInv' BY PumpStepKeeps
  <1> QED BY <1>1, <1>2, PTL DEF PumpSpec

\* One reader at a time touches the terminal (runtime.rs, stop_event_pump and
\* start_event_pump; suspend.rs, run_session), unless one of the bounded waits gave up.
THEOREM TerminalHasOneReader == PumpSpec => []OneReader
  <1>1. PumpInv => OneReader BY DEF PumpInv, Orderly, OneReader, PumpAtTty, StdinAtTty, Alive
  <1> QED BY <1>1, Handshake, PTL

\* The state keeps its shape, also when the waits give up.
THEOREM PumpTypeCorrect == PumpSpec => []PumpTypeOK
  <1>1. PumpInv => PumpTypeOK BY DEF PumpInv
  <1> QED BY <1>1, Handshake, PTL

-----------------------------------------------------------------------------
(* The end of a session *)

\* What is in the hands of the pump, and that its end is told only when it has
\* nothing left: the order the control loop relies on.
PumpOrder ==
    /\ pump.at = "reading" => delivered = pump.got
    /\ pump.at = "sending" => delivered + 1 = pump.got
    /\ "eof" \in permits \/ ctrl = "window" =>
           pump.at = "done" /\ stdout.closed /\ delivered = stdout.written

Inv == TypeOK /\ PumpOrder /\ EndIsComplete

\* A Closed event added to the list is the only one to look at.
LEMMA OneMoreClosed ==
    ASSUME TypeOK, EndIsComplete, NEW e \in Event, closed' = Append(closed, e),
           e.why = "eof" => e.unread = 0 /\ (e.status = "message" => e.message = "message")
    PROVE  closed' \in Seq(Event) /\ EndIsComplete'
<1>1. closed \in Seq(Event) BY DEF TypeOK
<1>2. closed' \in Seq(Event) BY <1>1
<1>3. DOMAIN closed' = 1..(Len(closed) + 1) BY <1>1
<1>4. \A i \in DOMAIN closed' : closed'[i] = IF i = Len(closed) + 1 THEN e ELSE closed[i]
  BY <1>1, <1>3
<1>5. \A i \in DOMAIN closed' : i # Len(closed) + 1 => i \in DOMAIN closed BY <1>1, <1>3
<1> QED BY <1>2, <1>4, <1>5 DEF EndIsComplete

\* Nothing is running, read or closed yet.
LEMMA InvInit == Init => Inv
<1> SUFFICES ASSUME Init PROVE Inv OBVIOUS
<1> USE ExecSessionAssumption
<1>1. closed \in Seq(Event) BY DEF Init
<1>2. TypeOK BY <1>1 DEF Init, TypeOK
<1>3. PumpOrder BY DEF Init, PumpOrder
<1>4. EndIsComplete BY DEF Init, EndIsComplete
<1> QED BY <1>2, <1>3, <1>4 DEF Inv

\* The three counters of chunks.
LEMMA Counts ==
    ASSUME TypeOK
    PROVE  /\ stdout.written \in 0..MaxOutput /\ delivered \in Nat /\ pump.got \in Nat
           /\ delivered <= stdout.written /\ delivered <= pump.got
<1>1. stdout.written \in 0..MaxOutput BY DEF TypeOK
<1>2. pump.got \in 0..stdout.written BY DEF TypeOK
<1>3. delivered \in 0..pump.got BY DEF TypeOK
<1> QED BY <1>1, <1>2, <1>3, ExecSessionAssumption

\* A pipe that is closed holds what it held.
LEMMA ClosedPipe ==
    ASSUME TypeOK, stdout' = [stdout EXCEPT !.closed = TRUE]
    PROVE  /\ stdout' \in [written : 0..MaxOutput, closed : BOOLEAN]
           /\ stdout'.written = stdout.written /\ stdout'.closed
BY DEF TypeOK

\* The process and its connection: what was read and delivered stays below what
\* was written, and a pipe that is closed gets no more.
LEMMA ConnectionKeeps ==
    Inv /\ (Writes \/ OutputEnds \/ StatusArrives \/ ConnectionEnds) => Inv'
<1> SUFFICES ASSUME Inv, Writes \/ OutputEnds \/ StatusArrives \/ ConnectionEnds PROVE Inv'
  OBVIOUS
<1> USE ExecSessionAssumption
<1>1. TypeOK'
  <2>1. CASE Writes
    <3>1. stdout' = [stdout EXCEPT !.written = @ + 1] /\ stdout.written < MaxOutput
      BY <2>1 DEF Writes
    <3>2. stdout' \in [written : 0..MaxOutput, closed : BOOLEAN]
          /\ stdout'.written = stdout.written + 1
      BY <3>1 DEF Inv, TypeOK
    <3>3. pump \in [at : {"reading", "sending", "done"}, got : 0..stdout'.written]
      BY <3>2 DEF Inv, TypeOK
    <3> QED BY <2>1, <3>2, <3>3 DEF Inv, TypeOK, Writes, control, pumping, user
  <2>2. CASE OutputEnds
    BY <2>2, ClosedPipe DEF Inv, TypeOK, OutputEnds, control, pumping, user
  <2>3. CASE StatusArrives BY <2>3 DEF Inv, TypeOK, StatusArrives, control, pumping, user
  <2>4. CASE ConnectionEnds
    BY <2>4, ClosedPipe DEF Inv, TypeOK, ConnectionEnds, Disconnected, control, pumping, user
  <2> QED BY <2>1, <2>2, <2>3, <2>4
<1>2. PumpOrder'
  BY DEF Inv, TypeOK, PumpOrder, Writes, OutputEnds, StatusArrives, ConnectionEnds, Disconnected,
         control, pumping, user
<1>3. EndIsComplete'
  BY DEF Inv, EndIsComplete, Writes, OutputEnds, StatusArrives, ConnectionEnds, control
<1> QED BY <1>1, <1>2, <1>3 DEF Inv

\* The pump tells the end only between two chunks.
LEMMA PumpKeeps == Inv /\ Pump => Inv'
<1> SUFFICES ASSUME Inv, Pump PROVE Inv' OBVIOUS
<1> USE ExecSessionAssumption
<1>1. CASE PumpReads
  BY <1>1 DEF Inv, TypeOK, PumpOrder, EndIsComplete, PumpReads, Reads, control, user
<1>2. CASE PumpEnds
  BY <1>2 DEF Inv, TypeOK, PumpOrder, EndIsComplete, PumpEnds, control, user
<1>3. CASE PumpSends
  BY <1>3 DEF Inv, TypeOK, PumpOrder, EndIsComplete, PumpSends, SinkSeen, control, user
<1> QED BY <1>1, <1>2, <1>3 DEF Pump

\* Each way out of the control loop.
LEMMA ClosingKeeps ==
    Inv /\ (SinkGone \/ WindowEnds \/ Exits \/ InputRefused) => Inv'
<1> SUFFICES ASSUME Inv, SinkGone \/ WindowEnds \/ Exits \/ InputRefused PROVE Inv' OBVIOUS
<1> USE ExecSessionAssumption
<1> DEFINE New(why, message) == [why |-> why, message |-> message, status |-> status,
                                 unread |-> stdout.written - delivered]
<1>0. stdout.written \in 0..MaxOutput /\ delivered \in Nat /\ delivered <= stdout.written
  BY Counts DEF Inv
<1>1. /\ stdout.written - delivered \in 0..MaxOutput
      /\ delivered = stdout.written => stdout.written - delivered = 0
  BY <1>0
<1>2. PICK why \in {"sink", "eof", "stdin", "status"},
           message \in {"none", "message", "stdin closed"} :
        /\ Close(why, message)
        /\ why = "eof" => /\ ctrl = "window"
                          /\ status = "message" => message = "message"
  <2>1. CASE SinkGone BY <2>1 DEF SinkGone
  <2>2. CASE WindowEnds
    <3>1. PICK message \in WindowMessages : Close("eof", message) BY <2>2 DEF WindowEnds
    <3>2. /\ message \in {"none", "message", "stdin closed"}
          /\ status = "message" => message = "message"
      BY <3>1 DEF WindowMessages, Inv, TypeOK
    <3> QED BY <3>1, <3>2, <2>2 DEF WindowEnds
  <2>3. CASE Exits BY <2>3 DEF Exits, Inv, TypeOK
  <2>4. CASE InputRefused BY <2>4 DEF InputRefused
  <2> QED BY <2>1, <2>2, <2>3, <2>4
<1>3. New(why, message) \in Event BY <1>1, <1>2 DEF Event, Inv, TypeOK
<1>4. closed' = Append(closed, New(why, message)) BY <1>2 DEF Close
<1>5. New(why, message).why = "eof" =>
          /\ New(why, message).unread = 0
          /\ New(why, message).status = "message" => New(why, message).message = "message"
  <2>1. SUFFICES ASSUME why = "eof" PROVE stdout.written - delivered = 0
    BY <1>2
  <2>2. delivered = stdout.written BY <2>1, <1>2 DEF Inv, PumpOrder
  <2> QED BY <2>2, <1>1
<1>6. closed' \in Seq(Event) /\ EndIsComplete'
  BY <1>3, <1>4, <1>5, OneMoreClosed DEF Inv
<1>7. /\ stdout' \in {stdout, [stdout EXCEPT !.closed = TRUE]}
      /\ conn' \in {"open", "ended", "aborted"} /\ status' \in {"pending", "message", "none"}
  BY DEF Inv, TypeOK, SinkGone, WindowEnds, Exits, InputRefused, Disconnected
<1>8. ctrl' = "done" /\ UNCHANGED <<permits, input, pump, delivered, handle, sink>>
  BY <1>2 DEF Close, pumping, user
<1>9. TypeOK' BY <1>6, <1>7, <1>8 DEF Inv, TypeOK
<1>10. PumpOrder' BY <1>7, <1>8 DEF Inv, TypeOK, PumpOrder
<1> QED BY <1>6, <1>9, <1>10 DEF Inv

\* The rest of the control loop: what it takes from its channels.
LEMMA LoopKeeps ==
    Inv /\ (Stops \/ OutputEnded \/ TakesInput \/ InputTaken \/ TakesSize \/ SizeTaken \/ SizeRefused)
        => Inv'
<1> SUFFICES ASSUME Inv, Stops \/ OutputEnded \/ TakesInput \/ InputTaken \/ TakesSize
                           \/ SizeTaken \/ SizeRefused
             PROVE Inv'
  OBVIOUS
<1> USE ExecSessionAssumption
<1>1. TypeOK'
  <2>1. CASE Stops
    BY <2>1, ClosedPipe DEF Inv, TypeOK, Stops, Disconnected, pumping, user
  <2>2. CASE OutputEnded \/ InputTaken \/ SizeTaken \/ SizeRefused
    BY <2>2 DEF Inv, TypeOK, OutputEnded, InputTaken, SizeTaken, SizeRefused, pumping, user
  <2>3. CASE TakesInput \/ TakesSize
    <3>1. \/ input' = [input EXCEPT !.queued = @ - 1] /\ input.queued > 0
          \/ input' = [input EXCEPT !.sizes = @ - 1] /\ input.sizes > 0
      BY <2>3 DEF TakesInput, TakesSize
    <3>2. /\ input \in [queued : Nat, sizes : Nat, typed : 0..MaxTyped]
          /\ input.queued + input.sizes <= input.typed
      BY DEF Inv, TypeOK
    <3>3. /\ input' \in [queued : Nat, sizes : Nat, typed : 0..MaxTyped]
          /\ input'.queued + input'.sizes <= input'.typed
      BY <3>1, <3>2
    <3> QED BY <2>3, <3>3 DEF Inv, TypeOK, TakesInput, TakesSize, pumping, user
  <2> QED BY <2>1, <2>2, <2>3
<1>2. PumpOrder'
  BY DEF Inv, TypeOK, PumpOrder, Stops, OutputEnded, TakesInput, InputTaken, TakesSize, SizeTaken,
         SizeRefused, Disconnected, pumping, user
<1>3. EndIsComplete'
  BY DEF Inv, EndIsComplete, Stops, OutputEnded, TakesInput, InputTaken, TakesSize, SizeTaken,
         SizeRefused
<1> QED BY <1>1, <1>2, <1>3 DEF Inv

\* The user types, leaves, or the page goes away.
LEMMA UserKeeps == Inv /\ (Types \/ Leaves \/ SinkDies) => Inv'
<1> SUFFICES ASSUME Inv, Types \/ Leaves \/ SinkDies PROVE Inv' OBVIOUS
<1> USE ExecSessionAssumption
<1>1. TypeOK'
  <2>1. CASE Types
    <3>1. PICK keys \in BOOLEAN :
            /\ input.typed < MaxTyped
            /\ input' = [queued |-> IF keys THEN input.queued + 1 ELSE input.queued,
                         sizes |-> IF keys THEN input.sizes ELSE input.sizes + 1,
                         typed |-> input.typed + 1]
      BY <2>1 DEF Types
    <3>2. /\ input \in [queued : Nat, sizes : Nat, typed : 0..MaxTyped]
          /\ input.queued + input.sizes <= input.typed
      BY DEF Inv, TypeOK
    <3>3. input.typed + 1 \in 0..MaxTyped BY <3>1, <3>2
    <3>4. /\ input' \in [queued : Nat, sizes : Nat, typed : 0..MaxTyped]
          /\ input'.queued + input'.sizes <= input'.typed
      BY <3>1, <3>2, <3>3
    <3>5. UNCHANGED <<conn, stdout, status, permits, ctrl, closed, pump, delivered, handle, sink>>
      BY <2>1 DEF Types, pumping, user
    <3> QED BY <3>4, <3>5 DEF Inv, TypeOK
  <2>2. CASE Leaves \/ SinkDies
    BY <2>2 DEF Inv, TypeOK, Leaves, SinkDies, control, pumping, user
  <2> QED BY <2>1, <2>2
<1>2. PumpOrder' BY DEF Inv, PumpOrder, Types, Leaves, SinkDies, control, pumping, user
<1>3. EndIsComplete' BY DEF Inv, EndIsComplete, Types, Leaves, SinkDies, control
<1> QED BY <1>1, <1>2, <1>3 DEF Inv

\* Every step of the session keeps the invariant.
LEMMA InvStep == Inv /\ [Next]_vars => Inv'
<1> SUFFICES ASSUME Inv, [Next]_vars PROVE Inv' OBVIOUS
<1>1. CASE UNCHANGED vars
  BY <1>1 DEF vars, Inv, TypeOK, PumpOrder, EndIsComplete
<1>2. CASE Next
  BY <1>2, ConnectionKeeps, PumpKeeps, ClosingKeeps, LoopKeeps, UserKeeps DEF Next, Control
<1> QED BY <1>1, <1>2

\* The invariant of the session.
THEOREM SessionInvariant == Spec => []Inv
BY InvInit, InvStep, PTL DEF Spec

\* TypeOK: deliveries follow reads follow writes, in every reachable state.
THEOREM SessionTypeCorrect == Spec => []TypeOK
<1>1. Inv => TypeOK BY DEF Inv
<1> QED BY <1>1, SessionInvariant, PTL

\* EndIsComplete: drive's eof branch closes after all output, with the exit message.
THEOREM EofCloseComplete == Spec => []EndIsComplete
<1>1. Inv => EndIsComplete BY DEF Inv
<1> QED BY <1>1, SessionInvariant, PTL
=============================================================================
