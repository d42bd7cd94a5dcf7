----------------------------- MODULE ExecSession -----------------------------
(***************************************************************************)
(* An interactive session with a container (exec and attach share drive).   *)
(* Two tasks share the attached process: the pump reads its output and       *)
(* sends it to the window or the terminal, and the control loop selects      *)
(* between the stop handle, two wake-ups from the pump, what was typed, new   *)
(* sizes, and the exit status.  Output and status reach them separately.      *)
(***************************************************************************)
EXTENDS Naturals, Sequences

CONSTANTS MaxOutput, MaxTyped  \* bounds on the chunks of output and of input

ASSUME ExecSessionAssumption == MaxOutput \in Nat /\ MaxTyped \in Nat

VARIABLES
    conn,      \* the attach task: "open", "ended" by itself, "aborted"
    stdout,    \* chunks the process wrote, and whether its output is closed
    status,    \* the status future: "pending", "message", or "none" when it got none
    pump,      \* the stdout pump: how many chunks it read, and where it is
    permits,   \* what notify_one left behind: "eof", "sink"
    ctrl,      \* where the control loop is
    input,     \* chunks in the stdin channel, sizes in the resize channel, and all of them so far
    handle,    \* the ExecHandle: "held", or "stopped" (or dropped, which is the same)
    sink,      \* what send delivers to: "up" or "gone"
    delivered, \* chunks of output delivered
    closed     \* the Closed events sent, with what was known then

vars == <<conn, stdout, status, pump, permits, ctrl, input, handle, sink, delivered, closed>>
control == <<ctrl, input, closed>>
pumping == <<pump, delivered>>
user    == <<handle, sink>>

Init ==
    /\ conn = "open" /\ stdout = [written |-> 0, closed |-> FALSE] /\ status = "pending"
    /\ pump = [at |-> "reading", got |-> 0] /\ permits = {} /\ ctrl = "select"
    /\ input = [queued |-> 0, sizes |-> 0, typed |-> 0] /\ handle = "held" /\ sink = "up"
    /\ delivered = 0 /\ closed = <<>>

-----------------------------------------------------------------------------
(* The attached process and its connection *)

Writes ==
    /\ conn = "open" /\ ~stdout.closed /\ stdout.written < MaxOutput
    /\ stdout' = [stdout EXCEPT !.written = @ + 1]
    /\ UNCHANGED <<conn, status, permits, control, pumping, user>>

OutputEnds ==
    /\ conn = "open" /\ stdout' = [stdout EXCEPT !.closed = TRUE]
    /\ UNCHANGED <<conn, status, permits, control, pumping, user>>

StatusArrives ==
    /\ conn = "open" /\ status = "pending" /\ status' = "message"
    /\ UNCHANGED <<conn, stdout, permits, control, pumping, user>>

\* What is left in the pipe can still be read; a status that did not arrive never will.
Disconnected(how) ==
    /\ conn' = IF conn = "open" THEN how ELSE conn
    /\ stdout' = [stdout EXCEPT !.closed = TRUE]
    /\ status' = IF status = "pending" THEN "none" ELSE status

ConnectionEnds ==
    /\ conn = "open" /\ Disconnected("ended")
    /\ UNCHANGED <<permits, control, pumping, user>>

-----------------------------------------------------------------------------
(* The stdout pump *)

\* Faulty: the end is told when the last chunk is read, not after it was sent.
ReadsEagerly ==
    /\ pump.at = "reading" /\ pump.got < stdout.written
    /\ pump' = [at |-> "sending", got |-> pump.got + 1]
    /\ permits' = IF stdout.closed /\ pump.got + 1 = stdout.written THEN permits \cup {"eof"} ELSE permits

Reads ==
    /\ pump.at = "reading" /\ pump.got < stdout.written
    /\ pump' = [at |-> "sending", got |-> pump.got + 1]
    /\ permits' = permits

PumpReads == Reads /\ UNCHANGED <<conn, stdout, status, delivered, control, user>>

PumpEnds ==
    /\ pump.at = "reading" /\ pump.got = stdout.written /\ stdout.closed
    /\ pump' = [pump EXCEPT !.at = "done"] /\ permits' = permits \cup {"eof"}
    /\ UNCHANGED <<conn, stdout, status, delivered, control, user>>

\* Faulty: a sink that is gone ends the pump without a word.
SinkUnseen == permits' = permits

SinkSeen == permits' = permits \cup {"sink"}

PumpSends ==
    /\ pump.at = "sending"
    /\ \/ /\ sink = "up" /\ delivered' = delivered + 1
          /\ pump' = [pump EXCEPT !.at = "reading"] /\ UNCHANGED permits
       \/ /\ sink = "gone" /\ SinkSeen
          /\ pump' = [pump EXCEPT !.at = "done"] /\ UNCHANGED delivered
    /\ UNCHANGED <<conn, stdout, status, control, user>>

Pump == PumpReads \/ PumpEnds \/ PumpSends

-----------------------------------------------------------------------------
(* The control loop *)

\* Faulty: the loop goes on after the end of the output.
CloseAndGoOn(why, message) ==
    /\ ctrl' = IF why = "eof" THEN "select" ELSE "done"
    /\ closed' = Append(closed, [why |-> why, message |-> message, status |-> status,
                                 unread |-> stdout.written - delivered])
    /\ UNCHANGED <<permits, input, pumping, user>>

\* Closed is sent with a message, and the loop ends.
Close(why, message) ==
    /\ ctrl' = "done"
    /\ closed' = Append(closed, [why |-> why, message |-> message, status |-> status,
                                 unread |-> stdout.written - delivered])
    /\ UNCHANGED <<permits, input, pumping, user>>

Stops ==
    /\ ctrl = "select" /\ handle = "stopped"
    /\ ctrl' = "done" /\ Disconnected("aborted")
    /\ UNCHANGED <<permits, input, closed, pumping, user>>

SinkGone ==
    /\ ctrl = "select" /\ "sink" \in permits
    /\ Disconnected("aborted") /\ Close("sink", "none")

OutputEnded ==
    /\ ctrl = "select" /\ "eof" \in permits
    /\ ctrl' = "window" /\ permits' = permits \ {"eof"}
    /\ UNCHANGED <<conn, stdout, status, input, closed, pumping, user>>

\* The status is waited for; it may not come within 2s.
WindowMessages == IF status = "pending" THEN {"none"} ELSE {status}

WindowEnds ==
    /\ ctrl = "window"
    /\ \E message \in WindowMessages : Disconnected("aborted") /\ Close("eof", message)

Exits ==
    /\ ctrl = "select" /\ status # "pending"
    /\ Close("status", status) /\ UNCHANGED <<conn, stdout, status>>

TakesInput ==
    /\ ctrl = "select" /\ input.queued > 0
    /\ ctrl' = "writing" /\ input' = [input EXCEPT !.queued = @ - 1]
    /\ UNCHANGED <<conn, stdout, status, permits, closed, pumping, user>>

\* write_all returns once the other side took everything ...
InputTaken ==
    /\ ctrl = "writing" /\ conn = "open" /\ ctrl' = "select"
    /\ UNCHANGED <<conn, stdout, status, permits, input, closed, pumping, user>>

\* ... or fails once there is none.
InputRefused ==
    /\ ctrl = "writing" /\ conn # "open"
    /\ Disconnected("aborted") /\ Close("stdin", "stdin closed")

TakesSize ==
    /\ ctrl = "select" /\ input.sizes > 0
    /\ ctrl' = "resizing" /\ input' = [input EXCEPT !.sizes = @ - 1]
    /\ UNCHANGED <<conn, stdout, status, permits, closed, pumping, user>>

\* The channel of the sizes takes one while there is room, or refuses it: no matter.
SizeTaken ==
    /\ ctrl = "resizing" /\ conn = "open" /\ ctrl' = "select"
    /\ UNCHANGED <<conn, stdout, status, permits, input, closed, pumping, user>>

SizeRefused ==
    /\ ctrl = "resizing" /\ conn # "open" /\ ctrl' = "select"
    /\ UNCHANGED <<conn, stdout, status, permits, input, closed, pumping, user>>

Control ==
    \/ Stops \/ SinkGone \/ OutputEnded \/ WindowEnds \/ Exits
    \/ TakesInput \/ InputRefused \/ TakesSize \/ SizeRefused

-----------------------------------------------------------------------------
(* The user *)

Types ==
    /\ handle = "held" /\ input.typed < MaxTyped /\ ctrl # "done"
    /\ \E keys \in BOOLEAN :
           input' = [queued |-> IF keys THEN input.queued + 1 ELSE input.queued,
                     sizes |-> IF keys THEN input.sizes ELSE input.sizes + 1,
                     typed |-> input.typed + 1]
    /\ UNCHANGED <<conn, stdout, status, permits, ctrl, closed, pumping, user>>

Leaves ==
    /\ handle = "held" /\ handle' = "stopped"
    /\ UNCHANGED <<conn, stdout, status, permits, control, pumping, sink>>

\* The page that listened is gone.
SinkDies ==
    /\ sink = "up" /\ sink' = "gone"
    /\ UNCHANGED <<conn, stdout, status, permits, control, pumping, handle>>

Next ==
    \/ Writes \/ OutputEnds \/ StatusArrives \/ ConnectionEnds
    \/ Pump \/ Control \/ InputTaken \/ SizeTaken \/ Types \/ Leaves \/ SinkDies

Spec == Init /\ [][Next]_vars

\* Both tasks run; the process need not write, end, or take its input.
FairSpec == Spec /\ WF_vars(Pump) /\ WF_vars(Control)

-----------------------------------------------------------------------------
(* Properties *)

Event == [why : {"sink", "eof", "stdin", "status"}, message : {"none", "message", "stdin closed"},
          status : {"pending", "message", "none"}, unread : 0..MaxOutput]

\* What is delivered was read, and what is read was written.
TypeOK ==
    /\ conn \in {"open", "ended", "aborted"} /\ status \in {"pending", "message", "none"}
    /\ stdout \in [written : 0..MaxOutput, closed : BOOLEAN]
    /\ pump \in [at : {"reading", "sending", "done"}, got : 0..stdout.written]
    /\ delivered \in 0..pump.got /\ permits \subseteq {"eof", "sink"}
    /\ ctrl \in {"select", "writing", "resizing", "window", "done"}
    /\ input \in [queued : Nat, sizes : Nat, typed : 0..MaxTyped]
    /\ input.queued + input.sizes <= input.typed
    /\ handle \in {"held", "stopped"} /\ sink \in {"up", "gone"}
    /\ closed \in Seq(Event)

\* "the exit message is reported exactly once" (exec.rs): a session whose process
\* is gone says so, unless it was told to stop.
ExitIsReported ==
    /\ [](Len(closed) <= 1)
    /\ conn = "ended" ~> closed # <<>> \/ handle = "stopped"

\* "so the exit message lands on the single Closed event": when the end of the
\* output is what closed the session, all of the output came before, and the exit
\* message is in it if the status was there by then.
EndIsComplete ==
    \A i \in DOMAIN closed :
        closed[i].why = "eof" =>
            closed[i].unread = 0 /\ (closed[i].status = "message" => closed[i].message = "message")

\* All output reaches the window in the end, also what a stop or an exit overtook.
OutputDrains == stdout.closed ~> delivered = stdout.written \/ sink = "gone"

\* "so the connection to the kubelet actually tears down instead of leaking": a
\* stop, or a pump that ended because nobody listens, ends the connection, unless
\* the loop is stuck in a write the process does not take, or its status came
\* first and the connection is left to end by itself.
TornDown ==
    handle = "stopped" \/ (sink = "gone" /\ pump.at = "done")
        ~> conn # "open" \/ status = "message" \/ [](ctrl \in {"writing", "resizing"})

\* Whatever ends a session, its output is drained and its connection is torn down.
EndsClean == OutputDrains /\ TornDown
=============================================================================
