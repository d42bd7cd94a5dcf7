-------------------------------- MODULE Views --------------------------------
(***************************************************************************)
(* What the views of the terminal app have in common (views/view.rs): a key, a  *)
(* tick or an answer makes a view and the commands the app has executed.          *)
(***************************************************************************)
EXTENDS Integers, SequencesExt, FiniteSetsExt

CONSTANTS None,     \* no value
          AnyName   \* all names: a filter without text

Kept(view, cmds) == [view |-> view, cmds |-> cmds]

Fetch(view, what, of) == [cmd |-> "Fetch", view |-> view.id, what |-> what, of |-> of]

\* A filter is what split_filter makes of its text: labels for the watch, and the
\* names the rest matches.
NoFilter == [labels |-> None, names |-> AnyName]

AtLeast0(n) == Max({0, n})
=============================================================================
