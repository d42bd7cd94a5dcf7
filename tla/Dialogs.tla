------------------------------- MODULE Dialogs -------------------------------
(***************************************************************************)
(* The dialogs of the terminal app (chrome.rs): confirm, input, delete and     *)
(* pick, and the prompt below the header.  Each may be open at the same time     *)
(* as any other; the first in the order of HasKeys gets the keys.                *)
(***************************************************************************)
EXTENDS Views

CONSTANT MaxReplicas   \* i32::MAX

NoDialogs == [confirm |-> None, input |-> None, delete |-> None, pick |-> None, prompt |-> None]

ASSUME DialogsAssumption == None \notin DOMAIN NoDialogs

OpenConfirm(d, view, action) == [d EXCEPT !.confirm = [view |-> view, action |-> action]]

\* The number typed so far; the field may be emptied.
OpenInput(d, view, name, prefill) == [d EXCEPT !.input = [view |-> view, name |-> name, value |-> prefill]]

OpenDelete(d, view, name) ==
    [d EXCEPT !.delete = [view |-> view, name |-> name, propagation |-> 1, force |-> FALSE]]

OpenPick(d, view, title, options) ==
    [d EXCEPT !.pick = [view |-> view, title |-> title, options |-> options, at |-> 1]]

OpenPrompt(d, for) == [d EXCEPT !.prompt = for]

\* close_all_modals: the prompt is none of them.
CloseModals(d) == [NoDialogs EXCEPT !.prompt = d.prompt]

\* Which of them handle_key asks first
HasKeys(d) ==
    LET order == <<"confirm", "input", "delete", "pick", "prompt">>
        open == {i \in DOMAIN order : d[order[i]] # None}
    IN  IF open = {} THEN None ELSE order[CHOOSE i \in open : \A j \in open : i <= j]

OpenCount(d) == Cardinality({f \in DOMAIN d : d[f] # None})

-----------------------------------------------------------------------------
(* What a key does to a dialog that stays open; enter, esc and y, n are in       *)
(* Terminal.                                                                    *)

\* A digit is pushed, backspace pops one: i32 is parsed on enter.
InputEdit(d, k) ==
    CASE k.key = "digit" /\ d.input.value = None -> [d EXCEPT !.input.value = k.digit]
      [] k.key = "digit" /\ d.input.value # None -> [d EXCEPT !.input.value = @ * 10 + k.digit]
      [] k.key = "backspace" -> [d EXCEPT !.input.value = IF @ = None \/ @ < 10 THEN None ELSE @ \div 10]
      [] OTHER -> d
IsReplicas(value) == value # None /\ value <= MaxReplicas

Propagations == <<"Background", "Foreground", "Orphan">>

DeleteEdit(d, k) ==
    CASE k.key = "h" -> [d EXCEPT !.delete.propagation = IF @ = 1 THEN 1 ELSE @ - 1]
      [] k.key = "l" -> [d EXCEPT !.delete.propagation = IF @ = 3 THEN 3 ELSE @ + 1]
      [] k.key = "f" -> [d EXCEPT !.delete.force = ~@]
      [] OTHER -> d

PickEdit(d, k) ==
    LET last == Len(d.pick.options) IN
    CASE k.key = "down" -> [d EXCEPT !.pick.at = IF @ < last THEN @ + 1 ELSE @]
      [] k.key = "up" -> [d EXCEPT !.pick.at = IF @ = 1 THEN 1 ELSE @ - 1]
      [] OTHER -> d

\* Enter picks what is highlighted; a pick without options has nothing to choose.
Choice(d) == IF d.pick.at \in DOMAIN d.pick.options THEN d.pick.options[d.pick.at] ELSE None
=============================================================================
