------------------------------- MODULE History -------------------------------
(***************************************************************************)
(* What a user may expect of a command line with a history: the line that  *)
(* is edited is not part of the history, a line enters the history only    *)
(* when it is submitted, and what is in it never changes.                  *)
(***************************************************************************)
EXTENDS Naturals, Sequences

VARIABLES
    kept,    \* the lines of the history
    line     \* the line that is edited, if there is one

Init == kept = <<>> /\ line = <<>>

Open   == line = <<>> /\ line' = <<<<>>>> /\ UNCHANGED kept
Edit   == line # <<>> /\ Len(line') = 1 /\ UNCHANGED kept
Cancel == line # <<>> /\ line' = <<>> /\ UNCHANGED kept
Submit == line # <<>> /\ line' = <<>> /\ kept' = Append(kept, line[1])

Next == Open \/ Edit \/ Cancel \/ Submit

Spec == Init /\ [][Next]_<<kept, line>>
=============================================================================
