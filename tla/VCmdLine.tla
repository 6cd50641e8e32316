------------------------------ MODULE VCmdLine ------------------------------
(***************************************************************************)
(* VCmdLine (opt/vcmdline, opt/message): the one message that is drawn     *)
(* over the screen.  The prompt of the command line, the mode messages and *)
(* all errors share it.  The operators are pure: CommandLine keeps the     *)
(* message.                                                                *)
(*                                                                         *)
(* A message is [kind, text, age]: the kind is the class it was made as,   *)
(* the age the time since then.                                            *)
(***************************************************************************)
EXTENDS Naturals

CONSTANT FadeOut    \* cmd_fadeout

ASSUME FadeOutAssumption == FadeOut \in Nat

NoMessage == [kind |-> "none", text |-> "", age |-> 0]

Priority(m) ==
    CASE m.kind \in {"none", "general"} -> 0
      [] m.kind = "error" -> 1
      [] m.kind = "static" -> 2
Fadeoutable(m) == m.kind \in {"general", "error"}

Printed(m, kind, text) ==
    LET new == [kind |-> kind, text |-> text, age |-> 0]
    IN  IF Priority(m) > Priority(new) THEN m ELSE new

\* clear() and reset(): what is left of a message has no priority either.
Reset(m) == NoMessage

\* do_process, at each update of the options; time passes up to the end of the message.
Older(m) == IF m.kind = "none" THEN m ELSE [m EXCEPT !.age = IF @ > FadeOut THEN @ ELSE @ + 1]
\* (Bug: the prompt fades as well.)
Processed_Any(m) == IF m.age > FadeOut THEN Reset(m) ELSE m
Processed(m) == IF Fadeoutable(m) /\ m.age > FadeOut THEN Reset(m) ELSE m
=============================================================================
