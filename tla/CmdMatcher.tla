----------------------------- MODULE CmdMatcher -----------------------------
(***************************************************************************)
(* CmdMatcher (core/cmdmatcher): matches a stream of units, the sets of    *)
(* keys that go down together, against one command.  The matcher pushes    *)
(* one state per unit, so that a unit can be taken back.                   *)
(*                                                                         *)
(* A matcher is [cmd, states, heads]; a unit of a command is               *)
(* [keys, kind, name], where a unit of kind "function" has no keys.  The   *)
(* operators are pure: InputHub keeps the matchers.                        *)
(***************************************************************************)
EXTENDS Naturals, Sequences, FiniteSets

CONSTANTS
    Rep,         \* the representative of each physical system key
    DigitValue,  \* the value of each digit key
    Char,        \* the keys that are not major system keys; each shows a character
    OPTIONAL,    \* <any>
    OPTNUMBER    \* <num>

ASSUME KeyAssumption ==
    /\ DOMAIN DigitValue \subseteq Char /\ \A k \in DOMAIN DigitValue : DigitValue[k] \in 0..9
    /\ DOMAIN Rep \cap Char = {} /\ OPTIONAL # OPTNUMBER
    /\ {OPTIONAL, OPTNUMBER} \cap (Char \cup DOMAIN Rep) = {}

\* OVERFLOW stands for a recursion that has no end.
Fresh(cmd) == [cmd |-> cmd, states |-> <<>>, heads |-> <<>>]
Top(s) == s[Len(s)]
LastHead(mt) == Len(mt.cmd) - 1
Push(mt, s, h) == [mt EXCEPT !.states = Append(@, s), !.heads = Append(@, h)]
Reject(mt) == Push(mt, "REJECTED", Len(mt.cmd))

IsAccepted(mt) ==
    mt.states # <<>> /\ Top(mt.states) \in {"ACCEPTED", "ANY_ACCEPTED", "ANYNUM_ACCEPTED"}
IsRejected(mt) == mt.states # <<>> /\ Top(mt.states) = "REJECTED"
IsOverflow(mt) == mt.states # <<>> /\ Top(mt.states) = "OVERFLOW"

-----------------------------------------------------------------------------
\* A physical key stands for its representative, and the other way round.
ToRep(k) == IF k \in DOMAIN Rep THEN Rep[k] ELSE k
IsUnreal(k) == k \notin Char \cup DOMAIN Rep
KeyMatches(in, want) == want = in \/ want = ToRep(in) \/ (IsUnreal(in) /\ ToRep(want) = in)

UnitMatches(keys, want) ==
    /\ \A i \in keys : \E w \in want : KeyMatches(i, w)
    /\ \A w \in want : \E i \in keys : KeyMatches(i, w)

\* A key shows a digit unless a system key is down with it.
Numeric(k, keys) == k \in DOMAIN DigitValue /\ keys \subseteq Char
NonNumeric(keys) == \E k \in keys \cap Char : ~Numeric(k, keys)

-----------------------------------------------------------------------------
(***************************************************************************)
(* update_matching, update_any, update_anynum, update_state.  Heads count  *)
(* from 0, as in the code.                                                 *)
(***************************************************************************)
UpdateAny(mt, h) == Push(mt, "ANY_ACCEPTED", h)
AcceptNumber(mt, h) ==
    Push(mt, IF h = LastHead(mt) THEN "ANYNUM_ACCEPTED" ELSE "ANYNUM_MATCHING", h)

\* update_anynum as called by update_matching: unless <num> is the first or the
\* last unit, a unit without a digit is handed back to update_matching, which
\* comes to the same <num> again.
FirstNumber(mt, keys, h) ==
    CASE ~NonNumeric(keys) -> AcceptNumber(mt, h)
      [] NonNumeric(keys) /\ (mt.heads = <<>> \/ h = LastHead(mt)) -> Reject(mt)
      [] OTHER -> Push(mt, "OVERFLOW", h)

UpdateMatching(mt, keys) ==
    LET h == IF mt.heads = <<>> THEN 0 ELSE Top(mt.heads) + 1
        want == mt.cmd[h + 1].keys
    IN  CASE h > LastHead(mt) -> Reject(mt)
          [] h <= LastHead(mt) /\ OPTIONAL \in want -> UpdateAny(mt, h)
          [] h <= LastHead(mt) /\ OPTNUMBER \in want -> FirstNumber(mt, keys, h)
          [] OTHER ->
                IF UnitMatches(keys, want)
                THEN Push(mt, IF h = LastHead(mt) THEN "ACCEPTED" ELSE "MATCHING", h)
                ELSE Reject(mt)

MoreNumber(mt, keys) ==
    LET h == Top(mt.heads)
    IN  CASE ~NonNumeric(keys) -> AcceptNumber(mt, h)
          [] NonNumeric(keys) /\ h = LastHead(mt) -> Reject(mt)
          [] OTHER -> UpdateMatching(mt, keys)

UpdateState(mt, keys) ==
    LET s == IF mt.states = <<>> THEN "MATCHING" ELSE Top(mt.states)
    IN  CASE s = "MATCHING" -> UpdateMatching(mt, keys)
          [] s \in {"ACCEPTED", "REJECTED"} -> Reject(mt)
          [] s = "OVERFLOW" -> mt
          [] s = "ANY_ACCEPTED" -> UpdateAny(mt, Top(mt.heads))
          [] s \in {"ANYNUM_MATCHING", "ANYNUM_ACCEPTED"} -> MoreNumber(mt, keys)

\* Nothing resets a matcher whose recursion has no end: the process is gone.
ResetState(mt) == IF IsOverflow(mt) THEN mt ELSE Fresh(mt.cmd)

\* backward_state(1)
BackwardState(mt) ==
    IF mt.states = <<>> THEN mt
    ELSE [mt EXCEPT !.states = SubSeq(@, 1, Len(@) - 1), !.heads = SubSeq(@, 1, Len(@) - 1)]
=============================================================================
