----------------------------- MODULE WordMotion -----------------------------
(***************************************************************************)
(* The word motions of bind/emu/wordmotion.  The text that was captured,   *)
(* from the caret to the end of the next line or from the beginning of the *)
(* line before to the caret, is walked with an iterator, and every step of *)
(* the iterator presses an arrow key.  The operators are pure: each tells  *)
(* where the iterator ends, as an index, or how often the key is pressed.  *)
(***************************************************************************)
EXTENDS Integers, SequencesExt

CONSTANTS
    Class,      \* the class of each character
    Blank,      \* the class of white space
    NewLine     \* the class of the end of a line

Type(c, bigword) == IF bigword /\ Class[c] \notin {Blank, NewLine} THEN "otherwise" ELSE Class[c]
Types(text, bigword) == [i \in DOMAIN text |-> Type(text[i], bigword)]
IsSpace(type) == type \in {Blank, NewLine}

\* The first index from i on, or the last one down from i, with a type that is not in
\* the set; the end is one behind the last index, the other end 0.
After(types, i, set)  == Min({j \in i..Len(types) : types[j] \notin set} \cup {Len(types) + 1})
Before(types, i, set) == Max({j \in 1..i : types[j] \notin set} \cup {0})

-----------------------------------------------------------------------------
\* fwd_word
\* (Bug: blanks are skipped before the word is.)
NextWord_BlanksFirst(types, i) ==
    LET j == After(types, i, {Blank, NewLine})
    IN  IF j > Len(types) THEN j ELSE After(types, j, {types[j]})
NextWord(types, i) == After(types, After(types, i, {types[i]}), {Blank, NewLine})
FwdWord(types, count) ==
    FoldLeft(LAMBDA i, k : IF i > Len(types) THEN i ELSE NextWord(types, i), 1, [k \in 1..count |-> k])

\* end_word: it stops for good at the last character, behind which there is nothing to
\* compare with.
NextEnd(types, i) ==
    LET head == After(types, i + 1, {Blank, NewLine})
    IN  IF head > Len(types) THEN head ELSE After(types, head + 1, {types[head]}) - 1
EndWord(types, count) ==
    FoldLeft(LAMBDA i, k : IF i >= Len(types) THEN i ELSE NextEnd(types, i), 1, [k \in 1..count |-> k])

\* bck_word and bckend_word skip the ends of lines before the caret without a key, which
\* Office Word adds to what it copies.
Skipped(types) == Len(types) - Before(types, Len(types), {NewLine})

PrevWord(types, i) ==
    LET j == Before(types, i, {Blank, NewLine})
    IN  IF j = 0 THEN 0 ELSE Before(types, j, {types[j]})
Leftwards(types, end) == Len(types) - Skipped(types) - end
BckWord(types, count) ==
    Leftwards(types, FoldLeft(LAMBDA i, k : IF i = 0 THEN 0 ELSE PrevWord(types, i),
                              Len(types) - Skipped(types), [k \in 1..count |-> k]))

\* The type that the next round compares with is that of the end that was found.
PrevEnd(types, at) ==
    LET j == Before(types, at.i - 1, {at.pre})
        k == Before(types, j, {Blank, NewLine})
    IN  IF k = 0 THEN [at EXCEPT !.i = 0] ELSE [i |-> k - 1, pre |-> types[k]]
BckEndWord(types, count) ==
    LET last == Len(types) - Skipped(types)
    IN  IF last = 0 THEN 0
        ELSE Leftwards(types, FoldLeft(LAMBDA at, k : IF at.i = 0 THEN at ELSE PrevEnd(types, at),
                                       [i |-> last, pre |-> types[last]], [k \in 1..count |-> k]).i)

-----------------------------------------------------------------------------
(***************************************************************************)
(* What the motions of Vim are: w to the beginnings of words, e to their   *)
(* ends, b to their beginnings backwards.                                  *)
(***************************************************************************)
Begins(types) == {i \in DOMAIN types : ~IsSpace(types[i]) /\ (i > 1 => types[i - 1] # types[i])}
Ends(types)   == {i \in DOMAIN types : ~IsSpace(types[i]) /\ (i < Len(types) => types[i + 1] # types[i])}

IsNth(i, n, set)  == i \in set /\ Cardinality({j \in set : j <= i}) = n
\* If there are not that many, a motion goes to the end of the captured text.
VimForward(types, i, n, goals) ==
    IF Cardinality(goals \ {1}) >= n THEN IsNth(i, n, goals \ {1}) ELSE i >= Len(types)
VimBackward(i, n, goals) ==
    IF Cardinality(goals) >= n THEN i \in goals /\ Cardinality({j \in goals : j >= i}) = n ELSE i = 1
=============================================================================
