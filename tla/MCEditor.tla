------------------------------ MODULE MCEditor ------------------------------
EXTENDS Editor

\* A line that begins with a blank, words of different classes, and an empty line at the end.
MCTexts == {<<"a", ".", "nl", " ", "b", "c">>, <<"a", "b", "nl">>}
MCClass == [c \in {"a", "A", "b", "B", "c", "C", ".", " ", "nl"} |->
    CASE c = "." -> "sign" [] c = " " -> "blank" [] c = "nl" -> "newline" [] OTHER -> "letter"]
MCSwap == [a |-> "A", A |-> "a", b |-> "B", B |-> "b", c |-> "C", C |-> "c"]
MCTyped == {<<"a">>, <<"b", "c">>}
MCYanked == {<<"c", "nl">>}
MCEditors ==
    {[edge |-> TRUE, marked |-> FALSE, charcache |-> TRUE],
     [edge |-> FALSE, marked |-> FALSE, charcache |-> FALSE],
     [edge |-> TRUE, marked |-> TRUE, charcache |-> TRUE]}
=============================================================================
