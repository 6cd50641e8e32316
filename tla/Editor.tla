------------------------------- MODULE Editor -------------------------------
(***************************************************************************)
(* The emulation of Vim in the editor of another program (bind/emu): the   *)
(* functions press keys in it, learn what its text is by copying it to the *)
(* clipboard, and keep a register type, a selection and the last change.   *)
(*                                                                         *)
(* now is what the functions read and change,                              *)
(*   [text, caret, anchor]  the editor: the caret is before text[caret+1], *)
(*                          and selects up to the anchor (external),       *)
(*   [clip, other, late]    the clipboard, whether something else than     *)
(*                          text is in it, and a copy that has still to    *)
(*                          arrive (external),                             *)
(*   [mode, line, reg]      the mode with its flag, the register type,     *)
(*   [select, first_line, first_call]  the globals of textsel.             *)
(* A function yields the set of its outcomes, [s, str, ok]: what it leaves *)
(* behind, the text it has read, and FALSE if it has thrown.               *)
(***************************************************************************)
EXTENDS WordMotion

CONSTANTS
    Texts,      \* what the editor may contain at the start
    NL,         \* the character that ends a line
    Swap,       \* the other case of each letter that has one
    Typed,      \* what the user types in a replacing or in the insert mode
    Yanked,     \* lines that may have been yanked in another text before
    Editors,    \* the editors and settings, see below
    Counts,     \* the counts that are typed
    MaxSteps    \* bounds the functions and the user's steps

ASSUME EditorAssumption ==
    /\ Class[NL] = NewLine /\ Blank # NewLine /\ MaxSteps \in Nat
    /\ Editors \subseteq [edge : BOOLEAN, marked : BOOLEAN, charcache : BOOLEAN]

VARIABLES
    now,
    edge,       \* whether the caret goes to the edge of the text when there is no next line,
    marked,     \* whether the end of a line is a mark that can be selected, as in Office Word,
    charcache,  \* and the option charcache: they are chosen from Editors
    lastchange,
    steps,
    did                \* the last function, its count and whether it threw, for the properties

vars == <<now, edge, marked, charcache, lastchange, steps, did>>

-----------------------------------------------------------------------------
(***************************************************************************)
(* The editor: what a key does.                                            *)
(***************************************************************************)
Lowest(s)  == Min({s.caret, s.anchor})
Highest(s) == Max({s.caret, s.anchor})
Selected(s) == SubSeq(s.text, Lowest(s) + 1, Highest(s))

LineStart(text, p) == Max({i \in 1..p : text[i] = NL} \cup {0})
LineEnd(text, p)   == Min({i - 1 : i \in {j \in p + 1..Len(text) : text[j] = NL}} \cup {Len(text)})

Column(text, p, start) == Min({start + p - LineStart(text, p), LineEnd(text, start)})
UpFrom(text, p) ==
    IF LineStart(text, p) = 0 THEN (IF edge THEN 0 ELSE p)
    ELSE Column(text, p, LineStart(text, LineStart(text, p) - 1))
DownFrom(text, p) ==
    IF LineEnd(text, p) = Len(text) THEN (IF edge THEN Len(text) ELSE p)
    ELSE Column(text, p, LineEnd(text, p) + 1)

NextStart(text, p) ==
    LET types == Types(SubSeq(text, p + 1, Len(text)), FALSE)
    IN  IF types = <<>> THEN p ELSE p + NextWord(types, 1) - 1
PrevStart(text, p) == Max({0} \cup {i - 1 : i \in Begins(Types(SubSeq(text, 1, p), FALSE))})

\* Where an arrow key leads; left and right end a selection where it is.
Target(s, keys) ==
    LET free == "shift" \in keys \/ s.caret = s.anchor
        ctrl == "ctrl" \in keys
    IN  CASE "left" \in keys /\ ~free -> Lowest(s)
          [] "right" \in keys /\ ~free -> Highest(s)
          [] "left" \in keys /\ free ->
                IF ctrl THEN PrevStart(s.text, s.caret) ELSE Max({s.caret - 1, 0})
          [] "right" \in keys /\ free ->
                IF ctrl THEN NextStart(s.text, s.caret) ELSE Min({s.caret + 1, Len(s.text)})
          [] "home" \in keys -> IF ctrl THEN 0 ELSE LineStart(s.text, s.caret)
          [] "end" \in keys ->
                IF ctrl THEN Len(s.text)
                ELSE Min({LineEnd(s.text, s.caret) + (IF marked /\ "shift" \in keys THEN 1 ELSE 0),
                          Len(s.text)})
          [] "up" \in keys -> UpFrom(s.text, s.caret)
          [] "down" \in keys -> DownFrom(s.text, s.caret)

Moved(s, p, shift) == [s EXCEPT !.caret = p, !.anchor = IF shift THEN @ ELSE p]

Replaced(s, str) ==
    Moved([s EXCEPT !.text = SubSeq(@, 1, Lowest(s)) \o str \o SubSeq(@, Highest(s) + 1, Len(@))],
          Lowest(s) + Len(str), FALSE)

\* The editor takes its keys in order, so that a late copy is made before any later key.
Arrived(s) == IF s.late = <<>> THEN s ELSE [s EXCEPT !.clip = s.late, !.other = FALSE, !.late = <<>>]

\* A mark that is selected at the end is copied as a margin and not as a character.
EndsInMark(s) == marked /\ Selected(s) # <<>> /\ Last(Selected(s)) = NL
Copied(s) ==
    IF Selected(s) = <<>> THEN s
    ELSE [s EXCEPT !.clip = IF EndsInMark(s) THEN Front(Selected(s)) ELSE Selected(s), !.other = FALSE]

Arrows == {"left", "right", "up", "down", "home", "end"}
PressIn(s, keys) ==
    CASE keys \cap Arrows # {} -> Moved(s, Target(s, keys), "shift" \in keys)
      [] "copy" \in keys -> Copied(s)
      [] "cut" \in keys -> Replaced(Copied(s), <<>>)
      [] "paste" \in keys -> IF s.other THEN s ELSE Replaced(s, s.clip)
      [] "enter" \in keys -> Replaced(s, <<NL>>)
      [] keys \cap {"delete", "bkspace"} # {} ->
            LET dir == IF "delete" \in keys THEN "right" ELSE "left"
            IN  Replaced(IF s.caret = s.anchor THEN Moved(s, Target(s, {dir}), TRUE) ELSE s, <<>>)
      [] OTHER -> Replaced(s, SetToSeq(keys))
Press(s, keys) == PressIn(Arrived(s), keys)

Strokes(s, strokes) == FoldLeft(Press, s, strokes)

Shift(key) == <<{"shift", key}>>
Key(key)   == <<{key}>>
Times(n, strokes) == FlattenSeq([i \in 1..n |-> strokes])

-----------------------------------------------------------------------------
(***************************************************************************)
(* Outcomes.                                                               *)
(***************************************************************************)
Yields(s, str) == {[s |-> s, str |-> str, ok |-> TRUE]}
Done(s) == Yields(s, <<>>)
Thrown(s) == {[s |-> s, str |-> <<>>, ok |-> FALSE]}
AndThen(outcomes, Next_(_)) == UNION {IF o.ok THEN Next_(o) ELSE {o} : o \in outcomes}

\* safe_for: the escape key ends a loop before any of its rounds.
Loop(s, n, strokes) == UNION {Done(Strokes(s, Times(i, strokes))) : i \in 0..n}
Around(s, before, n, strokes, after) ==
    UNION {Done(Strokes(s, before \o Times(i, strokes) \o after)) : i \in 0..n}

\* get_selected_text: the clipboard is emptied, filled by the strokes, and read after a
\* while.  It cannot always be opened, and the copy may come later.
\* (Bug: the clipboard is emptied after the strokes.)
GetSelectedText_Late(s, strokes) ==
    LET sent == [Strokes(s, strokes) EXCEPT !.clip = <<>>, !.other = FALSE]
    IN  Thrown(s) \cup Thrown(sent) \cup Yields(sent, sent.clip)
GetSelectedText(s, strokes) ==
    LET sent == Strokes([s EXCEPT !.clip = <<>>, !.other = FALSE], strokes)
        waits == [sent EXCEPT !.clip = <<>>, !.late = sent.clip]
    IN  Thrown(s) \cup Thrown(sent) \cup Yields(sent, sent.clip)
        \cup (IF sent.clip = <<>> THEN {} ELSE Thrown(waits) \cup Yields(waits, <<>>))

-----------------------------------------------------------------------------
(***************************************************************************)
(* textsel and the mode functions, as far as they concern the editor.      *)
(***************************************************************************)
SelectLine(s, way) ==
    LET from == IF way = "EOL2BOL" THEN "end" ELSE "home"
        to   == IF way = "EOL2BOL" THEN "home" ELSE "end"
    IN  [Strokes(s, Key(from) \o Shift(to)) EXCEPT
            !.first_line = s.first_call, !.select = way, !.first_call = FALSE]

Unselect(s) ==
    LET keys == CASE s.select = "EOL2BOL" -> Key("left")
                  [] s.select = "BOL2EOL" -> Key("right")
                  [] OTHER -> <<>>
    IN  [Strokes(s, keys) EXCEPT !.first_call = TRUE, !.first_line = FALSE, !.select = "unselect"]

ToEdiNormal(s) ==
    IF s.mode = "en" THEN s
    ELSE [(IF s.mode = "ev" THEN Unselect(s) ELSE s) EXCEPT !.mode = "en", !.line = FALSE]
ToInsert(s) == [s EXCEPT !.mode = "i", !.line = FALSE]
ToEdiVisual(s) == [s EXCEPT !.mode = "ev", !.line = FALSE, !.select = "word"]
ToEdiVisualLine(s) == [SelectLine(s, "EOL2BOL") EXCEPT !.mode = "ev", !.line = TRUE]

-----------------------------------------------------------------------------
(***************************************************************************)
(* Motions.                                                                *)
(***************************************************************************)
\* In the visual mode a motion is made with the shift key.
Arrow(s, keys) == <<IF s.mode = "ev" THEN keys \cup {"shift"} ELSE keys>>

\* The whole line that is selected at first is selected the other way round.
Turned(s, way) == IF s.first_line THEN SelectLine(s, way) ELSE s
TurnedIn(s, way) == IF s.mode = "ev" THEN Turned(s, way) ELSE s

JumpToEOL(s, n) ==
    Around(s, <<>>, n - 1, Key("down"), IF s.mode = "ev" THEN Shift("end") ELSE Key("end") \o Key("left"))

JumpToBOF(s, n) ==
    LET t == Turned(s, "EOL2BOL")
    IN  Around(t, Arrow(t, {"ctrl", "home"}), n - 1, Arrow(t, {"down"}), <<>>)

JumpToEOF(s, n) ==
    CASE n # 1 -> JumpToBOF(s, n)
      [] n = 1 /\ s.mode # "ev" -> Done(Strokes(s, <<{"ctrl", "end"}>>))
      [] n = 1 /\ s.mode = "ev" ->
            Done(Strokes(Turned(s, "BOL2EOL"),
                         <<{"shift", "ctrl", "end"}>> \o IF s.line THEN <<>> ELSE Shift("home")))

\* capture_fwd and capture_bck: the selection is left if nothing was read, and if it is
\* one character, which the motion itself ends.
Captured(s, down, line) == GetSelectedText(s, Shift(down) \o Shift(line) \o <<{"copy"}>>)

Walk(o, back, arrow, presses) ==
    LET n == Len(o.str)
    IN  Done(Strokes(o.s, CASE n = 0 -> <<>>
                            [] n = 1 -> Key(arrow)
                            [] n > 1 -> Key(back) \o Times(presses, Key(arrow))))

Forward(s, word, big, n) ==
    AndThen(Captured(s, "down", "end"),
            LAMBDA o : LET types == Types(o.str, big)
                       IN  Walk(o, "left", "right",
                                (IF word = "word" THEN FwdWord(types, n) ELSE EndWord(types, n)) - 1))

Backward(s, word, big, n) ==
    AndThen(Captured(s, "up", "home"),
            LAMBDA o : LET types == Types(o.str, big)
                       IN  Walk(o, "right", "left",
                                IF word = "word" THEN BckWord(types, n) ELSE BckEndWord(types, n)))

\* In the visual mode w and b leave it to the editor what a word is, and the others do nothing.
MoveWord(s, m, n) ==
    CASE s.mode = "ev" /\ m.end # "word" -> Done(s)
      [] s.mode = "ev" /\ m.end = "word" -> Loop(s, n, Arrow(s, {"ctrl", m.way}))
      [] s.mode # "ev" /\ m.way = "right" -> Forward(s, m.end, m.big, n)
      [] s.mode # "ev" /\ m.way = "left" -> Backward(s, m.end, m.big, n)

WordFn == [fwd_word    |-> [way |-> "right", end |-> "word", big |-> FALSE],
           fwd_bigword |-> [way |-> "right", end |-> "word", big |-> TRUE],
           end_word    |-> [way |-> "right", end |-> "end",  big |-> FALSE],
           end_bigword |-> [way |-> "right", end |-> "end",  big |-> TRUE],
           bck_word    |-> [way |-> "left",  end |-> "word", big |-> FALSE],
           bck_bigword |-> [way |-> "left",  end |-> "word", big |-> TRUE],
           bckend_word |-> [way |-> "left",  end |-> "end",  big |-> FALSE],
           bckend_bigword |-> [way |-> "left", end |-> "end", big |-> TRUE]]
CaretFn == {"left", "right", "up", "down", "BOL", "EOL", "BOF", "EOF"}
MotionFn == CaretFn \cup DOMAIN WordFn

Motion(s, m, n) ==
    CASE m \in {"left", "right"} -> Loop(s, n, Arrow(s, {m}))
      [] m = "up" -> Loop(TurnedIn(s, "EOL2BOL"), n, Arrow(s, {"up"}))
      [] m = "down" -> Loop(TurnedIn(s, "BOL2EOL"), n, Arrow(s, {"down"}))
      [] m = "BOL" -> Done(Strokes(s, Arrow(s, {"home"})))
      [] m = "EOL" -> JumpToEOL(s, n)
      [] m = "BOF" -> JumpToBOF(s, n)
      [] m = "EOF" -> JumpToEOF(s, n)
      [] m \in DOMAIN WordFn -> MoveWord(s, WordFn[m], n)

-----------------------------------------------------------------------------
(***************************************************************************)
(* The functions that delete, change and yank.                             *)
(***************************************************************************)
Reg(s, type) == [s EXCEPT !.reg = type]
RegIn(outcomes, type) == {[o EXCEPT !.s.reg = type] : o \in outcomes}
Highlighted(s) == IF s.line THEN "lines" ELSE "chars"

DeleteHighlightText(s) == ToEdiNormal(Reg(Press(s, {"cut"}), Highlighted(s)))
YankHighlightText(s)   == ToEdiNormal(Reg(Strokes(s, Key("copy") \o Key("left")), Highlighted(s)))
ChangeHighlightText(s) == ToInsert(Reg(Press(s, {"cut"}), Highlighted(s)))

YankLine(s, n)   == RegIn(Around(s, Key("home"), n, Shift("down"), Key("copy") \o Key("home")), "lines")
DeleteLine(s, n) == RegIn(Around(s, Key("home"), n, Shift("down"), Key("cut")), "lines")

\* get_as_str tells a mark from the size of the data, and says that an empty text has none:
\* the code that empties the clipboard for a line of a mark alone is never reached.
HavingEOL(o) == o.str # <<>> /\ EndsInMark(o.s)

DeleteLineUntilEOL(s, n) ==
    AndThen(Loop(s, n - 1, Shift("down")),
            LAMBDA o : AndThen(GetSelectedText(o.s, Shift("end") \o Key("copy")),
                               LAMBDA q : LET t == IF HavingEOL(q) THEN Press(q.s, {"shift", "left"}) ELSE q.s
                                          IN  Done(Reg(Press(t, {"cut"}), "chars"))))

\* delete_after and delete_before
DeleteChars(s, n, way, key) ==
    IF charcache
    THEN AndThen(Loop(s, n, Shift(way) \o Key("cut")),
                 LAMBDA o : Done(IF o.s = s THEN s ELSE Reg(o.s, "chars")))
    ELSE Loop(s, n, Key(key))

ToInsertFrom(outcomes) == AndThen(outcomes, LAMBDA o : Done(ToInsert(o.s)))

ChangeUntilEOL(s, n) == ToInsertFrom(DeleteLineUntilEOL(s, n))

ChangeLine(s, n) ==
    AndThen(GetSelectedText(s, Key("home") \o Shift("end") \o Key("copy")),
            LAMBDA o : IF o.str = <<>> THEN Done(ToInsert(o.s))
                       ELSE LET indent == After(Types(o.str, FALSE), 1, {Blank}) - 1
                                pos == IF indent = Len(o.str) THEN 0 ELSE indent
                            IN  AndThen(Around(o.s, Key("home"), pos, Key("right"), <<>>),
                                        LAMBDA q : ChangeUntilEOL(q.s, n)))

ChangeChar(s, n) ==
    AndThen(Loop(s, n, Shift("right")),
            LAMBDA o : Done(ToInsert(IF charcache THEN Reg(Press(o.s, {"cut"}), "chars")
                                     ELSE Press(o.s, {"delete"}))))

-----------------------------------------------------------------------------
(***************************************************************************)
(* The functions that put, join and replace, and those that insert.        *)
(***************************************************************************)
\* remove_crlf_in_clipboard: a text of nothing but ends of lines is left as it is.
RemoveCrlf(s) ==
    LET len == Max({i \in DOMAIN s.clip : s.clip[i] # NL} \cup {0})
        str == IF len = 0 THEN s.clip ELSE SubSeq(s.clip, 1, len)
    IN  Thrown(s) \cup (IF s.other THEN {} ELSE Yields([s EXCEPT !.clip = str], str))

LinesAfter(s, n) == Around(s, Key("end"), n, Key("enter") \o Key("paste"), Key("home"))
\* (Bug: the caret is not taken to the beginning of the line first.)
LinesBefore_Here(s, n) ==
    Around(s, <<>>, n, Key("enter") \o Key("up") \o Key("paste"), Key("home"))
LinesBefore(s, n) ==
    Around(s, <<>>, n, Key("home") \o Key("enter") \o Key("up") \o Key("paste"), Key("home"))

\* put_after and put_before
PutText(s, f, n) ==
    AndThen(RemoveCrlf(s),
            LAMBDA o : CASE o.str = <<>> \/ s.reg = "none" -> Done(o.s)
                         [] o.str # <<>> /\ s.reg = "chars" -> Loop(o.s, n, Key("paste"))
                         [] o.str # <<>> /\ s.reg = "lines" ->
                                IF f = "put_after" THEN LinesAfter(o.s, n) ELSE LinesBefore(o.s, n))

JoinNextLine(s, n) == Loop(s, n, Key("end") \o Key("delete"))

\* Keys that the user types over the text; the escape key may be the first.
Over(str) == FlattenSeq([i \in DOMAIN str |-> Key("delete") \o Key(str[i])])
ReplaceChar(s, n) ==
    Done(s) \cup
    UNION {AndThen(Loop(s, n, Over(str)), LAMBDA o : Loop(o.s, n, Key("left"))) :
           str \in {t \in Typed : Len(t) = 1}}
ReplaceSequence(s, n) ==
    UNION {Loop(Strokes(s, Over(str)), n - 1, Over(str)) : str \in Typed \cup {<<>>}}

\* A late copy may arrive before the clipboard is set, and is overwritten by that.
Swapped(str) == [i \in DOMAIN str |-> IF str[i] \in DOMAIN Swap THEN Swap[str[i]] ELSE str[i]]
SwitchCharCase(s, n) ==
    AndThen(UNION {GetSelectedText(s, Times(i, Shift("right")) \o Key("cut")) : i \in 0..n},
            LAMBDA o : UNION {Thrown(r) \cup
                              Done(Press([r EXCEPT !.clip = Swapped(o.str), !.other = FALSE], {"paste"})) :
                              r \in {o.s, Arrived(o.s)}})

InsertKeys == [to_insert_BOL     |-> Key("home"),
               to_insert_append  |-> Key("right"),
               to_insert_EOL     |-> Key("end"),
               to_insert_nlbelow |-> Key("end") \o Key("enter"),
               to_insert_nlabove |-> Key("home") \o Key("enter") \o Key("up")]

-----------------------------------------------------------------------------
(***************************************************************************)
(* A function of the change base is remembered for repeat_last_change if   *)
(* it does not throw; those with a motion are not.                         *)
(***************************************************************************)
ChangeFn == {"delete_line", "delete_line_until_EOL", "delete_after", "delete_before", "change_line",
             "change_char", "change_until_EOL", "put_after", "put_before", "join_next_line",
             "replace_char", "replace_sequence", "switch_char_case"} \cup DOMAIN InsertKeys

Change(s, f, n) ==
    CASE f = "delete_line" -> DeleteLine(s, n)
      [] f = "delete_line_until_EOL" -> DeleteLineUntilEOL(s, n)
      [] f = "delete_after" -> DeleteChars(s, n, "right", "delete")
      [] f = "delete_before" -> DeleteChars(s, n, "left", "bkspace")
      [] f = "change_line" -> ChangeLine(s, n)
      [] f = "change_char" -> ChangeChar(s, n)
      [] f = "change_until_EOL" -> ChangeUntilEOL(s, n)
      [] f \in {"put_after", "put_before"} -> PutText(s, f, n)
      [] f = "join_next_line" -> JoinNextLine(s, n)
      [] f = "replace_char" -> ReplaceChar(s, n)
      [] f = "replace_sequence" -> ReplaceSequence(s, n)
      [] f = "switch_char_case" -> SwitchCharCase(s, n)
      [] f \in DOMAIN InsertKeys -> Done(ToInsert(Strokes(s, InsertKeys[f])))

\* yank_with_motion, delete_with_motion and change_with_motion: the motion is made in the
\* visual mode, and what it throws stops with it.
WithMotion == {"yank_with_motion", "delete_with_motion", "change_with_motion"}
Moving(s, m, n) == {o.s : o \in Motion([s EXCEPT !.mode = "ev", !.line = TRUE], m, n)}
Applied(s, f) ==
    CASE f = "yank_with_motion" -> YankHighlightText(s)
      [] f = "delete_with_motion" -> DeleteHighlightText(s)
      [] f = "change_with_motion" -> ToInsert(DeleteHighlightText(s))
ByMotion(s, f, m, n) == UNION {Done(Applied(t, f)) : t \in Moving(s, m, n)}
Doubled(s, f, n) ==
    CASE f = "yank_with_motion" -> YankLine(s, n)
      [] f = "delete_with_motion" -> DeleteLine(s, n)
      [] f = "change_with_motion" -> ChangeLine(s, n)

Highlight == [yank_highlight_text   |-> YankHighlightText(now),
              delete_highlight_text |-> DeleteHighlightText(now),
              change_highlight_text |-> ChangeHighlightText(now),
              to_edi_normal         |-> ToEdiNormal(now)]

-----------------------------------------------------------------------------
Init ==
    /\ \E e \in Editors : edge = e.edge /\ marked = e.marked /\ charcache = e.charcache
    /\ \E t \in Texts, p \in 0..Max({Len(t) : t \in Texts}), y \in Yanked \cup {<<>>} :
         now = [text |-> t, caret |-> p, anchor |-> p, clip |-> y, other |-> y = <<>>, late |-> <<>>,
                mode |-> "en", line |-> FALSE, reg |-> IF y = <<>> THEN "none" ELSE "lines",
                select |-> "unselect", first_line |-> FALSE, first_call |-> TRUE]
    /\ now.caret <= Len(now.text)
    /\ lastchange = "none" /\ steps = 0 /\ did = [fn |-> "none", n |-> 0, ok |-> TRUE]

Step(f, n, outcomes) ==
    /\ steps < MaxSteps /\ steps' = steps + 1
    /\ \E o \in outcomes :
        /\ now' = o.s
        /\ did' = [fn |-> f, n |-> n, ok |-> o.ok]
        /\ lastchange' = IF f \in ChangeFn /\ o.ok THEN f ELSE lastchange
    /\ UNCHANGED <<edge, marked, charcache>>

Move(m, n) ==
    /\ now.mode = "en" \/ (now.mode = "ev" /\ m \in CaretFn \cup {"fwd_word", "bck_word"})
    /\ Step(m, n, Motion(now, m, n))

Edit(f, n) == now.mode = "en" /\ Step(f, n, Change(now, f, n))
Yank(n)    == now.mode = "en" /\ Step("yank_line", n, YankLine(now, n))

EditWithMotion(f, m, n) ==
    /\ now.mode = "en"
    /\ \/ m \in MotionFn /\ Step(f, n, ByMotion(now, f, m, n))
       \/ m = "itself" /\ Step(f, n, Doubled(now, f, n))
       \/ m = "another" /\ Step(f, n, Done(now))

RepeatLastChange(n) == lastchange # "none" /\ Edit(lastchange, n)

EnterVisual ==
    /\ now.mode = "en"
    /\ \/ Step("to_edi_visual", 1, Done(ToEdiVisual(now)))
       \/ Step("to_edi_visual_line", 1, Done(ToEdiVisualLine(now)))
LeaveVisual(f) == now.mode = "ev" /\ Step(f, 1, Done(Highlight[f]))
LeaveInsert    == now.mode = "i" /\ Step("to_edi_normal", 1, Done(ToEdiNormal(now)))

\* The user clicks, types in the insert mode, and copies text or something else elsewhere.
Click(p) == p <= Len(now.text) /\ Step("user", 1, Done(Moved(now, p, FALSE)))
Insert(str) == now.mode = "i" /\ Step("user", 1, Done(Strokes(now, [i \in DOMAIN str |-> {str[i]}])))
CopyElsewhere ==
    \/ Step("user", 1, Done([Arrived(now) EXCEPT !.clip = <<>>, !.other = TRUE]))
    \/ \E str \in Typed : Step("user", 1, Done([Arrived(now) EXCEPT !.clip = str, !.other = FALSE]))
CopyArrives == now.late # <<>> /\ Step("user", 1, Done(Arrived(now)))

Next ==
    \/ \E n \in Counts :
        \/ \E m \in MotionFn : Move(m, n)
        \/ \E f \in ChangeFn : Edit(f, n)
        \/ \E f \in WithMotion, m \in MotionFn \cup {"itself", "another"} : EditWithMotion(f, m, n)
        \/ Yank(n) \/ RepeatLastChange(n)
    \/ \E f \in DOMAIN Highlight : LeaveVisual(f)
    \/ \E p \in 0..Len(now.text) : Click(p)
    \/ \E str \in Typed : Insert(str)
    \/ EnterVisual \/ LeaveInsert \/ CopyElsewhere \/ CopyArrives

Spec == Init /\ [][Next]_vars

-----------------------------------------------------------------------------
\* With the caret alone, a copy that comes in time and a clipboard that opens, w, W, e, E, b
\* and B take the caret where Vim takes it within what they capture, an empty line not
\* being a word; except b and B from the beginning of a line, where the code does not.
AtLineStart == now.caret > 0 /\ now.text[now.caret] = NL
WordsLikeVim ==
    [][\A m \in {did'.fn} \cap (DOMAIN WordFn \ {"bckend_word", "bckend_bigword"}) :
        LET goes == WordFn[m]
            types == Types(now'.clip, goes.big)
            from == now.caret - Len(types)
        IN  now.mode = "en" /\ now.caret = now.anchor /\ now.late = <<>> /\ now'.late = <<>> /\ did'.ok =>
            IF goes.way = "right"
            THEN VimForward(types, now'.caret - now.caret + 1, did'.n,
                            IF goes.end = "word" THEN Begins(types) ELSE Ends(types))
            ELSE AtLineStart \/ VimBackward(now'.caret - from + 1, did'.n, Begins(types))]_vars

\* Except by the functions that delete for good, no function loses a character of the text,
\* even if the clipboard cannot be opened half-way: it is in the text in either case of
\* letters, on the clipboard, or on its way to it.  Only ~ puts nothing back, and leaves an empty
\* clipboard, if its cut comes after it has read the clipboard.
DeletesForGood(f) ==
    \/ f \in {"replace_char", "replace_sequence", "join_next_line", "user"}
    \/ f \in {"delete_after", "delete_before"} /\ (~charcache \/ did'.n > 1)
    \/ f = "change_char" /\ ~charcache
    \/ f = "switch_char_case" /\ did'.ok /\ now'.clip = <<>>
Has(s, c) == \E x \in {c} \cup (IF c \in DOMAIN Swap THEN {Swap[c]} ELSE {}) :
                x \in Range(s.text) \cup Range(s.clip) \cup Range(s.late)
NothingLost ==
    [][~DeletesForGood(did'.fn) /\ (now.mode = "ev" \/ now.caret = now.anchor) =>
        \A c \in Range(now.text) \ {NL} : Has(now', c)]_vars

\* p and P of lines leave each line of the text whole, and put copies of what is on the
\* clipboard as lines of their own between two of them.
Put(s, at, n) == SubSeq(s.text, 1, at) \o Times(n, s.clip \o <<NL>>) \o SubSeq(s.text, at + 1, Len(s.text))
LinesStayWhole ==
    [][did'.fn \in {"put_after", "put_before"} /\ did'.ok
        /\ now.reg = "lines" /\ now.caret = now.anchor /\ now.late = <<>>
        /\ (did'.fn = "put_before" => did'.n = 1 \/ NL \notin Range(now'.clip)) =>
        \E n \in 0..did'.n :
            LET at == IF did'.fn = "put_before" THEN LineStart(now.text, now.caret)
                      ELSE LineEnd(now.text, now.caret) + 1
                ended == [now EXCEPT !.text = @ \o <<NL>>, !.clip = now'.clip]
            IN  now'.text \o <<NL>> = Put(ended, at, n)]_vars
=============================================================================
