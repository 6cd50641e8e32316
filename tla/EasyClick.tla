----------------------------- MODULE EasyClick -----------------------------
(***************************************************************************)
(* EasyClick, EasyClickAll, FocusTextArea and GridMove (bind/mouse): the   *)
(* elements of the windows are scanned (util/uiwalker), their positions    *)
(* get hints (core/hintassign), and the keys the user types are matched    *)
(* against them (bind/mouse/hinter).  The elements come from UICache,      *)
(* whose threads go on meanwhile.                                          *)
(***************************************************************************)
EXTENDS UICache, Integers, Sequences, SequencesExt

CONSTANTS
    Elem,        \* names of elements
    Tree,        \* what a window shows at each version (external)
    Centers,     \* centers of the windows that belong to the process of each window (external)
    HintKeys,    \* hintkeys
    Monitors,    \* <<left, top, width, height>> of each monitor (external)
    GridSize,    \* gridmove_size
    Origin,      \* where the cursor is at first
    DistUnit,    \* distances of text areas are compared in these units (100)
    Typed,       \* the units that the user may type, as sets of keys
    Char,        \* the keys that are not major system keys
    ESC, ENTER, BKSPACE

ASSUME HintAssumption ==
    /\ Len(HintKeys) >= 2 /\ Range(HintKeys) \subseteq Char
    /\ \A i, j \in DOMAIN HintKeys : HintKeys[i] = HintKeys[j] => i = j
    /\ {ESC, ENTER, BKSPACE, "<any>", "<num>"} \cap Char = {}

\* A window and a monitor have finitely many pixels.
ASSUME PixelAssumption ==
    /\ HintKeys \in Seq(Char) /\ Monitors \in Seq(Int \X Int \X Int \X Int) /\ Monitors # <<>>
    /\ GridSize \in (Nat \ {0}) \X (Nat \ {0})
    /\ \A w \in Window : IsFiniteSet(Centers[w])
    /\ \A w \in Window, v \in Version : IsFiniteSet(Tree[w][v].frame)

VARIABLES
    scan,     \* the locals of a function that scans windows
    session,  \* the locals of Hinter::start_matching, and what was typed (history)
    at        \* the position of the cursor

M == INSTANCE CmdMatcher WITH
         Rep <- <<>>, DigitValue <- <<>>, OPTIONAL <- "<any>", OPTNUMBER <- "<num>"

easyVars == <<scan, session, at>>
vars == <<cacheVars, easyVars>>

Function == {"easyclick", "easyclick_all", "focus_textarea"}
NPOS == -1
NoScan    == [fn |-> "none", todo |-> <<>>, frame |-> {}, elems |-> <<>>, points |-> {}]
NoSession == [open |-> FALSE, fn |-> "none", hints |-> <<>>, start |-> <<>>,
              typed |-> <<>>]

EasyInit == Init /\ scan = NoScan /\ session = NoSession /\ at = Origin

-----------------------------------------------------------------------------
(***************************************************************************)
(* UIWalker: an element is found if it passes the filter of the function   *)
(* and no element below it is found; FocusTextArea stops at the one that   *)
(* has the keyboard focus.  A tree is [root, kids, enabled, target,        *)
(* editable, focused, pos, frame].                                         *)
(***************************************************************************)
Nothing == [go |-> TRUE, elems |-> <<>>]

AppendCandidate(t, fn, e) ==
    CASE e \notin (IF fn = "focus_textarea" THEN t.editable ELSE t.target) -> Nothing
      [] OTHER -> [go |-> ~(fn = "focus_textarea" /\ e \in t.focused), elems |-> <<e>>]

Join(a, b) ==
    CASE ~a.go -> a
      [] a.go /\ ~b.go -> b
      [] OTHER -> [go |-> TRUE, elems |-> a.elems \o b.elems]

\* (Bug: what contains a found element is found as well.)
Below_Nested(t, fn, e, found) ==
    LET below == FoldLeft(Join, Nothing, [i \in DOMAIN t.kids[e] |-> found[t.kids[e][i]]])
    IN  Join(below, AppendCandidate(t, fn, e))

\* scan_element_subtree, given what is found under each child.
Below(t, fn, e, found) ==
    LET below == FoldLeft(Join, Nothing, [i \in DOMAIN t.kids[e] |-> found[t.kids[e][i]]])
    IN  IF ~below.go \/ below.elems # <<>> THEN below ELSE AppendCandidate(t, fn, e)

\* scan_childrens passes over disabled elements; nobody asks for the root.
ScanTree(t, fn) ==
    LET found[e \in Elem] ==
            IF e \notin t.enabled THEN Nothing ELSE Below(t, fn, e, found)
    IN  Below(t, fn, t.root, found).elems

-----------------------------------------------------------------------------
(***************************************************************************)
(* assign_identifier_hints: the numbers of the targets to the base of the  *)
(* number of keys.  log(count - 1) is the number of times that count - 1   *)
(* can be divided by the base.  For a single target it is undefined; what  *)
(* the conversion of -inf yields on x64 makes one key of it.  The quotient *)
(* of the two logarithms is exact for the bases and counts of the runs.    *)
(***************************************************************************)
\* What is left of num after j digits.
Rest(num) == LET rest[j \in Nat] == IF j = 0 THEN num ELSE rest[j - 1] \div Len(HintKeys)
             IN  rest

\* (Bug: the length is that of count - 2.)
HintLength_Short(count) == Cardinality({j \in 1..count : Rest(count - 2)[j] > 0}) + 1

HintLength(count) == Cardinality({j \in 1..count : Rest(count - 1)[j] > 0}) + 1

Digit(num, j) == Rest(num)[j] % Len(HintKeys)
Hint(num, length) == [j \in 1..length |-> HintKeys[Digit(num, length - j) + 1]]
AssignHints(count) == [i \in 1..count |-> Hint(i - 1, HintLength(count))]

Matcher(code) == M!Fresh([j \in DOMAIN code |-> [keys |-> {code[j]}]])

Matching(fn, points, codes) ==
    [open |-> TRUE, fn |-> fn,
     hints |-> [i \in DOMAIN points |-> [pos |-> points[i], code |-> codes[i],
                                         mt |-> Matcher(codes[i])]],
     start |-> [i \in DOMAIN points |-> 0], typed |-> <<>>]

\* Points are sorted by rows, without duplicates.
Before(p, q) == p[2] < q[2] \/ (p[2] = q[2] /\ p[1] < q[1])
Sorted(points) ==
    [i \in 1..Cardinality(points) |->
        CHOOSE p \in points : Cardinality({q \in points : Before(q, p)}) = i - 1]

\* GridMove::assign_hints: the cells of the monitors, row by row.
GridCells == GridSize[1] * GridSize[2]
GridPoint(mi, ci) ==
    LET m == Monitors[mi]
        w == m[3] \div GridSize[1]
        h == m[4] \div GridSize[2]
    IN  <<m[1] + w \div 2 + (ci % GridSize[1]) * w, m[2] + h \div 2 + (ci \div GridSize[1]) * h>>

GridSession ==
    LET monitor == AssignHints(Len(Monitors))
        cell    == AssignHints(GridCells)
        Mi(i)   == (i - 1) \div GridCells + 1
        Ci(i)   == (i - 1) % GridCells
        all     == 1..Len(Monitors) * GridCells
    IN  Matching("gridmove", [i \in all |-> GridPoint(Mi(i), Ci(i))],
                 [i \in all |-> monitor[Mi(i)] \o cell[Ci(i) + 1]])

-----------------------------------------------------------------------------
(***************************************************************************)
(* The functions of the worker.                                            *)
(***************************************************************************)
Free == scan.fn = "none" /\ ~session.open /\ job.pc = "idle"

\* EasyClick and FocusTextArea take the foreground window, EasyClickAll every
\* window on the screen, in any order; the rectangle is read before the elements.
Frame(w) == Tree[w][version[w]].frame
Look(w, todo, fn, elems, points) ==
    /\ Request(w)
    /\ scan' = [fn |-> fn, todo |-> todo, frame |-> Frame(w), elems |-> elems, points |-> points]
    /\ UNCHANGED <<session, at>>

Start(fn) ==
    /\ Free
    /\ \E todo \in IF fn = "easyclick_all" THEN SetToSeqs(open) ELSE {<<active>>} :
         Look(Head(todo), Tail(todo), fn, <<>>, {})

\* The elements of a window: those in the frame, those of the windows before
\* included, and the centers of the other windows of its process.  The element
\* of a cache that was never built has no children to read: the scan throws.
Found == ScanTree(Tree[job.win][job.got], scan.fn)
FoundAt == [i \in DOMAIN Found |-> [elem |-> Found[i], pos |-> Tree[job.win][job.got].pos[Found[i]]]]
InFrame(elems) == {elems[i].pos : i \in DOMAIN elems} \cap scan.frame

Points(elems) == scan.points \cup InFrame(elems) \cup Centers[job.win]

Collect ==
    /\ scan.fn \in {"easyclick", "easyclick_all"} /\ job.pc = "served" /\ job.got # NONE
    /\ Release
    /\ LET elems == scan.elems \o FoundAt
           points == Points(elems)
       IN  IF points = {} THEN scan' = NoScan /\ UNCHANGED session
           ELSE IF scan.todo # <<>>
           THEN scan' = [scan EXCEPT !.elems = elems, !.points = points] /\ UNCHANGED session
           ELSE /\ scan' = NoScan
                /\ session' = Matching(scan.fn, Sorted(points), AssignHints(Cardinality(points)))
    /\ UNCHANGED at

NextWindow ==
    /\ scan.todo # <<>> /\ job.pc = "idle"
    /\ Look(Head(scan.todo), Tail(scan.todo), scan.fn, scan.elems, scan.points)

\* An exception, of the build or of one of the calls that read the elements, ends
\* the function.
Fail ==
    /\ scan.fn # "none" /\ job.pc \in {"served", "threw"}
    /\ Release
    /\ scan' = NoScan
    /\ UNCHANGED <<session, at>>

\* FocusTextArea: the nearest text area gets the focus and the cursor, by the squared
\* distance in whole units; the cursor stays if there is only one.
Distance(p) == ((p[1] - at[1])^2 + (p[2] - at[2])^2) \div DistUnit

Nearest(elems) ==
    CHOOSE i \in DOMAIN elems : \A j \in DOMAIN elems :
        \/ Distance(elems[i].pos) < Distance(elems[j].pos)
        \/ Distance(elems[i].pos) = Distance(elems[j].pos) /\ i <= j

FocusArea ==
    /\ scan.fn = "focus_textarea" /\ job.pc = "served" /\ job.got # NONE
    /\ job' = NoJob /\ scan' = NoScan
    /\ LET found == FoundAt
       IN  /\ at' = IF Len(found) < 2 THEN at ELSE found[Nearest(found)].pos
           /\ still' = [still EXCEPT !.moved = @ \/ at' # at]
    /\ UNCHANGED <<open, version, active, caching, cache, session>>

GridMove ==
    /\ Free
    /\ session' = GridSession
    /\ UNCHANGED <<cacheVars, scan, at>>

-----------------------------------------------------------------------------
(***************************************************************************)
(* Hinter::start_matching, one pass of its loop for each unit typed.       *)
(***************************************************************************)
SetStart(hints, i) ==
    IF M!IsRejected(hints[i].mt) THEN NPOS ELSE Len(hints[i].mt.states)

TypeEnd(keys) ==
    /\ session.open
    /\ \/ keys \cap {ESC, ENTER} # {}
       \/ BKSPACE \in keys /\ session.hints[1].mt.states = <<>>
    /\ session' = NoSession
    /\ UNCHANGED <<cacheVars, scan, at>>

TypeBack(keys) ==
    /\ session.open
    /\ keys \cap {ESC, ENTER} = {} /\ BKSPACE \in keys /\ session.hints[1].mt.states # <<>>
    /\ LET hints == [i \in DOMAIN session.hints |->
                        [session.hints[i] EXCEPT !.mt = M!BackwardState(@)]]
       IN  session' = [session EXCEPT !.hints = hints, !.typed = Front(@),
                                      !.start = [i \in DOMAIN hints |-> SetStart(hints, i)]]
    /\ UNCHANGED <<cacheVars, scan, at>>

\* (Bug: the cursor is set for the first hint that is still matching.)
Reached_Early(hints) == {i \in DOMAIN hints : ~M!IsRejected(hints[i].mt)}
\* The hints whose code is complete.
Reached(hints) == {i \in DOMAIN hints : M!IsAccepted(hints[i].mt)}

\* The loop over the matchers ends at the first that accepts; the hints behind it
\* are left as they are.  The session goes on while a hint before it is matching.
TypeChar(keys) ==
    /\ session.open /\ keys \cap {ESC, ENTER, BKSPACE} = {} /\ keys \cap Char # {}
    /\ LET updated == [i \in DOMAIN session.hints |->
                          [session.hints[i] EXCEPT !.mt = M!UpdateState(@, keys \cap Char)]]
           reached == Reached(updated)
           last    == IF reached = {} THEN Len(updated) ELSE Min(reached)
           before  == {i \in 1..last : i \notin reached}
           hints   == [i \in DOMAIN updated |->
                          IF i <= last THEN updated[i] ELSE session.hints[i]]
       IN  /\ session' = IF \A i \in before : M!IsRejected(updated[i].mt) THEN NoSession
                         ELSE [session EXCEPT !.hints = hints,
                                  !.typed = Append(@, keys \cap Char),
                                  !.start = [i \in DOMAIN hints |->
                                      IF i \in before THEN SetStart(hints, i) ELSE @[i]]]
           /\ at' = IF reached = {} THEN at ELSE updated[last].pos
           /\ still' = [still EXCEPT !.moved = @ \/ at' # at]
    /\ UNCHANGED <<open, version, active, caching, cache, job, scan>>

\* F8 and F9, or an exception of an option, end the session (Lifecycle).
Abort ==
    /\ session.open
    /\ session' = NoSession
    /\ UNCHANGED <<cacheVars, scan, at>>

-----------------------------------------------------------------------------
Cache ==
    /\ \/ Outside \/ Builder \/ Latest \/ Clear
       \/ scan.fn = "none" /\ session.fn # "gridmove" /\ Process
       \/ Free /\ (Disable \/ Enable)
    /\ UNCHANGED easyVars

Work ==
    \/ \E fn \in Function : Start(fn)
    \/ Collect \/ NextWindow \/ Fail \/ FocusArea \/ GridMove

Match == Abort \/ \E keys \in Typed : TypeEnd(keys) \/ TypeBack(keys) \/ TypeChar(keys)

EasyNext == Cache \/ Work \/ Match

EasySpec == EasyInit /\ [][EasyNext]_vars

\* The thread of a build comes to its end, and the worker goes on with a request
\* once it can.  The user, the clock and the functions are not fair.
EasyFairness ==
    /\ \A w \in Window : WF_vars(BuildStep(w) /\ UNCHANGED easyVars)
    /\ WF_vars(Latest /\ UNCHANGED easyVars)

FairEasySpec == EasySpec /\ EasyFairness

-----------------------------------------------------------------------------
Hints == session.hints
\* assign_identifier_hints and GridMove's two-part codes: no hint is the beginning
\* of another, so that typing one to its end can reach no other; and after any
\* sequence of keys and backspaces the hints that are drawn are those that begin
\* with what was typed, cut by exactly that much.
Code(i) == [j \in DOMAIN Hints[i].code |-> {Hints[i].code[j]}]
HintsUnambiguous ==
    session.open =>
        /\ \A i, j \in DOMAIN Hints : i # j => ~IsPrefix(Hints[i].code, Hints[j].code)
        /\ \A i \in DOMAIN Hints :
              session.start[i] = IF IsPrefix(session.typed, Code(i)) THEN Len(session.typed) ELSE NPOS

\* The cursor moves to a target exactly when the whole code of that target has been typed.
HintLeadsThere ==
    [][\A keys \in Typed : TypeChar(keys) =>
         LET typed == Append(session.typed, keys \cap Char)
         IN  IF \E i \in DOMAIN Hints : Code(i) = typed
             THEN /\ \A i \in DOMAIN Hints : Code(i) = typed => at' = Hints[i].pos
                  /\ ~session'.open
             ELSE at' = at]_vars

\* What EasyClick offers in a window is what is inside its frame and reached from the
\* root through enabled elements, and contains nothing else that it could offer.
Inside(t, e) ==
    {f \in Elem : \A S \in SUBSET Elem :
        (e \in S /\ \A p \in S : Range(t.kids[p]) \cap t.enabled \subseteq S) => f \in S}
Offered(t) ==
    LET good == Inside(t, t.root) \cap t.target
    IN  {e \in good : Inside(t, e) \cap good = {e}}
OffersLeaves ==
    [][Collect /\ scan.fn = "easyclick" =>
         LET t == Tree[job.win][job.got]
         IN  {session'.hints[i].pos : i \in DOMAIN session'.hints} =
                 ({t.pos[e] : e \in Offered(t)} \cap scan.frame) \cup Centers[job.win]]_vars

\* Whoever waits for the elements of a window, or for the threads to end when
\* caching is disabled, does not wait for ever: the future it waits for is valid
\* and belongs to a thread that runs.
Answered == job.pc \in {"latest", "wait", "read"} ~> job.pc \in {"served", "threw"}
=============================================================================
