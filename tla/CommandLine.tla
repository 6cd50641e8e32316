----------------------------- MODULE CommandLine -----------------------------
(***************************************************************************)
(* The command mode (bind/mode/command_mode) with the tables its commands  *)
(* change, the message it shows and the autocmds of the mode and of the    *)
(* application in the foreground.  All of it runs on the worker; what      *)
(* comes from outside is keys, applications and time.                      *)
(*                                                                         *)
(* A letter is what one key press adds to a line: [text, units].  A unit   *)
(* that waits is executed outside of a session and read as a key press     *)
(* inside of one.                                                          *)
(***************************************************************************)
EXTENDS RunCommands, Relation

CONSTANTS
    Keys,        \* the units of the keys that are typed
    Unicode,     \* the text of each key that has one
    Typable,     \* the lines that are typed
    Procs,       \* the processes in the order they start: [pid, parent]
    Apps,        \* those with windows
    Shell,       \* the process of the desktop and the taskbar
    Running,     \* the number of processes at the start
    FlagOptions, \* the options that reconstruct switches
    MaxHistory   \* bounds the number of submitted lines

VARIABLES
    tables,            \* what the run commands change
    enabled,           \* the message is drawn
    mode, saved,       \* the mode, and the one a session returns to
    open,              \* a session is open
    hists, histIdx,    \* the lines, the last one being edited; the one copied last
    cands, candIdx,    \* the candidates of the completion, the number selected
    waiting, typing,   \* the queues of InputHub
    foreground,        \* the process of the foreground window
    previous,          \* the one that was noticed last
    running, snapshot  \* the number of processes, and of those in the snapshot

session == <<open, hists, histIdx, cands, candIdx>>
queues  == <<waiting, typing, snapshot>>
apps    == <<foreground, previous, running>>
vars    == <<tables, enabled, mode, saved, session, queues, apps>>

None == 0
Latest == Last(hists)
Text(line) == FoldLeft(LAMBDA text, l : text \o l.text, "", line)
LineUnits(line) == FlattenSeq([i \in DOMAIN line |-> line[i].units])
Prompt(line) == ":" \o Text(line)

EnterEvent(m) == m \o "enter"
LeaveEvent(m) == m \o "leave"

Show(t, kind, text) == [t EXCEPT !.msg = Printed(@, kind, text)]
Hide(t) == [t EXCEPT !.msg = Reset(@)]

-----------------------------------------------------------------------------
(***************************************************************************)
(* AutoCmd::apply for a sequence of events, each with its table and its    *)
(* process; process 0 stands for the one in the foreground.  The snapshot  *)
(* of the processes is kept for a second.                                  *)
(***************************************************************************)
Event_(t, event, proc) == [evt |-> t.autos[event], proc |-> proc]
Root(fire) == IF fire.proc = None THEN foreground ELSE fire.proc

Applied(q, fire) ==
    IF Root(fire) = None THEN {q}
    ELSE UNION {{[waiting |-> q.waiting \o Functions(units), typing |-> q.typing \o Keystrokes(units),
                  snapshot |-> n] :
                    units \in SequentialCommands(fire.evt,
                                  PatIndices(fire.evt, Root(fire), SubSeq(Procs, 1, n)))} :
                n \in {running} \cup ({q.snapshot} \ {0})}

Apply(q, fires) ==
    \E end \in FoldLeft(LAMBDA all, fire : UNION {Applied(one, fire) : one \in all}, {q}, fires) :
        waiting' = end.waiting /\ typing' = end.typing /\ snapshot' = end.snapshot

Queued == [waiting |-> waiting, typing |-> typing, snapshot |-> snapshot]
EmptyQueue == waiting = <<>> /\ typing = <<>>

\* fetch_input takes from the queues first, waiting functions before typed keys.
Fetched ==
    CASE waiting # <<>> -> {[unit |-> Head(waiting), left |-> [Queued EXCEPT !.waiting = Tail(@)]]}
      [] waiting = <<>> /\ typing # <<>> ->
            {[unit |-> Head(typing), left |-> [Queued EXCEPT !.typing = Tail(@)]]}
      [] OTHER -> {[unit |-> u, left |-> Queued] : u \in Keys}

-----------------------------------------------------------------------------
(***************************************************************************)
(* VindEntry::reconstruct: the maps are deployed and the options switched. *)
(* A text where a flag is expected throws what nobody catches.             *)
(***************************************************************************)
On(t) == t.settings["vcmdline"].text # "0"
Reconstructed(t, on) ==
    IF \E o \in FlagOptions : t.settings[o].type = "string" THEN [t EXCEPT !.alive = FALSE]
    ELSE ApplyMapping(IF on /\ ~On(t) THEN Hide(t) ELSE t, FALSE)

\* The functions that a command can have, with the words of the line as arguments.
Result(t, reconstruct) == [t |-> t, fires |-> <<>>, mode |-> "c", reconstruct |-> reconstruct]
Words(line) ==
    LET next(words, letter) ==
            IF letter.text = " " THEN Append(words, "")
            ELSE [words EXCEPT ![Len(words)] = @ \o letter.text]
    IN  Tail(SelectSeq(FoldLeft(next, <<"">>, line), LAMBDA w : w # ""))

Executed(t, name, args) ==
    LET file == IF args = <<>> THEN RC ELSE args[1]
    IN  CASE name = "source" -> Result(Source(t, file, FALSE), file \in DOMAIN Files)
          [] name = "set" /\ args # <<>> -> Result(Set(t, args).t, TRUE)
          [] name = "delcommand" -> Result(DoUnmap(t, {"c"}, args, FALSE).t, FALSE)
          [] name = "comclear" -> Result(DoMapclear(t, {"c"}, <<>>, FALSE).t, FALSE)
          [] name = "to_insert" ->
                [Result(Show(t, "general", "INSERT"), FALSE) EXCEPT !.mode = "i",
                    !.fires = <<Event_(t, LeaveEvent("c"), None), Event_(t, EnterEvent("i"), None)>>]
          [] OTHER -> Result(t, FALSE)

-----------------------------------------------------------------------------
(***************************************************************************)
(* What happens outside of the session.                                    *)
(***************************************************************************)
\* Only at the start there is no window in the foreground.
Foreground(p) ==
    /\ foreground # p
    /\ foreground' = p
    /\ UNCHANGED <<tables, enabled, mode, saved, session, queues, previous, running>>

StartProcess ==
    /\ running < Len(Procs)
    /\ running' = running + 1
    /\ UNCHANGED <<tables, enabled, mode, saved, session, queues, foreground, previous>>

\* Time that makes no difference is left out.
Tick ==
    /\ Older(tables.msg) # tables.msg
    /\ tables' = [tables EXCEPT !.msg = Older(@)]
    /\ UNCHANGED <<enabled, mode, saved, session, queues, apps>>

\* VCmdLine::do_process, while the option is on.
Draw ==
    /\ enabled /\ Processed(tables.msg) # tables.msg
    /\ tables' = [tables EXCEPT !.msg = Processed(@)]
    /\ UNCHANGED <<enabled, mode, saved, session, queues, apps>>

\* VindEntry::update looks for another application.
Noticed == IF foreground \in {None, Shell} THEN None ELSE foreground
AppEvents(old, new) ==
    (IF new = None /\ old = None THEN <<>> ELSE <<[event |-> "appleave", proc |-> old]>>)
    \o (IF new = None THEN <<>> ELSE <<[event |-> "appenter", proc |-> new]>>)
UpdateApp ==
    /\ ~open /\ EmptyQueue
    /\ previous # Noticed
    /\ previous' = Noticed
    /\ LET events == AppEvents(previous, Noticed)
       IN  Apply(Queued, [i \in DOMAIN events |-> Event_(tables, events[i].event, events[i].proc)])
    /\ UNCHANGED <<tables, enabled, mode, saved, session, foreground, running>>

\* showcmd shows what is matched so far and leaves nothing of another message; if no
\* matcher is in the middle of its command it does nothing.
Echo == {tables, Hide(tables), Show(Hide(tables), "static", "showcmd")}

\* A function that changes the mode; ToGUINormal does nothing in its own mode.
Become(m, left) ==
    /\ mode' = m
    /\ Apply(left, <<Event_(tables, LeaveEvent(mode), None), Event_(tables, EnterEvent(m), None)>>)
    /\ \E t \in Echo : tables' = Show(t, "general", m)

\* VindEntry::update executes what it pulls; a key is left to the maps of the mode.
Pull ==
    /\ ~open /\ ~EmptyQueue
    /\ \E f \in Fetched :
        IF f.unit.name = "to_insert" THEN Become("i", f.left)
        ELSE tables' \in Echo /\ Apply(f.left, <<>>) /\ UNCHANGED mode
    /\ UNCHANGED <<enabled, saved, session, apps>>

\* The keys of the mode: an unfinished command, and those of the mode functions.
TypeKey ==
    /\ ~open /\ EmptyQueue
    /\ \/ tables' \in Echo /\ UNCHANGED <<mode, queues>>
       \/ mode = "i" /\ Become("gn", Queued)
       \/ mode = "gn" /\ Become("i", Queued)
    /\ UNCHANGED <<enabled, saved, session, apps>>

Outside ==
    \/ \E p \in (Apps \cap {Procs[i].pid : i \in 1..running}) \cup {Shell} : Foreground(p)
    \/ StartProcess \/ Tick \/ Draw \/ UpdateApp \/ Pull \/ TypeKey

-----------------------------------------------------------------------------
(***************************************************************************)
(* The session: ToCommand::sprocess.                                       *)
(***************************************************************************)
OpenSession ==
    /\ ~open /\ EmptyQueue
    /\ mode # "i" /\ Len(hists) < MaxHistory
    /\ open' = TRUE
    /\ saved' = mode /\ mode' = "c"
    /\ tables' = Show(Hide(tables), "static", Prompt(<<>>))
    /\ hists' = Append(hists, <<>>)
    /\ histIdx' = Len(hists)
    /\ Apply(Queued, <<Event_(tables, LeaveEvent(mode), None), Event_(tables, EnterEvent("c"), None)>>)
    /\ UNCHANGED <<enabled, cands, candIdx, apps>>

\* return_mode: unless a command has changed the mode, the old one comes back.
Close(left, r) ==
    /\ open' = FALSE
    /\ mode' = (IF r.mode = "c" THEN saved ELSE r.mode)
    /\ tables' = r.t
    /\ enabled' = (IF r.reconstruct /\ r.t.alive THEN On(r.t) ELSE enabled)
    /\ Apply(left, r.fires \o (IF r.mode = "c" THEN <<Event_(r.t, LeaveEvent("c"), None)>> ELSE <<>>))

QuitLoop(left) ==
    /\ hists' = Front(hists)
    /\ Close(left, Result(Hide(tables), FALSE))
    /\ UNCHANGED <<histIdx, cands, candIdx>>

\* (Bug: a line copied from the history is shared with it.)
WithLatest_Shared(lines, line) == [i \in DOMAIN lines |-> IF lines[i] = Last(lines) THEN line ELSE lines[i]]
WithLatest(lines, line) == Append(Front(lines), line)

\* update_cmdline_display with the new line
Edit(line, left) ==
    /\ hists' = WithLatest(hists, line)
    /\ tables' = Show(tables, "static", Prompt(line))
    /\ Apply(left, <<>>)
    /\ UNCHANGED <<enabled, mode, open>>

Backspace(left) == Edit(Front(Latest), left) /\ UNCHANGED <<histIdx, cands, candIdx>>

Ignore(left) == Apply(left, <<>>) /\ UNCHANGED <<tables, enabled, mode, open, hists>>

\* The histories count from 0, as in the code.
ForwardHistory(left) ==
    /\ IF histIdx + 1 > Len(hists) - 1 THEN Ignore(left) /\ UNCHANGED histIdx
       ELSE /\ histIdx' = histIdx + 1
            /\ Edit(IF histIdx' = Len(hists) - 1 THEN <<>> ELSE hists[histIdx' + 1], left)
    /\ UNCHANGED <<cands, candIdx>>

BackwardHistory(left) ==
    /\ IF histIdx - 1 < 0 THEN Ignore(left) /\ UNCHANGED histIdx
       ELSE histIdx' = histIdx - 1 /\ Edit(hists[histIdx' + 1], left)
    /\ UNCHANGED <<cands, candIdx>>

\* The line as the matchers of the command line see it: the maps afterwards and the
\* last command that is not empty.
Fed(maps, units) ==
    LET next(acc, unit) ==
            LET r == MapCommandFrom(acc.maps, unit.keys, FALSE)
            IN  [maps |-> r.maps, cmd |-> IF r.cmd = <<>> THEN acc.cmd ELSE r.cmd]
    IN  FoldLeft(next, [maps |-> maps, cmd |-> <<>>], units)
\* (Bug: the matchers start where the typing has left them.)
Matched_Typed(maps, line) == Fed(maps, LineUnits(line))
Matched(maps, line) == Fed(ResetAll(maps), LineUnits(line))

\* decide: the functions of the command are run with the line as their argument.
After(acc, r) == [r EXCEPT !.fires = acc.fires \o @, !.mode = IF @ = "c" THEN acc.mode ELSE @]
Run(acc, f, args) == IF acc.t.alive THEN After(acc, Executed(acc.t, f.name, args)) ELSE acc
RunAll(start, cmd, args) ==
    IF Functions(cmd) = <<>> THEN [start EXCEPT !.t = Show(@, "error", "Not a command")]
    ELSE FoldLeft(LAMBDA acc, f : Run(acc, f, args), start, Functions(cmd))
Redeployed(r) ==
    IF r.reconstruct /\ r.t.alive THEN [r EXCEPT !.t = Reconstructed(@, enabled)] ELSE r

Decide(left) ==
    /\ \E m \in {Matched(tables.deployed, Latest)} :
        \E r \in {Redeployed(RunAll(Result([Hide(tables) EXCEPT !.deployed = m.maps], FALSE),
                                   m.cmd, Words(Latest)))} :
            Close(left, r)
    /\ UNCHANGED <<hists, histIdx, cands, candIdx>>

\* complement_command: the commands that the line begins, up to the first key without
\* text or the space; then one after the other in the line.
HasText(unit) == unit.keys # {} /\ \A k \in unit.keys : k \in DOMAIN Unicode /\ Unicode[k] # " "
CommandOf(m) ==
    LET stops == {i \in DOMAIN Trigger(m) : ~HasText(Trigger(m)[i])}
    IN  SubSeq(Trigger(m), 1, IF stops = {} THEN Len(Trigger(m)) ELSE Min(stops) - 1)

TextOf(units) == FoldLeft(LAMBDA text, u : text \o FoldSet(LAMBDA k, s : s \o Unicode[k], "",
                                                         u.keys \cap DOMAIN Unicode), "", units)
Written(command) == [i \in DOMAIN command |-> [text |-> TextOf(<<command[i]>>), units |-> <<command[i]>>]]

Candidates(maps) ==
    LET kept == SelectSeq(maps, LAMBDA m : ~IsRejected(m.mt))
        add(all, m) == IF Contains(all, Written(CommandOf(m))) THEN all
                       ELSE Append(all, Written(CommandOf(m)))
    IN  FoldLeft(add, <<>>, kept)

ComplementCommand(left) ==
    IF cands = <<>>
    THEN \E m \in {Matched(tables.deployed, Latest).maps} :
            /\ cands' = Candidates(m) /\ candIdx' = 0
            /\ tables' = LET t == [tables EXCEPT !.deployed = m]
                         IN  IF cands' = <<>> THEN t ELSE Show(t, "static", "candidates")
            /\ Apply(left, <<>>)
            /\ UNCHANGED <<enabled, mode, open, hists, histIdx>>
    ELSE /\ candIdx' = (candIdx % Len(cands)) + 1
         /\ Edit(cands[candIdx'], left)
         /\ UNCHANGED <<cands, histIdx>>

\* write_as_printable: the keys of a matched map stand for the key.
WriteAsPrintable(unit, left) ==
    LET r == MapCommandFrom(tables.deployed, unit.keys, TRUE)
        printables == IF Keystrokes(r.cmd) = <<>> THEN <<unit>> ELSE Keystrokes(r.cmd)
        line == Append(Latest, [text |-> TextOf(printables), units |-> printables])
        t == [tables EXCEPT !.deployed = r.maps]
    IN  /\ cands' = <<>>
        /\ IF TextOf(printables) = "" THEN tables' = t /\ UNCHANGED hists
           ELSE tables' = Show(t, "static", Prompt(line)) /\ hists' = WithLatest(hists, line)
        /\ Apply(left, <<>>)
        /\ UNCHANGED <<enabled, mode, open, histIdx, candIdx>>

Special == <<"esc", "bkspace", "up", "down", "tab", "enter">>
Meaning(unit) ==
    LET held == {i \in DOMAIN Special : Special[i] \in unit.keys}
    IN  IF held = {} THEN "letter" ELSE Special[Min(held)]

\* Only what begins a typable line is typed; what the queues hold is always read.
MayType(unit) ==
    \/ ~EmptyQueue
    \/ Meaning(unit) # "letter"
    \/ Text(Latest) \o TextOf(<<unit>>) \in Typable

Session ==
    /\ open
    /\ \E f \in Fetched :
        /\ MayType(f.unit)
        /\ \/ (Meaning(f.unit) = "esc" \/ (Meaning(f.unit) = "bkspace" /\ Latest = <<>>)) /\ QuitLoop(f.left)
           \/ Meaning(f.unit) = "bkspace" /\ Latest # <<>> /\ Backspace(f.left)
           \/ Meaning(f.unit) = "up" /\ BackwardHistory(f.left)
           \/ Meaning(f.unit) = "down" /\ ForwardHistory(f.left)
           \/ Meaning(f.unit) = "tab" /\ ComplementCommand(f.left)
           \/ Meaning(f.unit) = "enter" /\ Decide(f.left)
           \/ Meaning(f.unit) = "letter" /\ WriteAsPrintable(f.unit, f.left)
    /\ UNCHANGED <<saved, apps>>

-----------------------------------------------------------------------------
\* The .vindrc is read and the tables are deployed before the first update.
NoTables ==
    [reg |-> [m \in Mode |-> EmptyReg], default |-> <<>>, deployed |-> <<>>,
     settings |-> DefaultSettings, autos |-> NoAutoCmds, msg |-> NoMessage, alive |-> TRUE]

Init ==
    /\ tables = Reconstructed(Source(InitDefaultMapping(NoTables), RC, FALSE), FALSE)
    /\ enabled = On(tables)
    /\ mode = "i" /\ saved = "i"
    /\ open = FALSE
    /\ hists = <<>> /\ histIdx = 0
    /\ cands = <<>> /\ candIdx = 0
    /\ waiting = <<>> /\ typing = <<>>
    /\ foreground = None /\ previous = None
    /\ running = Running /\ snapshot = 0

Next == tables.alive /\ (Outside \/ OpenSession \/ Session)

Spec == Init /\ [][Next]_vars

-----------------------------------------------------------------------------
(***************************************************************************)
(* Properties.                                                             *)
(***************************************************************************)
\* Whatever is typed, completed, copied, queued or executed, what is in the history stays
\* as it was submitted: a line copied from the history is a line of its own, and no line
\* is lost or comes back (command_mode.cpp, hists_).
HistoryImplements ==
    INSTANCE History WITH
        kept <- IF open THEN Front(hists) ELSE hists,
        line <- IF open THEN <<Latest>> ELSE <<>>
KeepsHistory == HistoryImplements!Spec

\* What a line would run does not depend on how it was typed: of the commands that the
\* line is, or begins, if the command takes arguments, the last key that completes one
\* decides (command_mode.cpp decide, mapsolver.cpp map_command_from).
TakesAny(m) == OPTIONAL \in Last(Trigger(m)).keys
Named(m) == IF TakesAny(m) THEN Front(Trigger(m)) ELSE Trigger(m)
IsCommand(m, units) ==
    /\ IF TakesAny(m) THEN Len(Named(m)) < Len(units) ELSE Len(Named(m)) = Len(units)
    /\ \A i \in DOMAIN Named(m) : UnitMatches(units[i].keys, Named(m)[i].keys)
LastNamed(maps, units) ==
    LET fits(n) == {i \in DOMAIN maps : IsCommand(maps[i], SubSeq(units, 1, n))}
        ends == {n \in 1..Len(units) : fits(n) # {}}
    IN  IF ends = {} THEN <<>> ELSE maps[Min(fits(Max(ends)))].target
RunsNamedCommand ==
    open => Matched(tables.deployed, Latest).cmd = LastNamed(tables.deployed, LineUnits(Latest))

\* As long as the line is edited, the prompt or the candidates are on the screen, and no
\* prompt stays there afterwards, however long it takes and whatever else is printed
\* (vcmdline.cpp do_process, message.cpp priority, command_mode.cpp quit_loop, decide).
PromptShown ==
    IF open THEN tables.msg.kind = "static" /\ tables.msg.text \in {Prompt(Latest), "candidates"}
    ELSE tables.msg.kind = "static" => tables.msg.text = "showcmd"

\* When another application is noticed, every command whose pattern fits the application
\* or a process below it is queued once and no other, however deep the process is
\* (autocmd.cpp apply).  Only a process whose path cannot be read hides those below it.
Below(proc, n) ==
    LET known == {Procs[i] : i \in 1..n}
        readable == {p.pid : p \in known} \cap DOMAIN Path
        child == [x, y \in readable \cup {proc} |-> \E p \in known : p.pid = y /\ p.parent = x /\ y \in readable]
        below == TransitiveClosure(child, readable \cup {proc})
    IN  IF proc \notin DOMAIN Path THEN {} ELSE {proc} \cup {y \in readable : below[proc, y]}
Fitting(event, proc, n) ==
    LET fits(a) == \E p \in Below(IF proc = None THEN foreground ELSE proc, n) : Match(a.pat, Path[p])
    IN  FlattenSeq(FlattenSeq([i \in DOMAIN tables.autos[event] |->
            IF fits(tables.autos[event][i]) THEN tables.autos[event][i].cmds ELSE <<>>]))
FittingQueued ==
    [][previous' # previous =>
        \E n \in [DOMAIN AppEvents(previous, Noticed) -> {snapshot, snapshot'} \ {0}] :
            ToBag(waiting' \o typing') =
            ToBag(FlattenSeq([i \in DOMAIN AppEvents(previous, Noticed) |->
                    Fitting(AppEvents(previous, Noticed)[i].event,
                            AppEvents(previous, Noticed)[i].proc, n[i])]))]_vars
=============================================================================
