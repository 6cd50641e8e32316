----------------------------- MODULE RunCommands -----------------------------
(***************************************************************************)
(* The run commands (core/rcparser, bind/syscmd, core/settable): the lines *)
(* of .vindrc and of the files it sources, which fill the tables of maps,  *)
(* commands, settings and autocmds.  A line is a sequence of words.        *)
(*                                                                         *)
(* The tables are one record,                                              *)
(*   [reg, default, deployed, settings, autos, msg, alive],                *)
(* and each operator is the effect of one run command on them.  Of the     *)
(* maps that are deployed only those of the command line are kept.         *)
(***************************************************************************)
EXTENDS MapSolver, VCmdLine, AutoCmd

CONSTANTS
    Files,      \* the lines of each file that can be opened
    RC,         \* the user's own .vindrc
    Tier,       \* the file with the default maps of each tier
    Parse,      \* the units of each word that is a command; other words are syntax errors
    Split,      \* the parts of each word with commas
    Separator,  \* the unit between a command and its argument
    OutOfRange, \* the numbers that stol or stof refuses
    EmptyBack,  \* what back() reads of an empty string, which is undefined
    DefaultSettings

ASSUME RunCommandsAssumption ==
    "huge" \in DOMAIN Tier /\ RC \in DOMAIN Files /\ EmptyBack \in STRING

Mode == {"i", "gn", "gv", "en", "ev", "c", "r"}

-----------------------------------------------------------------------------
(***************************************************************************)
(* rcparser: comments, the names of the run commands, their abbreviations  *)
(* and their mode prefixes.                                                *)
(***************************************************************************)
Quote == "\""

\* remove_dbquote_comment: quoted words stay, a quotation without end is a comment.
RemoveComment(line) ==
    LET quotes == {i \in DOMAIN line : line[i] = Quote}
    IN  CASE line # <<>> /\ line[1] = Quote -> <<>>
          [] (line = <<>> \/ line[1] # Quote) /\ Cardinality(quotes) % 2 = 1 ->
                SubSeq(line, 1, Max(quotes) - 1)
          [] OTHER -> line

Short(name, least) == {SubSeq(name, 1, n) : n \in least..Len(name)}
Plain == {[name |-> n[1], words |-> Short(n[1], n[2])] :
            n \in {<<"set", 2>>, <<"command", 3>>, <<"delcommand", 4>>, <<"comclear", 4>>,
                   <<"source", 2>>, <<"autocmd", 2>>}}
    \cup {[name |-> "autocmd!", words |-> {w \o "!" : w \in Short("autocmd", 2)}]}

\* map, noremap, unmap and mapclear may be shorter behind the prefix of one mode.
OfModes(prefix) ==
    LET m == IF Len(prefix) > 1 THEN 1 ELSE 2
    IN  {[name |-> n[1], words |-> {prefix \o w : w \in Short(n[1], n[2])}] :
            n \in {<<"map", 1>>, <<"noremap", m>>, <<"unmap", m>>, <<"mapclear", 4>>}}

RunCommand == Plain \cup UNION {OfModes(p) : p \in {"", "g", "e", "n", "v"} \cup Mode}

\* parse_run_command
ParseRunCommand(word) ==
    LET named == {c \in RunCommand : word \in c.words}
    IN  IF named = {} THEN "undefined" ELSE (CHOOSE c \in named : TRUE).name

\* divide_prefix_and_cmd looks for the last place of the letter that the command
\* begins with.
PrefixOf(word, letter) == SubSeq(word, 1, Max({i \in 1..Len(word) : SubSeq(word, i, i) = letter}) - 1)

\* prefix_to_modes
PrefixToModes(prefix) ==
    CASE prefix = ""  -> {"gn", "gv", "en", "ev"}
      [] prefix = "g" -> {"gn", "gv"}
      [] prefix = "e" -> {"en", "ev"}
      [] prefix = "n" -> {"gn", "en"}
      [] prefix = "v" -> {"gv", "ev"}
      [] OTHER -> {prefix}

-----------------------------------------------------------------------------
(***************************************************************************)
(* InputHub: add_map, add_noremap, remove_mapping and clear_mapping of one *)
(* mode, as a default or as the user's.                                    *)
(***************************************************************************)
EmptyReg == [default |-> <<>>, noremap |-> <<>>, map |-> <<>>]

Registered(reg, command, trigger, target, as_default) ==
    CASE as_default /\ command \in {"map", "noremap"} ->
            [reg EXCEPT !.default = AddDefault(@, [trigger |-> trigger, target |-> target])]
      [] as_default /\ command = "unmap" -> [reg EXCEPT !.default = Without(@, trigger)]
      [] as_default /\ command = "mapclear" -> [reg EXCEPT !.default = <<>>]
      [] OTHER -> Register(reg, [command |-> command, trigger |-> trigger, target |-> target])

RegisteredIn(t, modes, command, trigger, target, as_default) ==
    [t EXCEPT !.reg = [m \in Mode |->
        IF m \in modes THEN Registered(@[m], command, trigger, target, as_default) ELSE @[m]]]

Error(t, text) == [t EXCEPT !.msg = Printed(@, "error", text)]

\* What becomes of a line: it is done, an exception skips it, an error code ends the
\* file, or an exception ends the program.
Done(t) == [t |-> t, end |-> "done"]
Skipped(t) == [t |-> t, end |-> "skipped"]
Thrown(t) == [t |-> [t EXCEPT !.alive = FALSE], end |-> "stopped"]
Stopped(t, text) == [t |-> Error(t, text), end |-> "stopped"]

-----------------------------------------------------------------------------
(***************************************************************************)
(* bind/syscmd: the run commands.                                          *)
(***************************************************************************)
\* The words from the n-th on, as one command; do_map and do_noremap
CanParse(args) == \A i \in DOMAIN args : args[i] \in DOMAIN Parse
Units(args, n) ==
    FoldLeft(LAMBDA cmd, i : cmd \o (IF i = n THEN <<>> ELSE <<Separator[1]>>) \o Parse[args[i]],
             <<>>, [i \in 1..Len(args) - n + 1 |-> i + n - 1])

DoMap(t, command, modes, args, as_default) ==
    CASE Len(args) < 2 -> Done(Error(t, "Not support reference of map yet"))
      [] Len(args) >= 2 /\ CanParse(args) ->
            Done(RegisteredIn(IF "c" \in modes THEN Error(t, "Not supported cmap yet") ELSE t,
                              modes, command, Parse[args[1]], Units(args, 2), as_default))
      [] OTHER -> Skipped(t)

\* do_unmap and Delcommand
DoUnmap(t, modes, args, as_default) ==
    CASE args = <<>> -> Done(Error(t, "Invalid argument"))
      [] Len(args) = 1 /\ args[1] \in DOMAIN Parse ->
            Done(RegisteredIn(t, modes, "unmap", Parse[args[1]], <<>>, as_default))
      [] OTHER -> Skipped(t)

\* do_mapclear and Comclear, called by do_runcommand
DoMapclear(t, modes, args, as_default) ==
    IF args # <<>> THEN Stopped(t, "Invalid Argument")
    ELSE Done(RegisteredIn(t, modes, "mapclear", <<>>, <<>>, as_default))

\* Command: one map for the command alone, one for the command with an argument.
Commanded(t, args, separator, as_default) ==
    LET name == Parse[args[1]]
        alone == RegisteredIn(t, {"c"}, "noremap", name, Units(args, 2), as_default)
    IN  RegisteredIn(alone, {"c"}, "noremap", name \o separator, Units(args, 2), as_default)

Command(t, args, as_default) ==
    CASE Len(args) < 2 -> Done(Error(t, "Not support reference of command yet"))
      [] Len(args) >= 2 /\ CanParse(args) -> Done(Commanded(t, args, Separator, as_default))
      [] OTHER -> Skipped(t)

\* Set: a value, a reference to a value, or a flag.  A value is text and the type it
\* was read as; a number without digits or out of range throws what nobody catches.
Letter(word, i) == SubSeq(word, i, i)
OfLetters(word, letters) == \A i \in 1..Len(word) : Letter(word, i) \in letters
Digits == {"0", "1", "2", "3", "4", "5", "6", "7", "8", "9"}
IsNumber(word) == word # "" /\ OfLetters(word, Digits \cup {"."})
Value(word) == [type |-> IF IsNumber(word) THEN "number" ELSE "string", text |-> word]
Flag(on) == [type |-> "bool", text |-> IF on THEN "1" ELSE "0"]
Setting(t, name, value) == [t EXCEPT !.settings = (name :> value) @@ @]

Dropped(word) == SubSeq(word, 1, Len(word) - 1)
IsNo(word) == Len(word) > 2 /\ SubSeq(word, 1, 2) = "no"
OptionOf(word) == IF IsNo(word) THEN SubSeq(word, 3, Len(word)) ELSE word

SetFlag(t, word) ==
    LET option == OptionOf(word)
    IN  IF Letter(word, Len(word)) # "?" THEN Setting(t, option, Flag(~IsNo(word)))
        ELSE Error(t, IF Dropped(option) \in DOMAIN t.settings THEN Dropped(option)
                      ELSE "Unknown option")

Set(t, args) ==
    LET value == IF Len(args) = 2 THEN "" ELSE args[3]
    IN  CASE args # <<>> /\ args[1] = "=" -> Done(Error(t, "Invalid syntax"))
          [] Len(args) >= 2 /\ args[1] # "=" /\ args[2] = "=" ->
                IF IsNumber(value) /\ (OfLetters(value, {"."}) \/ value \in OutOfRange)
                THEN Thrown(t)
                ELSE Done(Setting(t, args[1], Value(value)))
          [] args = <<>> -> Done(IF EmptyBack = "?" THEN Error(t, "Unknown option")
                                 ELSE Setting(t, "", Flag(TRUE)))
          [] Len(args) = 1 /\ args[1] # "=" -> Done(SetFlag(t, args[1]))
          [] OTHER -> Skipped(t)

\* AutoCmdAdd and AutoCmdRemove.  What cannot be parsed throws after the removal.
Parts(word) == IF word \in DOMAIN Split THEN Split[word] ELSE <<word>>
AutoCmdLine(t, kind, args) ==
    LET events == IF args = <<>> THEN {} ELSE ToSet(Parts(args[1]))
        pats == IF Len(args) < 2 THEN <<>> ELSE Parts(args[2])
        parsed == CanParse(SubSeq(args, 3, Len(args)))
        cmd == IF parsed THEN Units(args, 3) ELSE <<>>
        change == IF kind = "autocmd" THEN AutoCmdAdd(t.autos, events, pats, cmd)
                  ELSE AutoCmdRemove(t.autos, events, pats, cmd)
        throws == ~parsed /\ change.error \in {"", "Empty autocmd command"}
        changed == [(IF change.error = "" \/ throws THEN t ELSE Error(t, change.error))
                        EXCEPT !.autos = change.autos]
    IN  IF throws THEN Skipped(changed) ELSE Done(changed)

-----------------------------------------------------------------------------
(***************************************************************************)
(* Source.  The lines of a file and of the files it sources are listed in  *)
(* the order in which they are read, each with the depth of its file.      *)
(***************************************************************************)
Commands(file) ==
    LET lines == [i \in DOMAIN Files[file] |-> RemoveComment(Files[file][i])]
    IN  SelectSeq(lines, LAMBDA line : line # <<>>)

\* The file that a line sources, if there is one.
Nested(line) ==
    {file \in DOMAIN Files \ {RC} :
        ParseRunCommand(line[1]) = "source" /\ Len(line) > 1 /\ line[2] = file}

\* So deep are only files that source themselves.
Deepest == Cardinality(DOMAIN Files)
Listing ==
    LET items(line, depth, nested) ==
            <<[line |-> line, depth |-> depth]>>
            \o (IF depth = Deepest THEN <<>> ELSE FoldSet(LAMBDA file, all : nested[file], <<>>, Nested(line)))
        listing[d \in 0..Deepest] ==
            [file \in DOMAIN Files |->
                FlattenSeq([i \in DOMAIN Commands(file) |->
                    items(Commands(file)[i], Deepest - d, IF d = 0 THEN <<>> ELSE listing[d - 1])])]
    IN  listing[Deepest]

\* do_runcommand for the command source; the lines of the file come next.  A file that
\* is not there is looked for in the repository of that name, which is outside of the
\* model: it has a slash.
SourceLine(t, args) ==
    CASE args = <<>> -> Stopped(t, "Invalid Argument")
      [] args # <<>> /\ args[1] = RC -> Stopped(t, "text file busy")
      [] OTHER -> Skipped(t)

DoRunCommand(t, word, args, as_default) ==
    LET kind == ParseRunCommand(word)
        modes(letter) == PrefixToModes(PrefixOf(word, letter))
    IN  CASE kind = "set"        -> Set(t, args)
          [] kind = "command"    -> Command(t, args, as_default)
          [] kind = "delcommand" -> DoUnmap(t, {"c"}, args, as_default)
          [] kind = "comclear"   -> DoMapclear(t, {"c"}, args, as_default)
          [] kind = "source"     -> SourceLine(t, args)
          [] kind \in {"autocmd", "autocmd!"} -> AutoCmdLine(t, kind, args)
          [] kind = "map"        -> DoMap(t, "map", modes("m"), args, as_default)
          [] kind = "noremap"    -> DoMap(t, "noremap", modes("n"), args, as_default)
          [] kind = "unmap"      -> DoUnmap(t, modes("u"), args, as_default)
          [] kind = "mapclear"   -> DoMapclear(t, modes("m"), args, as_default)
          [] OTHER -> Stopped(t, "Not command")

\* An error code clears what the user mapped, or the defaults, and ends the file with
\* the files it sources.
NotEnded == Deepest + 1
ClearMapping(t, as_default) == RegisteredIn(t, Mode, "mapclear", <<>>, <<>>, as_default)
LineDone(t, item, as_default) ==
    LET r == DoRunCommand(t, item.line[1], Tail(item.line), as_default)
    IN  CASE item.line[1] = "version" -> [t |-> t, ended |-> NotEnded]
          [] item.line[1] # "version" /\ r.end = "stopped" ->
                [t |-> ClearMapping(r.t, as_default), ended |-> item.depth]
          [] OTHER -> [t |-> r.t, ended |-> NotEnded]

\* The files of this depth and deeper are ended, but for those that come after a line of
\* a file that is not.  A file that sources itself overflows the stack.
ReadNext(r, item, as_default) ==
    CASE ~r.t.alive \/ item.depth >= r.ended -> r
      [] r.t.alive /\ item.depth < r.ended /\ item.depth = Deepest -> [r EXCEPT !.t.alive = FALSE]
      [] OTHER -> LineDone(r.t, item, as_default)

Read(t, items, as_default) ==
    LET after[n \in 0..Len(items)] ==
            IF n = 0 THEN [t |-> t, ended |-> NotEnded]
            ELSE ReadNext(after[n - 1], items[n], as_default)
    IN  after[Len(items)].t

Source(t, file, as_default) ==
    IF file \in DOMAIN Files THEN Read(t, Listing[file], as_default)
    ELSE Error(t, "Could not open")

Deployed(t, default) == [t EXCEPT !.default = default, !.deployed = Deploy(default, t.reg["c"]).deployed]
ApplyMapping(t, as_default) ==
    Deployed(t, IF as_default THEN DeployDefault(t.reg["c"].default).maps ELSE t.default)

\* init_default_mapping, at the first command of the first file: nothing has happened
\* before.  The command version in that place names the tier.
InitDefaultMapping(t) ==
    LET lines == Commands(RC)
        tier == CASE lines = <<>> \/ lines[1][1] # "version" -> "huge"
                  [] lines # <<>> /\ lines[1] = <<"version">> -> ""
                  [] OTHER -> lines[1][2]
    IN  ApplyMapping(IF tier \in DOMAIN Tier THEN Source(t, Tier[tier], TRUE)
                     ELSE Error(t, "Could not open"), TRUE)
=============================================================================
