------------------------------- MODULE AutoCmd -------------------------------
(***************************************************************************)
(* AutoCmd (core/autocmd, bind/syscmd/autocmd): commands that are run when *)
(* an application comes to the foreground or leaves it, and when the mode  *)
(* changes, if its process or one of its descendants has a name that       *)
(* matches.  The operators are pure: CommandLine keeps the table.          *)
(*                                                                         *)
(* The table has, for each event, a sequence of [pat, cmds]; a command is  *)
(* a sequence of units.  A snapshot lists the processes as [pid, parent].  *)
(***************************************************************************)
EXTENDS Naturals, SequencesExt

CONSTANTS
    Event,      \* the events of get_autocmd_event; any other name is undefined
    Pattern,    \* the patterns, as they are written
    Lower,      \* each pattern in lower case
    Absolute,   \* the patterns with a slash
    Regex,      \* the paths and names that each pattern, in lower case, matches
    Path,       \* the path of each process whose path can be read
    FileName    \* the last part of each path

ASSUME PatternAssumption ==
    /\ Lower \in [Pattern -> Pattern] /\ Absolute \subseteq Pattern
    /\ \A p \in Pattern : Lower[Lower[p]] = Lower[p] /\ (p \in Absolute <=> Lower[p] \in Absolute)
    /\ DOMAIN Regex = Pattern

NoAutoCmds == [e \in Event |-> <<>>]

Match(pat, path) == (IF pat \in Absolute THEN path ELSE FileName[path]) \in Regex[pat]

-----------------------------------------------------------------------------
(***************************************************************************)
(* AutoEvent.                                                              *)
(***************************************************************************)
PatIndex(evt, pat) == {i \in DOMAIN evt : evt[i].pat = pat}

AddPatternCmd(evt, pat, cmd) ==
    IF PatIndex(evt, pat) = {} THEN Append(evt, [pat |-> pat, cmds |-> <<cmd>>])
    ELSE LET i == CHOOSE j \in PatIndex(evt, pat) : TRUE
         IN  [evt EXCEPT ![i].cmds = Append(@, cmd)]

RemovePattern(evt, pat) == SelectSeq(evt, LAMBDA a : a.pat # pat)

\* AutoCmd::add writes the pattern in lower case, AutoCmd::remove takes it as it is.
\* An empty command is ignored.
Added(autos, events, pats, cmd) ==
    IF cmd = <<>> THEN autos
    ELSE [e \in Event |->
            IF e \notin events THEN autos[e]
            ELSE FoldLeft(LAMBDA evt, p : AddPatternCmd(evt, Lower[p], cmd), autos[e], pats)]

Removed(autos, events, pats) ==
    [e \in Event |-> IF e \notin events THEN autos[e] ELSE FoldLeft(RemovePattern, autos[e], pats)]

ClearedEvents(autos, events) == [e \in Event |-> IF e \in events THEN <<>> ELSE autos[e]]

\* AutoCmdAdd::sprocess; the result is the table and the error that is printed.
AutoCmdAdd(autos, events, pats, cmd) ==
    LET fails(error) == [autos |-> autos, error |-> error]
    IN  CASE ~(events \subseteq Event) -> fails("Not supported event name")
          [] events \subseteq Event /\ pats = <<>> -> fails("Empty autocmd pattern")
          [] events \subseteq Event /\ pats # <<>> /\ cmd = <<>> -> fails("Empty autocmd command")
          [] OTHER -> [autos |-> Added(autos, events, pats, cmd), error |-> ""]

\* AutoCmdRemove::sprocess, with the four forms of its arguments.
AutoCmdRemove(autos, events, pats, cmd) ==
    LET fails(error) == [autos |-> autos, error |-> error]
        done(all) == [autos |-> all, error |-> ""]
    IN  CASE events = {"*"} ->
                IF pats = <<>> THEN fails("Empty autocmd pattern")
                ELSE done(Removed(autos, Event, pats))
          [] events # {"*"} /\ ~(events \subseteq Event) -> fails("Not supported event name")
          [] OTHER ->
                IF pats = <<>> THEN done(ClearedEvents(autos, events))
                ELSE done(Added(Removed(autos, events, pats), events, pats, cmd))

-----------------------------------------------------------------------------
(***************************************************************************)
(* AutoCmd::apply: the patterns that the process matches, or a process     *)
(* that descends from it as far as one pass over the snapshot shows.       *)
(***************************************************************************)
MatchPattern(evt, path) == {i \in DOMAIN evt : Match(evt[i].pat, path)}

\* (Bug: only the children of the process itself are looked at.)
Visit_Children(evt, acc, proc) ==
    IF proc.parent \notin {acc.root} \/ proc.pid \notin DOMAIN Path THEN acc
    ELSE [acc EXCEPT !.parents = @ \cup {proc.pid},
                     !.indices = @ \cup MatchPattern(evt, Path[proc.pid])]

Visit(evt, acc, proc) ==
    IF proc.parent \notin acc.parents \/ proc.pid \notin DOMAIN Path THEN acc
    ELSE [acc EXCEPT !.parents = @ \cup {proc.pid},
                     !.indices = @ \cup MatchPattern(evt, Path[proc.pid])]

PatIndices(evt, root, snapshot) ==
    IF root \notin DOMAIN Path THEN {}
    ELSE LET start == [root |-> root, parents |-> {root},
                       indices |-> MatchPattern(evt, Path[root])]
         IN  FoldLeft(LAMBDA acc, proc : Visit(evt, acc, proc), start, snapshot).indices

\* The patterns come in the order of a hash table; the commands of one in the order
\* they were added.
SequentialCommands(evt, indices) ==
    {FlattenSeq([i \in DOMAIN order |-> FlattenSeq(evt[order[i]].cmds)]) :
        order \in SetToSeqs(indices)}

Functions(units) == SelectSeq(units, LAMBDA u : u.keys = {})
Keystrokes(units) == SelectSeq(units, LAMBDA u : u.keys # {})
=============================================================================
