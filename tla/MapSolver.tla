------------------------------ MODULE MapSolver ------------------------------
(***************************************************************************)
(* MapSolver (core/mapsolver): resolves the maps that the user registered  *)
(* against each other and against the defaults once, when they are         *)
(* deployed, and matches the typed units with the result.                  *)
(*                                                                         *)
(* A registered map is [trigger, target]; a deployed one is                *)
(* [mt, target], mt being the matcher of its trigger.                      *)
(***************************************************************************)
EXTENDS CmdMatcher, SequencesExt

CONSTANT ModeFns    \* the functions that may change the mode

SameCommand(c, d) ==
    Len(c) = Len(d) /\ \A i \in 1..Len(c) : c[i].keys = d[i].keys

Matching(map) == [mt |-> Fresh(map.trigger), target |-> map.target]
Trigger(m) == m.mt.cmd
ResetAll(maps) == [i \in DOMAIN maps |-> [maps[i] EXCEPT !.mt = ResetState(@)]]

\* The entries of seq at the places, in order.
Entries(seq, places) ==
    [n \in 1..Cardinality(places) |->
        seq[CHOOSE i \in places : Cardinality({j \in places : j <= i}) = n]]

\* remove_triggered_map
WithoutTrigger(maps, cmd) == Entries(maps, {i \in DOMAIN maps : ~SameCommand(Trigger(maps[i]), cmd)})
\* (Bug: the map of the same trigger stays.)
Overwritten_Keep(maps, map) == Append(maps, Matching(map))
Overwritten(maps, map) == Append(WithoutTrigger(maps, map.trigger), Matching(map))
OverwrittenBy(maps, news) ==
    LET after[n \in 0..Len(news)] == IF n = 0 THEN maps ELSE Overwritten(after[n - 1], news[n])
    IN  after[Len(news)]

\* add_default, add_map, add_noremap, remove and clear, by the command of an rc file.
Without(maps, cmd) == Entries(maps, {i \in DOMAIN maps : ~SameCommand(maps[i].trigger, cmd)})
AddDefault(default, map) == Append(Without(default, map.trigger), map)

Register(reg, line) ==
    LET map == [trigger |-> line.trigger, target |-> line.target]
        others == [reg EXCEPT !.map = Without(@, line.trigger),
                              !.noremap = Without(@, line.trigger)]
    IN  CASE line.command = "map" -> [others EXCEPT !.map = Append(@, map)]
          [] line.command = "noremap" -> [others EXCEPT !.noremap = Append(@, map)]
          [] line.command = "unmap" -> others
          [] line.command = "mapclear" -> [reg EXCEPT !.map = <<>>, !.noremap = <<>>]

-----------------------------------------------------------------------------
(***************************************************************************)
(* One unit is given to every matcher; the accepted map that matched the   *)
(* most keys wins, the first one among equals.                             *)
(***************************************************************************)
UpdateAll(maps, keys) == [i \in DOMAIN maps |-> [maps[i] EXCEPT !.mt = UpdateState(@, keys)]]
AllRejected(maps) == \A i \in DOMAIN maps : IsRejected(maps[i].mt)
AnyAccepted(maps) == \E i \in DOMAIN maps : IsAccepted(maps[i].mt)
AnyOverflow(maps) == \E i \in DOMAIN maps : IsOverflow(maps[i].mt)

\* Every matcher that accepts a unit has matched all of its keys.
Winner(maps, keys) ==
    LET acc == {i \in DOMAIN maps : IsAccepted(maps[i].mt) /\ keys # {}}
    IN  IF acc = {} THEN 0 ELSE Min(acc)

\* map_command_from: the maps afterwards and the resulting command; s is the maps
\* after the unit.
Mapped(s, keys, auto_reset) ==
    LET w == Winner(s, keys)
        after == IF auto_reset THEN ResetAll(s) ELSE s
    IN  CASE AllRejected(s) /\ keys \cap Char = {} ->
                [maps |-> [i \in DOMAIN s |-> [s[i] EXCEPT !.mt = BackwardState(@)]],
                 cmd |-> <<>>]
          [] AllRejected(s) /\ keys \cap Char # {} -> [maps |-> after, cmd |-> <<>>]
          [] ~AllRejected(s) /\ w = 0 -> [maps |-> s, cmd |-> <<>>]
          [] OTHER -> [maps |-> after, cmd |-> s[w].target]

MapCommandFrom(maps, keys, auto_reset) == Mapped(UpdateAll(maps, keys), keys, auto_reset)

-----------------------------------------------------------------------------
(***************************************************************************)
(* solve_mapping.  The target of a map is read as if it was typed: what    *)
(* matches a map of the table is replaced by the target of that map, which *)
(* is solved in turn if recursively is set.  The result has the table with *)
(* the states that its matchers are left in; ok is FALSE if the recursion  *)
(* has no end: it goes deeper than there are targets to solve.             *)
(***************************************************************************)
IsExternal(unit) == unit.kind = "external"
ChangesMode(cmd) == \E i \in DOMAIN cmd : cmd[i].kind = "function" /\ cmd[i].name \in ModeFns

\* (Bug: a map that leads back to the trigger is followed.)
Ignored_EmptyOnly(trigger, m) == m.target = <<>>

\* A matched map that adds nothing, since it would lead back to the trigger.
Ignored(trigger, m) ==
    m.target = <<>> \/ SameCommand(trigger, Trigger(m)) \/ SameCommand(trigger, m.target)

\* The next unit of the target: acc.table is the table after the unit, deeper[j]
\* the solved target of map j.
SolveUnit(trigger, recursively, deeper, acc, unit) ==
    LET s == acc.table
        w == Winner(s, unit.keys)
        kept == [acc EXCEPT !.out = @ \o Append(acc.queue, unit), !.queue = <<>>]
        taken == [acc EXCEPT !.table = ResetAll(s), !.queue = <<>>]
        last == acc.disabled \/ ChangesMode(s[w].target)
    IN  CASE AllRejected(s) -> [kept EXCEPT !.table = ResetAll(s)]
          [] ~AllRejected(s) /\ w = 0 -> [acc EXCEPT !.queue = Append(@, unit)]
          [] ~AllRejected(s) /\ w # 0 /\ Ignored(trigger, s[w]) -> taken
          [] OTHER ->
                IF ~recursively \/ last
                THEN [taken EXCEPT !.out = @ \o s[w].target, !.disabled = last]
                ELSE [taken EXCEPT !.out = @ \o deeper[w].out, !.ok = @ /\ deeper[w].ok]

\* External units are left as they are, and so is all that follows a change of mode.
SolveNext(trigger, recursively, deeper, acc, unit) ==
    IF IsExternal(unit) \/ acc.disabled
    THEN [acc EXCEPT !.out = @ \o Append(acc.queue, unit), !.queue = <<>>]
    ELSE SolveUnit(trigger, recursively, deeper,
                   [acc EXCEPT !.table = UpdateAll(@, unit.keys)], unit)

SolveEnd(r) == [r EXCEPT !.out = @ \o r.queue, !.ok = @ /\ ~AnyOverflow(r.table)]

SolveStart(table, ok) ==
    [table |-> ResetAll(table), queue |-> <<>>, out |-> <<>>, disabled |-> FALSE, ok |-> ok]

SolveCommand(trigger, recursively, deeper, table, cmd) ==
    LET after[n \in 0..Len(cmd)] ==
            IF n = 0 THEN SolveStart(table, TRUE)
            ELSE SolveNext(trigger, recursively, deeper, after[n - 1], cmd[n])
    IN  SolveEnd(after[Len(cmd)])

\* At depth d the target itself (0) and those of the table.
SolveFrom(trigger, target, table, recursively) ==
    LET cmd(i) == IF i = 0 THEN target ELSE table[i].target
        solved[d \in 0..Len(table) + 1] ==
            [i \in 0..Len(table) |->
                IF d = 0 THEN SolveStart(table, FALSE)
                ELSE SolveCommand(trigger, recursively, solved[d - 1], table, cmd(i))]
    IN  solved[Len(table) + 1][0]

Solve(map, table, recursively) ==
    LET as_is == [table |-> table, out |-> map.target, ok |-> TRUE]
    IN  CASE Len(map.trigger) = 1 /\ Len(map.target) = 1 /\ IsExternal(map.target[1]) -> as_is
          [] SameCommand(map.trigger, map.target) -> [as_is EXCEPT !.out = <<>>]
          [] OTHER -> SolveFrom(map.trigger, map.target, table, recursively)

-----------------------------------------------------------------------------
(***************************************************************************)
(* deploy_default and deploy.                                              *)
(***************************************************************************)
\* The maps with their solved targets, without those solved to nothing.
Solved(maps, results) ==
    Entries([i \in DOMAIN maps |-> [maps[i] EXCEPT !.target = results[i].out]],
            {i \in DOMAIN maps : results[i].out # <<>>})
AllOk(results) == \A i \in DOMAIN results : results[i].ok

DeployDefault(default) ==
    LET maps == [i \in DOMAIN default |-> Matching(default[i])]
        ready(results) == [maps |-> Solved(maps, results), ok |-> AllOk(results)]
    IN  ready([i \in DOMAIN default |-> Solve(default[i], maps, TRUE)])

\* The defaults, overwritten by noremap and solved with the defaults once.
DeployNoremap(default, noremap) ==
    LET own == OverwrittenBy(default, noremap)
        ready(results) == [maps |-> ResetAll(Solved(own, results)), ok |-> AllOk(results)]
    IN  ready([i \in DOMAIN own |->
                Solve([trigger |-> Trigger(own[i]), target |-> own[i].target], default, FALSE)])

\* The maps in turn.  The table of the matchers is shared with the result: a
\* default or noremap map keeps the state that the last solving leaves.
DeployMap(acc, map, r) ==
    [table |-> r.table, ok |-> acc.ok /\ r.ok,
     maps |-> IF r.out = <<>> THEN acc.maps
              ELSE Overwritten(acc.maps, [map EXCEPT !.target = r.out])]

Shared(end, map) ==
    LET isOwn(cmd) == \E i \in DOMAIN map : SameCommand(map[i].trigger, cmd)
        same(m) == CHOOSE t \in {end.table[i] : i \in DOMAIN end.table} :
                        SameCommand(Trigger(t), Trigger(m))
    IN  [maps |-> [i \in DOMAIN end.maps |->
                    IF isOwn(Trigger(end.maps[i])) THEN end.maps[i]
                    ELSE [end.maps[i] EXCEPT !.mt = same(end.maps[i]).mt]],
         ok |-> end.ok]

DeployMaps(noremap, map) ==
    LET start == [table |-> OverwrittenBy(noremap.maps, map),
                  maps |-> noremap.maps, ok |-> noremap.ok]
        after[n \in 0..Len(map)] ==
            IF n = 0 THEN start
            ELSE DeployMap(after[n - 1], map[n], Solve(map[n], after[n - 1].table, TRUE))
    IN  Shared(after[Len(map)], map)

\* A key mapped to one external unit becomes a hotkey of the gate instead.
IsHotkey(m) ==
    /\ Len(Trigger(m)) = 1 /\ Cardinality(Trigger(m)[1].keys) = 1
    /\ Len(m.target) = 1 /\ IsExternal(m.target[1])

Deploy(default, reg) ==
    LET split(all) ==
            [deployed |-> Entries(all.maps, {i \in DOMAIN all.maps : ~IsHotkey(all.maps[i])}), ok |-> all.ok]
    IN  split(DeployMaps(DeployNoremap(default, reg.noremap), reg.map))
=============================================================================
