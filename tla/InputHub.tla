------------------------------ MODULE InputHub ------------------------------
(***************************************************************************)
(* InputHub (core/inputhub) and the part of VindEntry::update that feeds   *)
(* it: what the keyboard, the mailbox and the autocmds send to the worker  *)
(* is queued, matched against the maps of the mode and executed.           *)
(*                                                                         *)
(*   typing    units to be read as if they were typed                      *)
(*   waiting   units to be executed, in front of anything typed            *)
(*   count     the digits typed in front of a command; CLOSED ends them     *)
(*   deployed  the maps, whose matchers remember the units typed so far    *)
(*                                                                         *)
(* ref, due and stray are history variables: ref reads the same input      *)
(* with the documented meaning of maps and counts, due is what the user    *)
(* is still to get, and stray says that something else was executed.       *)
(***************************************************************************)
EXTENDS MapSolver

CONSTANTS
    Defaults,     \* the default maps, in order
    Lines,        \* the map commands that rc files and the user may give
    RawUnits,     \* what pressed_list may return
    Requests,     \* commands of the mailbox
    AutoCmds,     \* commands of autocmds
    CountMod,     \* 2^16 in the code
    IntMax,       \* the largest number stoi reads
    \* bounds: map commands, digits of a count and units of one command, requests
    MaxLines, MaxCount, MaxAsked

\* What parse_command returns: a function has no keys.
Keys == Char \cup DOMAIN Rep \cup {Rep[k] : k \in DOMAIN Rep} \cup {OPTIONAL, OPTNUMBER}
Unit ==
    {u \in [keys : SUBSET Keys, kind : {"key", "function", "external"}, name : STRING] :
        u.kind = "function" => u.keys = {}}
Command == Seq(Unit)

ASSUME HubAssumption ==
    /\ {CountMod, IntMax, MaxLines, MaxCount, MaxAsked} \subseteq Nat /\ CountMod > 1
    /\ \A raw \in RawUnits : raw \subseteq Char \cup DOMAIN Rep
    /\ Defaults \in Seq([trigger : Command, target : Command])
    /\ Lines \subseteq [command : {"map", "noremap", "unmap", "mapclear"}, trigger : Command, target : Command]

VARIABLES reg, default, deployed, lines, count, typing, waiting, prev, pc, asked,
          ref, due, stray

tables == <<reg, default, deployed, lines>>
meaning == <<ref, due, stray>>
vars == <<tables, count, typing, waiting, prev, pc, asked, meaning>>

-----------------------------------------------------------------------------
(***************************************************************************)
(* Digits and counts (extract_numbers, extract_num).                       *)
(***************************************************************************)
Digits(keys, allow_zero) ==
    LET shown == {k \in keys : Numeric(k, keys) /\ (allow_zero \/ DigitValue[k] # 0)}
        keyseq == SetToSortSeq(shown, LAMBDA a, b : DigitValue[a] < DigitValue[b])
    IN  [i \in DOMAIN keyseq |-> DigitValue[keyseq[i]]]

CLOSED == 10    \* the code's ";"
IsClosed(c) == c # <<>> /\ Last(c) = CLOSED
FirstRun(c) ==
    LET ends == {i \in DOMAIN c : c[i] = CLOSED}
    IN  IF ends = {} THEN c ELSE SubSeq(c, 1, Min(ends) - 1)
Value(digits) == FoldLeft(LAMBDA n, d : 10 * n + d, 0, digits)
CountOf(c) == IF c = <<>> THEN 1 ELSE Value(FirstRun(c)) % CountMod
TooLarge(c) == Value(FirstRun(c)) > IntMax

\* lowlevel_to_typing: the unit typed by the keys that are down, {} for none.
\* The key repetition may or may not be due.
TypedUnits(raw) ==
    LET system == raw \ Char
        ascii == raw \cap Char
        fresh == raw \ prev
    IN  CASE raw = {} -> {{}}
          [] raw # {} /\ raw = prev -> {{}, raw}
          [] raw # {} /\ raw # prev /\ system # {} /\ ascii # {} -> {fresh \cup system}
          [] raw # {} /\ raw # prev /\ ascii = {} -> {IF fresh = {} THEN {} ELSE raw}
          [] OTHER -> {fresh}

MaxHistory == Max({0} \cup {Len(deployed[i].mt.states) : i \in DOMAIN deployed})

-----------------------------------------------------------------------------
(***************************************************************************)
(* The documented meaning.  A command is what has been typed since the     *)
(* last one was completed or given up; it is completed by the first unit   *)
(* with which it matches a trigger, and stands for the functions and       *)
(* external keys of that map, as often as the count in front of it says.   *)
(***************************************************************************)
Fits(keys, want) ==
    CASE OPTIONAL \in want -> TRUE
      [] OPTNUMBER \in want -> ~NonNumeric(keys)
      [] OTHER -> UnitMatches(keys, want)
Repeats(want) == want \cap {OPTIONAL, OPTNUMBER} # {}

\* The ways in which the units may stand for a beginning of the command.
Readings(units, cmd) ==
    {at \in [DOMAIN units -> DOMAIN cmd] :
        /\ \A i \in DOMAIN units : Fits(units[i], cmd[at[i]].keys)
        /\ \A i \in DOMAIN units :
              IF i = 1 THEN at[i] = 1
              ELSE \/ at[i] = at[i - 1] + 1
                   \/ at[i] = at[i - 1] /\ Repeats(cmd[at[i]].keys)}
Begins(units, cmd) == Readings(units, cmd) # {}
Completes(units, cmd) == \E at \in Readings(units, cmd) : at[Len(units)] = Len(cmd)

\* The last unit is none, where the first number of a <num> inside the command belongs.
Chokes(units, cmd) ==
    \E n \in 2..Len(cmd) - 1 :
        /\ OPTNUMBER \in cmd[n].keys /\ NonNumeric(Last(units))
        /\ \E at \in Readings(Front(units), cmd) : at # <<>> /\ Last(at) = n - 1

HasEffect(unit) == unit.kind \in {"function", "external"}
Effects(cmd, n) ==
    LET units == SelectSeq(cmd, HasEffect)
    IN  IF Len(cmd) = 1 THEN [i \in DOMAIN units |-> <<units[i].name, n>>]
        ELSE FlattenSeq([k \in 1..n |-> [i \in DOMAIN units |-> <<units[i].name, 1>>]])

\* num is fixed by the first unit that follows it (fixed); it is used up by the end
\* of a command unless digits came last (closed is FALSE).  choked: the last unit
\* choked a trigger.
NoCommand ==
    [part |-> <<>>, num |-> <<>>, fixed |-> FALSE, closed |-> FALSE, choked |-> FALSE]
CommandEnd(r) == IF r.closed THEN NoCommand ELSE [r EXCEPT !.part = <<>>]
Close(r) == IF r.num = <<>> THEN r ELSE [r EXCEPT !.fixed = TRUE, !.closed = TRUE]

RefDigits(r, digits) ==
    [r EXCEPT !.num = IF r.fixed THEN @ ELSE @ \o digits, !.closed = FALSE]
RefCount(r) == IF r.num = <<>> THEN 1 ELSE Value(r.num) % CountMod

\* The next unit of the command: the new reading, and what it stands for.
RefUnit(r, keys, n) ==
    LET now == Append(r.part, keys)
        begun == {i \in DOMAIN deployed : Begins(now, Trigger(deployed[i]))}
        done == {i \in DOMAIN deployed : Completes(now, Trigger(deployed[i]))}
    IN  CASE begun = {} /\ keys \cap Char = {} /\ deployed # <<>> -> [ref |-> r, due |-> <<>>]
          [] begun = {} /\ (keys \cap Char # {} \/ deployed = <<>>) ->
                [ref |-> CommandEnd(r), due |-> <<>>]
          [] begun # {} /\ done = {} -> [ref |-> [r EXCEPT !.part = now], due |-> <<>>]
          [] OTHER -> [ref |-> CommandEnd(r), due |-> Effects(deployed[Min(done)].target, n)]
ChokedBy(r, keys) ==
    \E i \in DOMAIN deployed : Chokes(Append(r.part, keys), Trigger(deployed[i]))

RefItem(r, item) ==
    LET self == IF HasEffect(item.unit) /\ item.from = "autocmd"
                THEN <<<<item.unit.name, item.cnt>>>> ELSE <<>>
        read == IF item.from = "mapped" \/ item.unit.keys = {} THEN [ref |-> r, due |-> <<>>]
                ELSE RefUnit(r, item.unit.keys,
                             IF item.from = "typed" THEN RefCount(r) ELSE item.cnt)
    IN  [read EXCEPT !.due = self \o @,
                     !.ref.choked = item.from # "mapped" /\ ChokedBy(r, item.unit.keys)]

\* The effect e happens when these are due.
Happens(owed, e) ==
    IF owed # <<>> /\ Head(owed) = e THEN due' = Tail(owed) /\ stray' = stray
    ELSE due' = owed /\ stray' = TRUE

-----------------------------------------------------------------------------
(***************************************************************************)
(* enqueue_mapped.                                                         *)
(***************************************************************************)
Key(keys) == [keys |-> keys, kind |-> "key", name |-> ""]
Item(unit, n, from) == [unit |-> unit, cnt |-> n, from |-> from]

Feed(maps, unit) ==
    IF unit.keys = {} THEN maps ELSE MapCommandFrom(maps, unit.keys, TRUE).maps
FeedAll(maps, cmd) ==
    LET after[n \in 0..Len(cmd)] == IF n = 0 THEN maps ELSE Feed(after[n - 1], cmd[n])
    IN  after[Len(cmd)]

\* The items that stand for a command, n times.
Repeated(cmd, n) ==
    LET items(k) == [i \in DOMAIN cmd |-> Item(cmd[i], k, "mapped")]
    IN  IF Len(cmd) = 1 THEN items(n) ELSE FlattenSeq([k \in 1..n |-> items(1)])

\* (Bug: the count is cleared by every unit.)
Enqueued_ClearCount(r, n, c, queue) ==
    LET ended == AnyAccepted(r.maps) \/ AllRejected(r.maps)
    IN  [maps |-> FeedAll(IF ended THEN ResetAll(r.maps) ELSE r.maps, r.cmd),
         count |-> IF IsClosed(c) THEN <<>> ELSE c,
         waiting |-> queue \o Repeated(r.cmd, n)]

\* The matchers, the count and the waiting queue after a unit that was mapped to r.
Enqueued(r, n, c, queue) ==
    LET ended == AnyAccepted(r.maps) \/ AllRejected(r.maps)
    IN  [maps |-> FeedAll(IF ended THEN ResetAll(r.maps) ELSE r.maps, r.cmd),
         count |-> IF ended /\ IsClosed(c) THEN <<>> ELSE c,
         waiting |-> queue \o Repeated(r.cmd, n)]

EnqueueMapped(item, c, queue) ==
    Enqueued(MapCommandFrom(deployed, item.unit.keys, FALSE), item.cnt, c, queue)

-----------------------------------------------------------------------------
\* The first n defaults.
Registrations(n) ==
    LET after[i \in 0..n] == IF i = 0 THEN <<>> ELSE AddDefault(after[i - 1], Defaults[i])
    IN  after[n]

Init ==
    /\ reg = [default |-> Registrations(Len(Defaults)), noremap |-> <<>>, map |-> <<>>]
    /\ default = <<>> /\ deployed = <<>> /\ lines = 0
    /\ count = <<>> /\ typing = <<>> /\ waiting = <<>> /\ prev = {}
    /\ pc = "boot" /\ asked = 0
    /\ ref = NoCommand /\ due = <<>> /\ stray = FALSE

\* A map command of the rc file that is read at the start.
Source(line) ==
    /\ pc = "boot" /\ lines < MaxLines
    /\ reg' = Register(reg, line) /\ lines' = lines + 1
    /\ UNCHANGED <<default, deployed, count, typing, waiting, prev, pc, asked, meaning>>

\* apply_mapping, with the defaults.
Boot ==
    /\ pc = "boot"
    /\ \E d \in {DeployDefault(reg.default)} : \E all \in {Deploy(d.maps, reg)} :
          /\ default' = d.maps /\ deployed' = all.deployed
          /\ pc' = IF d.ok /\ all.ok THEN "update" ELSE "crashed"
    /\ UNCHANGED <<reg, lines, count, typing, waiting, prev, asked, meaning>>

\* A map command that the user executes: do_map and reconstruct.  Nothing mapped is
\* waiting then: the session of the command line has read it.  The counts and the
\* queues stay; a command typed in part is forgotten.
Remap(line) ==
    /\ pc = "update" /\ lines < MaxLines
    /\ reg' = Register(reg, line) /\ lines' = lines + 1
    /\ \E all \in {Deploy(default, reg')} :
          /\ deployed' = all.deployed
          /\ pc' = IF all.ok THEN pc ELSE "crashed"
    /\ ref' = [ref EXCEPT !.part = <<>>]
    /\ UNCHANGED <<default, count, typing, waiting, prev, asked, due, stray>>

\* An autocmd: its functions overtake its keys.
AutoCmd(cmd) ==
    LET items == [i \in DOMAIN cmd |-> Item(cmd[i], 1, "autocmd")]
        IsFunction(item) == item.unit.keys = {}
        IsKeys(item) == item.unit.keys # {}
    IN  /\ pc = "update" /\ asked < MaxAsked
        /\ waiting' = waiting \o SelectSeq(items, IsFunction)
        /\ typing' = typing \o SelectSeq(items, IsKeys)
        /\ asked' = asked + 1
        /\ UNCHANGED <<tables, count, prev, pc, meaning>>

\* A request of the mailbox: its functions and external keys are executed here,
\* which nothing below sees; its keys are typed.
Request(cmd) ==
    LET items == [i \in DOMAIN cmd |-> Item(cmd[i], 1, "request")]
        IsKeys(item) == item.unit.keys # {}
    IN  /\ pc = "update" /\ asked < MaxAsked
        /\ typing' = typing \o SelectSeq(items, IsKeys)
        /\ asked' = asked + 1 /\ pc' = "loop"
        /\ UNCHANGED <<tables, count, waiting, prev, meaning>>

\* What pull_input does with the fetched item, and its execution.  c is the count,
\* queue and queue2 what is left in the waiting and the typing queue.
Take(item, c, queue, queue2, r) ==
    \E e \in {EnqueueMapped(item, c, queue)} : \E read \in {RefItem(r, item)} :
        /\ deployed' = e.maps /\ count' = e.count
        /\ waiting' = e.waiting /\ typing' = queue2
        /\ pc' = CASE AnyOverflow(e.maps) -> "crashed"
                   [] ~AnyOverflow(e.maps) /\ e.waiting \o queue2 # <<>> -> "loop"
                   [] OTHER -> "update"
        /\ ref' = read.ref
        /\ IF HasEffect(item.unit) THEN Happens(due \o read.due, <<item.unit.name, item.cnt>>)
           ELSE due' = due \o read.due /\ stray' = stray
        /\ UNCHANGED <<reg, default, lines, asked>>

Running == pc \in {"update", "loop"}

PullWaiting ==
    /\ Running /\ waiting # <<>>
    /\ Take(Head(waiting), count, Tail(waiting), typing, ref)
    /\ UNCHANGED prev

\* (Bug: the item stays in the queue.)
PullTyping_Stay ==
    /\ Running /\ waiting = <<>> /\ typing # <<>>
    /\ Take(Head(typing), count, <<>>, typing, ref)
    /\ UNCHANGED prev

PullTyping ==
    /\ Running /\ waiting = <<>> /\ typing # <<>>
    /\ Take(Head(typing), count, <<>>, Tail(typing), ref)
    /\ UNCHANGED prev

\* get_typed_input: nothing, digits of a count, or a unit with the count so far.
NothingTyped ==
    /\ pc' = "update"
    /\ UNCHANGED <<tables, count, typing, waiting, asked, meaning>>

CountTyped(digits) ==
    /\ count' = count \o digits
    /\ pc' = IF TooLarge(count') THEN "crashed" ELSE "update"
    /\ ref' = RefDigits(ref, digits)
    /\ UNCHANGED <<tables, typing, waiting, asked, due, stray>>

UnitTyped(keys) ==
    LET c == IF count = <<>> \/ IsClosed(count) THEN count ELSE Append(count, CLOSED)
    IN  Take(Item(Key(keys), CountOf(c), "typed"), c, <<>>, <<>>, Close(ref))

PullTyped(raw) ==
    /\ Running /\ waiting = <<>> /\ typing = <<>>
    /\ prev' = raw
    /\ \E keys \in TypedUnits(raw) :
          LET digits == IF MaxHistory = 0 THEN Digits(keys, count # <<>>) ELSE <<>>
          IN  \/ keys = {} /\ NothingTyped
              \/ keys # {} /\ digits # <<>> /\ Len(count) < MaxCount /\ CountTyped(digits)
              \/ keys # {} /\ digits = <<>> /\ MaxHistory <= MaxCount /\ UnitTyped(keys)

Pull == PullWaiting \/ PullTyping \/ \E raw \in RawUnits : PullTyped(raw)

Next ==
    \/ \E line \in Lines : Source(line) \/ Remap(line)
    \/ Boot
    \/ \E cmd \in AutoCmds : AutoCmd(cmd)
    \/ \E cmd \in Requests : Request(cmd)
    \/ Pull

Spec == Init /\ [][Next]_vars

-----------------------------------------------------------------------------
\* What is executed is, in the order in which it was asked for and as often, what
\* the documented meaning of the maps and counts makes of the input, whatever
\* autocmds, requests and map commands come in between; when the queues are
\* empty nothing is owed any more (pull_input, enqueue_mapped, map_command_from).
Interpreted == ~stray /\ (pc = "update" /\ waiting \o typing = <<>> => due = <<>>)

\* No two deployed maps have the same trigger, and the last map or noremap command
\* for a trigger is the one that counts: a target of functions is deployed as it was
\* given, unless it passes for the trigger itself, as one of functions would (add_map,
\* add_noremap, deploy).
OnlyFunctions(cmd) == cmd # <<>> /\ \A n \in DOMAIN cmd : cmd[n].kind = "function"
LastCommandWins ==
    Running =>
        /\ \A i, j \in DOMAIN deployed :
              SameCommand(Trigger(deployed[i]), Trigger(deployed[j])) => i = j
        /\ \A k \in DOMAIN (reg.map \o reg.noremap) :
              LET m == (reg.map \o reg.noremap)[k]
              IN  OnlyFunctions(m.target) /\ ~SameCommand(m.trigger, m.target)
                      => \E i \in DOMAIN deployed :
                            Trigger(deployed[i]) = m.trigger /\ deployed[i].target = m.target

\* Where maps of one unit lead: to those that the keys of the target trigger.  What
\* noremap leaves to a default leads nowhere, and to itself it maps nothing.
Leads(r, m, maps) ==
    \E n \in maps, u \in ToSet(m.target) :
        /\ u.kind = "key" /\ n.trigger = <<u>>
        /\ m \in ToSet(r.noremap) => \A d \in ToSet(Defaults) : d.trigger # <<u>>
Endless(r) ==
    \E m \in ToSet(r.map) : \E loop \in SUBSET ToSet(r.map \o r.noremap) :
        /\ m.target # m.trigger /\ Leads(r, m, loop)
        /\ \A n \in loop :
              /\ Leads(r, n, loop) /\ n.trigger # m.trigger
              /\ n \in ToSet(r.noremap) => n.target # n.trigger

\* The program recurses without end or fails if a map leads into a loop of maps away
\* from its own trigger, if a unit without a digit is read for a <num> inside a
\* trigger, or if a count is larger than stoi reads; no other map command and no
\* other input does that to it (solve_mapping_recursive_impl, update_anynum,
\* extract_num).
CrashCauses ==
    pc # "boot" =>
        (pc = "crashed" <=> Endless(reg) \/ ref.choked \/ Value(ref.num) > IntMax)

\* The worker gets through the queues and back to the start of update(), where it
\* looks at the mailbox again: every pull from a queue uses up an item that was not
\* mapped yet, or an item of a macro, and a macro never feeds itself (the loop at
\* the end of update(), pull_input).
Unmapped(q) == Len(SelectSeq(q, LAMBDA item : item.from # "mapped"))
Drains ==
    [][waiting \o typing # <<>> /\ UNCHANGED <<asked, lines>> =>
        \/ Unmapped(waiting \o typing)' < Unmapped(waiting \o typing)
        \/ /\ Unmapped(waiting \o typing)' = Unmapped(waiting \o typing)
           /\ Len(waiting)' < Len(waiting)]_vars
=============================================================================
