------------------------------ MODULE Lifecycle ------------------------------
(***************************************************************************)
(* The processes of win-vind (main, core/entry): the first instance is the *)
(* server, every later one is a client that leaves its command in a named  *)
(* memory-mapped file and ends.  In the server the main thread runs the    *)
(* tray (and, while it pumps messages, the keyboard hook), the worker      *)
(* thread runs VindEntry::update, and EasyClick draws its hints on a       *)
(* third thread.  The module says who becomes the server, which requests   *)
(* are executed, and how the three threads end.                            *)
(*                                                                         *)
(* A command is a sequence of characters, since the mailbox is written and *)
(* read character by character without any lock.  The system keeps the     *)
(* mapping while some process has a handle to it.                          *)
(***************************************************************************)
EXTENDS Naturals, Sequences, FiniteSets, TLC

CONSTANTS
    Proc,          \* the started instances
    Arg,           \* the command of each instance (<<>>: none)
    Effect,        \* what executing a command may do
    UserEffects,   \* what the functions that the user calls do
    MemSize,       \* the size of the mapped memory
    Serial,        \* TRUE: a client writes only into an empty, unused mailbox
    MayThrow,      \* TRUE: the message loop of the main thread may throw
    MayForce       \* TRUE: the user may press F8 and F9

NUL == "NUL"
Effects == {"plain", "throw", "exit", "session", "hints"}

\* The characters of the commands.
Char == {NUL} \cup UNION {{Arg[p][i] : i \in DOMAIN Arg[p]} : p \in Proc}

\* A command fits into the memory with its terminator (the code does not look).
ASSUME ArgAssumption ==
    /\ MemSize \in Nat \ {0}
    /\ \A p \in Proc : Arg[p] \in Seq(Char \ {NUL}) /\ Len(Arg[p]) < MemSize
    /\ UserEffects \subseteq Effects
    /\ \A c \in DOMAIN Effect : Effect[c] \subseteq Effects
    /\ {Serial, MayThrow, MayForce} \subseteq BOOLEAN

VARIABLES
    handles,    \* the processes that have the mapping open
    mem,        \* the mapped memory
    sent,       \* <<p, q>>: p has written its command, q was the server then
    done,       \* the executed commands, in order
    main,       \* where the main thread of each process is
    sub,        \* VindEntry::Impl::subprocess_
    runnable,   \* the atomic flag of main()
    worker,     \* the worker thread: its step and the request it executes
    forced,     \* is_really_pressed(F8) && is_really_pressed(F9)
    hints       \* HintRenderer: running_ and whether its thread is alive

vars == <<handles, mem, sent, done, main, sub, runnable, worker, forced, hints>>

Blank    == [i \in 1..MemSize |-> NUL]
NoWorker == [pc |-> "none", cmd |-> <<>>, view |-> FALSE]

Init ==
    /\ handles = {} /\ mem = Blank /\ sent = {} /\ done = <<>>
    /\ main = [p \in Proc |-> "start"]
    /\ sub = [p \in Proc |-> FALSE]
    /\ runnable = [p \in Proc |-> TRUE]
    /\ worker = [p \in Proc |-> NoWorker]
    /\ forced = [p \in Proc |-> FALSE]
    /\ hints = [p \in Proc |-> [running |-> FALSE, alive |-> FALSE]]

\* The C string at the start of the memory.
Text(m) == SubSeq(m, 1, Cardinality({i \in 1..MemSize : \A j \in 1..i : m[j] # NUL}))

\* memmove of a command, without its terminator.
Overwrite(m, cmd) == [i \in 1..MemSize |-> IF i <= Len(cmd) THEN cmd[i] ELSE m[i]]

MainAt(p, s) == main[p] = s
MainTo(p, s) == main' = [main EXCEPT ![p] = s]

-----------------------------------------------------------------------------
(***************************************************************************)
(* main(): the constructor of VindEntry, the request, init and the tray.   *)
(***************************************************************************)
\* (Bugs: ERROR_ALREADY_EXISTS is not looked at; a client clears the memory.)
Create_Blind(p) ==
    /\ MainAt(p, "start") /\ handles' = handles \cup {p}
    /\ MainTo(p, "clear")
    /\ UNCHANGED <<mem, sent, done, sub, runnable, worker, forced, hints>>

Create_ClearAlways(p) ==
    /\ MainAt(p, "start") /\ handles' = handles \cup {p}
    /\ sub' = [sub EXCEPT ![p] = handles # {}]
    /\ MainTo(p, "clear")
    /\ UNCHANGED <<mem, sent, done, runnable, worker, forced, hints>>

\* CreateFileMapping opens the mapping if it exists; otherwise it makes a new
\* one, and a view that a worker still has is one of the old mapping.
Create(p) ==
    /\ MainAt(p, "start")
    /\ handles' = handles \cup {p}
    /\ sub' = [sub EXCEPT ![p] = handles # {}]
    /\ IF handles # {} THEN MainTo(p, "send") /\ UNCHANGED <<mem, worker>>
       ELSE /\ MainTo(p, "clear")
            /\ mem' = Blank
            /\ worker' = [q \in Proc |-> [worker[q] EXCEPT !.view = FALSE]]
    /\ UNCHANGED <<sent, done, runnable, forced, hints>>

Clear(p) ==
    /\ MainAt(p, "clear")
    /\ mem' = Blank
    /\ MainTo(p, "send")
    /\ UNCHANGED <<handles, sent, done, sub, runnable, worker, forced, hints>>

\* send_command_request; a client then leaves, the server goes on.
Servers == {q \in handles : ~sub[q]}

MailboxFree ==
    /\ Text(mem) = <<>>
    /\ \A q \in Servers : worker[q].cmd = <<>> /\ main[q] \notin {"clear", "send"}

Send(p) ==
    /\ MainAt(p, "send")
    /\ Serial /\ sub[p] /\ Arg[p] # <<>> /\ Servers # {} => MailboxFree
    /\ mem' = Overwrite(mem, Arg[p])
    /\ sent' = IF Arg[p] = <<>> THEN sent ELSE sent \cup ({p} \X Servers)
    /\ MainTo(p, IF sub[p] THEN "leave" ELSE "init")
    /\ UNCHANGED <<handles, done, sub, runnable, worker, forced, hints>>

\* init() may throw, and main() returns when the tray cannot be created;
\* otherwise the worker starts.
StartUp(p) ==
    /\ MainAt(p, "init")
    /\ \/ /\ MainTo(p, "catch") /\ handles' = handles \ {p}
          /\ UNCHANGED worker
       \/ /\ MainTo(p, "leave")
          /\ UNCHANGED <<worker, handles>>
       \/ /\ MainTo(p, "loop")
          /\ worker' = [worker EXCEPT ![p].pc = "check"]
          /\ UNCHANGED handles
    /\ UNCHANGED <<mem, sent, done, sub, runnable, forced, hints>>

\* The user chooses Exit in the menu of the tray.
TrayExit(p) ==
    /\ MainAt(p, "loop")
    /\ runnable' = [runnable EXCEPT ![p] = FALSE]
    /\ UNCHANGED <<handles, mem, sent, done, main, sub, worker, forced, hints>>

\* The loop ends because runnable is FALSE, or the tray stops or fails.
LoopEnd(p) ==
    /\ MainAt(p, "loop")
    /\ runnable' = [runnable EXCEPT ![p] = FALSE]
    /\ MainTo(p, "wait")
    /\ UNCHANGED <<handles, mem, sent, done, sub, worker, forced, hints>>

\* An exception in the loop: entry is destroyed before the handler runs.
LoopThrow(p) ==
    /\ MayThrow /\ MainAt(p, "loop")
    /\ handles' = handles \ {p}
    /\ MainTo(p, "catch")
    /\ UNCHANGED <<mem, sent, done, sub, runnable, worker, forced, hints>>

\* (Bug: the handler does not wait for the worker.)
Catch_NoWait(p) ==
    /\ MainAt(p, "catch")
    /\ runnable' = [runnable EXCEPT ![p] = FALSE]
    /\ MainTo(p, "leave")
    /\ UNCHANGED <<handles, mem, sent, done, sub, worker, forced, hints>>

\* The handler waits for the future; without a worker it has no state and
\* wait_for throws out of the handler.
Catch(p) ==
    /\ MainAt(p, "catch")
    /\ runnable' = [runnable EXCEPT ![p] = FALSE]
    /\ MainTo(p, IF worker[p].pc = "none" THEN "aborted" ELSE "wait")
    /\ UNCHANGED <<handles, mem, sent, done, sub, worker, forced, hints>>

Wait(p) ==
    /\ MainAt(p, "wait") /\ worker[p].pc = "ended"
    /\ MainTo(p, "leave")
    /\ UNCHANGED <<handles, mem, sent, done, sub, runnable, worker, forced, hints>>

\* main() returns; the destructor of VindEntry closes the handle.
Leave(p) ==
    /\ MainAt(p, "leave")
    /\ handles' = handles \ {p}
    /\ MainTo(p, "exited")
    /\ UNCHANGED <<mem, sent, done, sub, runnable, worker, forced, hints>>

\* The hook sees F8 and F9 only while the main thread pumps messages.
PressForced(p) ==
    /\ MayForce /\ MainAt(p, "loop")
    /\ forced' = [forced EXCEPT ![p] = ~@]
    /\ UNCHANGED <<handles, mem, sent, done, main, sub, runnable, worker, hints>>

-----------------------------------------------------------------------------
(***************************************************************************)
(* The worker: vind_process and VindEntry::update.                         *)
(***************************************************************************)
At(p, s) == worker[p].pc = s /\ main[p] \notin {"exited", "aborted"}
Goto(p, s) == worker' = [worker EXCEPT ![p].pc = s]

\* The loop of vind_process.
Check(p) ==
    /\ At(p, "check")
    /\ Goto(p, IF runnable[p] THEN "background" ELSE "ended")
    /\ UNCHANGED <<handles, mem, sent, done, main, sub, runnable, forced, hints>>

\* Using the members of an entry that has been destroyed ends the process.
Destroyed(p) ==
    /\ At(p, "background") \/ At(p, "mail") \/ (At(p, "final") /\ runnable[p])
    /\ p \notin handles
    /\ MainTo(p, "aborted")
    /\ UNCHANGED <<handles, mem, sent, done, sub, runnable, worker, forced, hints>>

\* Background::update: a locked screen ends this update, F8 and F9 throw.
Locked(p) ==
    /\ At(p, "background") /\ p \in handles
    /\ Goto(p, "check")
    /\ UNCHANGED <<handles, mem, sent, done, main, sub, runnable, forced, hints>>

Update(p) ==
    /\ At(p, "background") /\ p \in handles
    /\ Goto(p, IF forced[p] THEN "final" ELSE "mail")
    /\ UNCHANGED <<handles, mem, sent, done, main, sub, runnable, forced, hints>>

\* memread_timer_ has not passed yet.
MailLater(p) ==
    /\ At(p, "mail") /\ p \in handles
    /\ Goto(p, "input")
    /\ UNCHANGED <<handles, mem, sent, done, main, sub, runnable, forced, hints>>

\* (Bug: a command of one character is taken for none.)
MailRead_Short(p) ==
    /\ At(p, "mail") /\ p \in handles
    /\ worker' = [worker EXCEPT ![p].cmd = IF Len(Text(mem)) < 2 THEN <<>> ELSE Text(mem),
                                ![p].view = TRUE,
                                ![p].pc = IF Len(Text(mem)) < 2 THEN "input" ELSE "execute"]
    /\ UNCHANGED <<handles, mem, sent, done, main, sub, runnable, forced, hints>>

MailRead(p) ==
    /\ At(p, "mail") /\ p \in handles
    /\ worker' = [worker EXCEPT ![p].cmd = Text(mem), ![p].view = TRUE,
                                ![p].pc = IF Text(mem) = <<>> THEN "input" ELSE "execute"]
    /\ UNCHANGED <<handles, mem, sent, done, main, sub, runnable, forced, hints>>

\* The step a function of effect e leads to; next: the step after it returns.
After(e, next) ==
    CASE e = "throw" -> "final" [] e \in {"session", "hints"} -> "session" [] OTHER -> next

Run(p, e, next) ==
    /\ Goto(p, After(e, next))
    /\ runnable' = [runnable EXCEPT ![p] = @ /\ e # "exit"]
    /\ hints' = IF e = "hints" THEN [hints EXCEPT ![p] = [running |-> TRUE, alive |-> TRUE]]
                ELSE hints

\* The request is parsed and executed; a malformed one throws.
Execute(p) ==
    LET c == worker[p].cmd
    IN  /\ At(p, "execute")
        /\ \E e \in (IF c \in DOMAIN Effect THEN Effect[c] ELSE {"plain", "throw"}) :
              Run(p, e, "clear")
        /\ done' = Append(done, c)
        /\ UNCHANGED <<handles, mem, sent, main, sub, forced>>

\* (Bugs: the request stays in the mailbox; only its first character goes.)
MailClear_Skip(p) ==
    /\ At(p, "clear") /\ worker' = [worker EXCEPT ![p].cmd = <<>>, ![p].pc = "input"]
    /\ UNCHANGED <<handles, mem, sent, done, main, sub, runnable, forced, hints>>
MailClear_First(p) ==
    /\ At(p, "clear") /\ worker' = [worker EXCEPT ![p].cmd = <<>>, ![p].pc = "input"]
    /\ mem' = [mem EXCEPT ![1] = NUL]
    /\ UNCHANGED <<handles, sent, done, main, sub, runnable, forced, hints>>

MailClear(p) ==
    /\ At(p, "clear")
    /\ mem' = IF worker[p].view THEN Blank ELSE mem
    /\ worker' = [worker EXCEPT ![p].cmd = <<>>, ![p].pc = "input"]
    /\ UNCHANGED <<handles, sent, done, main, sub, runnable, forced, hints>>

\* The input loop executes the functions that the user calls.
Input(p) ==
    /\ At(p, "input")
    /\ \E e \in UserEffects \cup {"plain"} : Run(p, e, "check")
    /\ UNCHANGED <<handles, mem, sent, done, main, sub, forced>>

\* The loop of a session: it ends on a key, which takes the hook, or by the
\* exception of F8 and F9.  It does not look at runnable.
SessionKey(p) ==
    /\ At(p, "session") /\ MainAt(p, "loop") /\ ~forced[p]
    /\ Goto(p, "stop")
    /\ hints' = [hints EXCEPT ![p].running = FALSE]
    /\ UNCHANGED <<handles, mem, sent, done, main, sub, runnable, forced>>

\* stop_renderer_and_wait
Stop(p) ==
    /\ At(p, "stop") /\ ~hints[p].alive
    /\ Goto(p, IF worker[p].cmd = <<>> THEN "check" ELSE "clear")
    /\ UNCHANGED <<handles, mem, sent, done, main, sub, runnable, forced, hints>>

SessionForced(p) ==
    /\ At(p, "session") /\ forced[p]
    /\ Goto(p, "unwind")
    /\ UNCHANGED <<handles, mem, sent, done, main, sub, runnable, forced, hints>>

\* Unwinding destroys the future of the renderer, which waits for its thread.
Unwind(p) ==
    /\ At(p, "unwind") /\ ~hints[p].alive
    /\ Goto(p, "final")
    /\ UNCHANGED <<handles, mem, sent, done, main, sub, runnable, forced, hints>>

\* HintRenderer::draw ends when it finds running_ to be FALSE.
DrawEnd(p) ==
    /\ hints[p].alive /\ ~hints[p].running /\ main[p] # "aborted"
    /\ hints' = [hints EXCEPT ![p].alive = FALSE]
    /\ UNCHANGED <<handles, mem, sent, done, main, sub, runnable, worker, forced>>

\* (Bug: the main thread is not told.)
Final_Quiet(p) ==
    At(p, "final") /\ Goto(p, "ended")
    /\ UNCHANGED <<handles, mem, sent, done, main, sub, runnable, forced, hints>>

\* After an exception vind_process stops the main thread as well.
Final(p) ==
    /\ At(p, "final") /\ (runnable[p] => p \in handles)
    /\ runnable' = [runnable EXCEPT ![p] = FALSE]
    /\ Goto(p, "ended")
    /\ UNCHANGED <<handles, mem, sent, done, main, sub, forced, hints>>

-----------------------------------------------------------------------------
MainStep(p) == Create(p) \/ Clear(p) \/ Send(p) \/ StartUp(p) \/ Catch(p) \/ Wait(p) \/ Leave(p)
WorkerStep(p) ==
    \/ Check(p) \/ Destroyed(p) \/ Update(p) \/ MailLater(p) \/ MailRead(p) \/ Execute(p)
    \/ MailClear(p) \/ Input(p) \/ Stop(p) \/ SessionForced(p) \/ Unwind(p) \/ Final(p)
Outside(p) ==
    TrayExit(p) \/ LoopEnd(p) \/ LoopThrow(p) \/ PressForced(p) \/ Locked(p) \/ SessionKey(p)

Next == \E p \in Proc : MainStep(p) \/ WorkerStep(p) \/ DrawEnd(p) \/ Outside(p)

Spec == Init /\ [][Next]_vars

\* The threads run; the loop of the tray sees that runnable is FALSE; the
\* screen is unlocked and the timer passes again and again.  The user and the
\* exceptions are not fair.
Fairness ==
    \A p \in Proc :
        /\ WF_vars(MainStep(p)) /\ WF_vars(WorkerStep(p)) /\ WF_vars(DrawEnd(p))
        /\ WF_vars(~runnable[p] /\ LoopEnd(p))
        /\ SF_vars(Update(p)) /\ SF_vars(MailRead(p))

FairSpec == Spec /\ Fairness

-----------------------------------------------------------------------------
MainPC == {"start", "clear", "send", "init", "loop", "catch", "wait", "leave", "exited", "aborted"}
WorkerPC == {"none", "check", "background", "mail", "execute", "clear", "input", "session",
             "stop", "unwind", "final", "ended"}

\* Types; the text in the mailbox always ends inside the memory, a worker
\* exists only in a process that went through init().
TypeOK ==
    /\ handles \subseteq Proc /\ sent \subseteq Proc \X Proc
    /\ mem \in [1..MemSize -> Char] /\ mem[MemSize] = NUL
    /\ done \in Seq(Seq(Char))
    /\ main \in [Proc -> MainPC] /\ sub \in [Proc -> BOOLEAN]
    /\ runnable \in [Proc -> BOOLEAN] /\ forced \in [Proc -> BOOLEAN]
    /\ worker \in [Proc -> [pc : WorkerPC, cmd : Seq(Char), view : BOOLEAN]]
    /\ hints \in [Proc -> [running : BOOLEAN, alive : BOOLEAN]]
    /\ \A p \in Proc : main[p] \in {"start", "clear", "send", "init"} => worker[p].pc = "none"

\* main() returns only after its worker thread has ended, whatever has ended
\* the loop of the tray: nothing runs on in a process whose entry is gone.
WorkerJoined ==
    \A p \in Proc : main[p] \in {"leave", "exited"} => worker[p].pc \in {"none", "ended"}

\* The named mapping elects the server: of the instances that have it open, at
\* most one believes to be the first, in whatever order they start and end.
OneServer == \A p, q \in Servers : p = q

\* A request is executed at most once, and only as it was sent.
AtMostOnce == \A i, j \in 1..Len(done) : done[i] = done[j] => i = j
OnlySent   == \A i \in 1..Len(done) : \E r \in sent : done[i] = Arg[r[1]]

\* While the server runs, a request that was written is in the mailbox, or the
\* worker has taken it, or it has been executed.
Serving(q) ==
    /\ q \in handles /\ runnable[q] /\ main[q] \in {"clear", "send", "init", "loop"}
    /\ worker[q].pc \notin {"final", "ended"}
InDone(c)  == \E i \in 1..Len(done) : done[i] = c
NoRequestLost ==
    \A r \in sent : Serving(r[2]) =>
        InDone(Arg[r[1]]) \/ Text(mem) = Arg[r[1]] \/ worker[r[2]].cmd = Arg[r[1]]

\* A request in the mailbox of a server is executed in the end, unless the
\* server ends or stays in a session.
Served ==
    \A p, q \in Proc :
        (<<p, q>> \in sent /\ Serving(q) /\ Text(mem) = Arg[p])
            ~> (InDone(Arg[p]) \/ ~Serving(q) \/ worker[q].pc \in {"session", "unwind"})

\* When the process is to end (Exit, a failing tray, an exception on either
\* thread), it ends, unless the worker stays in a session.
Ended(p) == main[p] \in {"exited", "aborted"}
Exits ==
    \A p \in Proc : (~runnable[p] \/ worker[p].pc = "ended")
                        ~> (Ended(p) \/ worker[p].pc \in {"session", "unwind"})

\* Once the worker has thrown the exception of F8 and F9, the process ends.
ForcedEnds ==
    \A p \in Proc : (worker[p].pc = "unwind") ~> Ended(p)
=============================================================================
