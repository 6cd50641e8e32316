------------------------------- MODULE Mouse -------------------------------
(***************************************************************************)
(* The mouse (bind/mouse/movecursor, click, util/mouse and what            *)
(* bind/mode/change_mode does with the button).  While a key is held a     *)
(* thread of each direction moves the cursor by an event every 5 ms, until *)
(* the keys differ from those it began with.  All of them send the same    *)
(* static INPUT of util::move_cursor, and so does the worker.              *)
(*                                                                         *)
(* Left out: how far the cursor goes (acceleration and count), autocmds,   *)
(* and the gate, of which only the keys of pressed_list() are left.        *)
(***************************************************************************)
EXTENDS Integers, Sequences

CONSTANTS
    Key,        \* the keys of the user
    Direction,  \* the directions in question
    Bindings    \* for each .vindrc and mode, the functions that a unit of keys stands for

AllDirections == {"left", "right", "up", "down"}
Mode == {"gui_normal", "gui_visual", "edi_normal", "insert", "resident"}
Modes == {"to_gui_normal", "to_gui_visual", "to_edi_normal", "to_insert", "to_resident"}
Function == Direction \cup {"click_left", "click_right", "click_mid"} \cup Modes

ASSUME MouseAssumption ==
    /\ Direction \subseteq AllDirections
    /\ \A table \in Bindings, m \in Mode : \A u \in DOMAIN table[m] :
           u \subseteq Key /\ u # {} /\ table[m][u] \in Seq(Function)

VARIABLES
    commands, \* the bindings in force, chosen from Bindings
    held,    \* pressed_list(): the keys that the gate takes to be pressed
    prev,    \* prev_cmdunit_ of the typing emulator
    mode,    \* the global mode
    button,  \* whether the left button is down for the applications (external)
    past,    \* history: the function whose event of the left button was refused after
             \* the last one that was sent, and the one that left GUI Visual while the
             \* button was down, until it is up again
    worker,  \* what is left of the functions the worker is executing, and its place
    accel,   \* the AsyncConstAccelerator of each direction
    input    \* the static INPUT of move_cursor

vars == <<commands, held, prev, mode, button, past, worker, accel, input>>

\* continue_flag_, triggered_keys_ and the thread of ft_: "none" is a future that
\* is ready or without state, "threw" a thread that has ended with an exception, and
\* "dx" to "send" a call of func_.
\* History: late counts the moves that were sent since the keys are others than the
\* triggered ones, and seen has the directions with a call of func_ at the same time.
\* What is not read again is forgotten.
NoThread == [pc |-> "none", flag |-> FALSE, keys |-> {}, late |-> 0, seen |-> {}]
Calling  == {"dx", "dy", "send"}
ThreadType ==
    [pc : {"none", "sleep", "end", "return", "threw"} \cup Calling, flag : BOOLEAN,
     keys : SUBSET Key, late : Nat, seen : SUBSET Direction]

Unit(d) ==
    IF d = "left" THEN [x |-> -1, y |-> 0] ELSE IF d = "right" THEN [x |-> 1, y |-> 0]
    ELSE IF d = "up" THEN [x |-> 0, y |-> -1] ELSE [x |-> 0, y |-> 1]
Step == {-1, 0, 1}
Past == [refused : Function \cup {"none"}, left : Function \cup {"none"}]

TypeOK ==
    /\ commands \in Bindings
    /\ held \subseteq Key /\ prev \subseteq Key
    /\ mode \in Mode /\ button \in BOOLEAN /\ past \in Past
    /\ worker \in [pc : {"rest", "wait", "call"}, todo : Seq(Function)]
    /\ accel \in [Direction -> ThreadType]
    /\ input \in [x : Step, y : Step]

Init ==
    /\ commands \in Bindings
    /\ held = {} /\ prev = {}
    /\ mode = "gui_normal" /\ button = FALSE
    /\ past = [refused |-> "none", left |-> "none"]
    /\ worker = [pc |-> "rest", todo |-> <<>>]
    /\ accel = [d \in Direction |-> NoThread]
    /\ input = [x |-> 0, y |-> 0]

-----------------------------------------------------------------------------
(***************************************************************************)
(* The keys.                                                               *)
(***************************************************************************)
\* A thread whose keys are pressed again has nothing to be late for.
OnTime(keys, threads) ==
    [d \in Direction |->
       IF keys = threads[d].keys THEN [threads[d] EXCEPT !.late = 0] ELSE threads[d]]
Pressed(keys) == held' = keys /\ accel' = OnTime(keys, accel)

Press(k) ==
    /\ k \notin held
    /\ Pressed(held \cup {k})
    /\ UNCHANGED <<prev, mode, button, past, worker, input>>

Release(k) ==
    /\ k \in held
    /\ Pressed(held \ {k})
    /\ UNCHANGED <<prev, mode, button, past, worker, input>>

-----------------------------------------------------------------------------
(***************************************************************************)
(* The worker.  It types the keys that are new, or the same ones again     *)
(* when they are held, and executes the functions they are mapped to.      *)
(***************************************************************************)
Idle == worker.pc = "rest" /\ worker.todo = <<>>

CommandOf(unit) == IF unit \in DOMAIN commands[mode] THEN commands[mode][unit] ELSE <<>>

Type ==
    /\ Idle
    /\ held # {} \/ prev # {}
    /\ prev' = held
    /\ worker' = [worker EXCEPT !.todo = CommandOf(IF held = prev THEN held ELSE held \ prev)]
    /\ UNCHANGED <<held, mode, button, past, accel, input>>

\* The worker goes on with the next function.
NextFunction == worker' = [pc |-> "rest", todo |-> Tail(worker.todo)]

Calls(f) == worker.pc = "rest" /\ worker.todo # <<>> /\ Head(worker.todo) = f

\* MoveCursorLeft::sprocess and its like.
MoveCursor(d) ==
    /\ Calls(d)
    /\ IF accel[d].flag THEN NextFunction ELSE worker' = [worker EXCEPT !.pc = "wait"]
    /\ UNCHANGED <<held, prev, mode, button, past, accel, input>>

Movers == {d \in Direction : accel[d].pc \in Calling}

\* func_ is called: the call sees, and is seen by, the calls in progress.
Called(d, a) ==
    [e \in Direction |->
       IF e = d THEN [a EXCEPT !.pc = "dx", !.seen = Movers \cup {d}]
       ELSE IF e \in Movers THEN [accel[e] EXCEPT !.seen = @ \cup {d}] ELSE accel[e]]

\* launch() waits for the thread before.  Without keys the cursor then moves once, on
\* the worker; otherwise a thread is started.
Launch(d) ==
    LET a == [NoThread EXCEPT !.keys = held] IN
    /\ worker.pc = "wait" /\ Head(worker.todo) = d
    /\ accel[d].pc = "none"
    /\ IF held = {}
       THEN accel' = Called(d, a) /\ worker' = [worker EXCEPT !.pc = "call"]
       ELSE accel' = [accel EXCEPT ![d] = [a EXCEPT !.pc = "sleep", !.flag = TRUE]] /\ NextFunction
    /\ UNCHANGED <<held, prev, mode, button, past, input>>

-----------------------------------------------------------------------------
(***************************************************************************)
(* util::move_cursor, called by a thread or by the worker.                 *)
(***************************************************************************)
SetX(d) ==
    /\ accel[d].pc = "dx"
    /\ input' = [input EXCEPT !.x = Unit(d).x]
    /\ accel' = [accel EXCEPT ![d].pc = "dy"]
    /\ UNCHANGED <<held, prev, mode, button, past, worker>>

\* (Bug: only what the direction changes is written.)
SetY_Own(d) ==
    /\ accel[d].pc = "dy"
    /\ input' = IF Unit(d).y = 0 THEN input ELSE [input EXCEPT !.y = Unit(d).y]
    /\ accel' = [accel EXCEPT ![d].pc = "send"]
    /\ UNCHANGED <<held, prev, mode, button, past, worker>>

SetY(d) ==
    /\ accel[d].pc = "dy"
    /\ input' = [input EXCEPT !.y = Unit(d).y]
    /\ accel' = [accel EXCEPT ![d].pc = "send"]
    /\ UNCHANGED <<held, prev, mode, button, past, worker>>

Sent(d) ==
    /\ accel[d].pc = "send"
    /\ IF accel[d].flag
       THEN /\ accel' = [accel EXCEPT ![d].pc = "sleep", ![d].seen = {},
                                      ![d].late = IF held = accel[d].keys THEN 0 ELSE @ + 1]
            /\ UNCHANGED worker
       ELSE accel' = [accel EXCEPT ![d] = NoThread] /\ NextFunction
    /\ UNCHANGED <<held, prev, mode, button, past, input>>

\* SendInput is refused.  On the worker, error_process releases the keys that are
\* pressed, as far as it can; in a thread, nobody hears of it.
Refused(d) ==
    /\ accel[d].pc = "send"
    /\ IF accel[d].flag
       THEN /\ accel' = [accel EXCEPT ![d] = [NoThread EXCEPT !.pc = "threw", !.flag = TRUE]]
            /\ UNCHANGED <<held, worker>>
       ELSE \E keys \in SUBSET held :
              /\ held' = keys /\ accel' = OnTime(keys, [accel EXCEPT ![d] = NoThread])
              /\ NextFunction
    /\ UNCHANGED <<prev, mode, button, past, input>>

-----------------------------------------------------------------------------
(***************************************************************************)
(* AsyncConstAccelerator::loop                                             *)
(***************************************************************************)
\* (Bug: other keys do not end the loop.)
Check_Among(d) ==
    /\ accel[d].pc = "sleep"
    /\ accel' = IF accel[d].keys \subseteq held THEN Called(d, accel[d])
                ELSE [accel EXCEPT ![d] = [NoThread EXCEPT !.pc = "end", !.flag = TRUE]]
    /\ UNCHANGED <<held, prev, mode, button, past, worker, input>>

Check(d) ==
    /\ accel[d].pc = "sleep"
    /\ accel' = IF held = accel[d].keys THEN Called(d, accel[d])
                ELSE [accel EXCEPT ![d] = [NoThread EXCEPT !.pc = "end", !.flag = TRUE]]
    /\ UNCHANGED <<held, prev, mode, button, past, worker, input>>

\* (Bug: the flag stays.)
EndLoop_Flag(d) ==
    /\ accel[d].pc = "end"
    /\ accel' = [accel EXCEPT ![d].pc = "return"]
    /\ UNCHANGED <<held, prev, mode, button, past, worker, input>>

EndLoop(d) ==
    /\ accel[d].pc = "end"
    /\ accel' = [accel EXCEPT ![d].pc = "return", ![d].flag = FALSE]
    /\ UNCHANGED <<held, prev, mode, button, past, worker, input>>

Return(d) ==
    /\ accel[d].pc = "return"
    /\ accel' = [accel EXCEPT ![d].pc = "none"]
    /\ UNCHANGED <<held, prev, mode, button, past, worker, input>>

-----------------------------------------------------------------------------
(***************************************************************************)
(* The buttons.  Each function presses or clicks once; an event that is    *)
(* refused ends it.                                                        *)
(***************************************************************************)
\* f is executed, with these results for the mode and the button.
Leaves(m) == mode = "gui_visual" /\ m # "gui_visual"
Button(f, m, down, refused) ==
    /\ mode' = m /\ button' = down
    /\ past' = [refused |-> refused,
                left |-> CASE ~down -> "none"
                           [] down /\ Leaves(m) -> f
                           [] down /\ ~Leaves(m) -> past.left]

\* The event that sends the button down or up, or is refused; error_process then
\* releases the keys that are pressed, as far as it can.
Accepted(f, m, down) == Button(f, m, down, "none") /\ UNCHANGED <<held, accel>>
Refuse(f, m, down) == Button(f, m, down, f) /\ \E keys \in SUBSET held : Pressed(keys)

\* click(KEYCODE_MOUSE_LEFT): the up event, or the down event already, may be refused.
ClickRefused(f, m) == \E down \in {TRUE, button} : Refuse(f, m, down)
Click(f, m) == Accepted(f, m, FALSE) \/ ClickRefused(f, m)

\* (Bug: a click in GUI Visual does not leave the mode.)
OutOfVisual_Stay == mode

OutOfVisual == IF mode = "gui_visual" THEN "gui_normal" ELSE mode

ClickLeft ==
    /\ Calls("click_left")
    /\ Click("click_left", OutOfVisual)
    /\ NextFunction
    /\ UNCHANGED <<prev, input>>

\* Of the other buttons only the keys that a refused event releases are left.
ClickOther(f) ==
    /\ Calls(f)
    /\ Button(f, OutOfVisual, button, past.refused)
    /\ \E keys \in SUBSET held : Pressed(keys)
    /\ NextFunction
    /\ UNCHANGED <<prev, input>>

ToGUIVisual ==
    /\ Calls("to_gui_visual")
    /\ \/ Accepted("to_gui_visual", "gui_visual", TRUE)
       \/ Refuse("to_gui_visual", "gui_visual", button)
    /\ NextFunction
    /\ UNCHANGED <<prev, input>>

\* Clicks on the way out of GUI Visual; close_all_ports_with_refresh() releases the keys.
ToGUINormal ==
    /\ Calls("to_gui_normal")
    /\ \/ mode = "gui_normal" /\ UNCHANGED <<held, mode, button, past, accel>>
       \/ mode = "gui_visual" /\ ClickRefused("to_gui_normal", "gui_visual")
       \/ /\ mode = "gui_visual"
          /\ Button("to_gui_normal", "gui_normal", FALSE, "none") /\ Pressed({})
       \/ /\ mode \notin {"gui_normal", "gui_visual"}
          /\ Button("to_gui_normal", "gui_normal", button, past.refused) /\ Pressed({})
    /\ NextFunction
    /\ UNCHANGED <<prev, input>>

ToEdiNormal ==
    /\ Calls("to_edi_normal")
    /\ \/ mode = "edi_normal" /\ UNCHANGED <<held, mode, button, past, accel>>
       \/ /\ mode # "edi_normal"
          /\ Button("to_edi_normal", "edi_normal", button, past.refused) /\ Pressed({})
    /\ NextFunction
    /\ UNCHANGED <<prev, input>>

ToInsert ==
    /\ Calls("to_insert")
    /\ Button("to_insert", "insert", button, past.refused)
    /\ NextFunction
    /\ UNCHANGED <<held, prev, accel, input>>

ToResident ==
    /\ Calls("to_resident")
    /\ Button("to_resident", "resident", button, past.refused)
    /\ NextFunction
    /\ UNCHANGED <<held, prev, accel, input>>

-----------------------------------------------------------------------------
Thread(d) ==
    /\ \/ Check(d) \/ EndLoop(d) \/ Return(d)
       \/ SetX(d) \/ SetY(d) \/ Sent(d) \/ Refused(d)
    /\ UNCHANGED commands

Worker ==
    /\ \/ Type \/ ClickLeft \/ ClickOther("click_right") \/ ClickOther("click_mid")
       \/ ToGUIVisual \/ ToGUINormal \/ ToEdiNormal \/ ToInsert \/ ToResident
       \/ \E d \in Direction : MoveCursor(d) \/ Launch(d)
    /\ UNCHANGED commands

User == (\E k \in Key : Press(k) \/ Release(k)) /\ UNCHANGED commands

Next == User \/ Worker \/ \E d \in Direction : Thread(d)

Spec == Init /\ [][Next]_vars

\* Worker and threads keep running, and a held key is typed again and again.
FairSpec == Spec /\ WF_vars(Worker) /\ \A d \in Direction : WF_vars(Thread(d))

-----------------------------------------------------------------------------
\* When the keys change, a thread moves the cursor once more at most.
OneLateMove == \A d \in Direction : accel[d].late <= 1

\* Although all calls share one INPUT, what is sent is made of what the calls in
\* progress want: nothing is left from a call that has ended before.
NoStaleMove ==
    \A d \in Direction : accel[d].pc = "send" =>
        /\ \E e \in accel[d].seen : input.x = Unit(e).x
        /\ \E e \in accel[d].seen : input.y = Unit(e).y

\* The left button is down in GUI Visual, unless an event of the functions that enter
\* it or were to leave it was refused; in any other mode it is up, unless GUI Visual
\* was left by a function that forgets it, or a click was refused half-way (click.cpp,
\* change_mode.cpp, util::click).
Forgetting == {"click_right", "click_mid", "to_edi_normal", "to_insert", "to_resident"}
ButtonHasCause ==
    /\ button /\ mode # "gui_visual" => past.left \in Forgetting \/ past.refused = "click_left"
    /\ ~button /\ mode = "gui_visual" => past.refused \in {"to_gui_visual", "to_gui_normal"}

\* A key that is held goes on moving the cursor in the directions it is bound to,
\* whatever was typed before, unless a thread of the direction has thrown.
Moving(k, d) == held = {k} /\ \E i \in DOMAIN CommandOf({k}) : CommandOf({k})[i] = d
MovesWhileHeld ==
    \A k \in Key, d \in Direction :
        <>[]Moving(k, d) => []<>(accel[d].pc \in {"send", "threw"})
=============================================================================
