------------------------------ MODULE InputGate ------------------------------
(***************************************************************************)
(* The input gate of win-vind (core/inputgate): which keys the program     *)
(* takes to be pressed, and which key messages the other applications see. *)
(*                                                                         *)
(* Two threads share the gate without any lock.  The main thread runs the  *)
(* low-level keyboard hook for every key event; the worker thread runs the *)
(* bound functions: it changes the mode, opens and closes ports, injects   *)
(* key strokes and corrects the virtual key state.  SendInput is modelled  *)
(* from how the code relies on it: an injected event is filtered by the    *)
(* hook before SendInput returns, and since the hook belongs to the main   *)
(* thread, the worker's SendInput waits for a hook call in progress.       *)
(*                                                                         *)
(* Codes are numbers, as in the source; a bit array is the set of codes    *)
(* whose bit is set; the steps of a thread are split where a step of the   *)
(* other thread in between can change the outcome.                         *)
(***************************************************************************)
EXTENDS Integers, FiniteSets

CONSTANTS
    MaxCode,       \* codes are 1..MaxCode
    Key,           \* the physical keys among the codes
    RepOf,         \* to_representative(): left/right key -> its generic code, or 0
    PhysOf,        \* to_physical(): generic code -> the key that is sent for it
    Toggle,        \* lock keys, for which the hook is never told of a release
    Modes,         \* the modes the model instance uses
    InitMode,
    Bound,         \* <<f, m>>: function f is bound in mode m (.vindrc)
    Macros,        \* the sets of keys that bound functions push up
    AltKey,        \* the key SwitchWindow holds down during its session
    TabKey,        \* the key SwitchWindow pushes up in it
    QuitKeys,      \* Esc and Enter, which end the sessions
    InitHotkey,    \* mode -> code -> target codes ({}: no hotkey)
    InitIdentity,  \* mode -> codes mapped to themselves
    Remaps,        \* the per-mode mappings a map command may deploy
    Serial,        \* TRUE: no key event while the worker is inside an operation
    MayFail,       \* TRUE: a SendInput of the worker may be refused
    MayLock,       \* TRUE: the screen may be locked and unlocked
    MayExit        \* TRUE: the program may terminate

Code == 1..MaxCode
PassingModes == {"INSERT", "RESIDENT"}
NormalModes  == {"GUI_NORMAL", "EDI_NORMAL"}
VisualModes  == {"GUI_VISUAL", "EDI_VISUAL"}

ASSUME CodesAssumption ==
    /\ MaxCode \in Nat \ {0}
    /\ Key \subseteq Code
    /\ Toggle \subseteq Key
    /\ {AltKey, TabKey} \subseteq Key
    /\ RepOf \in [Key -> (Code \ Key) \cup {0}]
    /\ PhysOf \in [Code -> Key]
    /\ \A k \in Toggle : RepOf[k] = 0
    /\ \A k \in Key : PhysOf[k] = k
    /\ \A m \in Macros : m \subseteq Code
    /\ QuitKeys \subseteq Code

Mapping == [hotkey : [Code -> SUBSET Code], identity : SUBSET Code]

ASSUME ModesAssumption ==
    /\ Modes \subseteq PassingModes \cup NormalModes \cup VisualModes \cup {"COMMAND"}
    /\ InitMode \in Modes
    /\ \A m \in Modes : <<"command", m>> \in Bound => "COMMAND" \in Modes
    /\ InitHotkey \in [Modes -> [Code -> SUBSET Code]]
    /\ InitIdentity \in [Modes -> SUBSET Code]
    /\ Remaps \subseteq Mapping
    /\ {Serial, MayFail, MayLock, MayExit} \subseteq BOOLEAN

VARIABLES
    down,      \* the physical keys the user holds
    os,        \* the codes the other applications take to be pressed
    gate,      \* InputGate::Impl: bit arrays, ports, absorb_state_ and mappings
    mode,      \* ModeManager::mode_
    env,       \* the screen, Background::screen_is_locked_, the hook; and history
    hook,      \* the hook call in progress on the main thread
    worker,    \* the operation in progress on the worker thread
    session    \* the InstantKeyAbsorber scope the worker is in

vars == <<down, os, gate, mode, env, hook, worker, session>>

\* "stale" holds the toggle keys whose timestamps_ entry is older than 515 ms.
InitGate ==
    [lowlevel |-> {}, real |-> {}, state |-> {}, port |-> {}, stale |-> {},
     absorb |-> InitMode \notin PassingModes,
     hotkey |-> InitHotkey, identity |-> InitIdentity]

NoHook    == [pc |-> "idle", key |-> 0, press |-> FALSE, mode |-> InitMode, target |-> {}]
NoSession == [kind |-> "none", flag |-> TRUE, mode |-> InitMode, thrown |-> FALSE]
Idle      == [pc |-> "idle", op |-> "none", cur |-> 0, todo |-> {}, pre |-> {},
              keys |-> {}, mode |-> InitMode, press |-> FALSE]

\* The history: "lost" are the keys that the code no longer knows to be down for
\* the applications, "slipped" tells that the gate was left open in a mode that
\* should block, by the end of a session or by a function for a visual mode.
Init ==
    /\ down = {} /\ os = {}
    /\ gate = InitGate /\ mode = InitMode
    /\ env = [locked |-> FALSE, noticed |-> FALSE, hooked |-> TRUE,
              lost |-> {}, slipped |-> FALSE]
    /\ hook = NoHook /\ worker = Idle /\ session = NoSession

\* The codes of an array after a press or a release of cs.
Set(a, cs, press) == IF press THEN a \cup cs ELSE a \ cs

\* The decision at the end of hook_proc: the message goes on to the applications.
Passes(c, m) ==
    c \in gate.port \/ c \in gate.identity[m] \/ ~gate.absorb \/ ~env.hooked

\* A SendInput of press or release events for the physical keys of cs.
SendInput(cs, press) ==
    os' = Set(os, {k \in {PhysOf[c] : c \in cs} : Passes(k, mode)}, press)

-----------------------------------------------------------------------------
(***************************************************************************)
(* The main thread: hook_proc for an event of the physical keyboard.       *)
(***************************************************************************)
RepSet(k) == {RepOf[k]} \ {0}

\* The user presses (or auto-repeats) or releases k.  A release of a toggle
\* key is not reported.  Without the hook a message goes straight to the
\* applications; on the lock screen it goes to none of them.
UserKey(k, press) ==
    /\ hook.pc = "idle"
    /\ press \/ k \in down
    /\ Serial => worker.pc \in {"idle", "exited"}
    /\ down' = Set(down, {k}, press)
    /\ IF env.locked \/ ~env.hooked
       THEN os' = (IF env.locked THEN os ELSE Set(os, {k}, press)) /\ UNCHANGED <<gate, hook>>
       ELSE IF ~press /\ k \in Toggle
       THEN UNCHANGED <<os, gate, hook>>
       ELSE /\ gate' = [gate EXCEPT !.lowlevel = Set(@, {k}, press), !.stale = @ \ {k}]
            /\ hook' = [NoHook EXCEPT !.pc = "lookup", !.key = k, !.press = press,
                                      !.mode = mode]
            /\ UNCHANGED os
    /\ UNCHANGED <<mode, env, worker, session>>

\* map_syncstate looks up the representative code, then the key itself.
\* A hotkey opens the ports of its targets; otherwise the key is recorded.
HookLookup ==
    LET keys   == gate.hotkey[hook.mode]
        repMap == {c \in RepSet(hook.key) : keys[c] # {}}
        target == keys[IF repMap # {} THEN RepOf[hook.key] ELSE hook.key]
    IN  /\ hook.pc = "lookup"
        /\ hook' = [hook EXCEPT !.pc = IF target = {} THEN "record" ELSE "send",
                                !.target = target]
        /\ gate' = [gate EXCEPT !.port = @ \cup target]
        /\ UNCHANGED <<down, os, mode, env, worker, session>>

HookSend ==
    /\ hook.pc = "send"
    /\ SendInput(hook.target, hook.press)
    /\ hook' = [hook EXCEPT !.pc = "virtual"]
    /\ UNCHANGED <<down, gate, mode, env, worker, session>>

HookVirtual ==
    /\ hook.pc = "virtual"
    /\ gate' = [gate EXCEPT !.state = Set(@, hook.target, hook.press)]
    /\ hook' = [hook EXCEPT !.pc = "close"]
    /\ UNCHANGED <<down, os, mode, env, worker, session>>

\* (Bugs: the ports stay open; the mapping is read again instead of copied.)
HookClose_Leak ==
    hook.pc = "close" /\ hook' = NoHook /\ UNCHANGED <<down, os, gate, mode, env, worker, session>>
HookClose_Reread ==
    /\ hook.pc = "close"
    /\ gate' = [gate EXCEPT !.port = @ \ gate.hotkey[hook.mode][hook.key]]
    /\ hook' = NoHook
    /\ UNCHANGED <<down, os, mode, env, worker, session>>

\* close_some_ports, and hook_proc returns 1: the trigger itself is swallowed.
HookClose ==
    /\ hook.pc = "close"
    /\ gate' = [gate EXCEPT !.port = @ \ hook.target]
    /\ hook' = NoHook
    /\ UNCHANGED <<down, os, mode, env, worker, session>>

\* (Bug: a release leaves the generic key pressed.)
HookRecord_OneCode ==
    LET cs == IF hook.press THEN RepSet(hook.key) \cup {hook.key} ELSE {hook.key}
    IN  /\ hook.pc = "record"
        /\ gate' = [gate EXCEPT !.real = Set(@, cs, hook.press), !.state = Set(@, cs, hook.press)]
        /\ hook' = [hook EXCEPT !.pc = "decide"]
        /\ UNCHANGED <<down, os, mode, env, worker, session>>

HookRecord ==
    LET cs == RepSet(hook.key) \cup {hook.key}
    IN  /\ hook.pc = "record"
        /\ gate' = [gate EXCEPT !.real  = Set(@, cs, hook.press),
                                !.state = Set(@, cs, hook.press)]
        /\ hook' = [hook EXCEPT !.pc = "decide"]
        /\ UNCHANGED <<down, os, mode, env, worker, session>>

HookDecide ==
    /\ hook.pc = "decide"
    /\ os' = IF Passes(hook.key, hook.mode) THEN Set(os, {hook.key}, hook.press) ELSE os
    /\ hook' = NoHook
    /\ UNCHANGED <<down, gate, mode, env, worker, session>>

\* The hook has not been called for a released toggle key for 515 ms.
Expire(k) ==
    /\ k \in gate.lowlevel \ (down \cup gate.stale)
    /\ gate' = [gate EXCEPT !.stale = @ \cup {k}]
    /\ UNCHANGED <<down, os, mode, env, hook, worker, session>>

HookStep ==
    HookLookup \/ HookSend \/ HookVirtual \/ HookClose \/ HookRecord \/ HookDecide

-----------------------------------------------------------------------------
(***************************************************************************)
(* The worker thread.  At(p): it is about to run the step p.               *)
(***************************************************************************)
At(p)   == worker.pc = p
Goto(p) == worker' = [worker EXCEPT !.pc = p]

\* The worker's SendInput is filtered by the hook on the main thread.
Send(cs, press) == hook.pc = "idle" /\ SendInput(cs, press)

\* A function of the update loop is followed by the correction of the virtual
\* state.  The loop of a session ends once it has executed a function; its own
\* key strokes do not end it.
Return ==
    worker' = IF session.kind = "none" THEN [Idle EXCEPT !.pc = "correct"]
              ELSE IF worker.op = "pushup" THEN Idle
              ELSE [Idle EXCEPT !.op = "done"]

\* The worker is free to begin an operation.
Free == worker = Idle /\ ~env.locked /\ ~env.noticed /\ (Serial => hook.pc = "idle")

\* A function starts when it is bound in the current mode; ToInstantGUINormal
\* reads its inputs with the bindings of GUI Normal, whatever the mode.
Start(f) ==
    Free /\ <<f, IF session.kind = "instant" THEN "GUI_NORMAL" ELSE mode>> \in Bound

\* (Bugs: the keys are not refreshed; the mode is set before what may fail.)
ToNormal_NoRefresh(m) ==
    /\ Start("to_normal") /\ mode # m
    /\ worker' = [Idle EXCEPT !.op = "to_normal", !.pc = "closeAll", !.mode = m]
    /\ UNCHANGED <<down, os, gate, mode, env, hook, session>>
ToNormal_ModeFirst(m) ==
    /\ Start("to_normal") /\ mode # m /\ mode' = m
    /\ worker' = [Idle EXCEPT !.op = "to_normal", !.pc = "refresh", !.cur = 1, !.mode = m]
    /\ UNCHANGED <<down, os, gate, env, hook, session>>

\* ToGUINormal, ToEdiNormal: refresh the keys, absorb, change the mode.
ToNormal(m) ==
    /\ Start("to_normal") /\ mode # m
    /\ worker' = [Idle EXCEPT !.op = "to_normal", !.pc = "refresh", !.cur = 1, !.mode = m]
    /\ UNCHANGED <<down, os, gate, mode, env, hook, session>>

\* ToInsert, ToResident: close the ports, stop absorbing, change the mode.
ToPassing(m) ==
    /\ Start("to_passing")
    /\ worker' = [Idle EXCEPT !.op = "to_passing", !.pc = "closeAll", !.mode = m]
    /\ UNCHANGED <<down, os, gate, mode, env, hook, session>>

\* ToGUIVisual, ToEdiVisual: only the mode changes.
ToVisual(m) ==
    /\ Start("to_visual")
    /\ worker' = [Idle EXCEPT !.op = "to_visual", !.pc = "setMode", !.mode = m]
    /\ UNCHANGED <<down, os, gate, mode, env, hook, session>>

\* close_all_ports_with_refresh: one pass over the codes, releasing those that
\* are virtually pressed through a port of their own.
Refresh ==
    /\ At("refresh")
    /\ IF worker.cur > MaxCode
       THEN Goto("closeAll") /\ UNCHANGED gate
       ELSE IF worker.cur \in gate.state
       THEN Goto("refreshSend") /\ gate' = [gate EXCEPT !.port = @ \cup {worker.cur}]
       ELSE worker' = [worker EXCEPT !.cur = @ + 1] /\ UNCHANGED gate
    /\ UNCHANGED <<down, os, mode, env, hook, session>>

\* (Bug: the key is released virtually only.)
RefreshSend_Silent ==
    At("refreshSend") /\ Goto("refreshClear") /\ UNCHANGED <<down, os, gate, mode, env, hook, session>>

RefreshSend ==
    /\ At("refreshSend")
    /\ Send({worker.cur}, FALSE)
    /\ Goto("refreshClear")
    /\ UNCHANGED <<down, gate, mode, env, session, hook>>

RefreshClear ==
    /\ At("refreshClear")
    /\ gate' = [gate EXCEPT !.state = @ \ {worker.cur}]
    /\ worker' = [worker EXCEPT !.pc = "refresh", !.cur = @ + 1]
    /\ UNCHANGED <<down, os, mode, env, hook, session>>

CloseAll ==
    /\ At("closeAll")
    /\ gate' = [gate EXCEPT !.port = {}]
    /\ Goto("absorb")
    /\ UNCHANGED <<down, os, mode, env, hook, session>>

\* absorb() or unabsorb(); then SwitchWindow presses Alt, a session begins its
\* loop, or a mode function changes the mode.
Absorb ==
    /\ At("absorb")
    /\ gate' = [gate EXCEPT !.absorb = worker.op # "to_passing"]
    /\ worker' = IF worker.op # "session" THEN [worker EXCEPT !.pc = "setMode"]
                 ELSE IF session.kind # "switch" THEN Idle
                 ELSE [worker EXCEPT !.pc = "scopeOpen", !.press = TRUE, !.keys = {AltKey}]
    /\ env' = [env EXCEPT !.slipped = @ /\ worker.op = "session"]
    /\ UNCHANGED <<down, os, mode, hook, session>>

SetMode ==
    /\ At("setMode")
    /\ mode' = worker.mode
    /\ env' = [env EXCEPT !.slipped = @ \/ (worker.op = "to_visual" /\ mode \in PassingModes)]
    /\ Return
    /\ UNCHANGED <<down, os, gate, hook, session>>

(***************************************************************************)
(* pushup: release what is pressed, stroke the keys through their ports,   *)
(* close the ports and restore the virtual state.  Up to three keys; the   *)
(* branch for more is not modelled here.                                   *)
(***************************************************************************)
Pushup(keys) ==
    /\ Start("pushup")
    /\ worker' = [Idle EXCEPT !.op = "pushup", !.pc = "snapshot", !.keys = keys]
    /\ UNCHANGED <<down, os, gate, mode, env, hook, session>>

Snapshot ==
    /\ At("snapshot")
    /\ worker' = [worker EXCEPT !.pc = "unpress", !.todo = gate.state, !.pre = gate.state]
    /\ UNCHANGED <<down, os, gate, mode, env, hook, session>>

Unpress ==
    /\ At("unpress")
    /\ \/ \E c \in worker.todo :
            /\ worker' = [worker EXCEPT !.cur = c, !.todo = @ \ {c},
                            !.pc = IF c \in gate.real THEN "unpressSend" ELSE "unpressClear"]
            /\ UNCHANGED gate
       \/ /\ worker.todo = {}
          /\ gate' = [gate EXCEPT !.port = @ \cup {PhysOf[c] : c \in worker.keys}]
          /\ Goto("stroke")
    /\ UNCHANGED <<down, os, mode, env, hook, session>>

UnpressSend ==
    /\ At("unpressSend")
    /\ Send({worker.cur}, FALSE)
    /\ Goto("unpressClear")
    /\ UNCHANGED <<down, gate, mode, env, hook, session>>

UnpressClear ==
    /\ At("unpressClear")
    /\ gate' = [gate EXCEPT !.state = @ \ {worker.cur}]
    /\ Goto("unpress")
    /\ UNCHANGED <<down, os, mode, env, hook, session>>

\* The keys go down in order and up in reverse order in one SendInput: what
\* passes the hook ends up released.
Stroke ==
    /\ At("stroke")
    /\ Send(worker.keys, FALSE)
    /\ Goto("closePorts")
    /\ UNCHANGED <<down, gate, mode, env, hook, session>>

\* (Bug: the ports of a pushup stay open.)
ClosePorts_Leak ==
    At("closePorts") /\ Goto("restore") /\ UNCHANGED <<down, os, gate, mode, env, hook, session>>

\* close_some_ports is given the keys themselves, not their physical codes.
ClosePorts ==
    /\ At("closePorts")
    /\ gate' = [gate EXCEPT !.port = @ \ worker.keys]
    /\ Goto("restore")
    /\ UNCHANGED <<down, os, mode, env, hook, session>>

Restore ==
    /\ At("restore")
    /\ gate' = [gate EXCEPT !.state = @ \cup worker.pre]
    /\ Return
    /\ UNCHANGED <<down, os, mode, env, hook, session>>

-----------------------------------------------------------------------------
(***************************************************************************)
(* Sessions: ToCommand, ToInstantGUINormal and the loops of SwitchWindow,  *)
(* EasyClick and others run inside an InstantKeyAbsorber.  ToCommand also  *)
(* changes the mode for its duration; SwitchWindow holds the Alt key down  *)
(* with a ScopedKey.  ToInstantGUINormal refreshes the keys once more      *)
(* before the absorber does, which is one pass here.                       *)
(***************************************************************************)
SessionKind == {"command", "switch", "instant", "loop"}

OpenSession(kind) ==
    /\ Start(kind) /\ session.kind = "none"
    /\ session' = [kind |-> kind, flag |-> gate.absorb, mode |-> mode, thrown |-> FALSE]
    /\ mode' = IF kind = "command" THEN "COMMAND" ELSE mode
    /\ worker' = [Idle EXCEPT !.op = "session", !.pc = "refresh", !.cur = 1]
    /\ UNCHANGED <<down, os, gate, env, hook>>

\* The scopes of a session end: SwitchWindow's ScopedKey, then the absorber.
EndOfScope ==
    [Idle EXCEPT !.op = "session",
                 !.pc = IF session.kind = "switch" THEN "scopeOpen" ELSE "leave",
                 !.keys = IF session.kind = "switch" THEN {AltKey} ELSE {}]

\* The loop is left.  ToCommand, SwitchWindow and the resizer (one of the loops)
\* release Esc and Enter virtually.
Clears == [command |-> {QuitKeys}, switch |-> {QuitKeys},
           loop |-> {QuitKeys, {}}, instant |-> {{}}]

CloseSession ==
    /\ At("idle") /\ session.kind # "none"
    /\ Serial => hook.pc = "idle"
    /\ \E keys \in Clears[session.kind] :
         /\ gate' = [gate EXCEPT !.state = @ \ keys]
         /\ env' = [env EXCEPT !.lost = @ \cup (os \cap keys)]
    /\ worker' = EndOfScope
    /\ UNCHANGED <<down, os, mode, hook, session>>

\* ScopedKey::press and release.
ScopeOpen ==
    /\ At("scopeOpen")
    /\ gate' = [gate EXCEPT !.port = @ \cup worker.keys]
    /\ Goto("scopeSend")
    /\ UNCHANGED <<down, os, mode, env, hook, session>>

ScopeSend ==
    /\ At("scopeSend")
    /\ Send(worker.keys, worker.press)
    /\ Goto("scopeClose")
    /\ UNCHANGED <<down, gate, mode, env, hook, session>>

\* After the press, SwitchWindow clears the virtual Alt key and pushes up Tab.  If
\* the key is not where it should be, press() or release() throws, and the
\* destructor releases it again.  (That it also does so after a release that
\* worked is left out.)
ScopeClose ==
    /\ At("scopeClose")
    /\ gate' = [gate EXCEPT !.port = {}]
    /\ LET arrived == (AltKey \in os) = worker.press
       IN  /\ worker' = IF arrived /\ worker.press THEN [worker EXCEPT !.pc = "scopeClear"]
                        ELSE IF arrived \/ session.thrown THEN [worker EXCEPT !.pc = "leave"]
                        ELSE [worker EXCEPT !.pc = "scopeOpen", !.press = FALSE]
           /\ session' = [session EXCEPT !.thrown = @ \/ ~arrived]
    /\ UNCHANGED <<down, os, mode, env, hook>>

ScopeClear ==
    /\ At("scopeClear")
    /\ gate' = [gate EXCEPT !.state = @ \ {AltKey}]
    /\ worker' = [Idle EXCEPT !.op = "pushup", !.pc = "snapshot", !.keys = {TabKey}]
    /\ UNCHANGED <<down, os, mode, env, hook, session>>

\* ~InstantKeyAbsorber, then the mode_preserver of ToCommand.
Leave ==
    /\ At("leave")
    /\ gate' = [gate EXCEPT !.absorb = @ /\ session.flag]
    /\ Goto("leaveMode")
    /\ UNCHANGED <<down, os, mode, env, hook, session>>

\* An exception that has left the session is caught by its process().
LeaveMode ==
    /\ At("leaveMode")
    /\ mode' = IF session.kind = "command" /\ mode = "COMMAND" THEN session.mode ELSE mode
    /\ env' = [env EXCEPT !.slipped = IF session.flag THEN @ ELSE mode' \notin PassingModes]
    /\ session' = NoSession
    /\ worker' = [Idle EXCEPT !.pc = IF session.thrown THEN "calibrate" ELSE "correct"]
    /\ UNCHANGED <<down, os, gate, hook>>

-----------------------------------------------------------------------------
(***************************************************************************)
(* Corrections: after an executed input, after a failed SendInput, for     *)
(* toggle keys, on a locked screen and at termination.                     *)
(***************************************************************************)
\* VindEntry::update: a virtually pressed key that is not really pressed is
\* released virtually.  The list of pressed keys is read once.
Correct ==
    /\ At("correct")
    /\ worker' = [worker EXCEPT !.pc = "correctNext", !.todo = gate.state]
    /\ UNCHANGED <<down, os, gate, mode, env, hook, session>>

CorrectNext ==
    /\ At("correctNext")
    /\ \/ \E c \in worker.todo :
            worker' = [worker EXCEPT !.cur = c, !.todo = @ \ {c},
                         !.pc = IF c \in gate.real THEN "correctNext" ELSE "correctClear"]
       \/ worker.todo = {} /\ worker' = Idle
    /\ UNCHANGED <<down, os, gate, mode, env, hook, session>>

CorrectClear ==
    /\ At("correctClear")
    /\ gate' = [gate EXCEPT !.state = @ \ {worker.cur}]
    /\ Goto("correctNext")
    /\ UNCHANGED <<down, os, mode, env, hook, session>>

\* SendInput is refused: it sends nothing, returns 0, and its caller throws.
\* A bound function is called by BindedFunc::process, which calibrates.
FailCaught ==
    /\ \/ worker.op = "to_normal"
       \/ worker.op = "pushup" /\ session.kind # "switch"
    /\ worker.pc \in {"refreshSend", "unpressSend", "stroke"}
    /\ Goto("calibrate")
    /\ UNCHANGED <<down, os, gate, mode, env, hook, session>>

\* (Bug: SwitchWindow does not hold Alt in a scope.)
FailThrough_NoScope ==
    /\ \/ worker.op = "pushup" /\ worker.pc \in {"unpressSend", "stroke"}
       \/ worker.op = "toggle" /\ worker.pc \in {"toggleSend", "toggleKey"}
    /\ worker' = [Idle EXCEPT !.pc = IF session.kind = "none" THEN "ended" ELSE "leave"]
    /\ session' = [session EXCEPT !.thrown = session.kind # "none"]
    /\ UNCHANGED <<down, os, gate, mode, env, hook>>

\* A macro of keys, the strokes of a session itself and refresh_toggle_state run
\* in no function of their own: the exception ends the session, or the update
\* loop and with it the program.
FailThrough ==
    /\ \/ worker.op = "pushup" /\ worker.pc \in {"unpressSend", "stroke"}
       \/ worker.op = "toggle" /\ worker.pc \in {"toggleSend", "toggleKey"}
    /\ worker' = IF session.kind = "none" THEN [Idle EXCEPT !.pc = "ended"] ELSE EndOfScope
    /\ session' = [session EXCEPT !.thrown = session.kind # "none"]
    /\ UNCHANGED <<down, os, gate, mode, env, hook>>

\* The constructor of InstantKeyAbsorber throws: there is no absorber to destroy.
FailOpen ==
    /\ At("refreshSend") /\ worker.op = "session"
    /\ Goto("leaveMode")
    /\ session' = [session EXCEPT !.thrown = TRUE]
    /\ UNCHANGED <<down, os, gate, mode, env, hook>>

\* ScopedKey::press or release throws before it has closed the port.  The
\* destructor tries to release the key once more and gives up if that fails.
FailScope ==
    /\ At("scopeSend")
    /\ IF session.thrown
       THEN /\ Goto("leave")
            /\ env' = [env EXCEPT !.lost = @ \cup {AltKey}]
       ELSE /\ worker' = [worker EXCEPT !.pc = "scopeOpen", !.press = FALSE]
            /\ UNCHANGED env
    /\ session' = [session EXCEPT !.thrown = TRUE]
    /\ UNCHANGED <<down, os, gate, mode, hook>>

\* error_process catches what calibrate_absorber_state throws: the ports stay
\* open, and the remaining keys pressed.
FailCalibrate ==
    /\ At("calibrateNext") /\ worker.todo # {}
    /\ Return
    /\ UNCHANGED <<down, os, gate, mode, env, hook, session>>

\* uninstall_hook goes on with the next key.
FailExit ==
    /\ At("exit")
    /\ \E c \in worker.todo : worker' = [worker EXCEPT !.todo = @ \ {c}]
    /\ UNCHANGED <<down, os, gate, mode, env, hook, session>>

Fail ==
    /\ MayFail
    /\ FailCaught \/ FailThrough \/ FailOpen \/ FailScope \/ FailCalibrate \/ FailExit

Calibrate ==
    /\ At("calibrate")
    /\ gate' = [gate EXCEPT !.port = IF gate.absorb THEN @ \cup gate.state ELSE @]
    /\ IF gate.state = {} THEN Return
       ELSE worker' = [worker EXCEPT !.pc = "calibrateNext", !.todo = gate.state]
    /\ UNCHANGED <<down, os, mode, env, hook, session>>

CalibrateNext ==
    /\ At("calibrateNext")
    /\ \/ \E c \in worker.todo :
            /\ Send({c}, FALSE)
            /\ gate' = [gate EXCEPT !.state = @ \ {c}]
            /\ worker' = [worker EXCEPT !.todo = @ \ {c}]
       \/ /\ worker.todo = {}
          /\ gate' = [gate EXCEPT !.port = {}]
          /\ Return
          /\ UNCHANGED os
    /\ UNCHANGED <<down, mode, env, hook, session>>

\* (Bug: asks for what is recorded, not for what the hook has seen.)
RefreshToggle_Recorded(k) ==
    /\ Free /\ k \in Toggle \cap gate.real \cap gate.stale
    /\ LET targets == UNION {gate.hotkey[m][k] : m \in Modes}
       IN  /\ gate' = [gate EXCEPT !.port = @ \cup targets]
           /\ worker' = [Idle EXCEPT !.op = "toggle", !.pc = "toggleSend",
                                     !.keys = targets, !.cur = k]
    /\ UNCHANGED <<down, os, mode, env, hook, session>>

\* refresh_toggle_state: map_syncstate(k, false, m) for every mode m, then the
\* key itself.  The targets of the modes are released together.
RefreshToggle(k) ==
    /\ Free /\ k \in Toggle \cap gate.lowlevel \cap gate.stale
    /\ LET targets == UNION {gate.hotkey[m][k] : m \in Modes}
       IN  /\ gate' = [gate EXCEPT !.port = @ \cup targets]
           /\ worker' = [Idle EXCEPT !.op = "toggle", !.pc = "toggleSend",
                                     !.keys = targets, !.cur = k]
    /\ UNCHANGED <<down, os, mode, env, hook, session>>

ToggleSend ==
    /\ At("toggleSend")
    /\ Send(worker.keys, FALSE)
    /\ Goto("toggleClose")
    /\ UNCHANGED <<down, gate, mode, env, hook, session>>

ToggleClose ==
    /\ At("toggleClose")
    /\ gate' = [gate EXCEPT !.state = @ \ worker.keys, !.port = @ \ worker.keys]
    /\ Goto("toggleKey")
    /\ UNCHANGED <<down, os, mode, env, hook, session>>

ToggleKey ==
    /\ At("toggleKey")
    /\ Send({worker.cur}, FALSE)
    /\ Goto("toggleClear")
    /\ UNCHANGED <<down, gate, mode, env, hook, session>>

ToggleClear ==
    /\ At("toggleClear")
    /\ gate' = [gate EXCEPT !.state = @ \ {worker.cur}, !.real = @ \ {worker.cur}]
    /\ Goto("toggleLow")
    /\ UNCHANGED <<down, os, mode, env, hook, session>>

ToggleLow ==
    /\ At("toggleLow")
    /\ gate' = [gate EXCEPT !.lowlevel = @ \ {worker.cur}]
    /\ worker' = Idle
    /\ UNCHANGED <<down, os, mode, env, hook, session>>

ToggleStep == ToggleSend \/ ToggleClose \/ ToggleKey \/ ToggleClear \/ ToggleLow

\* The user locks or unlocks the screen while the program is at rest, and not
\* again before the update loop has seen it (it looks every few milliseconds).
\* The applications lose the keyboard, and with it the keys they took to be pressed.
LockScreen ==
    /\ MayLock /\ env.hooked /\ At("idle") /\ hook.pc = "idle"
    /\ env.locked = env.noticed
    /\ env' = [env EXCEPT !.locked = ~@]
    /\ os' = {}
    /\ UNCHANGED <<down, gate, mode, hook, worker, session>>

\* (Bug: the keys stay virtually pressed.)
NoticeLock_Keep ==
    /\ At("idle") /\ env.locked # env.noticed
    /\ env' = [env EXCEPT !.noticed = env.locked]
    /\ UNCHANGED <<down, os, gate, mode, hook, worker, session>>

\* Background::update: on the first update of a locked screen every pressed
\* key is released virtually.
NoticeLock ==
    /\ At("idle") /\ env.locked # env.noticed
    /\ env' = [env EXCEPT !.noticed = env.locked]
    /\ gate' = IF env.locked THEN [gate EXCEPT !.state = {}] ELSE gate
    /\ UNCHANGED <<down, os, mode, hook, worker, session>>

\* main() after the worker has ended: uninstall_hook releases what is really
\* pressed; the hook no longer filters.  The targets of hotkeys that are held are
\* not really pressed.
HeldTargets ==
    LET held  == down \cup (Toggle \cap gate.lowlevel)
        codes == held \cup UNION {RepSet(k) : k \in held}
    IN  {PhysOf[c] : c \in UNION {gate.hotkey[m][t] : m \in Modes, t \in codes}}

UninstallHook ==
    /\ \/ MayExit /\ At("idle") /\ session.kind = "none"
       \/ At("ended")
    /\ env.hooked /\ ~env.locked /\ hook.pc = "idle"
    /\ env' = [env EXCEPT !.hooked = FALSE, !.lost = @ \cup HeldTargets]
    /\ worker' = [Idle EXCEPT !.pc = "exit", !.todo = gate.real]
    /\ UNCHANGED <<down, os, gate, mode, hook, session>>

ExitRelease ==
    /\ At("exit")
    /\ \/ \E c \in worker.todo :
            /\ SendInput({c}, FALSE)
            /\ gate' = [gate EXCEPT !.state = @ \ {c}]
            /\ worker' = [worker EXCEPT !.todo = @ \ {c}]
       \/ worker.todo = {} /\ Goto("exited") /\ UNCHANGED <<os, gate>>
    /\ UNCHANGED <<down, mode, env, hook, session>>

\* A map command: clear_hotkeys of a mode, then register_hotkey of its mappings.
ClearHotkeys(m) ==
    /\ Start("map")
    /\ gate' = [gate EXCEPT !.hotkey[m] = [c \in Code |-> {}], !.identity[m] = {}]
    /\ worker' = [Idle EXCEPT !.op = "map", !.pc = "register", !.mode = m]
    /\ UNCHANGED <<down, os, mode, env, hook, session>>

RegisterHotkey ==
    /\ At("register")
    /\ \E r \in Remaps :
         gate' = [gate EXCEPT !.hotkey[worker.mode] = r.hotkey,
                              !.identity[worker.mode] = r.identity]
    /\ Return
    /\ UNCHANGED <<down, os, mode, env, hook, session>>

-----------------------------------------------------------------------------
User == \E k \in Key : (\E press \in BOOLEAN : UserKey(k, press)) \/ Expire(k)

Begin ==
    \/ \E m \in Modes \cap NormalModes  : ToNormal(m)
    \/ \E m \in Modes \cap PassingModes : ToPassing(m)
    \/ \E m \in Modes \cap VisualModes  : ToVisual(m)
    \/ \E keys \in Macros : Pushup(keys)
    \/ \E kind \in SessionKind : OpenSession(kind)
    \/ \E m \in Modes : ClearHotkeys(m)
    \/ CloseSession \/ UninstallHook

Steps ==
    \/ Refresh \/ RefreshSend \/ RefreshClear \/ CloseAll \/ Absorb \/ SetMode
    \/ Snapshot \/ Unpress \/ UnpressSend \/ UnpressClear \/ Stroke \/ ClosePorts \/ Restore
    \/ ScopeOpen \/ ScopeSend \/ ScopeClose \/ ScopeClear \/ Leave \/ LeaveMode
    \/ Correct \/ CorrectNext \/ CorrectClear \/ Calibrate \/ CalibrateNext
    \/ ToggleStep \/ NoticeLock \/ ExitRelease \/ RegisterHotkey

Background == (\E k \in Toggle : RefreshToggle(k)) \/ Steps

Next == User \/ HookStep \/ Begin \/ Background \/ Fail \/ LockScreen

Spec == Init /\ [][Next]_vars

\* The threads keep running: a hook call returns, the worker finishes what it
\* began (its SendInput gets its turn between the user's key events), a loop that has
\* executed its function ends the session, and the update loops keep calling
\* refresh_toggle_state, whose release of the targets is not refused every time.  The
\* user, other failures and the choice of functions are not fair.
Fairness ==
    /\ WF_vars(HookStep)
    /\ SF_vars(Steps \/ (worker.op = "done" /\ CloseSession))
    /\ \A k \in Toggle : WF_vars(Expire(k)) /\ SF_vars(RefreshToggle(k))
    /\ SF_vars(ToggleSend)

FairSpec == Spec /\ Fairness

-----------------------------------------------------------------------------
(***************************************************************************)
(* Properties.                                                             *)
(***************************************************************************)
HookPC   == {"idle", "lookup", "send", "virtual", "close", "record", "decide"}
WorkerPC == {"idle", "refresh", "refreshSend", "refreshClear", "closeAll", "absorb",
             "setMode", "snapshot", "unpress", "unpressSend", "unpressClear", "stroke",
             "closePorts", "restore", "scopeOpen", "scopeSend", "scopeClose",
             "scopeClear", "leave", "leaveMode", "correct", "correctNext",
             "correctClear", "calibrate", "calibrateNext", "toggleSend", "toggleClose",
             "toggleKey", "toggleClear", "toggleLow", "register", "ended", "exit", "exited"}
Op == {"none", "done", "to_normal", "to_passing", "to_visual", "pushup", "session", "toggle", "map"}

GateType ==
    [lowlevel : SUBSET Key, real : SUBSET Code, state : SUBSET Code, port : SUBSET Code,
     stale : SUBSET Key, absorb : BOOLEAN, hotkey : [Modes -> [Code -> SUBSET Code]],
     identity : [Modes -> SUBSET Code]]
HookType ==
    [pc : HookPC, key : Key \cup {0}, press : BOOLEAN, mode : Modes, target : SUBSET Code]
WorkerType ==
    [pc : WorkerPC, op : Op, cur : 0..(MaxCode + 1), todo : SUBSET Code, pre : SUBSET Code,
     keys : SUBSET Code, mode : Modes, press : BOOLEAN]

SessionType ==
    [kind : {"none"} \cup SessionKind, flag : BOOLEAN, mode : Modes, thrown : BOOLEAN]
EnvType ==
    [locked : BOOLEAN, noticed : BOOLEAN, hooked : BOOLEAN, lost : SUBSET Key, slipped : BOOLEAN]

\* The steps that work on the code worker.cur.
AtCode == {"refreshSend", "refreshClear", "unpressSend", "toggleSend", "toggleClose", "toggleKey"}

\* Every variable keeps its type: bit arrays hold codes of the keyboard, the
\* threads are at steps of the code, and a pass over the codes ends in time.
TypeOK ==
    /\ down \subseteq Key /\ os \subseteq Key
    /\ gate \in GateType
    /\ mode \in Modes
    /\ env \in EnvType
    /\ hook \in HookType /\ (hook.pc # "idle" => hook.key \in Key)
    /\ worker \in WorkerType
    /\ worker.pc \in AtCode => worker.cur \in Code
    /\ worker.pc = "refresh" => worker.cur > 0
    /\ session \in SessionType

AtRest == hook.pc = "idle" /\ worker.pc = "idle"
Quiet  == /\ AtRest \/ worker.pc = "exited"
          /\ session.kind = "none" /\ down = {} /\ ~env.locked /\ Toggle \cap gate.lowlevel = {}

\* Ports are opened only around an injected event (map_syncstate, pushup,
\* close_all_ports_with_refresh, ScopedKey).  Whatever the interleaving of the
\* two threads, none is left open once both are at rest: an open port would let
\* the key through in a mode that blocks key messages.
PortsClosedAtRest == AtRest => gate.port = {}

\* is_really_pressed never invents a key: a physical key it reports is held, or
\* its release is being processed.  A generic key (Ctrl for the two Ctrl keys)
\* is reported only while one of its keys is.  Pushup, the correction of the
\* virtual state and the forced termination by F8 and F9 rely on it while the
\* hook is installed.
Releasing(k) == hook.key = k /\ ~hook.press /\ hook.pc \in {"lookup", "record"}
RealIsHeld ==
    env.hooked => \A c \in gate.real :
        /\ c \in Key \ Toggle => c \in down \/ Releasing(c)
        /\ c \notin Key => \E k \in gate.real \cap Key : RepOf[k] = c

\* When nobody holds a key and no operation is in progress, or the program has
\* ended, no application takes a key to be pressed: every key message that was let
\* through, or injected, has been followed by its release, whatever SendInput was
\* refused.  Excepted are the keys that the code has lost: an Alt whose release
\* ScopedKey has tried in vain, the target of a hotkey that is held when the
\* program ends, an Esc or Enter that a session releases virtually only.
NoStuckKey == Quiet => os \subseteq env.lost

\* ToGUINormal, ToEdiNormal and InstantKeyAbsorber release the keys before they
\* absorb: when absorbing begins, no application sees a really pressed key
\* as down, since its release would be absorbed.
KeyUpBeforeAbsorb ==
    [][~gate.absorb /\ gate'.absorb => os \cap gate.real \subseteq env.lost]_vars

\* All modes but Insert and Resident block the key messages: between two
\* operations, the gate absorbs exactly in the other modes.  Two things leave it
\* open there, and nothing else, no failure in particular: the end of a session
\* that has begun with an open gate and in which the mode has been changed
\* (ToInstantGUINormal from Insert), and a visual mode entered from Insert or
\* Resident.  The next function for a mode puts it right.
ModeBlocks ==
    worker.pc = "idle" /\ session.kind = "none" =>
        /\ (gate.absorb \/ env.slipped) <=> mode \notin PassingModes
        /\ ~(gate.absorb /\ env.slipped)

\* A session leaves the gate as it found it unless a function executed in it
\* changed the mode: ToCommand never leaves the COMMAND mode behind.
NoModeWithoutSession == mode = "COMMAND" => session.kind = "command"

\* In a blocking mode a pressed key reaches the applications only if it is
\* mapped to itself in that mode, unless the gate was left open (ModeBlocks).
BlockingModesSwallow ==
    [][HookDecide /\ hook.press /\ hook.mode \notin PassingModes
         /\ ~(env.slipped /\ session.kind = "none")
         => os' \subseteq os \cup gate.identity[hook.mode]]_vars

\* The hook is not told of the keys released on the lock screen: is_really_pressed
\* keeps them.  But once the screen is unlocked no key is virtually pressed, and
\* so none triggers a binding, unless it is held or the target of a hotkey of a key
\* that is.
NoGhostKey ==
    AtRest /\ session.kind = "none" /\ env.hooked /\ ~env.locked /\ ~env.noticed =>
        \A c \in gate.state \cap Key : \E k \in down : c \in {k} \cup gate.hotkey[mode][k]

\* What a toggle key keeps pressed: its targets, for the applications and virtually,
\* and the key itself.
ToggleTargets(k) == UNION {gate.hotkey[m][k] : m \in Modes}
KeptBy(k) ==
    (ToggleTargets(k) \cap (os \cup gate.state)) \cup ({k} \cap (gate.state \cup gate.real))

\* A toggle key that was released, and for which the hook is not called again,
\* eventually keeps nothing pressed, also if functions and sessions fail again and
\* again: refresh_toggle_state does what the missing key-up event cannot do.  If
\* it is refused itself, the program ends, or the session it runs in.
Running == env.hooked /\ ~At("ended")
ToggleReleased ==
    \A k \in Toggle : (Running /\ k \in gate.lowlevel \ down /\ KeptBy(k) # {})
                      ~> (~Running \/ KeptBy(k) = {} \/ ({k} \cup ToggleTargets(k)) \cap down # {})
=============================================================================
