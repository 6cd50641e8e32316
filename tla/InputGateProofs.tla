--------------------------- MODULE InputGateProofs ---------------------------
(***************************************************************************)
(* What InputGate guarantees for every keyboard, every .vindrc and every   *)
(* interleaving of the hook and the worker: first of its modes and locks,  *)
(* then of the keys themselves.                                            *)
(***************************************************************************)
EXTENDS InputGate, TLAPS

LEMMA SetType ==
    ASSUME NEW S, NEW a \in SUBSET S, NEW cs \in SUBSET S, NEW press
    PROVE  Set(a, cs, press) \in SUBSET S
BY DEF Set

\* A refused SendInput sends nothing: it only sends the worker elsewhere.
LEMMA FailFrame == Fail => UNCHANGED <<down, os, gate, mode, hook>>
BY DEF Fail, FailCaught, FailThrough, FailOpen, FailScope, FailCalibrate, FailExit

\* A SendInput leaves the applications with a set of physical keys.
LEMMA SendInputType ==
    ASSUME CodesAssumption, os \subseteq Key, NEW cs \in SUBSET Code, NEW press,
           SendInput(cs, press)
    PROVE  os' \subseteq Key
<1>1. {k \in {PhysOf[c] : c \in cs} : Passes(k, mode)} \in SUBSET Key
  BY DEF CodesAssumption
<1> QED
  BY <1>1, SetType DEF SendInput

\* The initial state has the types.
LEMMA InitType == CodesAssumption /\ ModesAssumption /\ Init => TypeOK
<1> SUFFICES ASSUME CodesAssumption, ModesAssumption, Init PROVE TypeOK
  OBVIOUS
<1>1. gate \in GateType
  BY DEF Init, InitGate, ModesAssumption, GateType
<1>2. worker \in WorkerType /\ worker.pc = "idle"
  BY DEF Init, Idle, CodesAssumption, ModesAssumption, WorkerType, WorkerPC, Op
<1>3. hook \in HookType /\ hook.pc = "idle"
  BY DEF Init, NoHook, ModesAssumption, HookType, HookPC
<1> QED
  BY <1>1, <1>2, <1>3 DEF Init, TypeOK, NoSession, SessionType, EnvType, ModesAssumption, AtCode

\* The gate keeps its type: what a step writes into a bit array are codes, and
\* what a map command deploys is a mapping.
LEMMA GateKeepsType ==
    ASSUME CodesAssumption, ModesAssumption, TypeOK, Next
    PROVE  gate' \in GateType
<1> gate \in GateType /\ worker \in WorkerType /\ hook \in HookType
    /\ (hook.pc # "idle" => hook.key \in Key)
    /\ (worker.pc \in AtCode => worker.cur \in Code)
    /\ (worker.pc = "refresh" => worker.cur > 0)
    /\ session.flag \in BOOLEAN
  BY DEF TypeOK, SessionType
<1>phys. \A c \in Code : PhysOf[c] \in Code
  BY DEF CodesAssumption
<1>1. ASSUME NEW k \in Key, NEW press \in BOOLEAN, UserKey(k, press)
      PROVE  gate' \in GateType
  <2>1. \/ UNCHANGED gate
        \/ gate' = [gate EXCEPT !.lowlevel = Set(@, {k}, press), !.stale = @ \ {k}]
    BY <1>1 DEF UserKey
  <2>2. gate.lowlevel \in SUBSET Key
    BY DEF GateType
  <2>3. Set(gate.lowlevel, {k}, press) \in SUBSET Key
    BY <2>2, SetType
  <2>4. CASE UNCHANGED gate
    BY <2>4
  <2>5. CASE gate' = [gate EXCEPT !.lowlevel = Set(@, {k}, press), !.stale = @ \ {k}]
    BY <2>3, <2>5 DEF GateType
  <2> QED
    BY <2>1, <2>4, <2>5
<1>2. ASSUME NEW k \in Key, Expire(k) PROVE gate' \in GateType
  BY <1>2 DEF Expire, GateType
<1>3. CASE HookLookup
  <2>1. hook.key \in Code /\ (RepSet(hook.key) # {} => RepOf[hook.key] \in Code)
    BY <1>3 DEF HookLookup, CodesAssumption, RepSet
  <2>2. \A c \in Code : gate.hotkey[hook.mode][c] \in SUBSET Code
    BY DEF GateType, HookType
  <2>3. hook'.target \in SUBSET Code /\ gate' = [gate EXCEPT !.port = @ \cup hook'.target]
    BY ZenonT(60), <1>3, <2>1, <2>2 DEF HookLookup, HookType
  <2> QED
    BY <2>3 DEF GateType
<1>4. CASE HookVirtual
  <2> gate.state \in SUBSET Code /\ hook.target \in SUBSET Code
    BY DEF GateType, HookType
  <2>1. Set(gate.state, hook.target, hook.press) \in SUBSET Code
    BY SetType
  <2> QED
    BY <1>4, <2>1 DEF HookVirtual, GateType
<1>5. CASE HookClose
  BY <1>5 DEF HookClose, GateType
<1>6. CASE HookRecord
  <2> DEFINE cs == RepSet(hook.key) \cup {hook.key}
  <2>1. cs \in SUBSET Code
    BY <1>6 DEF HookRecord, RepSet, CodesAssumption
  <2> gate.real \in SUBSET Code /\ gate.state \in SUBSET Code
    BY DEF GateType
  <2> HIDE DEF cs
  <2>2. Set(gate.real, cs, hook.press) \in SUBSET Code
        /\ Set(gate.state, cs, hook.press) \in SUBSET Code
    BY <2>1, SetType
  <2> USE DEF cs
  <2> QED
    BY <1>6, <2>2 DEF HookRecord, GateType
<1>7. CASE Refresh
  <2>1. \/ UNCHANGED gate
        \/ worker.cur \in gate.state /\ gate' = [gate EXCEPT !.port = @ \cup {worker.cur}]
    BY <1>7 DEF Refresh
  <2>2. CASE UNCHANGED gate
    BY <2>2
  <2>3. CASE worker.cur \in gate.state /\ gate' = [gate EXCEPT !.port = @ \cup {worker.cur}]
    BY <2>3 DEF GateType
  <2> QED
    BY <2>1, <2>2, <2>3
<1>8. CASE RefreshClear
  BY <1>8 DEF RefreshClear, GateType, At
<1>9. CASE CloseAll
  BY <1>9 DEF CloseAll, GateType, At
<1>10. CASE Absorb
  BY <1>10 DEF Absorb, GateType, At
<1>11. CASE Unpress
  <2> DEFINE phys == {PhysOf[c] : c \in worker.keys}
  <2>1. UNCHANGED gate \/ gate' = [gate EXCEPT !.port = @ \cup phys]
    BY <1>11 DEF Unpress
  <2>2. phys \in SUBSET Code
    BY <1>phys DEF WorkerType
  <2>3. CASE UNCHANGED gate
    BY <2>3
  <2>4. CASE gate' = [gate EXCEPT !.port = @ \cup phys]
    BY <2>2, <2>4 DEF GateType
  <2> QED
    BY <2>1, <2>3, <2>4
<1>12. CASE UnpressClear
  BY <1>12 DEF UnpressClear, GateType, At
<1>13. CASE ClosePorts
  BY <1>13 DEF ClosePorts, GateType, At
<1>14. CASE Restore
  BY <1>14 DEF Restore, GateType, At, WorkerType
<1>15. CASE ScopeOpen
  BY <1>15 DEF ScopeOpen, GateType, At, WorkerType
<1>16. CASE ScopeClose
  BY <1>16 DEF ScopeClose, GateType, At
<1>17. CASE ScopeClear
  BY <1>17 DEF ScopeClear, GateType, At, CodesAssumption
<1>18. CASE Leave
  BY <1>18 DEF Leave, GateType, At
<1>19. CASE CorrectClear
  BY <1>19 DEF CorrectClear, GateType, At
<1>20. CASE Calibrate
  BY <1>20 DEF Calibrate, GateType, At
<1>21. CASE CalibrateNext
  <2>1. \/ \E c \in worker.todo : gate' = [gate EXCEPT !.state = @ \ {c}]
        \/ gate' = [gate EXCEPT !.port = {}]
    BY <1>21 DEF CalibrateNext
  <2>2. ASSUME NEW c, gate' = [gate EXCEPT !.state = @ \ {c}] PROVE gate' \in GateType
    BY <2>2 DEF GateType
  <2>3. CASE gate' = [gate EXCEPT !.port = {}]
    BY <2>3 DEF GateType
  <2> QED
    BY <2>1, <2>2, <2>3
<1>22. CASE ToggleClose
  BY <1>22 DEF ToggleClose, GateType, At
<1>23. CASE ToggleClear
  BY <1>23 DEF ToggleClear, GateType, At
<1>24. CASE ToggleLow
  BY <1>24 DEF ToggleLow, GateType, At
<1>25. CASE NoticeLock
  BY <1>25 DEF NoticeLock, GateType, At
<1>26. CASE ExitRelease
  <2>1. \/ \E c \in worker.todo : gate' = [gate EXCEPT !.state = @ \ {c}]
        \/ UNCHANGED gate
    BY <1>26 DEF ExitRelease
  <2>2. ASSUME NEW c, gate' = [gate EXCEPT !.state = @ \ {c}] PROVE gate' \in GateType
    BY <2>2 DEF GateType
  <2>3. CASE UNCHANGED gate
    BY <2>3
  <2> QED
    BY <2>1, <2>2, <2>3
<1>27. ASSUME NEW k \in Toggle, RefreshToggle(k) PROVE gate' \in GateType
  <2>1. UNION {gate.hotkey[m][k] : m \in Modes} \in SUBSET Code
    BY DEF CodesAssumption, GateType
  <2> QED
    BY <1>27, <2>1 DEF RefreshToggle, GateType
<1>28. ASSUME NEW m \in Modes, ClearHotkeys(m) PROVE gate' \in GateType
  BY <1>28 DEF ClearHotkeys, GateType
<1>29. CASE RegisterHotkey
  <2>1. PICK r \in Remaps :
             gate' = [gate EXCEPT !.hotkey[worker.mode] = r.hotkey,
                                  !.identity[worker.mode] = r.identity]
    BY <1>29 DEF RegisterHotkey
  <2>2. r.hotkey \in [Code -> SUBSET Code] /\ r.identity \in SUBSET Code
    BY DEF ModesAssumption, Mapping
  <2>3. worker.mode \in Modes
    BY DEF WorkerType
  <2> QED
    BY <2>1, <2>2, <2>3 DEF GateType
<1>30. CASE UNCHANGED gate
  BY <1>30
<1>31. CASE CloseSession
  <2>1. PICK keys \in Clears[session.kind] : gate' = [gate EXCEPT !.state = @ \ keys]
    BY <1>31 DEF CloseSession
  <2> QED
    BY <2>1 DEF GateType
<1> QED
  BY <1>1, <1>2, <1>3, <1>4, <1>5, <1>6, <1>7, <1>8, <1>9, <1>10, <1>11, <1>12, <1>13,
     <1>14, <1>15, <1>16, <1>17, <1>18, <1>19, <1>20, <1>21, <1>22, <1>23, <1>24, <1>25,
     <1>26, <1>27, <1>28, <1>29, <1>30, <1>31, FailFrame
  DEF Next, User, HookStep, Begin, Background, Steps, ToggleStep, ToNormal, ToPassing, ToVisual, Pushup,
      OpenSession, HookSend, HookDecide, RefreshSend, SetMode, Snapshot, UnpressSend, Stroke, ScopeSend, LeaveMode, Correct, CorrectNext, ToggleSend, ToggleKey, LockScreen, UninstallHook

WorkerOK ==
    /\ worker \in WorkerType
    /\ worker.pc \in AtCode => worker.cur \in Code
    /\ worker.pc = "refresh" => worker.cur > 0

\* The worker keeps its type: a pass over the codes never goes beyond MaxCode,
\* and the lists it works through hold codes.
LEMMA WorkerKeepsType ==
    ASSUME CodesAssumption, ModesAssumption, TypeOK, Next
    PROVE  WorkerOK'
<1> USE DEF AtCode
<1> WorkerOK /\ gate.state \subseteq Code /\ gate.real \subseteq Code /\ mode \in Modes
  BY DEF TypeOK, GateType, WorkerOK
<1>idle. Idle \in WorkerType
  BY DEF Idle, WorkerType, WorkerPC, Op, CodesAssumption, ModesAssumption
<1>done. [Idle EXCEPT !.op = "done"] \in WorkerType /\ [Idle EXCEPT !.pc = "correct"] \in WorkerType
  BY <1>idle DEF WorkerType, WorkerPC, Op
<1>ret. ASSUME Return PROVE WorkerOK'
  BY <1>ret, <1>idle, <1>done DEF Return, WorkerOK, Idle
<1>goto. ASSUME NEW p \in WorkerPC \ ({"refresh"} \cup AtCode), Goto(p)
         PROVE  WorkerOK'
  BY <1>goto DEF Goto, WorkerOK, WorkerType
<1>key. Key \subseteq Code /\ MaxCode \in Nat /\ Toggle \subseteq Code /\ AltKey \in Code
        /\ TabKey \in Code
  BY DEF CodesAssumption, Code
<1>1. CASE UNCHANGED worker
  BY <1>1 DEF WorkerOK
<1>2. CASE SetMode
  BY <1>2, <1>ret DEF SetMode
<1>3. CASE Restore
  BY <1>3, <1>ret DEF Restore
<1>4. CASE RegisterHotkey
  BY <1>4, <1>ret DEF RegisterHotkey
<1>5. CASE CloseAll
  BY <1>5, <1>goto DEF CloseAll, WorkerPC
<1>6. CASE Snapshot
  BY ZenonT(60), <1>6 DEF Snapshot, WorkerOK, WorkerType, WorkerPC, Op, Idle
<1>7. CASE UnpressSend
  BY <1>7, <1>goto DEF UnpressSend, WorkerPC
<1>8. CASE UnpressClear
  BY <1>8, <1>goto DEF UnpressClear, WorkerPC
<1>9. CASE Stroke
  BY <1>9, <1>goto DEF Stroke, WorkerPC
<1>10. CASE ClosePorts
  BY <1>10, <1>goto DEF ClosePorts, WorkerPC
<1>11. CASE ScopeOpen
  BY <1>11, <1>goto DEF ScopeOpen, WorkerPC
<1>12. CASE ScopeSend
  BY <1>12, <1>goto DEF ScopeSend, WorkerPC
<1>13. CASE Leave
  BY <1>13, <1>goto DEF Leave, WorkerPC
<1>14. CASE Correct
  BY <1>14 DEF Correct, WorkerOK, WorkerType, WorkerPC, Op, Idle
<1>15. CASE CorrectClear
  BY <1>15, <1>goto DEF CorrectClear, WorkerPC
<1>end. EndOfScope \in WorkerType /\ EndOfScope.pc \notin {"refresh"} \cup AtCode
  <2>1. {AltKey} \in SUBSET Code /\ {} \in SUBSET Code
    BY <1>key
  <2> DEFINE p  == IF session.kind = "switch" THEN "scopeOpen" ELSE "leave"
             ks == IF session.kind = "switch" THEN {AltKey} ELSE {}
  <2>2. p \in WorkerPC \ ({"refresh"} \cup AtCode) /\ ks \in SUBSET Code
    BY <2>1 DEF WorkerPC
  <2>3. EndOfScope = [Idle EXCEPT !.op = "session", !.pc = p, !.keys = ks]
    BY DEF EndOfScope
  <2> HIDE DEF p, ks
  <2>4. EndOfScope \in WorkerType /\ EndOfScope.pc = p
    BY <2>2, <2>3, <1>idle DEF WorkerType, Op
  <2> QED
    BY <2>2, <2>4
<1>16. CASE Fail
  <2>1. CASE FailCaught
    BY <2>1, <1>goto DEF FailCaught, WorkerPC
  <2>2. CASE FailThrough
    <3>1. CASE worker' = [Idle EXCEPT !.pc = "ended"]
      BY <3>1, <1>idle DEF WorkerOK, WorkerType, WorkerPC, Idle
    <3>2. CASE worker' = EndOfScope
      BY <3>2, <1>end DEF WorkerOK
    <3> QED
      BY <2>2, <3>1, <3>2 DEF FailThrough
  <2>3. CASE FailOpen
    BY <2>3, <1>goto DEF FailOpen, WorkerPC
  <2>4. CASE FailScope
    <3>1. CASE Goto("leave")
      BY <3>1, <1>goto DEF WorkerPC
    <3>2. CASE worker' = [worker EXCEPT !.pc = "scopeOpen", !.press = FALSE]
      BY <3>2 DEF WorkerOK, WorkerType, WorkerPC
    <3> QED
      BY <2>4, <3>1, <3>2 DEF FailScope
  <2>5. CASE FailCalibrate
    BY <2>5, <1>ret DEF FailCalibrate
  <2>6. CASE FailExit
    <3>1. PICK c \in worker.todo : worker' = [worker EXCEPT !.todo = @ \ {c}]
      BY <2>6 DEF FailExit
    <3> QED
      BY <3>1 DEF WorkerOK, WorkerType
  <2> QED
    BY <1>16, <2>1, <2>2, <2>3, <2>4, <2>5, <2>6 DEF Fail
<1>17. CASE ToggleSend
  BY <1>17 DEF ToggleSend, At, Goto, WorkerOK, WorkerType, WorkerPC
<1>18. CASE ToggleClose
  BY <1>18 DEF ToggleClose, At, Goto, WorkerOK, WorkerType, WorkerPC
<1>19. CASE ToggleKey
  BY <1>19, <1>goto DEF ToggleKey, WorkerPC
<1>20. CASE ToggleClear
  BY <1>20, <1>goto DEF ToggleClear, WorkerPC
<1>21. CASE ScopeClear
  <2>1. worker' = [Idle EXCEPT !.op = "pushup", !.pc = "snapshot", !.keys = {TabKey}]
    BY <1>21 DEF ScopeClear
  <2>2. worker' \in WorkerType
    BY ZenonT(60), <2>1, <1>idle, <1>key DEF WorkerType, WorkerPC, Op
  <2> QED
    BY <2>1, <2>2 DEF WorkerOK, Idle
<1>22. CASE LeaveMode
  BY <1>22, <1>idle, <1>key DEF LeaveMode, WorkerOK, WorkerType, WorkerPC, Op, Idle
<1>23. CASE ToggleLow
  BY <1>23, <1>idle, <1>key DEF ToggleLow, WorkerOK, WorkerType, WorkerPC, Op, Idle
<1>24. CASE RefreshSend
  BY <1>24 DEF RefreshSend, At, Goto, WorkerOK, WorkerType, WorkerPC, Op, Idle
<1>25. CASE RefreshClear
  <2>1. worker.cur + 1 \in 1..(MaxCode + 1)
    BY <1>25, <1>key DEF RefreshClear, At, WorkerOK, Code
  <2> QED
    <3>1. worker' = [worker EXCEPT !.pc = "refresh", !.cur = @ + 1]
      BY <1>25 DEF RefreshClear
    <3>2. worker'.cur = worker.cur + 1 /\ worker'.pc = "refresh"
      BY <3>1 DEF WorkerOK, WorkerType
    <3> DEFINE next == worker.cur + 1
    <3>3. next \in 0..(MaxCode + 1) /\ worker' = [worker EXCEPT !.pc = "refresh", !.cur = next]
      BY <3>1, <2>1, <1>key DEF WorkerOK, WorkerType
    <3> HIDE DEF next
    <3>4. worker' \in WorkerType
      BY <3>3 DEF WorkerOK, WorkerType, WorkerPC
    <3> QED
      BY <3>2, <3>4, <2>1 DEF WorkerOK
<1>26. CASE Refresh
  <2>1. CASE worker.cur > MaxCode
    BY <1>26, <2>1, <1>goto DEF Refresh, WorkerPC
  <2>2. CASE worker.cur \in gate.state /\ Goto("refreshSend")
    BY <2>2 DEF Goto, WorkerOK, WorkerType, WorkerPC
  <2>3. CASE worker.cur \leq MaxCode /\ worker' = [worker EXCEPT !.cur = @ + 1]
    <3>1. worker.cur + 1 \in 1..(MaxCode + 1)
      BY <1>26, <2>3, <1>key DEF Refresh, At, WorkerOK, WorkerType
    <3>2. worker'.cur = worker.cur + 1 /\ worker'.pc = "refresh"
      BY <1>26, <2>3 DEF Refresh, At, WorkerOK, WorkerType
    <3> DEFINE next == worker.cur + 1
    <3>3. next \in 0..(MaxCode + 1) /\ worker' = [worker EXCEPT !.cur = next]
      BY <2>3, <3>1, <1>key DEF WorkerOK, WorkerType
    <3> HIDE DEF next
    <3>4. worker' \in WorkerType
      BY <3>3 DEF WorkerOK, WorkerType
    <3> QED
      BY <3>1, <3>2, <3>4 DEF WorkerOK
  <2>4. worker.cur \in Int /\ MaxCode \in Int
    BY <1>key DEF WorkerOK, WorkerType
  <2> QED
    BY <1>26, <2>1, <2>2, <2>3, <2>4 DEF Refresh
<1>27. CASE Absorb
  <2>1. CASE worker' = [worker EXCEPT !.pc = "setMode"]
    BY <2>1, <1>goto DEF Goto, WorkerPC
  <2>2. CASE worker' = Idle
    BY <2>2, <1>idle DEF WorkerOK, Idle
  <2>3. CASE worker' = [worker EXCEPT !.pc = "scopeOpen", !.press = TRUE, !.keys = {AltKey}]
    BY ZenonT(60), <2>3, <1>key DEF WorkerOK, WorkerType, WorkerPC
  <2> QED
    BY <1>27, <2>1, <2>2, <2>3 DEF Absorb
<1>28. CASE Unpress
  <2>1. ASSUME NEW c \in worker.todo, NEW p \in {"unpressSend", "unpressClear"},
               worker' = [worker EXCEPT !.cur = c, !.todo = @ \ {c}, !.pc = p]
        PROVE  WorkerOK'
    <3>1. c \in 0..(MaxCode + 1)
      BY <1>key DEF WorkerOK, WorkerType, Code
    <3>2. worker' \in WorkerType
      BY <2>1, <3>1 DEF WorkerOK, WorkerType, WorkerPC
    <3> QED
      BY <2>1, <3>2 DEF WorkerOK, WorkerType
  <2>2. CASE Goto("stroke")
    BY <2>2, <1>goto DEF WorkerPC
  <2> QED
    BY <1>28, <2>1, <2>2 DEF Unpress
<1>29. CASE CorrectNext
  <2>1. ASSUME NEW c \in worker.todo, NEW p \in {"correctNext", "correctClear"},
               worker' = [worker EXCEPT !.cur = c, !.todo = @ \ {c}, !.pc = p]
        PROVE  WorkerOK'
    <3>1. c \in 0..(MaxCode + 1)
      BY <1>key DEF WorkerOK, WorkerType, Code
    <3>2. worker' \in WorkerType
      BY <2>1, <3>1 DEF WorkerOK, WorkerType, WorkerPC
    <3> QED
      BY <2>1, <3>2 DEF WorkerOK, WorkerType
  <2>2. CASE worker' = Idle
    BY <2>2, <1>idle DEF WorkerOK, Idle
  <2> QED
    BY <1>29, <2>1, <2>2 DEF CorrectNext
<1>30. CASE ScopeClose
  <2>1. CASE worker' = [worker EXCEPT !.pc = "leave"]
    BY <2>1, <1>goto DEF Goto, WorkerPC
  <2>2. CASE worker' = [worker EXCEPT !.pc = "scopeClear"]
    BY <2>2, <1>goto DEF Goto, WorkerPC
  <2>3. CASE worker' = [worker EXCEPT !.pc = "scopeOpen", !.press = FALSE]
    BY <2>3 DEF WorkerOK, WorkerType, WorkerPC
  <2> QED
    BY <1>30, <2>1, <2>2, <2>3 DEF ScopeClose
<1>31. CASE Calibrate
  <2>1. CASE Return
    BY <2>1, <1>ret
  <2>2. CASE worker' = [worker EXCEPT !.pc = "calibrateNext", !.todo = gate.state]
    BY <2>2 DEF WorkerOK, WorkerType, WorkerPC
  <2> QED
    BY <1>31, <2>1, <2>2 DEF Calibrate
<1>32. CASE CalibrateNext
  <2>1. CASE Return
    BY <2>1, <1>ret
  <2>2. ASSUME NEW c, worker' = [worker EXCEPT !.todo = @ \ {c}] PROVE WorkerOK'
    BY <2>2 DEF WorkerOK, WorkerType
  <2> QED
    BY <1>32, <2>1, <2>2 DEF CalibrateNext
<1>33. CASE ExitRelease
  <2>1. CASE Goto("exited")
    BY <2>1, <1>goto DEF WorkerPC
  <2>2. ASSUME NEW c, worker' = [worker EXCEPT !.todo = @ \ {c}] PROVE WorkerOK'
    BY <2>2 DEF WorkerOK, WorkerType
  <2> QED
    BY <1>33, <2>1, <2>2 DEF ExitRelease
<1>34. ASSUME NEW k \in Toggle, RefreshToggle(k) PROVE WorkerOK'
  <2>1. UNION {gate.hotkey[m][k] : m \in Modes} \in SUBSET Code
    BY <1>key DEF TypeOK, GateType
  <2> QED
    <3> DEFINE targets == UNION {gate.hotkey[m][k] : m \in Modes}
    <3>1. worker' = [Idle EXCEPT !.op = "toggle", !.pc = "toggleSend", !.keys = targets, !.cur = k]
      BY <1>34 DEF RefreshToggle
    <3>2. k \in 0..(MaxCode + 1)
      BY <1>key DEF Code
    <3> HIDE DEF targets
    <3>3. worker' \in WorkerType
      BY <2>1, <3>1, <3>2, <1>idle DEF WorkerType, WorkerPC, Op, targets
    <3> QED
      BY <3>1, <3>3 DEF WorkerOK, Idle
<1>35. ASSUME NEW m \in Modes, ToNormal(m) PROVE WorkerOK'
  <2> DEFINE first == 1
  <2>1. worker' = [Idle EXCEPT !.op = "to_normal", !.pc = "refresh", !.cur = first, !.mode = m]
    BY <1>35 DEF ToNormal
  <2>2. first \in 0..(MaxCode + 1)
    BY <1>key
  <2> HIDE DEF first
  <2>3. worker' \in WorkerType
    BY <2>1, <2>2, <1>idle DEF WorkerType, WorkerPC, Op
  <2> QED
    BY <2>1, <2>3 DEF WorkerOK, Idle, first
<1>36. ASSUME NEW m \in Modes, ToPassing(m) PROVE WorkerOK'
  BY <1>36, <1>idle, <1>key DEF ToPassing, WorkerOK, WorkerType, WorkerPC, Op, Idle
<1>37. ASSUME NEW m \in Modes, ToVisual(m) PROVE WorkerOK'
  BY <1>37, <1>idle, <1>key DEF ToVisual, WorkerOK, WorkerType, WorkerPC, Op, Idle
<1>38. ASSUME NEW m \in Modes, ClearHotkeys(m) PROVE WorkerOK'
  BY ZenonT(60), <1>38, <1>idle, <1>key DEF ClearHotkeys, WorkerOK, WorkerType, WorkerPC, Op, Idle
<1>39. ASSUME NEW keys \in Macros, Pushup(keys) PROVE WorkerOK'
  BY <1>39, <1>idle, <1>key DEF Pushup, CodesAssumption, WorkerOK, WorkerType, WorkerPC, Op, Idle
<1>40. ASSUME NEW kind, OpenSession(kind) PROVE WorkerOK'
  <2> DEFINE first == 1
  <2>1. worker' = [Idle EXCEPT !.op = "session", !.pc = "refresh", !.cur = first]
    BY <1>40 DEF OpenSession
  <2>2. first \in 0..(MaxCode + 1)
    BY <1>key
  <2> HIDE DEF first
  <2>3. worker' \in WorkerType
    BY <2>1, <2>2, <1>idle DEF WorkerType, WorkerPC, Op
  <2> QED
    BY <2>1, <2>3 DEF WorkerOK, Idle, first
<1>41. CASE CloseSession
  BY <1>41, <1>end DEF CloseSession, WorkerOK
<1>42. CASE UninstallHook
  BY <1>42, <1>idle, <1>key DEF UninstallHook, WorkerOK, WorkerType, WorkerPC, Op, Idle
<1> QED
  BY <1>1, <1>2, <1>3, <1>4, <1>5, <1>6, <1>7, <1>8, <1>9, <1>10, <1>11, <1>12, <1>13,
     <1>14, <1>15, <1>16, <1>17, <1>18, <1>19, <1>20, <1>21, <1>22, <1>23, <1>24, <1>25,
     <1>26, <1>27, <1>28, <1>29, <1>30, <1>31, <1>32, <1>33, <1>34, <1>35, <1>36, <1>37,
     <1>38, <1>39, <1>40, <1>41, <1>42
  DEF Next, User, HookStep, Begin, Background, Steps, ToggleStep, UserKey, Expire,
      HookLookup, HookSend, HookVirtual, HookClose, HookRecord, HookDecide, LockScreen, NoticeLock

\* A step of the hook or a SendInput changes what the applications take to be
\* pressed, among the physical keys.
LEMMA OthersKeepType ==
    ASSUME CodesAssumption, ModesAssumption, TypeOK, Next
    PROVE  /\ down' \subseteq Key /\ os' \subseteq Key
           /\ mode' \in Modes
           /\ env' \in EnvType
           /\ hook' \in HookType /\ (hook'.pc # "idle" => hook'.key \in Key)
           /\ session' \in SessionType
<1> worker \in WorkerType /\ hook \in HookType /\ gate \in GateType /\ os \subseteq Key
  BY DEF TypeOK
<1> worker.keys \subseteq Code /\ hook.target \subseteq Code /\ worker.todo \subseteq Code
    /\ worker.mode \in Modes /\ gate.absorb \in BOOLEAN
  BY DEF WorkerType, HookType, GateType
<1>1. down' \subseteq Key
  <2>1. ASSUME NEW k \in Key, NEW press \in BOOLEAN, UserKey(k, press) PROVE down' \subseteq Key
    BY <2>1 DEF UserKey, Set, TypeOK
  <2>2. UNCHANGED down \/ \E k \in Key, press \in BOOLEAN : UserKey(k, press)
    BY FailFrame DEF Next, User, HookStep, Begin, Background, Steps, ToggleStep, Expire, HookLookup,
        HookSend, HookVirtual, HookClose, HookRecord, HookDecide, ToNormal, ToPassing,
        ToVisual, Refresh, RefreshSend, RefreshClear, CloseAll, Absorb, SetMode, Pushup,
        Snapshot, Unpress, UnpressSend, UnpressClear, Stroke, ClosePorts, Restore,
        OpenSession, CloseSession, ScopeOpen, ScopeSend, ScopeClose, ScopeClear, Leave,
        LeaveMode, Correct, CorrectNext, CorrectClear, Calibrate, CalibrateNext,
        RefreshToggle, ToggleSend, ToggleClose, ToggleKey, ToggleClear, ToggleLow,
        LockScreen, NoticeLock, UninstallHook, ExitRelease, ClearHotkeys, RegisterHotkey
  <2>3. down \subseteq Key
    BY DEF TypeOK
  <2> QED
    BY <2>1, <2>2, <2>3
<1>2. os' \subseteq Key
  <2>1. ASSUME NEW k \in Key, NEW press \in BOOLEAN, UserKey(k, press) PROVE os' \subseteq Key
    BY <2>1 DEF UserKey, Set
  <2>2. CASE HookSend
    BY <2>2, SendInputType DEF HookSend
  <2>3. CASE HookDecide
    BY <2>3 DEF HookDecide, Set, TypeOK
  <2>4. ASSUME NEW cs \in SUBSET Code, NEW press, Send(cs, press) PROVE os' \subseteq Key
    BY <2>4, SendInputType DEF Send
  <2>5. CASE RefreshSend
    BY <2>4, <2>5 DEF RefreshSend, At, TypeOK, AtCode
  <2>6. CASE UnpressSend
    BY <2>4, <2>6 DEF UnpressSend, At, TypeOK, AtCode
  <2>7. CASE Stroke \/ ToggleSend
    BY <2>4, <2>7 DEF Stroke, ToggleSend
  <2>8. CASE ScopeSend
    BY <2>4, <2>8 DEF ScopeSend
  <2>9. CASE CalibrateNext
    BY <2>4, <2>9 DEF CalibrateNext
  <2>10. CASE ToggleKey
    BY <2>4, <2>10 DEF ToggleKey, At, TypeOK, AtCode
  <2>11. CASE ExitRelease
    BY <2>11, SendInputType DEF ExitRelease
  <2>12. CASE LockScreen
    BY <2>12 DEF LockScreen
  <2> QED
    BY <2>1, <2>2, <2>3, <2>4, <2>5, <2>6, <2>7, <2>8, <2>9, <2>10, <2>11, <2>12, FailFrame
    DEF Next, User, HookStep, Begin, Background, Steps, ToggleStep, Expire, HookLookup,
        HookVirtual, HookClose, HookRecord, ToNormal, ToPassing, ToVisual, Refresh,
        RefreshClear, CloseAll, Absorb, SetMode, Pushup, Snapshot, Unpress, UnpressClear,
        ClosePorts, Restore, OpenSession, CloseSession, ScopeOpen, ScopeClose, ScopeClear,
        Leave, LeaveMode, Correct, CorrectNext, CorrectClear, Calibrate,
        RefreshToggle, ToggleClose, ToggleClear, ToggleLow, NoticeLock, UninstallHook,
        ClearHotkeys, RegisterHotkey
<1>3. mode' \in Modes
  <2>1. CASE SetMode
    BY <2>1 DEF SetMode
  <2>2. ASSUME NEW kind, OpenSession(kind) PROVE mode' \in Modes
    BY <2>2 DEF OpenSession, Start, ModesAssumption, TypeOK
  <2>3. CASE LeaveMode
    BY <2>3 DEF LeaveMode, SessionType, TypeOK
  <2> QED
    BY <2>1, <2>2, <2>3, FailFrame
    DEF TypeOK, UserKey, Next, User, HookStep, Begin, Background, Steps, ToggleStep, Expire, HookLookup,
        HookSend, HookVirtual, HookClose, HookRecord, HookDecide, ToNormal, ToPassing,
        ToVisual, Refresh, RefreshSend, RefreshClear, CloseAll, Absorb, Pushup, Snapshot,
        Unpress, UnpressSend, UnpressClear, Stroke, ClosePorts, Restore, CloseSession,
        ScopeOpen, ScopeSend, ScopeClose, ScopeClear, Leave, Correct, CorrectNext,
        CorrectClear, Calibrate, CalibrateNext, RefreshToggle, ToggleSend,
        ToggleClose, ToggleKey, ToggleClear, ToggleLow, LockScreen, NoticeLock,
        UninstallHook, ExitRelease, ClearHotkeys, RegisterHotkey
<1>4. env' \in EnvType
  <2> env \in EnvType /\ session \in SessionType
    BY DEF TypeOK
  <2>1. CASE LockScreen \/ NoticeLock
    BY <2>1 DEF LockScreen, NoticeLock, EnvType
  <2>2. CASE UninstallHook
    <3>1. \A m \in Modes, c \in Code : gate.hotkey[m][c] \in SUBSET Code
      BY DEF GateType
    <3>2. \A k \in Key : k \in Code /\ RepSet(k) \subseteq Code
      BY DEF CodesAssumption, RepSet
    <3>3. down \subseteq Key /\ Toggle \subseteq Key /\ \A c \in Code : PhysOf[c] \in Key
      BY DEF TypeOK, CodesAssumption
    <3>4. HeldTargets \subseteq Key
      BY <3>1, <3>2, <3>3 DEF HeldTargets
    <3> QED
      BY <2>2, <3>4 DEF UninstallHook, EnvType
  <2>3. CASE CloseSession
    <3>1. PICK keys : env' = [env EXCEPT !.lost = @ \cup (os \cap keys)]
      BY <2>3 DEF CloseSession
    <3> QED
      BY <3>1 DEF EnvType
  <2>4. CASE Absorb \/ SetMode
    BY <2>4 DEF Absorb, SetMode, EnvType
  <2>5. CASE LeaveMode
    BY <2>5 DEF LeaveMode, EnvType
  <2>6. CASE Fail
    <3>1. CASE FailScope
      BY <3>1 DEF FailScope, EnvType, CodesAssumption
    <3> QED
      BY <2>6, <3>1 DEF Fail, FailCaught, FailThrough, FailOpen, FailCalibrate, FailExit
  <2> QED
    BY <2>1, <2>2, <2>3, <2>4, <2>5, <2>6
    DEF UserKey, Next, User, HookStep, Begin, Background, Steps, ToggleStep, Expire, HookLookup,
        HookSend, HookVirtual, HookClose, HookRecord, HookDecide, ToNormal, ToPassing,
        ToVisual, Refresh, RefreshSend, RefreshClear, CloseAll, Pushup,
        Snapshot, Unpress, UnpressSend, UnpressClear, Stroke, ClosePorts, Restore,
        OpenSession, ScopeOpen, ScopeSend, ScopeClose, ScopeClear, Leave,
        Correct, CorrectNext, CorrectClear, Calibrate, CalibrateNext,
        RefreshToggle, ToggleSend, ToggleClose, ToggleKey, ToggleClear, ToggleLow,
        ExitRelease, ClearHotkeys, RegisterHotkey
<1>5. hook' \in HookType /\ (hook'.pc # "idle" => hook'.key \in Key)
  <2> hook.pc # "idle" => hook.key \in Key
    BY DEF TypeOK
  <2>1. ASSUME NEW k \in Key, NEW press \in BOOLEAN, UserKey(k, press)
        PROVE  hook' \in HookType /\ (hook'.pc # "idle" => hook'.key \in Key)
    <3>1. CASE UNCHANGED hook
      BY <3>1
    <3>2. CASE hook' = [NoHook EXCEPT !.pc = "lookup", !.key = k, !.press = press, !.mode = mode]
      BY <3>2 DEF TypeOK, NoHook, HookType, HookPC, ModesAssumption
    <3> QED
      BY <2>1, <3>1, <3>2 DEF UserKey
  <2>2. CASE HookLookup
    <3>1. hook.key \in Code /\ (RepSet(hook.key) # {} => RepOf[hook.key] \in Code)
      BY <2>2 DEF HookLookup, CodesAssumption, RepSet
    <3>2. \A c \in Code : gate.hotkey[hook.mode][c] \in SUBSET Code
      BY DEF GateType, HookType
    <3>3. \E t \in SUBSET Code, p \in {"record", "send"} :
             hook' = [hook EXCEPT !.pc = p, !.target = t]
      BY ZenonT(60), <2>2, <3>1, <3>2 DEF HookLookup
    <3>4. PICK t \in SUBSET Code, p \in {"record", "send"} :
               hook' = [hook EXCEPT !.pc = p, !.target = t]
      BY <3>3
    <3>5. p \in HookPC
      BY DEF HookPC
    <3>6. hook' \in HookType
      BY <3>4, <3>5 DEF HookType
    <3>7. hook'.key = hook.key
      BY <3>4 DEF HookType
    <3> QED
      BY <2>2, <3>6, <3>7 DEF HookLookup
  <2>3. CASE HookSend \/ HookVirtual \/ HookRecord
    <3>1. PICK p \in HookPC : hook' = [hook EXCEPT !.pc = p]
      BY <2>3 DEF HookSend, HookVirtual, HookRecord, HookPC
    <3>2. hook' \in HookType /\ hook'.key = hook.key
      BY <3>1 DEF HookType
    <3> QED
      BY <2>3, <3>2 DEF HookSend, HookVirtual, HookRecord
  <2>4. CASE HookClose \/ HookDecide
    <3>1. hook' = NoHook
      BY <2>4 DEF HookClose, HookDecide
    <3> QED
      BY <3>1 DEF NoHook, HookType, HookPC, ModesAssumption
  <2>5. CASE UNCHANGED hook
    BY <2>5
  <2>6. \/ \E k \in Key, press \in BOOLEAN : UserKey(k, press)
        \/ HookLookup \/ HookSend \/ HookVirtual \/ HookRecord \/ HookClose \/ HookDecide
        \/ UNCHANGED hook
    BY FailFrame DEF Next, User, HookStep, Begin, Background, Steps, ToggleStep, Expire, ToNormal,
        ToPassing, ToVisual, Refresh, RefreshSend, RefreshClear, CloseAll, Absorb, SetMode,
        Pushup, Snapshot, Unpress, UnpressSend, UnpressClear, Stroke, ClosePorts, Restore,
        OpenSession, CloseSession, ScopeOpen, ScopeSend, ScopeClose, ScopeClear, Leave,
        LeaveMode, Correct, CorrectNext, CorrectClear, Calibrate, CalibrateNext,
        RefreshToggle, ToggleSend, ToggleClose, ToggleKey, ToggleClear, ToggleLow,
        UninstallHook, ExitRelease, ClearHotkeys, RegisterHotkey, LockScreen, NoticeLock
  <2> QED
    BY <2>1, <2>2, <2>3, <2>4, <2>5, <2>6
<1>6. session' \in SessionType
  <2>1. ASSUME NEW kind \in SessionKind, OpenSession(kind)
        PROVE  session' \in SessionType
    BY <2>1 DEF OpenSession, TypeOK, GateType, SessionType
  <2>2. CASE LeaveMode
    BY <2>2 DEF LeaveMode, NoSession, SessionType, ModesAssumption
  <2>3. CASE UNCHANGED session
    BY <2>3 DEF TypeOK
  <2>4. ASSUME NEW t \in BOOLEAN, session' = [session EXCEPT !.thrown = t]
        PROVE  session' \in SessionType
    BY <2>4 DEF TypeOK, SessionType
  <2>5. CASE ScopeClose
    <3>1. \E t \in BOOLEAN : session' = [session EXCEPT !.thrown = t]
      BY <2>5 DEF ScopeClose
    <3> QED
      BY <2>4, <3>1
  <2>6. CASE Fail
    <3>1. (\E t \in BOOLEAN : session' = [session EXCEPT !.thrown = t]) \/ UNCHANGED session
      BY <2>6 DEF Fail, FailCaught, FailThrough, FailOpen, FailScope, FailCalibrate, FailExit
    <3> QED
      BY <2>3, <2>4, <3>1
  <2> QED
    BY <2>1, <2>2, <2>3, <2>5, <2>6
    DEF Next, User, HookStep, Begin, Background, Steps, ToggleStep, Expire, HookLookup,
        HookSend, HookVirtual, HookClose, HookRecord, HookDecide, ToNormal, ToPassing,
        ToVisual, Refresh, RefreshSend, RefreshClear, CloseAll, Absorb, SetMode, Pushup,
        Snapshot, Unpress, UnpressSend, UnpressClear, Stroke, ClosePorts, Restore,
        CloseSession, ScopeOpen, ScopeSend, ScopeClear, Leave, Correct,
        CorrectNext, CorrectClear, Calibrate, CalibrateNext, RefreshToggle,
        ToggleSend, ToggleClose, ToggleKey, ToggleClear, ToggleLow, LockScreen, NoticeLock,
        UninstallHook, ExitRelease, ClearHotkeys, RegisterHotkey, UserKey
<1> QED
  BY <1>1, <1>2, <1>3, <1>4, <1>5, <1>6

LEMMA TypeStep == TypeOK /\ [Next]_vars => TypeOK'
<1> SUFFICES ASSUME TypeOK, [Next]_vars PROVE TypeOK'
  OBVIOUS
<1>1. CASE Next
  BY <1>1, CodesAssumption, ModesAssumption, GateKeepsType, WorkerKeepsType,
     OthersKeepType DEF TypeOK, WorkerOK
<1>2. CASE UNCHANGED vars
  BY <1>2 DEF vars, TypeOK
<1> QED
  BY <1>1, <1>2

\* In every execution the bit arrays hold codes, the threads are at steps of the
\* code and a pass over the codes stops after the last one.
THEOREM TypeCorrect == Spec => []TypeOK
<1>1. Init => TypeOK
  BY CodesAssumption, ModesAssumption, InitType
<1> QED
  BY <1>1, TypeStep, PTL DEF Spec

-----------------------------------------------------------------------------
(***************************************************************************)
(* When the threads are at rest: no port is left open, and the modes that  *)
(* block the key messages do block them.                                   *)
(***************************************************************************)
(***************************************************************************)
(* Ports.  None is left open as long as SendInput does not fail and the    *)
(* macros push up physical keys.                                           *)
(***************************************************************************)
\* What the theorem asks of the environment and of the bound functions.
PhysicalMacros == ~MayFail /\ \A keys \in Macros : keys \subseteq Key

\* The ports that the hook call in progress has opened and will close.
HookPorts == IF hook.pc \in {"send", "virtual", "close"} THEN hook.target ELSE {}

\* The ports that the operation of the worker in progress will close.
ClosesAll  == {"refresh", "refreshSend", "refreshClear", "closeAll", "scopeSend", "scopeClose",
               "calibrateNext"}
ClosesKeys == {"stroke", "closePorts", "toggleSend", "toggleClose"}
WorkerPorts ==
    IF worker.pc \in ClosesAll THEN Code
    ELSE IF worker.pc \in ClosesKeys THEN worker.keys ELSE {}

Accounted  == gate.port \subseteq HookPorts \cup WorkerPorts
PushupKeys ==
    worker.pc \in {"snapshot", "unpress", "unpressSend", "unpressClear"}
        => worker.keys \subseteq Key

PortInv == TypeOK /\ Accounted /\ PushupKeys

\* A pushup is given physical keys, and keeps them until it opens their ports.
LEMMA PushupKeysKept ==
    ASSUME PhysicalMacros, CodesAssumption, PortInv, Next
    PROVE  PushupKeys'
<1> worker \in WorkerType /\ PushupKeys
  BY DEF PortInv, TypeOK
<1> USE DEF PushupKeys
<1>1. ASSUME NEW keys \in Macros, Pushup(keys) PROVE PushupKeys'
  BY <1>1 DEF Pushup, Idle, PhysicalMacros
<1>2. CASE ScopeClear
  BY <1>2 DEF ScopeClear, Idle, CodesAssumption
<1>3. ASSUME NEW p \in {"unpress", "unpressSend", "unpressClear"}, worker'.pc = p,
             worker'.keys = worker.keys,
             worker.pc \in {"snapshot", "unpress", "unpressSend", "unpressClear"}
      PROVE  PushupKeys'
  BY <1>3
<1>4. CASE Snapshot \/ Unpress \/ UnpressSend \/ UnpressClear
  <2>1. CASE Snapshot
    BY <2>1, <1>3 DEF Snapshot, At, WorkerType
  <2>2. CASE Unpress
    BY <2>2, <1>3 DEF Unpress, At, Goto, WorkerType
  <2>3. CASE UnpressSend
    BY <2>3, <1>3 DEF UnpressSend, At, Goto, WorkerType
  <2>4. CASE UnpressClear
    BY <2>4, <1>3 DEF UnpressClear, At, Goto, WorkerType
  <2> QED
    BY <1>4, <2>1, <2>2, <2>3, <2>4
<1>5. CASE UNCHANGED worker
  BY <1>5
<1>6. CASE Return
  BY <1>6 DEF Return, Idle
<1>7. ASSUME worker'.pc \notin {"snapshot", "unpress", "unpressSend", "unpressClear"}
      PROVE  PushupKeys'
  BY <1>7
<1>8. CASE RefreshSend \/ RefreshClear \/ CloseAll \/ Stroke \/ ClosePorts \/ ScopeOpen
            \/ ScopeSend \/ Leave \/ LeaveMode \/ Correct \/ CorrectClear
            \/ ToggleSend \/ ToggleClose \/ ToggleKey \/ ToggleClear
            \/ ToggleLow \/ UninstallHook
  <2>1. CASE RefreshSend
    BY <2>1, <1>7 DEF RefreshSend, At, Goto, WorkerType, Idle
  <2>2. CASE RefreshClear
    BY <2>2, <1>7 DEF RefreshClear, At, Goto, WorkerType, Idle
  <2>3. CASE CloseAll
    BY <2>3, <1>7 DEF CloseAll, At, Goto, WorkerType, Idle
  <2>4. CASE Stroke
    BY <2>4, <1>7 DEF Stroke, At, Goto, WorkerType, Idle
  <2>5. CASE ClosePorts
    BY <2>5, <1>7 DEF ClosePorts, At, Goto, WorkerType, Idle
  <2>6. CASE ScopeOpen
    BY <2>6, <1>7 DEF ScopeOpen, At, Goto, WorkerType, Idle
  <2>7. CASE ScopeSend
    BY <2>7, <1>7 DEF ScopeSend, At, Goto, WorkerType, Idle
  <2>8. CASE Leave
    BY <2>8, <1>7 DEF Leave, At, Goto, WorkerType, Idle
  <2>9. CASE LeaveMode
    BY <2>9, <1>7 DEF LeaveMode, At, Goto, WorkerType, Idle
  <2>10. CASE Correct
    BY <2>10, <1>7 DEF Correct, At, Goto, WorkerType, Idle
  <2>11. CASE CorrectClear
    BY <2>11, <1>7 DEF CorrectClear, At, Goto, WorkerType, Idle
  <2>12. CASE ToggleSend
    BY <2>12, <1>7 DEF ToggleSend, At, Goto, WorkerType, Idle
  <2>13. CASE ToggleClose
    BY <2>13, <1>7 DEF ToggleClose, At, Goto, WorkerType, Idle
  <2>14. CASE ToggleKey
    BY <2>14, <1>7 DEF ToggleKey, At, Goto, WorkerType, Idle
  <2>15. CASE ToggleClear
    BY <2>15, <1>7 DEF ToggleClear, At, Goto, WorkerType, Idle
  <2>16. CASE ToggleLow
    BY <2>16, <1>7 DEF ToggleLow, At, Goto, WorkerType, Idle
  <2>17. CASE UninstallHook
    BY <2>17, <1>7 DEF UninstallHook, At, Goto, WorkerType, Idle
  <2> QED
    BY <1>8, <2>1, <2>2, <2>3, <2>4, <2>5, <2>6, <2>7, <2>8, <2>9, <2>10, <2>11, <2>12, <2>13,
       <2>14, <2>15, <2>16, <2>17
<1>9. CASE Refresh \/ Absorb \/ ScopeClose \/ CloseSession
  <2>1. CASE Refresh
    <3>1. CASE Goto("closeAll")
      BY <2>1, <3>1, <1>7 DEF Refresh, At, Goto, WorkerType, Idle
    <3>2. CASE Goto("refreshSend")
      BY <2>1, <3>2, <1>7 DEF Refresh, At, Goto, WorkerType, Idle
    <3>3. CASE worker' = [worker EXCEPT !.cur = @ + 1]
      BY <2>1, <3>3, <1>7 DEF Refresh, At, Goto, WorkerType, Idle
    <3> QED
      BY <2>1, <3>1, <3>2, <3>3 DEF Refresh
  <2>2. CASE Absorb
    <3>1. CASE worker' = [worker EXCEPT !.pc = "setMode"]
      BY <2>2, <3>1, <1>7 DEF Absorb, At, Goto, WorkerType, Idle
    <3>2. CASE worker' = Idle
      BY <2>2, <3>2, <1>7 DEF Absorb, At, Goto, WorkerType, Idle
    <3>3. CASE worker' = [worker EXCEPT !.pc = "scopeOpen", !.press = TRUE, !.keys = {AltKey}]
      BY <2>2, <3>3, <1>7 DEF Absorb, At, Goto, WorkerType, Idle
    <3> QED
      BY <2>2, <3>1, <3>2, <3>3 DEF Absorb
  <2>3. CASE ScopeClose
    <3>1. CASE worker' = [worker EXCEPT !.pc = "leave"]
      BY <2>3, <3>1, <1>7 DEF ScopeClose, At, Goto, WorkerType, Idle
    <3>2. CASE worker' = [worker EXCEPT !.pc = "scopeClear"]
      BY <2>3, <3>2, <1>7 DEF ScopeClose, At, Goto, WorkerType, Idle
    <3>3. CASE worker' = [worker EXCEPT !.pc = "scopeOpen", !.press = FALSE]
      BY <2>3, <3>3, <1>7 DEF ScopeClose, At, Goto, WorkerType, Idle
    <3> QED
      BY <2>3, <3>1, <3>2, <3>3 DEF ScopeClose
  <2>4. CASE CloseSession
    BY <2>4, <1>7 DEF CloseSession, EndOfScope, Idle
  <2> QED
    BY <1>9, <2>1, <2>2, <2>3, <2>4
<1>10. CASE CorrectNext \/ ExitRelease
  <2>1. CASE CorrectNext
    <3>1. ASSUME NEW c, NEW p \in {"correctNext", "correctClear"},
                 worker' = [worker EXCEPT !.cur = c, !.todo = @ \ {c}, !.pc = p]
          PROVE  PushupKeys'
      BY <3>1, <1>7 DEF WorkerType
    <3>2. CASE worker' = Idle
      BY <3>2, <1>7 DEF Idle
    <3> QED
      BY <2>1, <3>1, <3>2 DEF CorrectNext
  <2>2. CASE ExitRelease
    <3>1. worker'.pc \in {"exit", "exited"}
      BY <2>2 DEF ExitRelease, Goto, At, WorkerType
    <3> QED
      BY <3>1, <1>7
  <2> QED
    BY <1>10, <2>1, <2>2
<1>11. CASE Fail
  BY <1>11 DEF Fail, PhysicalMacros
<1>12. CASE Calibrate \/ CalibrateNext
  <2>1. CASE Return
    BY <2>1, <1>6
  <2>2. CASE worker' = [worker EXCEPT !.pc = "calibrateNext", !.todo = gate.state]
    BY <2>2, <1>7 DEF WorkerType
  <2>3. ASSUME NEW c, worker' = [worker EXCEPT !.todo = @ \ {c}], CalibrateNext PROVE PushupKeys'
    BY <2>3, <1>7 DEF CalibrateNext, At, WorkerType
  <2> QED
    BY <1>12, <2>1, <2>2, <2>3 DEF Calibrate, CalibrateNext
<1>13. ASSUME NEW m \in Modes, ToNormal(m) \/ ToPassing(m) \/ ToVisual(m) \/ ClearHotkeys(m)
       PROVE  PushupKeys'
  BY <1>13 DEF ToNormal, ToPassing, ToVisual, ClearHotkeys, Idle
<1>14. ASSUME NEW kind, OpenSession(kind) PROVE PushupKeys'
  BY <1>14 DEF OpenSession, Idle
<1>15. ASSUME NEW k, RefreshToggle(k) PROVE PushupKeys'
  BY <1>15 DEF RefreshToggle, Idle
<1> QED
  BY <1>1, <1>2, <1>4, <1>5, <1>6, <1>8, <1>9, <1>10, <1>11, <1>12, <1>13, <1>14, <1>15
  DEF Next, User, HookStep, Begin, Background, Steps, UserKey, Expire, HookLookup,
      HookSend, HookVirtual, HookClose, HookRecord, HookDecide, LockScreen, NoticeLock,
      SetMode, Restore, RegisterHotkey, ToggleStep

\* The ports opened by a step are closed by the hook call, or the operation, it
\* belongs to; nobody gives up the responsibility for a port that is still open.
LEMMA AccountedKept ==
    ASSUME PhysicalMacros, CodesAssumption, PortInv, Next
    PROVE  Accounted'
<1> worker \in WorkerType /\ hook \in HookType /\ gate \in GateType /\ Accounted
  BY DEF PortInv, TypeOK
<1> gate.port \subseteq Code /\ gate.state \subseteq Code /\ worker.keys \subseteq Code
    /\ hook.target \subseteq Code
  BY DEF WorkerType, HookType, GateType
<1>same. ASSUME UNCHANGED gate.port, UNCHANGED HookPorts, UNCHANGED WorkerPorts PROVE Accounted'
  BY <1>same DEF Accounted
<1>worker. ASSUME UNCHANGED gate.port, UNCHANGED hook, WorkerPorts = {} PROVE Accounted'
  BY <1>worker DEF Accounted, HookPorts
<1>1. ASSUME NEW k, NEW press, UserKey(k, press) PROVE Accounted'
  <2>1. HookPorts = {} /\ HookPorts' = {}
    BY <1>1 DEF UserKey, HookPorts, NoHook
  <2>2. UNCHANGED gate.port
    BY <1>1 DEF UserKey, GateType
  <2> QED
    BY <1>1, <2>1, <2>2, <1>same DEF UserKey, WorkerPorts
<1>2. ASSUME NEW k, Expire(k) PROVE Accounted'
  BY <1>2, <1>same DEF Expire, GateType, HookPorts, WorkerPorts
<1>3. CASE HookLookup
  <2>1. HookPorts = {} /\ UNCHANGED WorkerPorts
    BY <1>3 DEF HookLookup, HookPorts, WorkerPorts
  <2>2. PICK t : /\ hook' = [hook EXCEPT !.pc = IF t = {} THEN "record" ELSE "send", !.target = t]
                 /\ gate' = [gate EXCEPT !.port = @ \cup t]
    BY <1>3 DEF HookLookup
  <2>3. gate'.port = gate.port \cup t
    BY <2>2 DEF GateType
  <2>4. HookPorts' = t
    BY <2>2 DEF HookPorts, HookType
  <2> QED
    BY <2>1, <2>3, <2>4 DEF Accounted
<1>4. CASE HookSend
  BY <1>4, <1>same DEF HookSend, HookPorts, WorkerPorts, HookType
<1>5. CASE HookVirtual
  BY <1>5, <1>same DEF HookVirtual, HookPorts, WorkerPorts, HookType, GateType
<1>6. CASE HookClose
  <2>1. HookPorts = hook.target /\ HookPorts' = {} /\ UNCHANGED WorkerPorts
    BY <1>6 DEF HookClose, HookPorts, WorkerPorts, NoHook
  <2>2. gate'.port = gate.port \ hook.target
    BY <1>6 DEF HookClose, GateType
  <2> QED
    BY <2>1, <2>2 DEF Accounted
<1>7. CASE HookRecord \/ HookDecide
  <2>1. CASE HookRecord
    BY <2>1, <1>same DEF HookRecord, HookPorts, WorkerPorts, HookType, GateType
  <2>2. CASE HookDecide
    BY <2>2, <1>same DEF HookDecide, HookPorts, WorkerPorts, NoHook
  <2> QED
    BY <1>7, <2>1, <2>2
<1> USE DEF ClosesAll, ClosesKeys
<1>8. ASSUME NEW m, ToNormal(m) PROVE Accounted'
  BY <1>8, <1>worker DEF ToNormal, Start, Free, Idle, WorkerPorts
<1>9. ASSUME NEW m, ToPassing(m) PROVE Accounted'
  BY <1>9, <1>worker DEF ToPassing, Start, Free, Idle, WorkerPorts
<1>10. ASSUME NEW m, ToVisual(m) PROVE Accounted'
  BY <1>10, <1>worker DEF ToVisual, Start, Free, Idle, WorkerPorts
<1>11. ASSUME NEW keys, Pushup(keys) PROVE Accounted'
  BY <1>11, <1>worker DEF Pushup, Start, Free, Idle, WorkerPorts
<1>12. ASSUME NEW kind, OpenSession(kind) PROVE Accounted'
  BY <1>12, <1>worker DEF OpenSession, Start, Free, Idle, WorkerPorts
<1>13. ASSUME NEW m, ClearHotkeys(m) PROVE Accounted'
  BY <1>13, <1>worker DEF ClearHotkeys, Start, Free, Idle, WorkerPorts, GateType
<1>14. CASE CloseSession
  BY <1>14, <1>worker DEF CloseSession, At, WorkerPorts, GateType
<1>15. CASE SetMode
  BY <1>15, <1>worker DEF SetMode, At, WorkerPorts, GateType
<1>16. CASE Snapshot
  BY <1>16, <1>worker DEF Snapshot, At, WorkerPorts, GateType
<1>17. CASE UnpressSend
  BY <1>17, <1>worker DEF UnpressSend, At, WorkerPorts, GateType
<1>18. CASE UnpressClear
  BY <1>18, <1>worker DEF UnpressClear, At, WorkerPorts, GateType
<1>19. CASE Restore
  BY <1>19, <1>worker DEF Restore, At, WorkerPorts, GateType
<1>20. CASE ScopeClear
  BY <1>20, <1>worker DEF ScopeClear, At, WorkerPorts, GateType
<1>21. CASE Leave
  BY <1>21, <1>worker DEF Leave, At, WorkerPorts, GateType
<1>22. CASE LeaveMode
  BY <1>22, <1>worker DEF LeaveMode, At, WorkerPorts, GateType
<1>23. CASE Correct
  BY <1>23, <1>worker DEF Correct, At, WorkerPorts, GateType
<1>24. CASE CorrectNext
  BY <1>24, <1>worker DEF CorrectNext, At, WorkerPorts, GateType
<1>25. CASE CorrectClear
  BY <1>25, <1>worker DEF CorrectClear, At, WorkerPorts, GateType
<1>26. CASE ToggleKey
  BY <1>26, <1>worker DEF ToggleKey, At, WorkerPorts, GateType
<1>27. CASE ToggleClear
  BY <1>27, <1>worker DEF ToggleClear, At, WorkerPorts, GateType
<1>28. CASE ToggleLow
  BY <1>28, <1>worker DEF ToggleLow, At, WorkerPorts, GateType
<1>29. CASE UninstallHook
  BY <1>29, <1>worker DEF UninstallHook, At, WorkerPorts, GateType
<1>30. CASE ExitRelease
  BY <1>30, <1>worker DEF ExitRelease, At, WorkerPorts, GateType
<1>31. CASE RegisterHotkey
  BY <1>31, <1>worker DEF RegisterHotkey, At, WorkerPorts, GateType
<1>32. CASE Absorb
  BY <1>32, <1>worker DEF Absorb, At, WorkerPorts, GateType
<1>33. CASE NoticeLock \/ LockScreen
  BY <1>33, <1>same DEF NoticeLock, LockScreen, HookPorts, WorkerPorts, GateType
<1>34. CASE Fail
  BY <1>34 DEF Fail, PhysicalMacros
<1>35. ASSUME worker'.pc \in ClosesAll, gate'.port \subseteq Code PROVE Accounted'
  BY <1>35 DEF Accounted, WorkerPorts
<1>36. CASE RefreshSend \/ RefreshClear \/ ScopeOpen \/ ScopeSend
  <2>1. CASE RefreshSend
    BY <2>1, <1>35 DEF RefreshSend, Goto, WorkerType
  <2>2. CASE RefreshClear
    BY <2>2, <1>35 DEF RefreshClear, WorkerType, GateType
  <2>3. CASE ScopeOpen
    BY <2>3, <1>35 DEF ScopeOpen, Goto, WorkerType, GateType
  <2>4. CASE ScopeSend
    BY <2>4, <1>35 DEF ScopeSend, Goto, WorkerType
  <2> QED
    BY <1>36, <2>1, <2>2, <2>3, <2>4
<1>37. CASE Refresh
  <2>1. gate'.port \subseteq Code
    <3>1. CASE UNCHANGED gate
      BY <3>1
    <3>2. CASE worker.cur \in gate.state /\ gate' = [gate EXCEPT !.port = @ \cup {worker.cur}]
      BY <3>2 DEF GateType
    <3> QED
      BY <1>37, <3>1, <3>2 DEF Refresh
  <2>2. worker'.pc \in ClosesAll
    <3>1. CASE \E p \in {"closeAll", "refreshSend"} : Goto(p)
      BY <3>1 DEF Goto, WorkerType
    <3>2. CASE worker' = [worker EXCEPT !.cur = @ + 1]
      BY <1>37, <3>2 DEF Refresh, At, WorkerType
    <3> QED
      BY <1>37, <3>1, <3>2 DEF Refresh
  <2> QED
    BY <2>1, <2>2, <1>35
<1>38. ASSUME gate'.port = {} PROVE Accounted'
  BY <1>38 DEF Accounted
<1>39. CASE CloseAll \/ ScopeClose
  BY <1>39, <1>38 DEF CloseAll, ScopeClose, GateType
<1>44. CASE Calibrate
  <2>1. CASE gate.state = {}
    <3>1. UNCHANGED gate.port
      BY <1>44, <2>1 DEF Calibrate, GateType
    <3> QED
      BY <1>44, <1>worker, <3>1 DEF Calibrate, At, WorkerPorts
  <2>2. CASE gate.state # {}
    <3>1. worker'.pc \in ClosesAll
      BY <1>44, <2>2 DEF Calibrate, WorkerType
    <3>2. gate'.port \subseteq Code
      BY <1>44 DEF Calibrate, GateType
    <3> QED
      BY <1>35, <3>1, <3>2
  <2> QED
    BY <2>1, <2>2
<1>45. CASE CalibrateNext
  <2>1. ASSUME NEW c, worker' = [worker EXCEPT !.todo = @ \ {c}],
               gate' = [gate EXCEPT !.state = @ \ {c}]
        PROVE  Accounted'
    <3>1. worker'.pc \in ClosesAll
      BY <1>45, <2>1 DEF CalibrateNext, At, WorkerType
    <3>2. gate'.port \subseteq Code
      BY <2>1 DEF GateType
    <3> QED
      BY <1>35, <3>1, <3>2
  <2>2. CASE gate' = [gate EXCEPT !.port = {}]
    BY <2>2, <1>38 DEF GateType
  <2> QED
    BY <1>45, <2>1, <2>2 DEF CalibrateNext
<1>40. CASE Unpress
  <2>1. WorkerPorts = {} /\ UNCHANGED HookPorts
    BY <1>40 DEF Unpress, At, WorkerPorts, HookPorts
  <2>2. CASE UNCHANGED gate
    BY <2>1, <2>2 DEF Accounted
  <2>3. CASE /\ gate' = [gate EXCEPT !.port = @ \cup {PhysOf[c] : c \in worker.keys}]
             /\ Goto("stroke")
    <3>1. {PhysOf[c] : c \in worker.keys} = worker.keys
      <4>1. worker.keys \subseteq Key
        BY <1>40 DEF PortInv, PushupKeys, Unpress, At
      <4>2. \A c \in worker.keys : PhysOf[c] = c
        BY <4>1 DEF CodesAssumption
      <4> QED
        BY <4>2
    <3>2. gate'.port = gate.port \cup worker.keys
      BY <2>3, <3>1 DEF GateType
    <3>3. WorkerPorts' = worker.keys
      BY <2>3 DEF Goto, WorkerPorts, WorkerType
    <3> QED
      BY <2>1, <3>2, <3>3 DEF Accounted
  <2> QED
    BY <1>40, <2>2, <2>3 DEF Unpress
<1>41. CASE Stroke \/ ToggleSend
  BY <1>41, <1>same DEF Stroke, ToggleSend, At, Goto, WorkerPorts, HookPorts, WorkerType
<1>42. CASE ClosePorts \/ ToggleClose
  <2>1. WorkerPorts = worker.keys /\ UNCHANGED HookPorts
    BY <1>42 DEF ClosePorts, ToggleClose, At, WorkerPorts, HookPorts
  <2>2. gate'.port = gate.port \ worker.keys
    BY <1>42 DEF ClosePorts, ToggleClose, GateType
  <2> QED
    BY <2>1, <2>2 DEF Accounted
<1>43. ASSUME NEW k, RefreshToggle(k) PROVE Accounted'
  <2>1. WorkerPorts = {} /\ UNCHANGED HookPorts
    BY <1>43 DEF RefreshToggle, Free, Idle, WorkerPorts, HookPorts
  <2>2. PICK t : /\ gate' = [gate EXCEPT !.port = @ \cup t]
                 /\ worker' = [Idle EXCEPT !.op = "toggle", !.pc = "toggleSend",
                                           !.keys = t, !.cur = k]
    BY <1>43 DEF RefreshToggle
  <2>3. WorkerPorts' = t
    BY <2>2 DEF WorkerPorts, Idle
  <2>4. gate'.port = gate.port \cup t
    BY <2>2 DEF GateType
  <2> QED
    BY <2>1, <2>3, <2>4 DEF Accounted
<1> QED
  BY <1>1, <1>2, <1>3, <1>4, <1>5, <1>6, <1>7, <1>8, <1>9, <1>10, <1>11, <1>12, <1>13,
     <1>14, <1>15, <1>16, <1>17, <1>18, <1>19, <1>20, <1>21, <1>22, <1>23, <1>24, <1>25,
     <1>26, <1>27, <1>28, <1>29, <1>30, <1>31, <1>32, <1>33, <1>34, <1>36, <1>37, <1>39,
     <1>40, <1>41, <1>42, <1>43, <1>44, <1>45
  DEF Next, User, HookStep, Begin, Background, Steps, ToggleStep

LEMMA PortsAtFirst == ASSUME Init PROVE PortInv
<1>1. TypeOK
  BY CodesAssumption, ModesAssumption, InitType
<1> QED
  BY <1>1 DEF Init, InitGate, Idle, NoHook, PortInv, Accounted, PushupKeys

LEMMA PortsStep ==
    ASSUME PhysicalMacros, PortInv, [Next]_vars
    PROVE  PortInv'
<1>1. TypeOK'
  BY TypeStep DEF PortInv
<1>2. CASE Next
  BY <1>1, <1>2, CodesAssumption, PushupKeysKept, AccountedKept DEF PortInv
<1>3. CASE UNCHANGED vars
  BY <1>1, <1>3 DEF vars, PortInv, Accounted, PushupKeys, HookPorts, WorkerPorts
<1> QED
  BY <1>2, <1>3

\* In a session, on a locked screen, after a map command, in any interleaving:
\* when neither thread is at work no port is open, so that no key message of
\* the user goes through a port.
THEOREM PortsClosed == PhysicalMacros => (Spec => []PortsClosedAtRest)
<1> SUFFICES ASSUME PhysicalMacros PROVE Spec => []PortsClosedAtRest
  OBVIOUS
<1>1. Init => PortInv
  BY PortsAtFirst
<1>2. PortInv /\ [Next]_vars => PortInv'
  BY PortsStep
<1>3. PortInv => PortsClosedAtRest
  BY DEF PortInv, Accounted, PortsClosedAtRest, AtRest, HookPorts, WorkerPorts, ClosesAll,
     ClosesKeys
<1> QED
  BY <1>1, <1>2, <1>3, PTL DEF Spec

-----------------------------------------------------------------------------
(***************************************************************************)
(* Modes.  All but Insert and Resident block the key messages, whatever    *)
(* the user types, whatever fails and whatever is bound, unless one of the *)
(* two things has happened that env.slipped tells.                         *)
(***************************************************************************)
\* absorb_state_ and what the history tells agree with a mode.
Agree(m) == ((gate.absorb \/ env.slipped) <=> m \notin PassingModes) /\ ~(gate.absorb /\ env.slipped)

\* They agree with the mode, or with the mode about to be set, outside a session
\* and in a session that has begun with a gate that absorbs.
Agreement ==
    session.kind = "none" \/ session.flag =>
        IF worker.pc = "setMode" /\ worker.op # "to_visual"
        THEN (gate.absorb <=> worker.mode \notin PassingModes) /\ ~env.slipped
        ELSE Agree(mode)

\* The function in progress and its mode belong together.
EntryPC  == {"refresh", "refreshSend", "refreshClear", "closeAll", "absorb"}
Entering == worker.pc \in EntryPC /\ worker.op = "session"
Target ==
    /\ worker.pc \in EntryPC =>
           \/ worker.op = "to_normal"  /\ worker.mode \notin PassingModes
           \/ worker.op = "to_passing" /\ worker.mode \in PassingModes
           \/ worker.op = "session"    /\ session.kind # "none"
    /\ worker.pc = "setMode" =>
           \/ worker.op \in {"to_normal", "to_visual"} /\ worker.mode \notin PassingModes
           \/ worker.op = "to_passing" /\ worker.mode \in PassingModes

\* A session that has begun with a gate that absorbs has begun in a blocking mode.
SessionFrom ==
    IF session.kind = "none" THEN session.flag
    ELSE session.flag => session.mode \notin PassingModes

\* A session whose function went to Insert or Resident is ending: it executes
\* nothing more.
Ending ==
    \/ worker.pc = "idle" /\ worker.op = "done"
    \/ worker.pc \in {"scopeOpen", "scopeSend", "scopeClose"} /\ ~worker.press
    \/ worker.pc = "leave"

\* A session absorbs from its beginning to its end, unless its function stops that.
SessionAbsorbs ==
    session.kind # "none" =>
        IF Entering THEN gate.absorb = session.flag
        ELSE IF worker.pc = "leaveMode" THEN session.flag \/ ~gate.absorb
        ELSE \/ gate.absorb
             \/ worker.pc = "setMode" /\ worker.op = "to_passing"
             \/ mode \in PassingModes /\ Ending

ModeInv == TypeOK /\ Agreement /\ Target /\ SessionFrom /\ SessionAbsorbs

LEMMA ModeInvKept ==
    ASSUME CodesAssumption, ModesAssumption, ModeInv, Next
    PROVE  Agreement' /\ Target' /\ SessionFrom' /\ SessionAbsorbs'
<1> worker \in WorkerType /\ gate \in GateType /\ session \in SessionType /\ env \in EnvType
    /\ Agreement /\ Target /\ SessionFrom /\ SessionAbsorbs
  BY DEF ModeInv, TypeOK
<1> gate.absorb \in BOOLEAN /\ env.slipped \in BOOLEAN /\ session.flag \in BOOLEAN
  BY DEF GateType, EnvType, SessionType
<1> DEFINE Goal == Agreement' /\ Target' /\ SessionFrom' /\ SessionAbsorbs'
           Same == /\ UNCHANGED mode /\ UNCHANGED gate.absorb /\ UNCHANGED env.slipped
                   /\ UNCHANGED session.kind /\ UNCHANGED session.flag /\ UNCHANGED session.mode
           Away == worker'.pc \notin EntryPC \cup {"setMode", "leaveMode"}
<1> USE DEF Agreement, Agree, Target, SessionFrom, SessionAbsorbs, Entering, Ending, EntryPC
<1>same. ASSUME UNCHANGED worker, Same PROVE Goal
  BY <1>same
<1>rest. ASSUME worker.pc \notin EntryPC \cup {"setMode", "leaveMode"}, Away,
                Ending => Ending', Same
         PROVE  Goal
  BY <1>rest
<1>caught. ASSUME worker.pc \in EntryPC, worker.op = "to_normal", Away, Same PROVE Goal
  BY <1>caught
<1>entry. ASSUME worker.pc \in EntryPC, worker'.pc \in EntryPC, worker'.op = worker.op,
                 worker'.mode = worker.mode, Same
          PROVE  Goal
  BY <1>entry
<1>thrown. ASSUME NEW t, session' = [session EXCEPT !.thrown = t]
           PROVE  /\ UNCHANGED session.kind /\ UNCHANGED session.flag
                  /\ UNCHANGED session.mode
  BY <1>thrown DEF SessionType
<1>scope. EndOfScope.pc \in {"scopeOpen", "leave"} /\ ~EndOfScope.press
  BY DEF EndOfScope, Idle
<1>1. ASSUME NEW k, NEW press, UserKey(k, press) PROVE Goal
  BY <1>1, <1>same DEF UserKey, GateType
<1>2. ASSUME NEW k, Expire(k) PROVE Goal
  BY <1>2, <1>same DEF Expire, GateType
<1>3. CASE HookStep \/ LockScreen \/ NoticeLock
  <2>1. CASE HookLookup
    BY <2>1, <1>same DEF HookLookup, GateType
  <2>2. CASE HookSend
    BY <2>2, <1>same DEF HookSend, GateType
  <2>3. CASE HookVirtual
    BY <2>3, <1>same DEF HookVirtual, GateType
  <2>4. CASE HookClose
    BY <2>4, <1>same DEF HookClose, GateType
  <2>5. CASE HookRecord
    BY <2>5, <1>same DEF HookRecord, GateType
  <2>6. CASE HookDecide
    BY <2>6, <1>same DEF HookDecide, GateType
  <2>7. CASE LockScreen
    BY <2>7, <1>same DEF LockScreen, GateType, EnvType
  <2>8. CASE NoticeLock
    BY <2>8, <1>same DEF NoticeLock, GateType, EnvType
  <2> QED
    BY <1>3, <2>1, <2>2, <2>3, <2>4, <2>5, <2>6, <2>7, <2>8 DEF HookStep
<1>4. ASSUME NEW m \in NormalModes, ToNormal(m) PROVE Goal
  BY <1>4 DEF ToNormal, Start, Free, Idle, NormalModes, PassingModes
<1>5. ASSUME NEW m \in PassingModes, ToPassing(m) PROVE Goal
  BY <1>5 DEF ToPassing, Start, Free, Idle
<1>6. ASSUME NEW m \in VisualModes, ToVisual(m) PROVE Goal
  BY <1>6 DEF ToVisual, Start, Free, Idle, VisualModes, PassingModes
<1>7. CASE Refresh
  <2>1. ASSUME NEW p \in EntryPC, Goto(p) PROVE Goal
    BY <1>7, <2>1, <1>entry DEF Refresh, At, Goto, WorkerType, GateType
  <2>2. CASE worker' = [worker EXCEPT !.cur = @ + 1]
    BY <1>7, <2>2, <1>entry DEF Refresh, At, WorkerType, GateType
  <2> QED
    BY <1>7, <2>1, <2>2 DEF Refresh
<1>8. CASE RefreshSend \/ RefreshClear \/ CloseAll
  <2>1. CASE RefreshSend
    BY <2>1, <1>entry DEF RefreshSend, At, Goto, WorkerType
  <2>2. CASE RefreshClear
    BY <2>2, <1>entry DEF RefreshClear, At, WorkerType, GateType
  <2>3. CASE CloseAll
    BY <2>3, <1>entry DEF CloseAll, At, Goto, WorkerType, GateType
  <2> QED
    BY <1>8, <2>1, <2>2, <2>3
<1>9. CASE Absorb
  <2>1. /\ gate'.absorb = (worker.op # "to_passing") /\ UNCHANGED <<mode, session>>
        /\ env'.slipped = (env.slipped /\ worker.op = "session")
    BY <1>9 DEF Absorb, GateType, EnvType
  <2>2. worker.pc = "absorb"
    BY <1>9 DEF Absorb, At
  <2>3. CASE worker.op # "session" /\ worker' = [worker EXCEPT !.pc = "setMode"]
    <3>1. worker'.pc = "setMode" /\ worker'.mode = worker.mode /\ worker'.op = worker.op
      BY <2>3 DEF WorkerType
    <3> QED
      BY <2>1, <2>2, <2>3, <3>1
  <2>4. CASE worker.op = "session" /\ worker'.pc \in {"idle", "scopeOpen"}
    BY <2>1, <2>2, <2>4
  <2> QED
    BY <1>9, <2>3, <2>4 DEF Absorb, Idle, WorkerType
<1>10. ASSUME Return PROVE Away
  BY <1>10 DEF Return, Idle
<1>11. CASE SetMode
  <2>1. /\ UNCHANGED <<gate, session>> /\ mode' = worker.mode /\ worker.pc = "setMode"
        /\ env'.slipped = (env.slipped \/ (worker.op = "to_visual" /\ mode \in PassingModes))
    BY <1>11 DEF SetMode, At, EnvType
  <2>2. Away
    BY <1>11, <1>10 DEF SetMode
  <2>3. session.kind # "none" => worker' = [Idle EXCEPT !.op = "done"]
    BY <1>11 DEF SetMode, At, Return
  <2>4. session.kind # "none" => Ending'
    BY <2>3 DEF Idle
  <2> QED
    BY <2>1, <2>2, <2>4
<1>12. ASSUME NEW kind \in SessionKind, OpenSession(kind) PROVE Goal
  <2>1. worker = Idle /\ session.kind = "none" /\ UNCHANGED <<gate, env>>
    BY <1>12 DEF OpenSession, Start, Free
  <2>2. mode' = mode \/ (mode' = "COMMAND" /\ mode' \notin PassingModes)
    BY <1>12 DEF OpenSession, PassingModes
  <2>3. session'.kind = kind /\ session'.flag = gate.absorb /\ session'.mode = mode
    BY <1>12 DEF OpenSession
  <2>4. worker'.pc = "refresh" /\ worker'.op = "session" /\ kind # "none"
    BY <1>12 DEF OpenSession, Idle, SessionKind
  <2>5. Agree(mode)
    BY <2>1 DEF Idle
  <2> QED
    BY <2>1, <2>2, <2>3, <2>4, <2>5
<1>13. CASE CloseSession
  <2>1. worker'.pc \in {"scopeOpen", "leave"} /\ ~worker'.press /\ worker.pc = "idle"
    BY <1>13, <1>scope DEF CloseSession, At
  <2>2. Same
    <3>1. PICK keys : /\ gate' = [gate EXCEPT !.state = @ \ keys]
                      /\ env' = [env EXCEPT !.lost = @ \cup (os \cap keys)]
      BY <1>13 DEF CloseSession
    <3> QED
      BY <1>13, <3>1 DEF CloseSession, GateType, EnvType
  <2> QED
    BY <2>1, <2>2, <1>rest
<1>14. CASE Leave
  <2>1. worker.pc = "leave" /\ worker'.pc = "leaveMode" /\ UNCHANGED <<mode, session, env>>
    BY <1>14 DEF Leave, At, Goto, WorkerType
  <2>2. gate'.absorb = (gate.absorb /\ session.flag)
    BY <1>14 DEF Leave, GateType
  <2> QED
    BY <2>1, <2>2
<1>15. CASE LeaveMode
  <2>1. /\ worker'.pc \in {"correct", "calibrate"} /\ session'.kind = "none" /\ UNCHANGED gate
        /\ worker.pc = "leaveMode"
    BY <1>15 DEF LeaveMode, Idle, NoSession, At
  <2>2. env'.slipped = IF session.flag THEN env.slipped ELSE mode' \notin PassingModes
    BY <1>15 DEF LeaveMode, EnvType
  <2>5. session'.flag
    BY <1>15 DEF LeaveMode, NoSession
  <2>3. CASE session.flag
    <3>1. mode' \notin PassingModes <=> mode \notin PassingModes
      BY <1>15, <2>3 DEF LeaveMode, PassingModes
    <3> QED
      BY <2>1, <2>2, <2>3, <2>5, <3>1
  <2>4. CASE ~session.flag
    BY <2>1, <2>2, <2>4, <2>5
  <2> QED
    BY <2>3, <2>4
<1>16. ASSUME NEW keys, Pushup(keys) PROVE Goal
  BY <1>16, <1>rest DEF Pushup, Start, Free, Idle
<1>17. ASSUME NEW m, ClearHotkeys(m) PROVE Goal
  BY <1>17, <1>rest DEF ClearHotkeys, Start, Free, Idle, GateType
<1>18. ASSUME NEW k, RefreshToggle(k) PROVE Goal
  BY <1>18, <1>rest DEF RefreshToggle, Free, Idle, GateType
<1>19. CASE Snapshot \/ UnpressSend \/ UnpressClear \/ Stroke \/ ClosePorts \/ ScopeOpen
           \/ ScopeSend \/ ScopeClear \/ Correct \/ CorrectClear \/ ToggleSend \/
           ToggleClose \/ ToggleKey \/ ToggleClear \/ ToggleLow \/ UninstallHook
  <2>1. CASE Snapshot
    BY <2>1, <1>rest DEF Snapshot, At, Goto, WorkerType, Idle, GateType
  <2>2. CASE UnpressSend
    BY <2>2, <1>rest DEF UnpressSend, At, Goto, WorkerType, Idle, GateType
  <2>3. CASE UnpressClear
    BY <2>3, <1>rest DEF UnpressClear, At, Goto, WorkerType, Idle, GateType
  <2>4. CASE Stroke
    BY <2>4, <1>rest DEF Stroke, At, Goto, WorkerType, Idle, GateType
  <2>5. CASE ClosePorts
    BY <2>5, <1>rest DEF ClosePorts, At, Goto, WorkerType, Idle, GateType
  <2>6. CASE ScopeOpen
    BY <2>6, <1>rest DEF ScopeOpen, At, Goto, WorkerType, Idle, GateType
  <2>7. CASE ScopeSend
    BY <2>7, <1>rest DEF ScopeSend, At, Goto, WorkerType, Idle, GateType
  <2>8. CASE ScopeClear
    BY <2>8, <1>rest DEF ScopeClear, At, Goto, WorkerType, Idle, GateType
  <2>9. CASE Correct
    BY <2>9, <1>rest DEF Correct, At, Goto, WorkerType, Idle, GateType
  <2>10. CASE CorrectClear
    BY <2>10, <1>rest DEF CorrectClear, At, Goto, WorkerType, Idle, GateType
  <2>12. CASE ToggleSend
    BY <2>12, <1>rest DEF ToggleSend, At, Goto, WorkerType, Idle, GateType
  <2>13. CASE ToggleClose
    BY <2>13, <1>rest DEF ToggleClose, At, Goto, WorkerType, Idle, GateType
  <2>14. CASE ToggleKey
    BY <2>14, <1>rest DEF ToggleKey, At, Goto, WorkerType, Idle, GateType
  <2>15. CASE ToggleClear
    BY <2>15, <1>rest DEF ToggleClear, At, Goto, WorkerType, Idle, GateType
  <2>16. CASE ToggleLow
    BY <2>16, <1>rest DEF ToggleLow, At, Goto, WorkerType, Idle, GateType
  <2>17. CASE UninstallHook
    BY <2>17, <1>rest DEF UninstallHook, At, Goto, WorkerType, Idle, GateType, EnvType
  <2> QED
    BY <1>19, <2>1, <2>2, <2>3, <2>4, <2>5, <2>6, <2>7, <2>8, <2>9, <2>10, <2>12,
       <2>13, <2>14, <2>15, <2>16, <2>17
<1>20. CASE Restore \/ RegisterHotkey
  <2>1. Same /\ worker.pc \notin EntryPC \cup {"setMode", "leaveMode"} /\ ~Ending
    BY <1>20 DEF Restore, RegisterHotkey, At, GateType
  <2> QED
    BY <1>20, <2>1, <1>10, <1>rest DEF Restore, RegisterHotkey
<1>21. CASE Unpress \/ CorrectNext \/ ExitRelease
  <2>1. Same /\ worker.pc \notin EntryPC \cup {"setMode", "leaveMode"} /\ ~Ending
    <3>1. CASE Unpress
      <4>1. UNCHANGED gate \/ \E x : gate' = [gate EXCEPT !.port = x]
        BY <3>1 DEF Unpress
      <4> QED
        BY <3>1, <4>1 DEF Unpress, At, GateType
    <3>2. CASE CorrectNext
      BY <3>2 DEF CorrectNext, At
    <3>3. CASE ExitRelease
      <4>1. UNCHANGED gate \/ \E x : gate' = [gate EXCEPT !.state = x]
        BY <3>3 DEF ExitRelease
      <4> QED
        BY <3>3, <4>1 DEF ExitRelease, At, GateType
    <3> QED
      BY <1>21, <3>1, <3>2, <3>3
  <2>2. ASSUME NEW c, NEW p \in {"unpressSend", "unpressClear", "correctNext", "correctClear"},
               worker' = [worker EXCEPT !.cur = c, !.todo = @ \ {c}, !.pc = p]
        PROVE  Away
    BY <2>2 DEF WorkerType
  <2>3. ASSUME NEW p \in {"stroke", "exited"}, Goto(p) PROVE Away
    BY <2>3 DEF Goto, WorkerType
  <2>4. CASE worker' = Idle
    BY <2>1, <2>4, <1>rest DEF Idle
  <2>5. ASSUME NEW t, ExitRelease, worker' = [worker EXCEPT !.todo = t]
        PROVE  Away
    BY <2>5 DEF ExitRelease, At, WorkerType
  <2>6. worker' = Idle \/ Away
    <3>1. CASE Unpress
      BY <3>1, <2>2, <2>3 DEF Unpress
    <3>2. CASE CorrectNext
      BY <3>2, <2>2 DEF CorrectNext
    <3>3. CASE ExitRelease
      BY <3>3, <2>3, <2>5 DEF ExitRelease
    <3> QED
      BY <1>21, <3>1, <3>2, <3>3
  <2> QED
    BY <2>1, <2>4, <2>6, <1>rest
<1>22. CASE Calibrate \/ CalibrateNext
  <2>1. UNCHANGED <<mode, session, env>> /\ worker.pc \in {"calibrate", "calibrateNext"}
    BY <1>22 DEF Calibrate, CalibrateNext, At
  <2>2. UNCHANGED gate.absorb
    <3>1. CASE Calibrate
      BY <3>1 DEF Calibrate, GateType
    <3>2. CASE CalibrateNext
      <4>1. ASSUME NEW c, gate' = [gate EXCEPT !.state = @ \ {c}] PROVE UNCHANGED gate.absorb
        BY <4>1 DEF GateType
      <4>2. CASE gate' = [gate EXCEPT !.port = {}]
        BY <4>2 DEF GateType
      <4> QED
        BY <3>2, <4>1, <4>2 DEF CalibrateNext
    <3> QED
      BY <1>22, <3>1, <3>2
  <2>3. Away
    <3>1. CASE Return
      BY <3>1, <1>10
    <3>2. ASSUME NEW t, worker' = [worker EXCEPT !.todo = t]
          PROVE  Away
      BY <3>2, <2>1 DEF WorkerType
    <3>3. CASE worker' = [worker EXCEPT !.pc = "calibrateNext", !.todo = gate.state]
      BY <3>3 DEF WorkerType
    <3> QED
      BY <1>22, <3>1, <3>2, <3>3 DEF Calibrate, CalibrateNext
  <2> QED
    BY <2>1, <2>2, <2>3, <1>rest
<1>23. CASE ScopeClose
  <2>1. worker'.pc \in {"leave", "scopeClear", "scopeOpen"} /\ (Ending => Ending')
    BY <1>23 DEF ScopeClose, At, WorkerType
  <2>2. \E t : session' = [session EXCEPT !.thrown = t]
    BY <1>23 DEF ScopeClose
  <2>3. Same
    BY <1>23, <2>2, <1>thrown DEF ScopeClose, GateType
  <2> QED
    BY <1>23, <2>1, <2>3, <1>rest DEF ScopeClose, At
<1>24. CASE Fail
  <2>1. UNCHANGED <<gate, mode>>
    BY <1>24, FailFrame
  <2>2. UNCHANGED session \/ \E t : session' = [session EXCEPT !.thrown = t]
    BY <1>24 DEF Fail, FailCaught, FailThrough, FailOpen, FailScope, FailCalibrate, FailExit
  <2>3. UNCHANGED env.slipped
    <3>1. UNCHANGED env \/ \E x : env' = [env EXCEPT !.lost = x]
      BY <1>24 DEF Fail, FailCaught, FailThrough, FailOpen, FailScope, FailCalibrate, FailExit
    <3> QED
      BY <3>1 DEF EnvType
  <2>4. Same
    BY <2>1, <2>2, <2>3, <1>thrown
  <2>5. CASE FailCaught
    <3>1. Away /\ worker.pc \in {"refreshSend", "unpressSend", "stroke"}
      BY <2>5 DEF FailCaught, Goto, WorkerType
    <3>2. worker.pc = "refreshSend" => worker.op \in {"to_normal", "pushup"}
      BY <2>5 DEF FailCaught
    <3> QED
      BY <2>4, <3>1, <3>2, <1>caught, <1>rest
  <2>6. CASE FailThrough
    <3>1. worker.pc \in {"unpressSend", "stroke", "toggleSend", "toggleKey"}
      BY <2>6 DEF FailThrough
    <3>2. worker'.pc \in {"ended", "scopeOpen", "leave"}
      BY <2>6, <1>scope DEF FailThrough, Idle
    <3> QED
      BY <2>4, <3>1, <3>2, <1>rest
  <2>7. CASE FailOpen
    <3>1. worker.pc = "refreshSend" /\ worker.op = "session" /\ worker'.pc = "leaveMode"
      BY <2>7 DEF FailOpen, At, Goto, WorkerType
    <3> QED
      BY <2>4, <3>1
  <2>8. CASE FailScope
    <3>1. worker.pc = "scopeSend" /\ worker'.pc \in {"scopeOpen", "leave"} /\ (Ending => Ending')
      <4>1. worker.pc = "scopeSend"
        BY <2>8 DEF FailScope, At
      <4>2. CASE Goto("leave")
        BY <4>1, <4>2 DEF Goto, WorkerType
      <4>3. CASE worker' = [worker EXCEPT !.pc = "scopeOpen", !.press = FALSE]
        BY <4>1, <4>3 DEF WorkerType
      <4> QED
        BY <2>8, <4>2, <4>3 DEF FailScope
    <3> QED
      BY <2>4, <3>1, <1>rest
  <2>9. CASE FailCalibrate
    <3>1. worker.pc = "calibrateNext"
      BY <2>9 DEF FailCalibrate, At
    <3> QED
      BY <2>4, <2>9, <3>1, <1>rest, <1>10 DEF FailCalibrate
  <2>10. CASE FailExit
    <3>1. worker.pc = "exit" /\ worker'.pc = "exit"
      BY <2>10 DEF FailExit, At, WorkerType
    <3> QED
      BY <2>4, <3>1, <1>rest
  <2> QED
    BY <1>24, <2>5, <2>6, <2>7, <2>8, <2>9, <2>10 DEF Fail
<1> QED
  BY <1>1, <1>2, <1>3, <1>4, <1>5, <1>6, <1>7, <1>8, <1>9, <1>11, <1>12, <1>13, <1>14,
     <1>15, <1>16, <1>17, <1>18, <1>19, <1>20, <1>21, <1>22, <1>23, <1>24
  DEF Next, User, Begin, Background, Steps, ToggleStep

LEMMA ModesAtFirst == ASSUME Init PROVE ModeInv
<1>1. TypeOK
  BY CodesAssumption, ModesAssumption, InitType
<1> QED
  BY <1>1 DEF Init, InitGate, Idle, NoSession, ModeInv, Agreement, Agree, Target, Entering,
     EntryPC, SessionFrom, SessionAbsorbs

LEMMA ModesStep ==
    ASSUME ModeInv, [Next]_vars
    PROVE  ModeInv'
<1>1. TypeOK'
  BY TypeStep DEF ModeInv
<1>2. CASE Next
  BY <1>1, <1>2, CodesAssumption, ModesAssumption, ModeInvKept DEF ModeInv
<1>3. CASE UNCHANGED vars
  BY <1>1, <1>3 DEF vars, ModeInv, Agreement, Agree, Target, Entering, EntryPC, SessionFrom,
     SessionAbsorbs, Ending
<1> QED
  BY <1>2, <1>3

\* Between two operations outside a session, the gate absorbs exactly in the
\* modes that the documentation says block the key messages, for every .vindrc,
\* every interleaving and every refused SendInput, except where the end of a session
\* or a visual mode has left it open.
THEOREM ModesBlock == Spec => []ModeBlocks
<1>1. Init => ModeInv
  BY ModesAtFirst
<1>2. ModeInv /\ [Next]_vars => ModeInv'
  BY ModesStep
<1>3. ModeInv => ModeBlocks
  BY DEF ModeInv, Agreement, Agree, ModeBlocks
<1> QED
  BY <1>1, <1>2, <1>3, PTL DEF Spec

-----------------------------------------------------------------------------
(***************************************************************************)
(* The keys: which ones InputGate leaves with the other applications, and  *)
(* what its bit arrays know of them.                                       *)
(*                                                                         *)
(* Who may change what.  Each of these lemmas names, for a part of the     *)
(* state, all the steps that change it.                                    *)
(***************************************************************************)
\* The steps of the worker, and those that begin one of its operations; the steps
\* of the user and of the main thread.
Outside == User \/ HookStep \/ LockScreen \/ NoticeLock
WorkerStep ==
    Begin \/ (\E k \in Toggle : RefreshToggle(k)) \/ (Steps /\ ~NoticeLock) \/ Fail

\* Where a SendInput can be refused, and where the worker goes on.
RefusedPC == {"refreshSend", "unpressSend", "stroke", "toggleSend", "toggleKey", "scopeSend",
              "calibrateNext", "exit"}
CaughtPC  == {"calibrate", "scopeOpen", "leave", "leaveMode", "idle", "correct", "exit", "ended"}

\* The worker goes from step to step in the order of the code.
Flow ==
    /\ Refresh => worker.pc = "refresh" /\ worker'.pc \in {"closeAll", "refreshSend", "refresh"}
    /\ RefreshSend => worker.pc = "refreshSend" /\ worker'.pc = "refreshClear"
    /\ RefreshClear => worker.pc = "refreshClear" /\ worker'.pc = "refresh"
    /\ CloseAll => worker.pc = "closeAll" /\ worker'.pc = "absorb"
    /\ Absorb => worker.pc = "absorb" /\ worker'.pc \in {"setMode", "idle", "scopeOpen"}
    /\ SetMode => worker.pc = "setMode" /\ worker'.pc \in {"idle", "correct"}
    /\ Snapshot => worker.pc = "snapshot" /\ worker'.pc = "unpress"
    /\ Unpress => worker.pc = "unpress" /\ worker'.pc \in {"unpressSend", "unpressClear", "stroke"}
    /\ UnpressSend => worker.pc = "unpressSend" /\ worker'.pc = "unpressClear"
    /\ UnpressClear => worker.pc = "unpressClear" /\ worker'.pc = "unpress"
    /\ Stroke => worker.pc = "stroke" /\ worker'.pc = "closePorts"
    /\ ClosePorts => worker.pc = "closePorts" /\ worker'.pc = "restore"
    /\ Restore => worker.pc = "restore" /\ worker'.pc \in {"idle", "correct"}
    /\ ScopeOpen => worker.pc = "scopeOpen" /\ worker'.pc = "scopeSend"
    /\ ScopeSend => worker.pc = "scopeSend" /\ worker'.pc = "scopeClose"
    /\ ScopeClose => worker.pc = "scopeClose" /\ worker'.pc \in {"leave", "scopeClear", "scopeOpen"}
    /\ ScopeClear => worker.pc = "scopeClear" /\ worker'.pc = "snapshot"
    /\ Leave => worker.pc = "leave" /\ worker'.pc = "leaveMode"
    /\ LeaveMode => worker.pc = "leaveMode" /\ worker'.pc \in {"correct", "calibrate"}
    /\ Correct => worker.pc = "correct" /\ worker'.pc = "correctNext"
    /\ CorrectNext => worker.pc = "correctNext" /\ worker'.pc \in {"correctNext", "correctClear", "idle"}
    /\ CorrectClear => worker.pc = "correctClear" /\ worker'.pc = "correctNext"
    /\ ToggleSend => worker.pc = "toggleSend" /\ worker'.pc = "toggleClose"
    /\ ToggleClose => worker.pc = "toggleClose" /\ worker'.pc = "toggleKey"
    /\ ToggleKey => worker.pc = "toggleKey" /\ worker'.pc = "toggleClear"
    /\ ToggleClear => worker.pc = "toggleClear" /\ worker'.pc = "toggleLow"
    /\ ToggleLow => worker.pc = "toggleLow" /\ worker'.pc = "idle"
    /\ RegisterHotkey => worker.pc = "register" /\ worker'.pc \in {"idle", "correct"}
    /\ CloseSession => worker.pc = "idle" /\ worker'.pc \in {"scopeOpen", "leave"}
    /\ UninstallHook => worker.pc \in {"idle", "ended"} /\ worker'.pc = "exit"
    /\ ExitRelease => worker.pc = "exit" /\ worker'.pc \in {"exit", "exited"}
    /\ Fail => /\ worker.pc \in RefusedPC /\ worker'.pc \in CaughtPC
               /\ worker'.pc = "exit" <=> worker.pc = "exit"
    /\ Calibrate => worker.pc = "calibrate" /\ worker'.pc \in {"idle", "correct", "calibrateNext"}
    /\ CalibrateNext => worker.pc = "calibrateNext" /\ worker'.pc \in {"idle", "correct", "calibrateNext"}
    /\ \A m : ToNormal(m) => worker = Idle /\ worker'.pc = "refresh"
    /\ \A m : ToPassing(m) => worker = Idle /\ worker'.pc = "closeAll"
    /\ \A m : ToVisual(m) => worker = Idle /\ worker'.pc = "setMode"
    /\ \A keys : Pushup(keys) => worker = Idle /\ worker'.pc = "snapshot"
    /\ \A kind : OpenSession(kind) => worker = Idle /\ worker'.pc = "refresh"
    /\ \A m : ClearHotkeys(m) => worker = Idle /\ worker'.pc = "register"
    /\ \A k : RefreshToggle(k) => worker = Idle /\ worker'.pc = "toggleSend"

LEMMA FlowOfWorker == TypeOK => Flow
<1> SUFFICES ASSUME worker \in WorkerType PROVE Flow
  BY DEF TypeOK
<1>1. Refresh => worker.pc = "refresh" /\ worker'.pc \in {"closeAll", "refreshSend", "refresh"}
  BY DEF Refresh, At, Goto, Return, Idle, WorkerType
<1>2. RefreshSend => worker.pc = "refreshSend" /\ worker'.pc = "refreshClear"
  BY DEF RefreshSend, At, Goto, Return, Idle, WorkerType
<1>3. RefreshClear => worker.pc = "refreshClear" /\ worker'.pc = "refresh"
  BY DEF RefreshClear, At, Goto, Return, Idle, WorkerType
<1>4. CloseAll => worker.pc = "closeAll" /\ worker'.pc = "absorb"
  BY DEF CloseAll, At, Goto, Return, Idle, WorkerType
<1>5. Absorb => worker.pc = "absorb" /\ worker'.pc \in {"setMode", "idle", "scopeOpen"}
  BY DEF Absorb, At, Goto, Return, Idle, WorkerType
<1>6. SetMode => worker.pc = "setMode" /\ worker'.pc \in {"idle", "correct"}
  BY DEF SetMode, At, Goto, Return, Idle, WorkerType
<1>7. Snapshot => worker.pc = "snapshot" /\ worker'.pc = "unpress"
  BY DEF Snapshot, At, Goto, Return, Idle, WorkerType
<1>8. Unpress => worker.pc = "unpress" /\ worker'.pc \in {"unpressSend", "unpressClear", "stroke"}
  <2> SUFFICES ASSUME Unpress
               PROVE  worker.pc = "unpress" /\ worker'.pc \in {"unpressSend", "unpressClear", "stroke"}
    OBVIOUS
  <2>1. ASSUME NEW c,
               worker' = [worker EXCEPT !.cur = c, !.todo = @ \ {c},
                            !.pc = IF c \in gate.real THEN "unpressSend" ELSE "unpressClear"]
        PROVE  worker'.pc \in {"unpressSend", "unpressClear"}
    BY <2>1 DEF WorkerType
  <2>2. \/ \E c : worker' = [worker EXCEPT !.cur = c, !.todo = @ \ {c},
                    !.pc = IF c \in gate.real THEN "unpressSend" ELSE "unpressClear"]
        \/ Goto("stroke")
    BY Zenon DEF Unpress
  <2>3. worker'.pc \in {"unpressSend", "unpressClear"} \/ Goto("stroke")
    BY <2>1, <2>2, Zenon
  <2>4. worker.pc = "unpress"
    BY Zenon DEF Unpress, At
  <2> QED
    BY <2>3, <2>4 DEF Goto, WorkerType
<1>9. UnpressSend => worker.pc = "unpressSend" /\ worker'.pc = "unpressClear"
  BY DEF UnpressSend, At, Goto, Return, Idle, WorkerType
<1>10. UnpressClear => worker.pc = "unpressClear" /\ worker'.pc = "unpress"
  BY DEF UnpressClear, At, Goto, Return, Idle, WorkerType
<1>11. Stroke => worker.pc = "stroke" /\ worker'.pc = "closePorts"
  BY DEF Stroke, At, Goto, Return, Idle, WorkerType
<1>12. ClosePorts => worker.pc = "closePorts" /\ worker'.pc = "restore"
  BY DEF ClosePorts, At, Goto, Return, Idle, WorkerType
<1>13. Restore => worker.pc = "restore" /\ worker'.pc \in {"idle", "correct"}
  BY DEF Restore, At, Goto, Return, Idle, WorkerType
<1>14. ScopeOpen => worker.pc = "scopeOpen" /\ worker'.pc = "scopeSend"
  BY DEF ScopeOpen, At, Goto, Return, Idle, WorkerType
<1>15. ScopeSend => worker.pc = "scopeSend" /\ worker'.pc = "scopeClose"
  BY DEF ScopeSend, At, Goto, Return, Idle, WorkerType
<1>16. ScopeClose => worker.pc = "scopeClose" /\ worker'.pc \in {"leave", "scopeClear", "scopeOpen"}
  BY DEF ScopeClose, At, Goto, Return, Idle, WorkerType
<1>17. ScopeClear => worker.pc = "scopeClear" /\ worker'.pc = "snapshot"
  BY DEF ScopeClear, At, Goto, Return, Idle, WorkerType
<1>18. Leave => worker.pc = "leave" /\ worker'.pc = "leaveMode"
  BY DEF Leave, At, Goto, Return, Idle, WorkerType
<1>19. LeaveMode => worker.pc = "leaveMode" /\ worker'.pc \in {"correct", "calibrate"}
  BY DEF LeaveMode, At, Goto, Return, Idle, WorkerType
<1>20. Correct => worker.pc = "correct" /\ worker'.pc = "correctNext"
  BY DEF Correct, At, Goto, Return, Idle, WorkerType
<1>21. CorrectNext => worker.pc = "correctNext" /\ worker'.pc \in {"correctNext", "correctClear", "idle"}
  <2> SUFFICES ASSUME CorrectNext
               PROVE  worker.pc = "correctNext" /\ worker'.pc \in {"correctNext", "correctClear", "idle"}
    OBVIOUS
  <2>1. ASSUME NEW c,
               worker' = [worker EXCEPT !.cur = c, !.todo = @ \ {c},
                            !.pc = IF c \in gate.real THEN "correctNext" ELSE "correctClear"]
        PROVE  worker'.pc \in {"correctNext", "correctClear"}
    BY <2>1 DEF WorkerType
  <2>2. \/ \E c : worker' = [worker EXCEPT !.cur = c, !.todo = @ \ {c},
                    !.pc = IF c \in gate.real THEN "correctNext" ELSE "correctClear"]
        \/ worker' = Idle
    BY Zenon DEF CorrectNext
  <2>3. worker'.pc \in {"correctNext", "correctClear"} \/ worker' = Idle
    BY <2>1, <2>2, Zenon
  <2>4. worker.pc = "correctNext"
    BY Zenon DEF CorrectNext, At
  <2> QED
    BY <2>3, <2>4 DEF Idle
<1>22. CorrectClear => worker.pc = "correctClear" /\ worker'.pc = "correctNext"
  BY DEF CorrectClear, At, Goto, Return, Idle, WorkerType
<1>23. ToggleSend => worker.pc = "toggleSend" /\ worker'.pc = "toggleClose"
  BY DEF ToggleSend, At, Goto, Return, Idle, WorkerType
<1>24. ToggleClose => worker.pc = "toggleClose" /\ worker'.pc = "toggleKey"
  BY DEF ToggleClose, At, Goto, Return, Idle, WorkerType
<1>25. ToggleKey => worker.pc = "toggleKey" /\ worker'.pc = "toggleClear"
  BY DEF ToggleKey, At, Goto, Return, Idle, WorkerType
<1>26. ToggleClear => worker.pc = "toggleClear" /\ worker'.pc = "toggleLow"
  BY DEF ToggleClear, At, Goto, Return, Idle, WorkerType
<1>27. ToggleLow => worker.pc = "toggleLow" /\ worker'.pc = "idle"
  BY DEF ToggleLow, At, Goto, Return, Idle, WorkerType
<1>28. RegisterHotkey => worker.pc = "register" /\ worker'.pc \in {"idle", "correct"}
  BY DEF RegisterHotkey, At, Goto, Return, Idle, WorkerType
<1>29. CloseSession => worker.pc = "idle" /\ worker'.pc \in {"scopeOpen", "leave"}
  BY DEF CloseSession, EndOfScope, At, Goto, Return, Idle, WorkerType
<1>30. UninstallHook => worker.pc \in {"idle", "ended"} /\ worker'.pc = "exit"
  BY DEF UninstallHook, At, Goto, Return, Idle, WorkerType
<1>31. ExitRelease => worker.pc = "exit" /\ worker'.pc \in {"exit", "exited"}
  BY DEF ExitRelease, At, Goto, Return, Idle, WorkerType
<1>32. \A m : ToNormal(m) => worker = Idle /\ worker'.pc = "refresh"
  BY DEF ToNormal, Start, Free, Idle
<1>33. \A m : ToPassing(m) => worker = Idle /\ worker'.pc = "closeAll"
  BY DEF ToPassing, Start, Free, Idle
<1>34. \A m : ToVisual(m) => worker = Idle /\ worker'.pc = "setMode"
  BY DEF ToVisual, Start, Free, Idle
<1>35. \A keys : Pushup(keys) => worker = Idle /\ worker'.pc = "snapshot"
  BY DEF Pushup, Start, Free, Idle
<1>36. \A kind : OpenSession(kind) => worker = Idle /\ worker'.pc = "refresh"
  BY DEF OpenSession, Start, Free, Idle
<1>37. \A m : ClearHotkeys(m) => worker = Idle /\ worker'.pc = "register"
  BY DEF ClearHotkeys, Start, Free, Idle
<1>38. \A k : RefreshToggle(k) => worker = Idle /\ worker'.pc = "toggleSend"
  BY DEF RefreshToggle, Start, Free, Idle
<1>39. Fail => /\ worker.pc \in RefusedPC /\ worker'.pc \in CaughtPC
               /\ worker'.pc = "exit" <=> worker.pc = "exit"
  <2> DEFINE Refused == /\ worker.pc \in RefusedPC /\ worker'.pc \in CaughtPC
                        /\ worker'.pc = "exit" <=> worker.pc = "exit"
  <2> USE DEF RefusedPC, CaughtPC
  <2>1. FailCaught => Refused
    BY DEF FailCaught, Goto, WorkerType
  <2>2. FailThrough => Refused
    BY DEF FailThrough, EndOfScope, Idle
  <2>3. FailOpen => Refused
    BY DEF FailOpen, At, Goto, WorkerType
  <2>4. FailScope => Refused
    BY DEF FailScope, At, Goto, WorkerType
  <2>5. FailCalibrate => Refused
    BY DEF FailCalibrate, At, Return, Idle
  <2>6. FailExit => Refused
    BY DEF FailExit, At, WorkerType
  <2> QED
    BY <2>1, <2>2, <2>3, <2>4, <2>5, <2>6 DEF Fail
<1>40. Calibrate => worker.pc = "calibrate" /\ worker'.pc \in {"idle", "correct", "calibrateNext"}
  <2>1. Return => worker'.pc \in {"idle", "correct"}
    BY DEF Return, Idle
  <2>2. Calibrate => worker.pc = "calibrate" /\ (Return \/ worker'.pc = "calibrateNext")
    BY DEF Calibrate, At, WorkerType
  <2> QED
    BY <2>1, <2>2
<1>41. CalibrateNext => worker.pc = "calibrateNext" /\ worker'.pc \in {"idle", "correct", "calibrateNext"}
  <2> SUFFICES ASSUME CalibrateNext
               PROVE  worker.pc = "calibrateNext" /\ worker'.pc \in {"idle", "correct", "calibrateNext"}
    OBVIOUS
  <2>1. worker.pc = "calibrateNext"
    BY DEF CalibrateNext, At
  <2>2. ASSUME NEW c, worker' = [worker EXCEPT !.todo = @ \ {c}] PROVE worker'.pc = worker.pc
    BY <2>2 DEF WorkerType
  <2>3. worker'.pc = worker.pc \/ Return
    BY <2>2 DEF CalibrateNext
  <2> QED
    BY <2>1, <2>3 DEF Return, Idle
<1> QED
  BY <1>1, <1>2, <1>3, <1>4, <1>5, <1>6, <1>7, <1>8, <1>9, <1>10, <1>11, <1>12, <1>13, <1>14,
     <1>15, <1>16, <1>17, <1>18, <1>19, <1>20, <1>21, <1>22, <1>23, <1>24, <1>25, <1>26, <1>27,
     <1>28, <1>29, <1>30, <1>31, <1>32, <1>33, <1>34, <1>35, <1>36, <1>37, <1>38, <1>39, <1>40,
     <1>41
  DEF Flow

SameMaps   == gate'.hotkey = gate.hotkey /\ gate'.identity = gate.identity
SameReal   == gate'.real = gate.real
SameLow    == gate'.lowlevel = gate.lowlevel
SameState  == gate'.state = gate.state
SamePort   == gate'.port = gate.port
SameAbsorb == gate'.absorb = gate.absorb

\* The parts of the gate.
LEMMA GateChanges ==
    ASSUME TypeOK, Next
    PROVE  /\ SameMaps \/ (\E m \in Modes : ClearHotkeys(m)) \/ RegisterHotkey
           /\ SameReal \/ HookRecord \/ ToggleClear
           /\ SameLow \/ (\E k \in Key, press \in BOOLEAN : UserKey(k, press)) \/ ToggleLow
           /\ SameState \/ HookVirtual \/ HookRecord \/ RefreshClear \/ UnpressClear \/ Restore
              \/ ScopeClear \/ CorrectClear \/ CalibrateNext \/ ToggleClose \/ ToggleClear
              \/ NoticeLock \/ ExitRelease \/ CloseSession
           /\ SamePort \/ HookLookup \/ HookClose \/ Refresh \/ CloseAll \/ Unpress
              \/ ClosePorts \/ ScopeOpen \/ ScopeClose \/ Calibrate \/ CalibrateNext
              \/ (\E k \in Toggle : RefreshToggle(k)) \/ ToggleClose
           /\ SameAbsorb \/ Absorb \/ Leave
<1> gate \in GateType /\ worker \in WorkerType
  BY DEF TypeOK
<1> USE DEF SameMaps, SameReal, SameLow, SameState, SamePort, SameAbsorb
<1>1. ASSUME NEW k, NEW press, UserKey(k, press)
      PROVE  SameMaps /\ SameReal /\ SameState /\ SamePort /\ SameAbsorb
  <2>1. \/ UNCHANGED gate
        \/ gate' = [gate EXCEPT !.lowlevel = Set(@, {k}, press), !.stale = @ \ {k}]
    BY <1>1 DEF UserKey
  <2> QED
    BY <2>1 DEF GateType
<1>2. ASSUME NEW k, Expire(k)
      PROVE  SameMaps /\ SameReal /\ SameLow /\ SameState /\ SamePort /\ SameAbsorb
  BY <1>2 DEF Expire, GateType
<1>3. HookLookup => SameMaps /\ SameReal /\ SameLow /\ SameState /\ SameAbsorb
  BY DEF HookLookup, GateType
<1>4. HookVirtual => SameMaps /\ SameReal /\ SameLow /\ SamePort /\ SameAbsorb
  BY DEF HookVirtual, GateType
<1>5. HookClose => SameMaps /\ SameReal /\ SameLow /\ SameState /\ SameAbsorb
  BY DEF HookClose, GateType
<1>6. HookRecord => SameMaps /\ SameLow /\ SamePort /\ SameAbsorb
  BY DEF HookRecord, GateType
<1>7. Refresh => SameMaps /\ SameReal /\ SameLow /\ SameState /\ SameAbsorb
  <2>1. Refresh => UNCHANGED gate \/ \E p : gate' = [gate EXCEPT !.port = p]
    BY DEF Refresh
  <2> QED
    BY <2>1 DEF GateType
<1>8. RefreshClear => SameMaps /\ SameReal /\ SameLow /\ SamePort /\ SameAbsorb
  BY DEF RefreshClear, GateType
<1>9. CloseAll => SameMaps /\ SameReal /\ SameLow /\ SameState /\ SameAbsorb
  BY DEF CloseAll, GateType
<1>10. Absorb => SameMaps /\ SameReal /\ SameLow /\ SameState /\ SamePort
  BY DEF Absorb, GateType
<1>11. Unpress => SameMaps /\ SameReal /\ SameLow /\ SameState /\ SameAbsorb
  <2>1. Unpress => UNCHANGED gate \/ \E p : gate' = [gate EXCEPT !.port = p]
    BY Zenon DEF Unpress
  <2> QED
    BY <2>1 DEF GateType
<1>12. UnpressClear => SameMaps /\ SameReal /\ SameLow /\ SamePort /\ SameAbsorb
  BY DEF UnpressClear, GateType
<1>13. ClosePorts => SameMaps /\ SameReal /\ SameLow /\ SameState /\ SameAbsorb
  BY DEF ClosePorts, GateType
<1>14. Restore => SameMaps /\ SameReal /\ SameLow /\ SamePort /\ SameAbsorb
  BY DEF Restore, GateType
<1>15. ScopeOpen => SameMaps /\ SameReal /\ SameLow /\ SameState /\ SameAbsorb
  BY DEF ScopeOpen, GateType
<1>16. ScopeClose => SameMaps /\ SameReal /\ SameLow /\ SameState /\ SameAbsorb
  BY DEF ScopeClose, GateType
<1>17. ScopeClear => SameMaps /\ SameReal /\ SameLow /\ SamePort /\ SameAbsorb
  BY DEF ScopeClear, GateType
<1>18. Leave => SameMaps /\ SameReal /\ SameLow /\ SameState /\ SamePort
  BY DEF Leave, GateType
<1>19. CorrectClear => SameMaps /\ SameReal /\ SameLow /\ SamePort /\ SameAbsorb
  BY DEF CorrectClear, GateType
<1>20. Calibrate => SameMaps /\ SameReal /\ SameLow /\ SameState /\ SameAbsorb
  BY DEF Calibrate, GateType
<1>21. CalibrateNext => SameMaps /\ SameReal /\ SameLow /\ SameAbsorb
  <2>1. CalibrateNext => \E x : gate' = [gate EXCEPT !.state = x] \/ gate' = [gate EXCEPT !.port = x]
    BY DEF CalibrateNext
  <2> QED
    BY <2>1 DEF GateType
<1>22. ASSUME NEW k, RefreshToggle(k)
      PROVE  SameMaps /\ SameReal /\ SameLow /\ SameState /\ SameAbsorb
  BY <1>22 DEF RefreshToggle, GateType
<1>23. ToggleClose => SameMaps /\ SameReal /\ SameLow /\ SameAbsorb
  BY DEF ToggleClose, GateType
<1>24. ToggleClear => SameMaps /\ SameLow /\ SamePort /\ SameAbsorb
  BY DEF ToggleClear, GateType
<1>25. ToggleLow => SameMaps /\ SameReal /\ SameState /\ SamePort /\ SameAbsorb
  BY DEF ToggleLow, GateType
<1>26. NoticeLock => SameMaps /\ SameReal /\ SameLow /\ SamePort /\ SameAbsorb
  BY DEF NoticeLock, GateType
<1>27. ExitRelease => SameMaps /\ SameReal /\ SameLow /\ SamePort /\ SameAbsorb
  <2>1. ExitRelease => UNCHANGED gate \/ \E x : gate' = [gate EXCEPT !.state = x]
    BY DEF ExitRelease
  <2> QED
    BY <2>1 DEF GateType
<1>28. ASSUME NEW m, ClearHotkeys(m)
      PROVE  SameReal /\ SameLow /\ SameState /\ SamePort /\ SameAbsorb
  BY <1>28 DEF ClearHotkeys, GateType
<1>29. RegisterHotkey => SameReal /\ SameLow /\ SameState /\ SamePort /\ SameAbsorb
  <2> SUFFICES ASSUME RegisterHotkey PROVE SameReal /\ SameLow /\ SameState /\ SamePort /\ SameAbsorb
    OBVIOUS
  <2>1. PICK r \in Remaps : gate' = [gate EXCEPT !.hotkey[worker.mode] = r.hotkey,
                                              !.identity[worker.mode] = r.identity]
    BY Zenon DEF RegisterHotkey
  <2> QED
    BY <2>1 DEF GateType
<1>30. UNCHANGED gate => SameMaps /\ SameReal /\ SameLow /\ SameState /\ SamePort /\ SameAbsorb
  OBVIOUS
<1>31. HookSend \/ HookDecide \/ RefreshSend \/ SetMode \/ Snapshot \/ UnpressSend \/ Stroke
       \/ ScopeSend \/ LeaveMode \/ Correct \/ CorrectNext \/ ToggleSend \/ ToggleKey
       \/ Fail \/ LockScreen \/ UninstallHook => UNCHANGED gate
  BY Zenon, FailFrame DEF HookSend, HookDecide, RefreshSend, SetMode, Snapshot, UnpressSend, Stroke, ScopeSend,
         LeaveMode, Correct, CorrectNext, ToggleSend, ToggleKey, LockScreen, UninstallHook
<1>32. /\ \A m : ToNormal(m) \/ ToPassing(m) \/ ToVisual(m) => UNCHANGED gate
       /\ \A x : Pushup(x) \/ OpenSession(x) => UNCHANGED gate
  BY Zenon DEF ToNormal, ToPassing, ToVisual, Pushup, OpenSession
<1>33. CloseSession => SameMaps /\ SameReal /\ SameLow /\ SamePort /\ SameAbsorb
  <2>1. CloseSession => \E keys : gate' = [gate EXCEPT !.state = @ \ keys]
    BY Zenon DEF CloseSession
  <2> QED
    BY <2>1 DEF GateType
<1> HIDE DEF SameMaps, SameReal, SameLow, SameState, SamePort, SameAbsorb
<1> QED
  BY <1>1, <1>2, <1>3, <1>4, <1>5, <1>6, <1>7, <1>8, <1>9, <1>10, <1>11, <1>12, <1>13,
     <1>14, <1>15, <1>16, <1>17, <1>18, <1>19, <1>20, <1>21, <1>22, <1>23, <1>24, <1>25,
     <1>26, <1>27, <1>28, <1>29, <1>30, <1>31, <1>32, <1>33
  DEF Next, User, HookStep, Begin, Background, Steps, ToggleStep

\* The other variables.  The user and the hook never touch the worker, and the
\* worker never touches the hook.
SameScreen  == UNCHANGED <<env.locked, env.noticed, env.hooked>>
SameSession == UNCHANGED <<session.kind, session.flag, session.mode>>

LEMMA OtherChanges ==
    ASSUME TypeOK, Next
    PROVE  /\ UNCHANGED mode \/ SetMode \/ (\E kind \in SessionKind : OpenSession(kind)) \/ LeaveMode
           /\ SameSession \/ (\E kind \in SessionKind : OpenSession(kind)) \/ LeaveMode
           /\ SameScreen \/ LockScreen \/ NoticeLock \/ UninstallHook
           /\ UNCHANGED down \/ (\E k \in Key, press \in BOOLEAN : UserKey(k, press))
           /\ UNCHANGED hook \/ (\E k \in Key, press \in BOOLEAN : UserKey(k, press)) \/ HookStep
           /\ \/ /\ WorkerStep /\ UNCHANGED <<down, hook>>
                 /\ SameScreen \/ UninstallHook
              \/ /\ Outside /\ UNCHANGED <<worker, mode, session>>
                 /\ UNCHANGED <<env.lost, env.slipped>>
           /\ env.lost \subseteq env'.lost
<1> env \in EnvType /\ session \in SessionType
  BY DEF TypeOK
<1>1. Refresh \/ RefreshSend \/ RefreshClear \/ CloseAll \/ Snapshot \/ Unpress \/
      UnpressSend \/ UnpressClear \/ Stroke \/ ClosePorts \/ Restore \/ ScopeOpen \/
      ScopeSend \/ ScopeClear \/ Leave \/ Correct \/ CorrectNext \/
      CorrectClear \/ Calibrate \/ CalibrateNext \/ ToggleSend \/ ToggleClose \/ ToggleKey
      \/ ToggleClear \/ ToggleLow \/ ExitRelease \/ RegisterHotkey
      => UNCHANGED <<down, hook, env, mode, session>>
  BY Zenon DEF Refresh, RefreshSend, RefreshClear, CloseAll, Snapshot, Unpress,
      UnpressSend, UnpressClear, Stroke, ClosePorts, Restore, ScopeOpen, ScopeSend,
      ScopeClear, Leave, Correct, CorrectNext, CorrectClear, Calibrate,
      CalibrateNext, ToggleSend, ToggleClose, ToggleKey, ToggleClear, ToggleLow,
      ExitRelease, RegisterHotkey
<1> DEFINE Keeps == env.lost \subseteq env'.lost
<1>2. /\ SetMode \/ LeaveMode \/ Absorb \/ CloseSession => UNCHANGED <<down, hook>> /\ SameScreen /\ Keeps
      /\ SetMode \/ Absorb \/ CloseSession => SameSession
      /\ Absorb \/ CloseSession => UNCHANGED mode
  <2>1. SetMode => UNCHANGED <<down, hook>> /\ SameScreen /\ SameSession /\ Keeps
    BY DEF SetMode, SameScreen, SameSession, EnvType
  <2>2. LeaveMode => UNCHANGED <<down, hook>> /\ SameScreen /\ Keeps
    BY DEF LeaveMode, SameScreen, EnvType
  <2>3. Absorb => UNCHANGED <<down, hook, mode>> /\ SameScreen /\ SameSession /\ Keeps
    BY DEF Absorb, SameScreen, SameSession, EnvType
  <2>4. CloseSession => UNCHANGED <<down, hook, mode>> /\ SameScreen /\ SameSession /\ Keeps
    <3>1. CloseSession => \E keys : env' = [env EXCEPT !.lost = @ \cup (os \cap keys)]
      BY Zenon DEF CloseSession
    <3>2. CloseSession => UNCHANGED <<down, hook, mode, session>>
      BY Zenon DEF CloseSession
    <3> QED
      BY <3>1, <3>2 DEF SameScreen, SameSession, EnvType
  <2> QED
    BY <2>1, <2>2, <2>3, <2>4
<1>3. /\ NoticeLock \/ LockScreen
           => UNCHANGED <<down, hook, mode, session, worker, env.lost, env.slipped>>
  BY DEF NoticeLock, LockScreen, EnvType
<1>4. UninstallHook => UNCHANGED <<down, hook, mode, session>> /\ Keeps
  BY DEF UninstallHook, EnvType
<1>5. HookStep => UNCHANGED <<down, env, mode, session, worker>>
  BY Zenon DEF HookStep, HookLookup, HookSend, HookVirtual, HookClose, HookRecord, HookDecide
<1>6. \A k : Expire(k) => UNCHANGED <<down, hook, env, mode, session, worker>>
  BY Zenon DEF Expire
<1>7. \A k, press : UserKey(k, press) => UNCHANGED <<env, mode, session, worker>>
  BY Zenon DEF UserKey
<1>8. \A m : ToNormal(m) \/ ToPassing(m) \/ ToVisual(m) \/ ClearHotkeys(m)
        => UNCHANGED <<down, hook, env, mode, session>>
  BY Zenon DEF ToNormal, ToPassing, ToVisual, ClearHotkeys
<1>9. \A x : Pushup(x) \/ RefreshToggle(x) => UNCHANGED <<down, hook, env, mode, session>>
  BY Zenon DEF Pushup, RefreshToggle
<1>10. \A kind : OpenSession(kind) => UNCHANGED <<down, hook, env>>
  BY Zenon DEF OpenSession
<1>11. ScopeClose => UNCHANGED <<down, hook, env, mode>> /\ SameSession
  BY DEF ScopeClose, SameSession, SessionType
<1>12. Fail => SameScreen /\ SameSession /\ Keeps
  <2>1. FailCaught \/ FailCalibrate \/ FailExit => UNCHANGED <<env, session>>
    BY DEF FailCaught, FailCalibrate, FailExit
  <2>2. FailThrough \/ FailOpen => UNCHANGED env /\ SameSession
    BY DEF FailThrough, FailOpen, SameSession, SessionType
  <2>3. FailScope => SameScreen /\ SameSession /\ Keeps
    BY DEF FailScope, SameScreen, SameSession, SessionType, EnvType
  <2> QED
    BY <2>1, <2>2, <2>3 DEF Fail, SameScreen, SameSession
<1>13. /\ UNCHANGED env => SameScreen /\ UNCHANGED <<env.lost, env.slipped>>
       /\ UNCHANGED session => SameSession
  BY DEF SameScreen, SameSession
<1> HIDE DEF SameScreen, SameSession
<1> QED
  BY <1>1, <1>2, <1>3, <1>4, <1>5, <1>6, <1>7, <1>8, <1>9, <1>10, <1>11, <1>12, <1>13, FailFrame
  DEF Next, User, Begin, Background, Steps, ToggleStep, WorkerStep, Outside

\* What the applications take to be pressed grows with what the user presses, the
\* target of a hotkey, and the Alt key of SwitchWindow.
LEMMA OsChanges ==
    /\ WorkerStep => os' \subseteq os \/ (ScopeSend /\ worker.press)
    /\ Outside => \/ os' \subseteq os \/ HookSend \/ HookDecide
                  \/ \E k \in Key, press \in BOOLEAN : UserKey(k, press)
<1>1. \A cs : SendInput(cs, FALSE) => os' \subseteq os
  BY DEF SendInput, Set
<1>2. RefreshSend \/ UnpressSend \/ Stroke \/ ToggleSend \/ ToggleKey => os' \subseteq os
  BY <1>1, Zenon DEF RefreshSend, UnpressSend, Stroke, ToggleSend, ToggleKey, Send
<1>3. ScopeSend => worker.press \/ os' \subseteq os
  BY DEF ScopeSend, Send, SendInput, Set
<1>4. CalibrateNext \/ ExitRelease => os' \subseteq os \/ UNCHANGED os
  BY <1>1, Zenon DEF CalibrateNext, ExitRelease, Send
<1>5. LockScreen => os' = {}
  BY Zenon DEF LockScreen
<1>6. Refresh \/ RefreshClear \/ CloseAll \/ Absorb \/ SetMode \/ Snapshot \/ Unpress \/
      UnpressClear \/ ClosePorts \/ Restore \/ ScopeOpen \/ ScopeClose \/ ScopeClear \/
      Leave \/ LeaveMode \/ Correct \/ CorrectNext \/ CorrectClear \/ Calibrate \/
      ToggleClose \/ ToggleClear \/ ToggleLow \/ RegisterHotkey \/ Fail \/ CloseSession \/
      UninstallHook \/ NoticeLock \/ HookLookup \/ HookVirtual \/ HookClose \/ HookRecord =>
      UNCHANGED os
  BY Zenon, FailFrame DEF Refresh, RefreshClear, CloseAll, Absorb, SetMode, Snapshot, Unpress,
      UnpressClear, ClosePorts, Restore, ScopeOpen, ScopeClose, ScopeClear, Leave,
      LeaveMode, Correct, CorrectNext, CorrectClear, Calibrate, ToggleClose,
      ToggleClear, ToggleLow, RegisterHotkey, CloseSession, UninstallHook,
      NoticeLock, HookLookup, HookVirtual, HookClose, HookRecord
<1>7. \A m : ToNormal(m) \/ ToPassing(m) \/ ToVisual(m) \/ ClearHotkeys(m) \/ Expire(m)
        => UNCHANGED os
  BY Zenon DEF ToNormal, ToPassing, ToVisual, ClearHotkeys, Expire
<1>8. \A x : Pushup(x) \/ RefreshToggle(x) \/ OpenSession(x) => UNCHANGED os
  BY Zenon DEF Pushup, RefreshToggle, OpenSession
<1> QED
  BY <1>2, <1>3, <1>4, <1>5, <1>6, <1>7, <1>8
  DEF User, HookStep, Begin, Background, Steps, ToggleStep, WorkerStep, Outside

\* A step on the way to absorb, or to set the mode, follows another one of the
\* same operation, or begins an operation.
BeginsEntry ==
    \/ \E m \in Modes \cap NormalModes  : ToNormal(m)
    \/ \E m \in Modes \cap PassingModes : ToPassing(m)
    \/ \E m \in Modes \cap VisualModes  : ToVisual(m)
    \/ \E kind \in SessionKind : OpenSession(kind)

LEMMA EntrySteps ==
    ASSUME TypeOK, Next, worker'.pc \in EntryPC \cup {"setMode"}
    PROVE  \/ UNCHANGED worker
           \/ worker.pc \in EntryPC /\ worker'.op = worker.op /\ worker'.mode = worker.mode
           \/ BeginsEntry
<1> worker \in WorkerType
  BY DEF TypeOK
<1>1. Flow
  BY FlowOfWorker
<1>2. WorkerStep \/ UNCHANGED worker
  BY OtherChanges
<1>3. Refresh \/ RefreshSend \/ RefreshClear \/ CloseAll \/ Absorb \/ BeginsEntry \/ UNCHANGED worker
  BY <1>1, <1>2 DEF Flow, EntryPC, CaughtPC, WorkerStep, Begin, Steps, ToggleStep, BeginsEntry
<1>4. Refresh \/ RefreshSend \/ RefreshClear \/ CloseAll \/ Absorb => worker.pc \in EntryPC
  BY <1>1 DEF Flow, EntryPC
<1> DEFINE Keeps == worker'.op = worker.op /\ worker'.mode = worker.mode
<1>5. RefreshSend \/ CloseAll => Keeps
  BY DEF RefreshSend, CloseAll, Goto, WorkerType
<1>6. Refresh \/ RefreshClear => Keeps
  BY DEF Refresh, RefreshClear, Goto, WorkerType
<1>7. Absorb /\ worker'.pc \in EntryPC \cup {"setMode"} => Keeps
  BY DEF Absorb, Idle, EntryPC, WorkerType
<1> QED
  BY <1>3, <1>4, <1>5, <1>6, <1>7

-----------------------------------------------------------------------------
(***************************************************************************)
(* The COMMAND mode lasts as long as the session that set it.              *)
(***************************************************************************)
CommandInv ==
    /\ NoModeWithoutSession
    /\ session.kind # "none" => session.mode # "COMMAND"
    /\ worker.pc \in EntryPC \cup {"setMode"} => worker.mode # "COMMAND"

LEMMA CommandInvKept ==
    ASSUME InitMode # "COMMAND", TypeOK, CommandInv, Next
    PROVE  CommandInv'
<1> USE DEF CommandInv, NoModeWithoutSession
<1> worker \in WorkerType /\ session \in SessionType
  BY DEF TypeOK
<1>1. CASE SetMode
  <2>1. mode' = worker.mode /\ UNCHANGED session /\ worker.pc = "setMode"
    BY <1>1 DEF SetMode, At
  <2>2. worker'.pc \notin EntryPC \cup {"setMode"}
    BY <1>1, FlowOfWorker DEF Flow, EntryPC
  <2> QED
    BY <2>1, <2>2
<1>2. ASSUME NEW kind \in SessionKind, OpenSession(kind) PROVE CommandInv'
  <2>1. mode # "COMMAND"
    BY <1>2 DEF OpenSession
  <2>2. session' = [kind |-> kind, flag |-> gate.absorb, mode |-> mode, thrown |-> FALSE]
        /\ mode' = IF kind = "command" THEN "COMMAND" ELSE mode
    BY <1>2 DEF OpenSession
  <2>3. worker'.mode = InitMode
    BY <1>2 DEF OpenSession, Idle
  <2> QED
    BY <2>1, <2>2, <2>3
<1>3. CASE LeaveMode
  <2>1. mode' = (IF session.kind = "command" /\ mode = "COMMAND" THEN session.mode ELSE mode)
        /\ session' = NoSession
    BY <1>3 DEF LeaveMode
  <2>2. worker'.pc \in {"correct", "calibrate"}
    BY <1>3, FlowOfWorker DEF Flow
  <2> QED
    BY <2>1, <2>2 DEF NoSession, EntryPC
<1>4. CASE UNCHANGED mode /\ SameSession
  <2> USE DEF SameSession
  <2>1. CASE UNCHANGED worker \/ (worker.pc \in EntryPC /\ worker'.mode = worker.mode)
    BY <1>4, <2>1
  <2>2. ASSUME NEW m \in NormalModes \cup PassingModes \cup VisualModes, worker'.mode = m
        PROVE  CommandInv'
    BY <1>4, <2>2 DEF NormalModes, PassingModes, VisualModes
  <2>3. CASE BeginsEntry
    <3>1. \A m : ToNormal(m) \/ ToPassing(m) \/ ToVisual(m) => worker'.mode = m
      BY DEF ToNormal, ToPassing, ToVisual, Idle
    <3> QED
      BY <1>2, <2>2, <2>3, <3>1 DEF BeginsEntry
  <2>4. CASE worker'.pc \notin EntryPC \cup {"setMode"}
    BY <1>4, <2>4
  <2>5. \/ worker'.pc \notin EntryPC \cup {"setMode"} \/ UNCHANGED worker \/ BeginsEntry
        \/ (worker.pc \in EntryPC /\ worker'.mode = worker.mode)
    BY EntrySteps
  <2> HIDE DEF CommandInv, NoModeWithoutSession
  <2> QED
    BY <2>1, <2>3, <2>4, <2>5
<1> QED
  BY <1>1, <1>2, <1>3, <1>4, OtherChanges

\* ToCommand never leaves the COMMAND mode behind, whatever fails, whichever
\* functions are executed in its session and however the two threads interleave:
\* the mode is COMMAND only during a session of ToCommand.
THEOREM CommandModeEnds == InitMode # "COMMAND" /\ Spec => []NoModeWithoutSession
<1> SUFFICES ASSUME InitMode # "COMMAND" PROVE Spec => []NoModeWithoutSession
  OBVIOUS
<1>1. Init => TypeOK /\ CommandInv
  <2> SUFFICES ASSUME Init PROVE TypeOK /\ CommandInv
    OBVIOUS
  <2>1. TypeOK
    BY CodesAssumption, ModesAssumption, InitType
  <2> QED
    BY <2>1 DEF Init, CommandInv, NoModeWithoutSession, NoSession, Idle, EntryPC
<1>2. TypeOK /\ CommandInv /\ [Next]_vars => (TypeOK /\ CommandInv)'
  <2> SUFFICES ASSUME TypeOK, CommandInv, [Next]_vars PROVE TypeOK' /\ CommandInv'
    OBVIOUS
  <2>1. TypeOK'
    BY TypeStep
  <2>2. CASE Next
    BY <2>1, <2>2, CommandInvKept
  <2>3. CASE UNCHANGED vars
    BY <2>1, <2>3 DEF vars, CommandInv, NoModeWithoutSession
  <2> QED
    BY <2>2, <2>3
<1>3. CommandInv => NoModeWithoutSession
  BY DEF CommandInv
<1> QED
  BY <1>1, <1>2, <1>3, PTL DEF Spec

-----------------------------------------------------------------------------
(***************************************************************************)
(* The maps that are in force when no map command changes them.            *)
(***************************************************************************)
NoMaps == \A m \in Modes \cup {"GUI_NORMAL"} : <<"map", m>> \notin Bound

\* What the hook sends for a key in a mode; a key with no target is recorded.
Targets(m, k) ==
    InitHotkey[m][IF \E c \in RepSet(k) : InitHotkey[m][c] # {} THEN RepOf[k] ELSE k]
Unmapped(k) == \A m \in Modes : Targets(m, k) = {}

MapsStay ==
    /\ gate.hotkey = InitHotkey /\ gate.identity = InitIdentity /\ worker.pc # "register"
    /\ hook.pc \in {"send", "virtual", "close"} =>
          hook.target = Targets(hook.mode, hook.key) /\ hook.target # {}
    /\ hook.pc \in {"record", "decide"} => Targets(hook.mode, hook.key) = {}

\* A call of the hook goes on with the key, the mode and the target it began with.
LEMMA HookGoesOn ==
    ASSUME TypeOK
    PROVE  /\ HookSend    => hook.pc = "send" /\ hook'.pc = "virtual"
           /\ HookVirtual => hook.pc = "virtual" /\ hook'.pc = "close"
           /\ HookRecord  => hook.pc = "record" /\ hook'.pc = "decide"
           /\ HookSend \/ HookVirtual \/ HookRecord =>
                 /\ hook'.key = hook.key /\ hook'.press = hook.press
                 /\ hook'.mode = hook.mode /\ hook'.target = hook.target
           /\ HookClose  => hook.pc = "close" /\ hook'.pc = "idle"
           /\ HookDecide => hook.pc = "decide" /\ hook'.pc = "idle"
<1> hook \in HookType
  BY DEF TypeOK
<1>1. HookSend => /\ hook.pc = "send" /\ hook'.pc = "virtual"
                  /\ hook'.key = hook.key /\ hook'.press = hook.press
                  /\ hook'.mode = hook.mode /\ hook'.target = hook.target
  BY DEF HookSend, HookType
<1>2. HookVirtual => /\ hook.pc = "virtual" /\ hook'.pc = "close"
                     /\ hook'.key = hook.key /\ hook'.press = hook.press
                     /\ hook'.mode = hook.mode /\ hook'.target = hook.target
  BY DEF HookVirtual, HookType
<1>3. HookRecord => /\ hook.pc = "record" /\ hook'.pc = "decide"
                    /\ hook'.key = hook.key /\ hook'.press = hook.press
                    /\ hook'.mode = hook.mode /\ hook'.target = hook.target
  BY DEF HookRecord, HookType
<1>4. HookClose => hook.pc = "close" /\ hook'.pc = "idle"
  BY DEF HookClose, NoHook
<1>5. HookDecide => hook.pc = "decide" /\ hook'.pc = "idle"
  BY DEF HookDecide, NoHook
<1> QED
  BY <1>1, <1>2, <1>3, <1>4, <1>5

LEMMA HookLooksUp ==
    ASSUME TypeOK, HookLookup
    PROVE  /\ hook.pc = "lookup" /\ hook'.pc = (IF hook'.target = {} THEN "record" ELSE "send")
           /\ hook'.key = hook.key /\ hook'.press = hook.press /\ hook'.mode = hook.mode
           /\ gate'.port = gate.port \cup hook'.target
           /\ gate.hotkey = InitHotkey => hook'.target = Targets(hook.mode, hook.key)
           /\ \E c \in Code : hook'.target = gate.hotkey[hook.mode][c]
<1> hook \in HookType /\ gate \in GateType
  BY DEF TypeOK
<1> DEFINE keys   == gate.hotkey[hook.mode]
           repMap == {c \in RepSet(hook.key) : keys[c] # {}}
           code   == IF repMap # {} THEN RepOf[hook.key] ELSE hook.key
<1>1. /\ hook' = [hook EXCEPT !.pc = IF keys[code] = {} THEN "record" ELSE "send",
                              !.target = keys[code]]
      /\ gate' = [gate EXCEPT !.port = @ \cup keys[code]] /\ hook.pc = "lookup"
  BY Zenon DEF HookLookup
<1>0. hook.pc = "lookup"
  BY Zenon DEF HookLookup
<1>2. code \in Code
  <2>1. hook.key \in Key /\ hook.key \in Code
    <3>1. hook.key \in Key
      BY <1>0 DEF TypeOK
    <3>2. Key \subseteq Code
      BY CodesAssumption DEF CodesAssumption
    <3> QED
      BY <3>1, <3>2
  <2>2. RepSet(hook.key) # {} => RepOf[hook.key] \in Code
    BY <2>1, CodesAssumption DEF CodesAssumption, RepSet
  <2>3. repMap # {} => RepSet(hook.key) # {}
    OBVIOUS
  <2> HIDE DEF repMap
  <2> QED
    BY <2>1, <2>2, <2>3
<1>3. gate.hotkey = InitHotkey => keys[code] = Targets(hook.mode, hook.key)
  BY DEF Targets
<1> HIDE DEF code
<1> QED
  BY <1>1, <1>2, <1>3 DEF HookType, GateType

LEMMA UserKeyHook ==
    ASSUME NEW k, NEW press, UserKey(k, press)
    PROVE  /\ hook.pc = "idle"
           /\ \/ UNCHANGED hook
              \/ /\ hook'.pc = "lookup" /\ hook'.key = k /\ hook'.press = press
                 /\ hook'.mode = mode /\ hook'.target = {}
                 /\ ~env.locked /\ env.hooked /\ (press \/ k \notin Toggle)
BY DEF UserKey, NoHook

LEMMA MapsKept ==
    ASSUME NoMaps, TypeOK, MapsStay, Next
    PROVE  MapsStay'
<1>1. Flow
  BY FlowOfWorker
<1>2. \A m \in Modes : ~ClearHotkeys(m)
  BY DEF ClearHotkeys, Start, NoMaps, TypeOK
<1>3. ~RegisterHotkey
  BY Zenon DEF RegisterHotkey, At, MapsStay
<1>4. SameMaps
  BY <1>2, <1>3, GateChanges
<1>5. worker'.pc # "register"
  <2>1. WorkerStep \/ UNCHANGED worker
    BY OtherChanges
  <2> QED
    BY <1>1, <1>2, <1>3, <2>1 DEF Flow, CaughtPC, WorkerStep, Begin, Steps, ToggleStep, MapsStay
<1>6. CASE UNCHANGED hook
  BY <1>4, <1>5, <1>6 DEF MapsStay, SameMaps
<1>7. ASSUME NEW k \in Key, NEW press \in BOOLEAN, UserKey(k, press)
      PROVE  hook'.pc = "lookup" \/ UNCHANGED hook
  BY <1>7, UserKeyHook
<1>8. CASE HookStep
  <2>1. CASE HookLookup
    <3>1. hook'.target = Targets(hook.mode, hook.key) /\ hook'.key = hook.key
          /\ hook'.mode = hook.mode /\ hook'.pc = IF hook'.target = {} THEN "record" ELSE "send"
      BY <2>1, HookLooksUp DEF MapsStay
    <3> QED
      BY <1>4, <1>5, <3>1 DEF MapsStay, SameMaps
  <2>2. CASE HookSend \/ HookVirtual \/ HookRecord
    BY <1>4, <1>5, <2>2, HookGoesOn DEF MapsStay, SameMaps
  <2>3. CASE HookClose \/ HookDecide
    BY <1>4, <1>5, <2>3, HookGoesOn DEF MapsStay, SameMaps
  <2> QED
    BY <1>8, <2>1, <2>2, <2>3 DEF HookStep
<1>9. CASE hook'.pc = "lookup"
  BY <1>4, <1>5, <1>9 DEF MapsStay, SameMaps
<1> QED
  BY <1>6, <1>7, <1>8, <1>9, OtherChanges

-----------------------------------------------------------------------------
(***************************************************************************)
(* The record of the really pressed keys, without any order between the    *)
(* two threads.                                                            *)
(***************************************************************************)
\* A key that is a hotkey in one mode is one in every mode.
HotkeysEverywhere ==
    \A m, n \in Modes, k \in Key \ Toggle : Targets(m, k) = {} => Targets(n, k) = {}

\* refresh_toggle_state works on a lock key.
TogglePC  == {"toggleSend", "toggleClose", "toggleKey", "toggleClear", "toggleLow"}
ToggleCur == worker.pc \in TogglePC => worker.cur \in Toggle

LEMMA ToggleSteps ==
    ASSUME TypeOK, Next, worker'.pc \in TogglePC
    PROVE  \/ UNCHANGED worker
           \/ worker.pc \in TogglePC /\ worker'.cur = worker.cur /\ worker'.keys = worker.keys
           \/ \E k \in Toggle : RefreshToggle(k)
<1> worker \in WorkerType
  BY DEF TypeOK
<1>1. WorkerStep \/ UNCHANGED worker
  BY OtherChanges
<1>2. \/ ToggleSend \/ ToggleClose \/ ToggleKey \/ ToggleClear \/ ToggleLow
      \/ UNCHANGED worker \/ \E k \in Toggle : RefreshToggle(k)
  BY <1>1, FlowOfWorker DEF Flow, CaughtPC, TogglePC, WorkerStep, Begin, Steps, ToggleStep
<1>3. ToggleSend \/ ToggleClose \/ ToggleKey \/ ToggleClear
        => worker.pc \in TogglePC /\ worker'.cur = worker.cur /\ worker'.keys = worker.keys
  BY DEF ToggleSend, ToggleClose, ToggleKey, ToggleClear, At, Goto, WorkerType, TogglePC
<1>4. ~ToggleLow
  BY FlowOfWorker DEF Flow, TogglePC
<1> QED
  BY <1>2, <1>3, <1>4

LEMMA ToggleCurKept == TypeOK /\ ToggleCur /\ Next => ToggleCur'
<1> SUFFICES ASSUME TypeOK, ToggleCur, Next, worker'.pc \in TogglePC PROVE worker'.cur \in Toggle
  BY DEF ToggleCur
<1>1. ASSUME NEW k \in Toggle, RefreshToggle(k) PROVE worker'.cur \in Toggle
  BY <1>1 DEF RefreshToggle, Idle
<1> QED
  BY <1>1, ToggleSteps DEF ToggleCur

\* The hook call in progress is about a key that is down, if it is a press.  What
\* is really pressed is not a hotkey and is down until its release is processed;
\* a generic code is kept only with one of its keys.
RealInv ==
    /\ ~env.locked
    /\ hook.pc # "idle" => env.hooked /\ (hook.press => hook.key \in down)
    /\ \A k \in (gate.real \cap Key) \ Toggle :
          Unmapped(k) /\ (env.hooked => k \in down \/ Releasing(k))
    /\ \A c \in gate.real : c \notin Key => \E k \in gate.real \cap Key : RepOf[k] = c

LEMMA RealInvKept ==
    ASSUME ~MayLock, NoMaps, HotkeysEverywhere, TypeOK, MapsStay, ToggleCur, RealInv, Next
    PROVE  RealInv'
<1> gate \in GateType /\ hook \in HookType /\ env \in EnvType
  BY DEF TypeOK
<1>1. ~env'.locked /\ (env'.hooked => env.hooked)
  <2>1. ~LockScreen
    BY DEF LockScreen
  <2>2. NoticeLock \/ UninstallHook => env'.locked = env.locked /\ (env'.hooked => env.hooked)
    BY DEF NoticeLock, UninstallHook, EnvType
  <2> QED
    BY <2>1, <2>2, OtherChanges DEF RealInv, SameScreen
<1>2. CASE UNCHANGED <<hook, down>> /\ SameReal
  <2>1. hook.pc # "idle" => env'.hooked
    <3>1. UninstallHook => hook.pc = "idle"
      BY DEF UninstallHook
    <3>2. LockScreen \/ NoticeLock => env'.hooked = env.hooked
      BY DEF LockScreen, NoticeLock, EnvType
    <3> QED
      BY <3>1, <3>2, OtherChanges DEF RealInv, SameScreen
  <2> QED
    BY <1>1, <1>2, <2>1 DEF RealInv, SameReal, Releasing
<1>3. ASSUME NEW k \in Key, NEW press \in BOOLEAN, UserKey(k, press) PROVE RealInv'
  <2>1. UNCHANGED env /\ gate'.real = gate.real
    BY <1>3 DEF UserKey, GateType
  <2>2. down' = Set(down, {k}, press) /\ hook.pc = "idle"
    BY <1>3 DEF UserKey
  <2>3. CASE ~env.hooked
    BY <1>3, <1>1, <2>1, <2>2, <2>3, UserKeyHook DEF RealInv
  <2>4. CASE env.hooked
    <3>1. \A c \in gate.real \cap Key : c \notin Toggle => c \in down' \/ Releasing(c)'
      <4> SUFFICES ASSUME NEW c \in gate.real \cap Key, c \notin Toggle, c \notin down'
                   PROVE  Releasing(c)'
        OBVIOUS
      <4>1. c \in down
        BY <2>2, <2>4 DEF RealInv, Releasing
      <4>2. c = k /\ ~press
        BY <2>2, <4>1 DEF Set
      <4>3. hook'.pc = "lookup" /\ hook'.key = k /\ hook'.press = press
        BY <1>3, <1>1, <2>4, <4>2 DEF UserKey, NoHook, RealInv
      <4> QED
        BY <4>2, <4>3 DEF Releasing
    <3>2. hook'.pc # "idle" => (hook'.press => hook'.key \in down')
      BY <1>3, <2>2, UserKeyHook DEF Set
    <3> QED
      BY <1>1, <2>1, <2>4, <3>1, <3>2 DEF RealInv
  <2> QED
    BY <2>3, <2>4
<1>4. CASE HookStep
  <2>1. UNCHANGED <<down, env>>
    BY <1>4 DEF HookStep, HookLookup, HookSend, HookVirtual, HookClose, HookRecord, HookDecide
  <2>2. CASE HookLookup
    <3>1. /\ hook.pc = "lookup" /\ hook'.pc = (IF hook'.target = {} THEN "record" ELSE "send")
          /\ hook'.key = hook.key /\ hook'.press = hook.press
          /\ hook'.target = Targets(hook.mode, hook.key)
      BY <2>2, HookLooksUp DEF MapsStay
    <3>2. SameReal
      BY <2>2 DEF HookLookup, SameReal, GateType
    <3>3. ASSUME NEW k \in (gate.real \cap Key) \ Toggle, env.hooked PROVE k \in down \/ Releasing(k)'
      <4>1. CASE k \in down
        BY <4>1
      <4>2. CASE Releasing(k)
        <5>1. k = hook.key /\ ~hook.press /\ Unmapped(k)
          BY <4>2 DEF Releasing, RealInv
        <5>2. hook'.pc = "record"
          BY <3>1, <5>1 DEF Unmapped, HookType
        <5> QED
          BY <3>1, <5>1, <5>2 DEF Releasing
      <4> QED
        BY <3>3, <4>1, <4>2 DEF RealInv
    <3> QED
      BY <2>1, <3>1, <3>2, <3>3 DEF RealInv, SameReal
  <2>3. CASE HookSend \/ HookVirtual \/ HookClose \/ HookDecide
    <3>1. hook.pc \notin {"idle", "lookup", "record"} /\ hook'.pc \notin {"lookup", "record"}
          /\ (hook'.pc # "idle" => hook'.key = hook.key /\ hook'.press = hook.press)
      BY <2>3, HookGoesOn
    <3>2. SameReal
      BY <2>3 DEF HookSend, HookVirtual, HookClose, HookDecide, SameReal, GateType
    <3> QED
      BY <2>1, <3>1, <3>2 DEF RealInv, SameReal, Releasing
  <2>4. CASE HookRecord
    <3> DEFINE cs == RepSet(hook.key) \cup {hook.key}
    <3>1. /\ hook.pc = "record" /\ hook'.pc = "decide"
          /\ hook'.key = hook.key /\ hook'.press = hook.press
      BY <2>4, HookGoesOn
    <3>2. gate'.real = Set(gate.real, cs, hook.press)
      BY <2>4 DEF HookRecord, GateType
    <3>3. hook.key \in Key /\ Key \subseteq Code /\ \A c \in cs : c \in Key <=> c = hook.key
      BY <3>1, CodesAssumption DEF CodesAssumption, TypeOK, RepSet
    <3>4. hook.key \notin Toggle => Unmapped(hook.key)
      BY <3>1, <3>3 DEF MapsStay, Unmapped, HotkeysEverywhere, HookType
    <3>5. env.hooked
      BY <3>1 DEF RealInv
    <3>6. \A k \in (gate'.real \cap Key) \ Toggle : Unmapped(k) /\ k \in down
      <4> SUFFICES ASSUME NEW k \in (gate'.real \cap Key) \ Toggle PROVE Unmapped(k) /\ k \in down
        OBVIOUS
      <4>1. CASE hook.press
        BY <3>1, <3>2, <3>3, <3>4, <3>5, <4>1 DEF RealInv, Set, Releasing
      <4>2. CASE ~hook.press
        BY <3>1, <3>2, <3>3, <3>5, <4>2 DEF RealInv, Set, Releasing
      <4> QED
        BY <4>1, <4>2
    <3>7. \A c \in gate'.real : c \notin Key => \E k \in gate'.real \cap Key : RepOf[k] = c
      <4> SUFFICES ASSUME NEW c \in gate'.real, c \notin Key
                   PROVE  \E k \in gate'.real \cap Key : RepOf[k] = c
        OBVIOUS
      <4>1. CASE c \in RepSet(hook.key)
        <5>1. hook.press /\ RepOf[hook.key] = c
          BY <3>2, <4>1 DEF Set, RepSet
        <5> QED
          BY <3>2, <3>3, <5>1 DEF Set
      <4>2. CASE c \notin RepSet(hook.key)
        <5>1. PICK k \in gate.real \cap Key : RepOf[k] = c
          BY <3>2, <3>3, <4>2 DEF Set, RealInv
        <5>2. c # 0
          BY <3>2, <3>3, <4>2 DEF Set, GateType, Code
        <5>3. k # hook.key
          BY <4>2, <5>1, <5>2 DEF RepSet
        <5>4. k \in gate'.real
          BY <3>2, <3>3, <5>1, <5>3 DEF Set
        <5> QED
          BY <5>1, <5>4
      <4> QED
        BY <4>1, <4>2
    <3> QED
      BY <1>1, <2>1, <3>1, <3>5, <3>6, <3>7 DEF RealInv
  <2> QED
    BY <1>4, <2>2, <2>3, <2>4 DEF HookStep
<1>5. CASE ToggleClear
  <2>1. gate'.real = gate.real \ {worker.cur} /\ UNCHANGED <<down, hook, env>>
    BY <1>5 DEF ToggleClear, GateType
  <2>2. worker.cur \in Toggle
    BY <1>5, FlowOfWorker DEF ToggleCur, TogglePC, Flow
  <2>3. worker.cur \in Key /\ RepOf[worker.cur] = 0
    BY <2>2, CodesAssumption DEF CodesAssumption
  <2>4. \A c \in gate'.real : c \notin Key => \E k \in gate'.real \cap Key : RepOf[k] = c
    <3> SUFFICES ASSUME NEW c \in gate'.real, c \notin Key
                 PROVE  \E k \in gate'.real \cap Key : RepOf[k] = c
      OBVIOUS
    <3>1. PICK k \in gate.real \cap Key : RepOf[k] = c
      BY <2>1 DEF RealInv
    <3>2. c # 0
      BY <2>1, CodesAssumption DEF CodesAssumption, GateType, Code
    <3> QED
      BY <2>1, <2>3, <3>1, <3>2
  <2> QED
    BY <2>1, <2>4 DEF RealInv, Releasing
<1> QED
  <2>1. SameReal \/ HookRecord \/ ToggleClear
    BY GateChanges
  <2>2. /\ UNCHANGED down \/ (\E k \in Key, press \in BOOLEAN : UserKey(k, press))
        /\ UNCHANGED hook \/ (\E k \in Key, press \in BOOLEAN : UserKey(k, press)) \/ HookStep
    BY OtherChanges
  <2> QED
    BY <2>1, <2>2, <1>2, <1>3, <1>4, <1>5 DEF HookStep

\* Without map commands and lock screens, and with hotkeys that do not depend on the
\* mode, is_really_pressed tells the truth of every key but the lock keys, in every
\* interleaving of the hook and the worker: a key it reports is held, or its release
\* is being processed, and a generic code is reported only with one of its keys.
THEOREM ReallyPressed ==
    ~MayLock /\ NoMaps /\ HotkeysEverywhere /\ Spec => []RealIsHeld
<1> SUFFICES ASSUME ~MayLock, NoMaps, HotkeysEverywhere PROVE Spec => []RealIsHeld
  OBVIOUS
<1> DEFINE Inv == TypeOK /\ MapsStay /\ ToggleCur /\ RealInv
<1>1. Init => Inv
  <2> SUFFICES ASSUME Init PROVE Inv
    OBVIOUS
  <2>1. TypeOK
    BY CodesAssumption, ModesAssumption, InitType
  <2> QED
    BY <2>1 DEF Init, InitGate, NoHook, Idle, MapsStay, ToggleCur, TogglePC, RealInv
<1>2. Inv /\ [Next]_vars => Inv'
  <2> SUFFICES ASSUME Inv, [Next]_vars PROVE Inv'
    OBVIOUS
  <2>1. TypeOK'
    BY TypeStep
  <2>2. CASE Next
    BY <2>1, <2>2, MapsKept, ToggleCurKept, RealInvKept
  <2>3. CASE UNCHANGED vars
    BY <2>1, <2>3 DEF vars, MapsStay, ToggleCur, RealInv, Releasing
  <2> QED
    BY <2>2, <2>3
<1>3. Inv => RealIsHeld
  BY DEF RealInv, RealIsHeld
<1> QED
  BY <1>1, <1>2, <1>3, PTL DEF Spec

-----------------------------------------------------------------------------
(***************************************************************************)
(* When key events come between the operations of the worker only, the two *)
(* threads take turns.                                                     *)
(***************************************************************************)
ScopePC == {"scopeOpen", "scopeSend", "scopeClose"}

Turns ==
    /\ hook.pc # "idle" => worker.pc = "idle" /\ ~env.locked /\ hook.mode = mode
    /\ env.hooked <=> worker.pc \notin {"exit", "exited"}
    /\ env.locked => os = {} /\ worker.pc \notin EntryPC
    /\ worker.pc \in ScopePC \cup {"scopeClear"} => session.kind = "switch"
    /\ worker.pc \in ScopePC => worker.keys = {AltKey} /\ (worker.press => ~env.locked)

LEMMA HookWaits ==
    ASSUME Serial, TypeOK, Turns, WorkerStep
    PROVE  hook.pc = "idle"
<1>1. (\E m : ToNormal(m) \/ ToPassing(m) \/ ToVisual(m) \/ ClearHotkeys(m)) => hook.pc = "idle"
  BY DEF ToNormal, ToPassing, ToVisual, ClearHotkeys, Start, Free
<1>2. (\E x : Pushup(x) \/ OpenSession(x) \/ RefreshToggle(x)) => hook.pc = "idle"
  BY DEF Pushup, OpenSession, RefreshToggle, Start, Free
<1>3. CloseSession \/ UninstallHook => hook.pc = "idle"
  BY DEF CloseSession, UninstallHook
<1>4. worker.pc # "idle" => hook.pc = "idle"
  BY DEF Turns
<1> QED
  BY <1>1, <1>2, <1>3, <1>4, FlowOfWorker DEF WorkerStep, Begin, Steps, ToggleStep, Flow, RefusedPC

\* A key event finds the worker at rest, or at its end.
LEMMA UserWaits ==
    ASSUME Serial, Turns, NEW k, NEW press, UserKey(k, press)
    PROVE  /\ worker.pc \in {"idle", "exited"} /\ hook.pc = "idle"
           /\ env.locked => UNCHANGED os
BY DEF UserKey, Turns

LEMMA ScopeSteps ==
    ASSUME ~MayFail, TypeOK, WorkerStep, worker'.pc \in ScopePC \cup {"scopeClear"}
    PROVE  \/ Absorb /\ worker.op = "session" /\ session.kind = "switch" /\ worker'.keys = {AltKey}
           \/ CloseSession /\ session.kind = "switch" /\ worker'.keys = {AltKey} /\ ~worker'.press
           \/ /\ worker.pc \in ScopePC /\ worker'.keys = worker.keys
              /\ worker'.press => worker.press
              /\ ScopeOpen \/ ScopeSend \/ ScopeClose
<1> worker \in WorkerType
  BY DEF TypeOK
<1>1. Absorb \/ CloseSession \/ ScopeOpen \/ ScopeSend \/ ScopeClose
  <2>1. ~Fail
    BY DEF Fail
  <2> QED
    BY <2>1, FlowOfWorker DEF Flow, ScopePC, WorkerStep, Begin, Steps, ToggleStep
<1>2. Absorb => worker.op = "session" /\ session.kind = "switch" /\ worker'.keys = {AltKey}
  BY DEF Absorb, ScopePC, Idle, WorkerType
<1>3. CloseSession => session.kind = "switch" /\ worker'.keys = {AltKey} /\ ~worker'.press
  BY DEF CloseSession, EndOfScope, ScopePC, Idle
<1>4. ScopeOpen \/ ScopeSend => /\ worker.pc \in ScopePC /\ worker'.keys = worker.keys
                                /\ worker'.press => worker.press
  BY DEF ScopeOpen, ScopeSend, At, Goto, ScopePC, WorkerType
<1>5. ScopeClose => /\ worker.pc \in ScopePC /\ worker'.keys = worker.keys
                    /\ worker'.press => worker.press
  BY DEF ScopeClose, At, ScopePC, WorkerType
<1> QED
  BY <1>1, <1>2, <1>3, <1>4, <1>5

LEMMA TurnsKept ==
    ASSUME Serial, ~MayFail, TypeOK, Turns, Next
    PROVE  Turns'
<1> worker \in WorkerType /\ env \in EnvType
  BY DEF TypeOK
<1> ~Fail
  BY DEF Fail
<1>1. ASSUME WorkerStep, UNCHANGED <<down, hook>>, SameScreen \/ UninstallHook PROVE Turns'
  <2>1. hook.pc = "idle" /\ hook'.pc = "idle"
    BY <1>1, HookWaits
  <2>2. env'.locked = env.locked
    BY <1>1 DEF UninstallHook, SameScreen, EnvType
  <2>3. env'.hooked <=> worker'.pc \notin {"exit", "exited"}
    <3>1. CASE UninstallHook
      BY <3>1, FlowOfWorker DEF UninstallHook, Flow, EnvType
    <3>2. CASE ExitRelease
      BY <3>2, FlowOfWorker DEF ExitRelease, Flow, Turns
    <3>3. CASE ~UninstallHook /\ ~ExitRelease
      <4>1. worker.pc \notin {"exit", "exited"} /\ worker'.pc \notin {"exit", "exited"}
        BY <1>1, <3>3, FlowOfWorker DEF WorkerStep, Begin, Steps, ToggleStep, Flow, Idle
      <4> QED
        BY <1>1, <3>3, <4>1 DEF Turns, SameScreen
    <3> QED
      BY <3>1, <3>2, <3>3
  <2>4. env'.locked => os' = {}
    <3>1. ScopeSend => worker.pc \in ScopePC
      BY FlowOfWorker DEF Flow, ScopePC
    <3> QED
      BY <1>1, <2>2, <3>1, OsChanges DEF Turns
  <2>5. worker'.pc \in EntryPC => ~env.locked
    <3>1. BeginsEntry => ~env.locked
      BY Zenon DEF BeginsEntry, ToNormal, ToPassing, ToVisual, OpenSession, Start, Free
    <3>2. UNCHANGED worker \/ worker.pc \in EntryPC => (worker'.pc \in EntryPC => ~env.locked)
      BY DEF Turns
    <3> QED
      BY <3>1, <3>2, EntrySteps
  <2>6. worker'.pc \in ScopePC \cup {"scopeClear"} => session'.kind = "switch"
    <3>1. worker'.pc \in ScopePC \cup {"scopeClear"} => SameSession
      BY FlowOfWorker, OtherChanges DEF Flow, ScopePC
    <3> QED
      BY <1>1, <3>1, ScopeSteps DEF Turns, SameSession
  <2>7. worker'.pc \in ScopePC => worker'.keys = {AltKey} /\ (worker'.press => ~env.locked)
    <3>1. Absorb => ~env.locked
      BY FlowOfWorker DEF Flow, EntryPC, Turns
    <3> QED
      BY <1>1, <3>1, ScopeSteps DEF Turns
  <2> QED
    BY <2>1, <2>2, <2>3, <2>4, <2>5, <2>6, <2>7 DEF Turns
<1>2. ASSUME Outside, UNCHANGED <<worker, mode, session>> PROVE Turns'
  <2>1. ASSUME NEW k \in Key, NEW press \in BOOLEAN, UserKey(k, press) PROVE Turns'
    <3>1. UNCHANGED env
      BY <2>1 DEF UserKey
    <3>2. hook'.pc = "idle" \/ (hook'.mode = mode /\ ~env.locked /\ env.hooked)
      BY <2>1, UserKeyHook
    <3> QED
      BY <1>2, <2>1, <3>1, <3>2, UserWaits DEF Turns
  <2>2. ASSUME NEW k \in Key, Expire(k) PROVE Turns'
    BY <1>2, <2>2 DEF Expire, Turns
  <2>3. CASE HookStep
    <3>1. UNCHANGED env
      BY <2>3 DEF HookStep, HookLookup, HookSend, HookVirtual, HookClose, HookRecord, HookDecide
    <3>2. hook.pc # "idle" /\ (hook'.pc = "idle" \/ hook'.mode = hook.mode)
      BY <2>3, HookGoesOn, HookLooksUp DEF HookStep
    <3> QED
      BY <1>2, <3>1, <3>2 DEF Turns
  <2>4. CASE LockScreen
    BY <1>2, <2>4 DEF LockScreen, At, Turns, EntryPC, ScopePC
  <2>5. CASE NoticeLock
    BY <1>2, <2>5 DEF NoticeLock, At, Turns
  <2> QED
    BY <1>2, <2>1, <2>2, <2>3, <2>4, <2>5 DEF Outside, User
<1> QED
  BY <1>1, <1>2, OtherChanges

LEMMA TurnsAtFirst == ASSUME Init PROVE Turns
BY DEF Init, NoHook, Idle, Turns, EntryPC, ScopePC

\* In a mode that blocks the key messages, a pressed key reaches the applications
\* only if it is mapped to itself in that mode: also in a session, after any
\* sequence of mode changes, macros and map commands, and across a screen lock.
\* Whatever is bound, the gate is open in such a mode only after one of the two
\* things that env.slipped tells, and a session closes it again.
THEOREM PressesAreSwallowed ==
    Serial /\ PhysicalMacros /\ Spec => BlockingModesSwallow
<1> SUFFICES ASSUME Serial, PhysicalMacros PROVE Spec => BlockingModesSwallow
  OBVIOUS
<1> DEFINE Inv == PortInv /\ ModeInv /\ Turns
<1>1. Init => Inv
  <2> SUFFICES ASSUME Init PROVE Inv
    OBVIOUS
  <2> QED
    BY TurnsAtFirst, PortsAtFirst, ModesAtFirst
<1>2. Inv /\ [Next]_vars => Inv'
  <2> SUFFICES ASSUME Inv, [Next]_vars PROVE Inv'
    OBVIOUS
  <2>1. PortInv' /\ ModeInv'
    BY PortsStep, ModesStep
  <2>2. CASE Next
    BY <2>1, <2>2, TurnsKept DEF PortInv, PhysicalMacros
  <2>3. CASE UNCHANGED vars
    BY <2>1, <2>3 DEF vars, Turns
  <2> QED
    BY <2>2, <2>3
<1>3. Inv /\ [Next]_vars =>
        [HookDecide /\ hook.press /\ hook.mode \notin PassingModes
           /\ ~(env.slipped /\ session.kind = "none")
           => os' \subseteq os \cup gate.identity[hook.mode]]_vars
  <2> SUFFICES ASSUME Inv, HookDecide, hook.press, hook.mode \notin PassingModes,
                      ~(env.slipped /\ session.kind = "none")
               PROVE  os' \subseteq os \cup gate.identity[hook.mode]
    OBVIOUS
  <2>1. hook.pc = "decide" /\ worker.pc = "idle" /\ env.hooked /\ hook.mode = mode
    BY HookGoesOn DEF PortInv, Turns
  <2>2. gate.port = {}
    BY <2>1 DEF PortInv, Accounted, HookPorts, WorkerPorts, ClosesAll, ClosesKeys
  <2>3. gate.absorb
    <3>1. CASE session.kind = "none"
      BY <2>1, <3>1 DEF ModeInv, Agreement, Agree
    <3>2. CASE session.kind # "none"
      BY <2>1, <3>2 DEF ModeInv, SessionAbsorbs, Entering, EntryPC
    <3> QED
      BY <3>1, <3>2
  <2>4. Passes(hook.key, hook.mode) => hook.key \in gate.identity[hook.mode]
    BY <2>1, <2>2, <2>3 DEF Passes
  <2> QED
    BY <2>4 DEF HookDecide, Set
<1> QED
  BY <1>1, <1>2, <1>3, PTL DEF Spec, BlockingModesSwallow

-----------------------------------------------------------------------------
(***************************************************************************)
(* What the applications take to be pressed when the gate begins to        *)
(* absorb.  Releases arrive where they are sent through a port of their    *)
(* own, and a key that is really pressed and that an application takes to  *)
(* be pressed is also pressed virtually, so that the refresh finds it.     *)
(***************************************************************************)
\* What maps send are keys of the keyboard.
PhysicalTargets ==
    /\ \A m \in Modes, c \in Code : InitHotkey[m][c] \subseteq Key
    /\ \A r \in Remaps, c \in Code : r.hotkey[c] \subseteq Key

PhysicalInv ==
    /\ \A m \in Modes, c \in Code : gate.hotkey[m][c] \subseteq Key
    /\ hook.target \subseteq Key
    /\ worker.pc \in TogglePC => worker.keys \subseteq Key

LEMMA PhysicalKept ==
    ASSUME PhysicalTargets, TypeOK, PhysicalInv, Next
    PROVE  PhysicalInv'
<1> gate \in GateType /\ hook \in HookType /\ worker \in WorkerType
  BY DEF TypeOK
<1>1. \A m \in Modes, c \in Code : gate'.hotkey[m][c] \subseteq Key
  <2>1. CASE SameMaps
    BY <2>1 DEF SameMaps, PhysicalInv
  <2>2. ASSUME NEW n \in Modes, ClearHotkeys(n)
        PROVE  \A m \in Modes, c \in Code : gate'.hotkey[m][c] \subseteq Key
    BY <2>2 DEF ClearHotkeys, GateType, PhysicalInv
  <2>3. CASE RegisterHotkey
    <3>1. PICK r \in Remaps : gate' = [gate EXCEPT !.hotkey[worker.mode] = r.hotkey,
                                                !.identity[worker.mode] = r.identity]
      BY <2>3, Zenon DEF RegisterHotkey
    <3>2. \A c \in Code : r.hotkey[c] \subseteq Key
      BY DEF PhysicalTargets
    <3> QED
      BY <3>1, <3>2 DEF GateType, PhysicalInv
  <2> QED
    BY <2>1, <2>2, <2>3, GateChanges
<1>2. hook'.target \subseteq Key
  <2>1. ASSUME NEW k \in Key, NEW press \in BOOLEAN, UserKey(k, press) PROVE hook'.target \subseteq Key
    BY <2>1, UserKeyHook DEF PhysicalInv
  <2>2. CASE HookLookup
    BY <2>2, HookLooksUp DEF PhysicalInv, HookType
  <2>3. CASE HookSend \/ HookVirtual \/ HookRecord
    BY <2>3, HookGoesOn DEF PhysicalInv
  <2>4. CASE HookClose \/ HookDecide
    BY <2>4 DEF HookClose, HookDecide, NoHook
  <2>5. CASE UNCHANGED hook
    BY <2>5 DEF PhysicalInv
  <2> QED
    BY <2>1, <2>2, <2>3, <2>4, <2>5, OtherChanges DEF HookStep
<1>3. worker'.pc \in TogglePC => worker'.keys \subseteq Key
  <2>1. ASSUME NEW k \in Toggle, RefreshToggle(k) PROVE worker'.keys \subseteq Key
    <3>1. worker'.keys = UNION {gate.hotkey[m][k] : m \in Modes}
      BY <2>1 DEF RefreshToggle, Idle
    <3>2. k \in Code
      BY CodesAssumption DEF CodesAssumption
    <3> QED
      BY <3>1, <3>2 DEF PhysicalInv
  <2> QED
    BY <2>1, ToggleSteps DEF PhysicalInv
<1> QED
  BY <1>1, <1>2, <1>3 DEF PhysicalInv

-----------------------------------------------------------------------------
\* What is released through a port of its own is released.
LEMMA ReleaseArrives ==
    ASSUME NEW cs, NEW k \in cs, k \in Key, k \in gate.port, SendInput(cs, FALSE)
    PROVE  k \notin os'
<1>1. PhysOf[k] = k
  BY CodesAssumption DEF CodesAssumption
<1> QED
  BY <1>1 DEF SendInput, Set, Passes

Released ==
    /\ hook.pc = "send" => hook.target \subseteq gate.port
    /\ hook.pc \in {"virtual", "close"} /\ ~hook.press => hook.target \cap os = {}
    /\ worker.pc \in {"toggleSend", "scopeSend"} => worker.keys \subseteq gate.port
    /\ worker.pc = "toggleClose" => worker.keys \cap os = {}
    /\ worker.pc = "scopeClose" => (AltKey \in os <=> worker.press)
    /\ worker.pc \in {"leave", "leaveMode"} /\ session.kind = "switch" => AltKey \notin os
    /\ worker.pc = "refreshSend" => worker.cur \in gate.port
    /\ worker.pc = "refreshClear" => worker.cur \notin os

\* A ScopedKey finds its key where it should be, and no exception is on its way.
NoFailure == ~session.thrown /\ worker.pc \notin {"calibrate", "calibrateNext", "ended"}

LEMMA NoFailureKept ==
    ASSUME ~MayFail, TypeOK, Released, NoFailure, Next
    PROVE  NoFailure'
<1> worker \in WorkerType /\ session \in SessionType
  BY DEF TypeOK
<1>1. ~Fail
  BY DEF Fail
<1>2. ~session'.thrown
  <2>1. \A kind : OpenSession(kind) => ~session'.thrown
    BY DEF OpenSession
  <2>2. LeaveMode => ~session'.thrown
    BY DEF LeaveMode, NoSession
  <2>3. ScopeClose => ~session'.thrown
    BY DEF ScopeClose, At, Released, NoFailure, SessionType, WorkerType
  <2>4. \/ UNCHANGED session \/ LeaveMode \/ ScopeClose
        \/ \E kind \in SessionKind : OpenSession(kind)
    <3>1. Refresh \/ RefreshSend \/ RefreshClear \/ CloseAll \/ Absorb \/ SetMode \/ Snapshot \/
          Unpress \/ UnpressSend \/ UnpressClear \/ Stroke \/ ClosePorts \/ Restore \/
          ScopeOpen \/ ScopeSend \/ ScopeClear \/ Leave \/ Correct \/ CorrectNext \/
          CorrectClear \/ Calibrate \/ CalibrateNext \/ ToggleSend \/ ToggleClose \/
          ToggleKey \/ ToggleClear \/ ToggleLow \/ NoticeLock \/ ExitRelease \/
          RegisterHotkey \/ CloseSession \/ UninstallHook \/ LockScreen => UNCHANGED session
      BY Zenon DEF Refresh, RefreshSend, RefreshClear, CloseAll, Absorb, SetMode, Snapshot,
         Unpress, UnpressSend, UnpressClear, Stroke, ClosePorts, Restore, ScopeOpen, ScopeSend,
         ScopeClear, Leave, Correct, CorrectNext, CorrectClear, Calibrate, CalibrateNext,
         ToggleSend, ToggleClose, ToggleKey, ToggleClear, ToggleLow, NoticeLock, ExitRelease,
         RegisterHotkey, CloseSession, UninstallHook, LockScreen
    <3>2. /\ \A m : ToNormal(m) \/ ToPassing(m) \/ ToVisual(m) \/ ClearHotkeys(m) \/ Pushup(m)
                   \/ RefreshToggle(m) \/ Expire(m) => UNCHANGED session
          /\ \A k, press : UserKey(k, press) => UNCHANGED session
      BY Zenon DEF ToNormal, ToPassing, ToVisual, ClearHotkeys, Pushup, RefreshToggle, Expire, UserKey
    <3>3. HookStep => UNCHANGED session
      BY Zenon DEF HookStep, HookLookup, HookSend, HookVirtual, HookClose, HookRecord, HookDecide
    <3> QED
      BY <1>1, <3>1, <3>2, <3>3 DEF Next, User, Begin, Background, Steps, ToggleStep
  <2> QED
    BY <2>1, <2>2, <2>3, <2>4 DEF NoFailure
<1>3. worker'.pc \notin {"calibrate", "calibrateNext", "ended"}
  <2>1. LeaveMode => worker'.pc = "correct"
    BY DEF LeaveMode, Idle, NoFailure
  <2>2. WorkerStep \/ UNCHANGED worker
    BY OtherChanges
  <2> QED
    BY <1>1, <2>1, <2>2, FlowOfWorker DEF Flow, NoFailure, WorkerStep, Begin, Steps, ToggleStep
<1> QED
  BY <1>2, <1>3 DEF NoFailure

LEMMA ReleasedKept ==
    ASSUME ~MayFail, NoFailure, Serial, TypeOK, Turns, PhysicalInv, Released, Next
    PROVE  Released'
<1> gate \in GateType /\ hook \in HookType /\ worker \in WorkerType /\ os \subseteq Key
    /\ session \in SessionType
  BY DEF TypeOK
<1> ~Fail
  BY DEF Fail
<1>alt. AltKey \in Key
  BY CodesAssumption DEF CodesAssumption
<1>1. ASSUME WorkerStep, UNCHANGED <<down, hook>> PROVE Released'
  <2>1. hook.pc = "idle" /\ hook'.pc = "idle"
    BY <1>1, HookWaits
  <2>2. os' \subseteq os \/ (ScopeSend /\ worker.press)
    BY <1>1, OsChanges
  <2>3. worker'.pc \in {"toggleSend", "scopeSend"} => worker'.keys \subseteq gate'.port
    <3>1. CASE worker'.pc = "toggleSend"
      <4>1. PICK k \in Toggle : RefreshToggle(k)
        BY <1>1, <3>1, FlowOfWorker DEF Flow, WorkerStep, Begin, Steps, ToggleStep
      <4> QED
        BY <4>1 DEF RefreshToggle, Idle, GateType
    <3>2. CASE worker'.pc = "scopeSend"
      <4>1. ScopeOpen
        BY <1>1, <3>2, FlowOfWorker DEF Flow, WorkerStep, Begin, Steps, ToggleStep
      <4> QED
        BY <4>1 DEF ScopeOpen, Goto, GateType, WorkerType
    <3> QED
      BY <3>1, <3>2
  <2>4. worker'.pc = "toggleClose" => worker'.keys \cap os' = {}
    <3> SUFFICES ASSUME worker'.pc = "toggleClose" PROVE worker'.keys \cap os' = {}
      OBVIOUS
    <3>1. ToggleSend
      BY <1>1, FlowOfWorker DEF Flow, WorkerStep, Begin, Steps, ToggleStep
    <3>2. SendInput(worker.keys, FALSE) /\ worker'.keys = worker.keys /\ worker.pc = "toggleSend"
      BY <3>1 DEF ToggleSend, Send, At, Goto, WorkerType
    <3>3. worker.keys \subseteq gate.port /\ worker.keys \subseteq Key
      BY <3>2 DEF Released, PhysicalInv, TogglePC
    <3> QED
      BY <3>2, <3>3, ReleaseArrives
  <2>5. worker'.pc = "scopeClose" => (AltKey \in os' <=> worker'.press)
    <3> SUFFICES ASSUME worker'.pc = "scopeClose" PROVE AltKey \in os' <=> worker'.press
      OBVIOUS
    <3>1. ScopeSend
      BY <1>1, FlowOfWorker DEF Flow, WorkerStep, Begin, Steps, ToggleStep
    <3>2. SendInput(worker.keys, worker.press) /\ worker'.press = worker.press /\ worker.pc = "scopeSend"
      BY <3>1 DEF ScopeSend, Send, At, Goto, WorkerType
    <3>3. worker.keys \subseteq gate.port /\ worker.keys = {AltKey}
      BY <3>2 DEF Released, Turns, ScopePC
    <3>4. CASE worker.press = FALSE
      BY <1>alt, <3>2, <3>3, <3>4, ReleaseArrives
    <3>5. CASE worker.press = TRUE
      <4>1. PhysOf[AltKey] = AltKey
        BY CodesAssumption DEF CodesAssumption
      <4> QED
        BY <3>2, <3>3, <3>5, <4>1 DEF SendInput, Set, Passes
    <3> QED
      BY <3>4, <3>5 DEF WorkerType
  <2>6. worker'.pc \in {"leave", "leaveMode"} /\ session'.kind = "switch" => AltKey \notin os'
    <3> SUFFICES ASSUME worker'.pc \in {"leave", "leaveMode"}, session'.kind = "switch"
                 PROVE  AltKey \notin os'
      OBVIOUS
    <3>1. ScopeClose \/ CloseSession \/ Leave
      BY <1>1, FlowOfWorker DEF Flow, WorkerStep, Begin, Steps, ToggleStep
    <3>2. UNCHANGED os /\ session'.kind = session.kind
      BY <3>1 DEF ScopeClose, CloseSession, Leave, SessionType
    <3>3. CASE ScopeClose
      BY <3>2, <3>3 DEF ScopeClose, At, Released, NoFailure, WorkerType
    <3>4. CASE CloseSession
      BY <3>2, <3>4 DEF CloseSession, EndOfScope, Idle
    <3>5. CASE Leave
      BY <3>2, <3>5 DEF Leave, At, Released
    <3> QED
      BY <3>1, <3>3, <3>4, <3>5
  <2>7. worker'.pc = "refreshSend" => worker'.cur \in gate'.port
    <3> SUFFICES ASSUME worker'.pc = "refreshSend" PROVE worker'.cur \in gate'.port
      OBVIOUS
    <3>1. Refresh
      BY <1>1, FlowOfWorker DEF Flow, WorkerStep, Begin, Steps, ToggleStep
    <3>2. Goto("refreshSend") /\ gate' = [gate EXCEPT !.port = @ \cup {worker.cur}]
      BY <3>1 DEF Refresh, At, Goto, WorkerType
    <3> QED
      BY <3>2 DEF Goto, GateType, WorkerType
  <2>8. worker'.pc = "refreshClear" => worker'.cur \notin os'
    <3> SUFFICES ASSUME worker'.pc = "refreshClear" PROVE worker'.cur \notin os'
      OBVIOUS
    <3>1. RefreshSend
      BY <1>1, FlowOfWorker DEF Flow, WorkerStep, Begin, Steps, ToggleStep
    <3>2. SendInput({worker.cur}, FALSE) /\ worker'.cur = worker.cur /\ worker.pc = "refreshSend"
      BY <3>1 DEF RefreshSend, Send, At, Goto, WorkerType
    <3>3. worker.cur \in gate.port
      BY <3>2 DEF Released
    <3>4. os' \subseteq os
      BY <3>2 DEF SendInput, Set
    <3>5. worker.cur \in Key => worker.cur \notin os'
      BY <3>2, <3>3, ReleaseArrives
    <3> QED
      BY <3>2, <3>4, <3>5
  <2> QED
    BY <2>1, <2>3, <2>4, <2>5, <2>6, <2>7, <2>8 DEF Released
<1>2. ASSUME Outside, UNCHANGED <<worker, mode, session>> PROVE Released'
  <2>1. CASE hook'.pc \notin {"send", "virtual", "close"} /\ worker.pc \in {"idle", "exited"}
    BY <1>2, <2>1 DEF Released
  <2>2. ASSUME NEW k, NEW press, UserKey(k, press) PROVE Released'
    BY <2>1, <2>2, UserWaits, UserKeyHook
  <2>3. ASSUME NEW k, Expire(k) PROVE Released'
    BY <1>2, <2>3 DEF Expire, GateType, Released
  <2>4. CASE LockScreen
    BY <2>1, <2>4 DEF LockScreen, At
  <2>5. CASE NoticeLock
    <3>1. worker.pc = "idle" /\ UNCHANGED <<os, hook>> /\ gate'.port = gate.port
      BY <2>5 DEF NoticeLock, At, GateType
    <3> QED
      BY <1>2, <3>1 DEF Released
  <2>6. CASE HookStep
    <3>1. worker.pc = "idle"
      BY <2>6, HookGoesOn, HookLooksUp DEF HookStep, Turns
    <3>2. CASE HookLookup
      BY <1>2, <3>1, <3>2, HookLooksUp DEF Released
    <3>3. CASE HookSend
      <4>1. hook'.target = hook.target /\ hook'.press = hook.press /\ hook'.pc = "virtual"
            /\ hook.target \subseteq gate.port /\ hook.target \subseteq Key
        BY <3>3, HookGoesOn DEF Released, PhysicalInv
      <4>2. ~hook.press => hook.target \cap os' = {}
        <5> SUFFICES ASSUME hook.press = FALSE PROVE hook.target \cap os' = {}
          BY DEF HookType
        <5>1. SendInput(hook.target, FALSE)
          BY <3>3 DEF HookSend
        <5> QED
          BY <4>1, <5>1, ReleaseArrives
      <4> QED
        BY <1>2, <3>1, <4>1, <4>2 DEF Released
    <3>4. CASE HookVirtual
      BY <1>2, <3>1, <3>4, HookGoesOn DEF HookVirtual, Released
    <3>5. CASE HookClose \/ HookRecord \/ HookDecide
      BY <2>1, <3>1, <3>5, HookGoesOn
    <3> QED
      BY <2>6, <3>2, <3>3, <3>4, <3>5 DEF HookStep
  <2> QED
    BY <1>2, <2>2, <2>3, <2>4, <2>5, <2>6 DEF Outside, User
<1> QED
  BY <1>1, <1>2, OtherChanges

-----------------------------------------------------------------------------
LEMMA EntryOp ==
    ASSUME TypeOK, Next, worker'.pc \in EntryPC \cup {"setMode"}
    PROVE  \/ UNCHANGED worker
           \/ worker.pc \in EntryPC /\ worker'.op = worker.op
           \/ \E m : ToNormal(m) /\ worker'.op = "to_normal"
           \/ \E m : ToPassing(m) /\ worker'.op = "to_passing"
           \/ \E m : ToVisual(m) /\ worker'.op = "to_visual"
           \/ \E kind : OpenSession(kind) /\ worker'.op = "session"
<1>1. \A m : ToNormal(m) => worker'.op = "to_normal"
  BY DEF ToNormal, Idle
<1>2. \A m : ToPassing(m) => worker'.op = "to_passing"
  BY DEF ToPassing, Idle
<1>3. \A m : ToVisual(m) => worker'.op = "to_visual"
  BY DEF ToVisual, Idle
<1>4. \A kind : OpenSession(kind) => worker'.op = "session"
  BY DEF OpenSession, Idle
<1> QED
  BY <1>1, <1>2, <1>3, <1>4, EntrySteps DEF BeginsEntry

-----------------------------------------------------------------------------
\* The Alt key that SwitchWindow holds, and the keys that a pushup will restore.
AltHeld(k) == k = AltKey /\ session.kind = "switch" /\ ~Entering
PrePC == {"unpress", "unpressSend", "unpressClear", "stroke", "closePorts", "restore"}
InState(k) ==
    \/ k \in gate.state \/ AltHeld(k) \/ k \in env.lost
    \/ worker.pc \in PrePC /\ k \in worker.pre
    \/ hook.pc = "virtual" /\ hook.press /\ k \in hook.target

StateHasReal ==
    /\ worker.pc \in PrePC => gate.state \subseteq worker.pre
    /\ env.hooked => \A k \in os \cap gate.real : InState(k)
    /\ hook.pc = "decide" /\ hook.press => hook.key \in gate.state
    /\ worker.pc = "correctClear" => worker.cur \notin gate.real

LEMMA PreSteps ==
    ASSUME ~MayFail, TypeOK, WorkerStep
    PROVE  /\ worker.pc \in PrePC => Restore \/ (worker'.pc \in PrePC /\ worker'.pre = worker.pre)
           /\ worker'.pc \in PrePC => Snapshot \/ worker.pc \in PrePC
<1> worker \in WorkerType
  BY DEF TypeOK
<1>1. ~Fail
  BY DEF Fail
<1>2. worker.pc \in PrePC =>
         Restore \/ Unpress \/ UnpressSend \/ UnpressClear \/ Stroke \/ ClosePorts
  BY <1>1, FlowOfWorker DEF Flow, PrePC, WorkerStep, Begin, Steps, ToggleStep, Idle
<1>3. UnpressSend \/ UnpressClear \/ Stroke \/ ClosePorts => worker'.pre = worker.pre
  BY DEF UnpressSend, UnpressClear, Stroke, ClosePorts, Goto, WorkerType
<1>4. Unpress => worker'.pre = worker.pre
  <2>1. ASSUME NEW c, NEW p, worker' = [worker EXCEPT !.cur = c, !.todo = @ \ {c}, !.pc = p]
        PROVE  worker'.pre = worker.pre
    BY <2>1 DEF WorkerType
  <2>2. Unpress => \/ \E c : \E p : worker' = [worker EXCEPT !.cur = c, !.todo = @ \ {c}, !.pc = p]
                   \/ Goto("stroke")
    BY Zenon DEF Unpress
  <2>3. Unpress => worker'.pre = worker.pre \/ Goto("stroke")
    BY <2>1, <2>2, Zenon
  <2> QED
    BY <2>3 DEF Goto, WorkerType
<1>5. Unpress \/ UnpressSend \/ UnpressClear \/ Stroke \/ ClosePorts => worker'.pc \in PrePC
  BY FlowOfWorker DEF Flow, PrePC
<1>6. worker'.pc \in PrePC => Snapshot \/ worker.pc \in PrePC
  BY <1>1, FlowOfWorker DEF Flow, PrePC, WorkerStep, Begin, Steps, ToggleStep
<1> QED
  BY <1>2, <1>3, <1>4, <1>5, <1>6

\* The Alt key is held until the session lets it go.
LEMMA AltHeldKept ==
    ASSUME TypeOK, Released, Next, NEW k \in os, AltHeld(k)
    PROVE  AltHeld(k)'
<1>1. ~Entering'
  <2>1. Entering' => UNCHANGED worker \/ Entering \/ \E kind : OpenSession(kind)
    BY EntryOp DEF Entering
  <2>2. \A kind : ~OpenSession(kind)
    BY DEF OpenSession, AltHeld
  <2> QED
    BY <2>1, <2>2 DEF Entering, AltHeld
<1>2. SameSession
  <2>1. ~LeaveMode
    BY FlowOfWorker DEF Flow, Released, AltHeld
  <2>2. \A kind : ~OpenSession(kind)
    BY DEF OpenSession, AltHeld
  <2> QED
    BY <2>1, <2>2, OtherChanges
<1> QED
  BY <1>1, <1>2 DEF AltHeld, SameSession

\* A step of the worker loses no key that is really and virtually pressed.
LEMMA InStateKept ==
    ASSUME ~MayFail, NoFailure, Serial, TypeOK, Turns, Released, StateHasReal, Next, WorkerStep,
           env.hooked, NEW k \in os \cap gate.real, k \in gate'.real
    PROVE  InState(k)'
<1> gate \in GateType /\ worker \in WorkerType
  BY DEF TypeOK
<1>1. InState(k) /\ hook.pc = "idle"
  BY HookWaits DEF StateHasReal
<1>2. CASE AltHeld(k) \/ k \in env.lost
  BY <1>2, AltHeldKept, OtherChanges DEF InState
<1>3. CASE worker.pc \in PrePC /\ k \in worker.pre
  <2>1. CASE Restore
    BY <1>3, <2>1 DEF Restore, GateType, InState
  <2>2. CASE worker'.pc \in PrePC /\ worker'.pre = worker.pre
    BY <1>3, <2>2 DEF InState
  <2> QED
    BY <1>3, <2>1, <2>2, PreSteps
<1>4. CASE k \in gate.state /\ ~AltHeld(k) /\ worker.pc \notin PrePC
  <2>1. k \in gate'.state \/ k \in env'.lost
    <3>1. CASE SameState
      BY <1>4, <3>1 DEF SameState
    <3>2. CASE RefreshClear
      BY <1>4, <3>2 DEF RefreshClear, GateType, At, Released
    <3>3. ~UnpressClear /\ ~Restore
      BY <1>4, FlowOfWorker DEF Flow, PrePC
    <3>4. CASE ScopeClear
      <4>1. session.kind = "switch" /\ worker.pc = "scopeClear"
        BY <3>4, FlowOfWorker DEF Flow, Turns
      <4>2. k # AltKey
        BY <1>4, <4>1 DEF AltHeld, Entering, EntryPC
      <4> QED
        BY <1>4, <3>4, <4>2 DEF ScopeClear, GateType
    <3>5. CASE CorrectClear
      BY <1>4, <3>5 DEF CorrectClear, GateType, At, StateHasReal
    <3>6. ~CalibrateNext
      BY FlowOfWorker DEF Flow, NoFailure
    <3>7. CASE ToggleClose
      BY <1>4, <3>7 DEF ToggleClose, GateType, At, Released
    <3>8. CASE ToggleClear
      BY <1>4, <3>8 DEF ToggleClear, GateType
    <3>9. CASE NoticeLock
      BY <1>4, <3>9 DEF NoticeLock, GateType, Turns
    <3>10. ~ExitRelease
      BY FlowOfWorker DEF Flow, Turns
    <3>11. ~HookVirtual /\ ~HookRecord
      BY <1>1, HookGoesOn
    <3>12. CASE CloseSession
      <4>1. PICK keys \in Clears[session.kind] :
              /\ gate' = [gate EXCEPT !.state = @ \ keys]
              /\ env' = [env EXCEPT !.lost = @ \cup (os \cap keys)]
        BY <3>12, Zenon DEF CloseSession
      <4>2. gate'.state = gate.state \ keys /\ env'.lost = env.lost \cup (os \cap keys)
        BY <4>1 DEF GateType, TypeOK, EnvType
      <4> QED
        BY <1>4, <4>2
    <3> QED
      BY <3>1, <3>2, <3>3, <3>4, <3>5, <3>6, <3>7, <3>8, <3>9, <3>10, <3>11, <3>12, GateChanges
  <2> QED
    BY <2>1 DEF InState
<1>5. worker.pc \in PrePC /\ k \in gate.state => k \in worker.pre
  BY DEF StateHasReal
<1> QED
  BY <1>1, <1>2, <1>3, <1>4, <1>5 DEF InState

LEMMA StateKept ==
    ASSUME ~MayFail, NoFailure, Serial, TypeOK, Turns, PhysicalInv, Released, StateHasReal, Next
    PROVE  StateHasReal'
<1> gate \in GateType /\ worker \in WorkerType /\ hook \in HookType
  BY DEF TypeOK
<1>1. ASSUME WorkerStep, UNCHANGED <<down, hook>>, SameScreen \/ UninstallHook PROVE StateHasReal'
  <2>1. hook.pc = "idle" /\ hook'.pc = "idle"
    BY <1>1, HookWaits
  <2>2. SameReal \/ ToggleClear
    BY <2>1, GateChanges, HookGoesOn
  <2>3. gate'.real \subseteq gate.real
    BY <2>2 DEF SameReal, ToggleClear, GateType
  <2>4. worker'.pc \in PrePC => gate'.state \subseteq worker'.pre
    <3>1. CASE Snapshot
      BY <3>1 DEF Snapshot, WorkerType
    <3>2. CASE worker.pc \in PrePC /\ worker'.pc \in PrePC
      <4>1. worker'.pre = worker.pre
        <5>1. ~Restore
          BY <3>2, FlowOfWorker DEF Flow, PrePC
        <5> QED
          BY <1>1, <3>2, <5>1, PreSteps
      <4>2. SameState \/ UnpressClear
        BY <2>1, <3>2, GateChanges, HookGoesOn, FlowOfWorker DEF Flow, PrePC, NoticeLock, At
      <4>3. gate'.state \subseteq gate.state
        BY <4>2 DEF SameState, UnpressClear, GateType
      <4> QED
        BY <3>2, <4>1, <4>3 DEF StateHasReal
    <3> QED
      BY <1>1, <3>1, <3>2, PreSteps
  <2>5. env'.hooked => \A k \in os' \cap gate'.real : InState(k)'
    <3> SUFFICES ASSUME env'.hooked, NEW k \in os' \cap gate'.real PROVE InState(k)'
      OBVIOUS
    <3>1. env.hooked
      BY <1>1 DEF UninstallHook, SameScreen
    <3>2. CASE k \in os
      BY <1>1, <2>3, <3>1, <3>2, InStateKept
    <3>3. CASE k \notin os
      <4>1. ScopeSend
        BY <1>1, <3>3, OsChanges
      <4>2. worker.keys = {AltKey} /\ session.kind = "switch" /\ worker'.pc = "scopeClose"
        BY <4>1, FlowOfWorker DEF Flow, Turns, ScopePC
      <4>3. k = AltKey
        <5>1. PhysOf[AltKey] = AltKey
          BY CodesAssumption DEF CodesAssumption
        <5> QED
          BY <3>3, <4>1, <4>2, <5>1 DEF ScopeSend, Send, SendInput, Set
      <4>4. UNCHANGED session
        BY <4>1 DEF ScopeSend
      <4> QED
        BY <4>2, <4>3, <4>4 DEF InState, AltHeld, Entering, EntryPC
    <3> QED
      BY <3>2, <3>3
  <2>6. worker'.pc = "correctClear" => worker'.cur \notin gate'.real
    <3> SUFFICES ASSUME worker'.pc = "correctClear" PROVE worker'.cur \notin gate.real
      BY <2>3
    <3>1. CorrectNext
      BY <1>1, FlowOfWorker DEF Flow, CaughtPC, WorkerStep, Begin, Steps, ToggleStep
    <3>2. \/ \E c : worker' = [worker EXCEPT !.cur = c, !.todo = @ \ {c},
                    !.pc = IF c \in gate.real THEN "correctNext" ELSE "correctClear"]
          \/ worker' = Idle
      BY <3>1, Zenon DEF CorrectNext
    <3>3. ASSUME NEW c, NEW p, worker' = [worker EXCEPT !.cur = c, !.todo = @ \ {c}, !.pc = p]
          PROVE  worker'.cur = c /\ worker'.pc = p
      BY <3>3 DEF WorkerType
    <3>4. ASSUME NEW c, worker' = [worker EXCEPT !.cur = c, !.todo = @ \ {c},
                    !.pc = IF c \in gate.real THEN "correctNext" ELSE "correctClear"]
          PROVE  worker'.cur \notin gate.real
      <4>1. worker'.cur = c /\ worker'.pc = IF c \in gate.real THEN "correctNext" ELSE "correctClear"
        BY <3>3, <3>4, Zenon
      <4> QED
        BY <4>1
    <3>5. worker'.cur \notin gate.real \/ worker' = Idle
      BY <3>2, <3>4, Zenon
    <3> QED
      BY <3>5 DEF Idle
  <2> QED
    BY <2>1, <2>4, <2>5, <2>6 DEF StateHasReal
<1>2. ASSUME Outside, UNCHANGED <<worker, mode, session>>, UNCHANGED env.lost PROVE StateHasReal'
  <2>1. UNCHANGED gate.state /\ UNCHANGED gate.real /\ UNCHANGED hook /\ UNCHANGED os
        /\ (env'.hooked => env.hooked) => StateHasReal'
    BY <1>2 DEF StateHasReal, InState, AltHeld, Entering
  <2>2. ASSUME NEW k, NEW press, UserKey(k, press) PROVE StateHasReal'
    <3>1. UNCHANGED <<env, gate.state, gate.real>>
      BY <2>2 DEF UserKey, GateType
    <3>2. env.hooked => UNCHANGED os
      BY <2>2 DEF UserKey
    <3>3. hook.pc = "idle" /\ hook'.pc \in {"idle", "lookup"}
      BY <2>2, UserKeyHook
    <3> QED
      BY <1>2, <3>1, <3>2, <3>3 DEF StateHasReal, InState, AltHeld, Entering
  <2>3. ASSUME NEW k, Expire(k) PROVE StateHasReal'
    BY <2>1, <2>3 DEF Expire, GateType
  <2>4. CASE LockScreen
    BY <1>2, <2>4 DEF LockScreen, StateHasReal
  <2>5. CASE NoticeLock
    <3>1. worker.pc = "idle" /\ UNCHANGED <<os, hook>> /\ gate'.real = gate.real
      BY <2>5 DEF NoticeLock, At, GateType
    <3>2. CASE env.locked
      BY <1>2, <3>1, <3>2 DEF Turns, StateHasReal, PrePC
    <3>3. CASE ~env.locked
      BY <2>1, <2>5, <3>1, <3>3 DEF NoticeLock
    <3> QED
      BY <3>2, <3>3
  <2>6. CASE HookStep
    <3>1. worker.pc = "idle" /\ UNCHANGED env /\ worker.pc \notin PrePC
      <4>1. UNCHANGED env
        BY <2>6, Zenon DEF HookStep, HookLookup, HookSend, HookVirtual, HookClose, HookRecord, HookDecide
      <4> QED
        BY <2>6, <4>1, HookGoesOn, HookLooksUp DEF HookStep, Turns, PrePC
    <3>2. \A k \in os' : AltHeld(k)' <=> AltHeld(k)
      BY <1>2 DEF AltHeld, Entering
    <3>3. CASE HookLookup
      <4>1. gate'.state = gate.state /\ gate'.real = gate.real /\ UNCHANGED os
        BY <3>3 DEF HookLookup, GateType
      <4>2. hook.pc = "lookup" /\ hook'.pc \in {"send", "record"}
        BY <3>3, HookLooksUp
      <4> QED
        BY <1>2, <3>1, <3>2, <4>1, <4>2 DEF StateHasReal, InState
    <3>4. CASE HookSend
      <4>1. UNCHANGED gate /\ SendInput(hook.target, hook.press)
        BY <3>4 DEF HookSend
      <4>2. ASSUME NEW k \in os' \cap gate.real, env.hooked PROVE InState(k)'
        <5>1. CASE k \in os
          BY <1>2, <3>1, <3>2, <3>4, <4>1, <4>2, <5>1, HookGoesOn DEF StateHasReal, InState
        <5>2. CASE k \notin os
          <6>1. hook.press /\ k \in {PhysOf[c] : c \in hook.target}
            BY <4>1, <5>2 DEF SendInput, Set
          <6>2. k \in hook.target
            BY <6>1, CodesAssumption DEF CodesAssumption, PhysicalInv
          <6> QED
            BY <3>4, <6>1, <6>2, HookGoesOn DEF InState
        <5> QED
          BY <5>1, <5>2
      <4> QED
        BY <1>2, <3>1, <3>4, <4>1, <4>2, HookGoesOn DEF StateHasReal
    <3>5. CASE HookVirtual
      <4>1. gate'.state = Set(gate.state, hook.target, hook.press) /\ gate'.real = gate.real
            /\ UNCHANGED os
        BY <3>5 DEF HookVirtual, GateType
      <4>2. hook.pc = "virtual" /\ hook'.pc = "close"
        BY <3>5, HookGoesOn
      <4>3. ~hook.press => hook.target \cap os = {}
        BY <4>2 DEF Released
      <4> QED
        BY <1>2, <3>1, <3>2, <4>1, <4>2, <4>3 DEF StateHasReal, InState, Set
    <3>6. CASE HookClose \/ HookDecide
      <4>1. gate'.state = gate.state /\ gate'.real = gate.real
            /\ (os' \subseteq os \/ (HookDecide /\ hook.press /\ os' \subseteq os \cup {hook.key}))
        BY <3>6 DEF HookClose, HookDecide, GateType, Set
      <4>2. hook.pc \in {"close", "decide"} /\ hook'.pc = "idle" /\ (HookDecide => hook.pc = "decide")
        BY <3>6, HookGoesOn
      <4> QED
        BY <1>2, <3>1, <3>2, <4>1, <4>2 DEF StateHasReal, InState
    <3>7. CASE HookRecord
      <4> DEFINE cs == RepSet(hook.key) \cup {hook.key}
      <4>1. gate'.state = Set(gate.state, cs, hook.press) /\ gate'.real = Set(gate.real, cs, hook.press)
            /\ UNCHANGED os
        BY <3>7 DEF HookRecord, GateType
      <4>2. /\ hook.pc = "record" /\ hook'.pc = "decide"
            /\ hook'.key = hook.key /\ hook'.press = hook.press
        BY <3>7, HookGoesOn
      <4>3. hook.key \in cs
        OBVIOUS
      <4> HIDE DEF cs
      <4> QED
        BY <1>2, <3>1, <3>2, <4>1, <4>2, <4>3 DEF StateHasReal, InState, Set
    <3> QED
      BY <2>6, <3>3, <3>4, <3>5, <3>6, <3>7 DEF HookStep
  <2> QED
    BY <1>2, <2>2, <2>3, <2>4, <2>5, <2>6 DEF Outside, User
<1> QED
  BY <1>1, <1>2, OtherChanges

-----------------------------------------------------------------------------
\* While the keys are being refreshed before the gate absorbs, what is still to be
\* released lies ahead of the pass over the codes.
Ahead(k) ==
    \/ worker.pc \in {"refresh", "refreshSend"} /\ k >= worker.cur
    \/ worker.pc = "refreshClear" /\ k > worker.cur
Refreshing == worker.pc \in EntryPC /\ worker.op # "to_passing" /\ ~gate.absorb
Refreshed  == Refreshing => \A k \in os \cap gate.real : Ahead(k) \/ k \in env.lost

\* A code that the pass steps over is not one of the keys to be released.
LEMMA StepsOver ==
    ASSUME TypeOK, Turns, SessionAbsorbs, StateHasReal, Refreshing, worker.pc = "refresh",
           worker.cur \notin gate.state
    PROVE  worker.cur \in os \cap gate.real => worker.cur \in env.lost
<1>1. env.hooked /\ hook.pc = "idle" /\ worker.pc \notin PrePC
  BY DEF Turns, PrePC
<1>2. ~AltHeld(worker.cur)
  BY DEF AltHeld, SessionAbsorbs, Refreshing, Ending
<1> QED
  BY <1>1, <1>2 DEF StateHasReal, InState

LEMMA RefreshedKept ==
    ASSUME Serial, TypeOK, Turns, Released, SessionAbsorbs, StateHasReal, Refreshed, Next
    PROVE  Refreshed'
<1> /\ gate \in GateType /\ hook \in HookType /\ worker \in WorkerType /\ os \subseteq Key
    /\ MaxCode \in Nat /\ Key \subseteq Code
  BY CodesAssumption DEF TypeOK, CodesAssumption
<1> SUFFICES ASSUME Refreshing', NEW k \in os' \cap gate'.real, k \notin env'.lost PROVE Ahead(k)'
  BY DEF Refreshed
<1> k \notin env.lost
  BY OtherChanges
<1>1. ASSUME WorkerStep PROVE Ahead(k)'
  <2>1. \/ Refresh \/ RefreshSend \/ RefreshClear \/ CloseAll
        \/ (\E m : ToNormal(m)) \/ (\E m : ToPassing(m)) \/ (\E kind : OpenSession(kind))
    BY <1>1, FlowOfWorker DEF Flow, CaughtPC, Refreshing, EntryPC, WorkerStep, Begin, Steps, ToggleStep
  <2>2. gate'.real = gate.real /\ gate'.absorb = gate.absorb /\ os' \subseteq os
    <3>1. ~HookRecord /\ ~ToggleClear /\ ~Absorb /\ ~Leave /\ ~ScopeSend
      BY <1>1, FlowOfWorker, HookWaits, HookGoesOn DEF Flow, Refreshing, EntryPC
    <3> QED
      BY <1>1, <3>1, GateChanges, OsChanges DEF SameReal, SameAbsorb
  <2>3. k \in Code
    BY <2>2 DEF Code
  <2>4. CASE Refresh \/ RefreshSend \/ RefreshClear \/ CloseAll
    <3>1. worker'.op = worker.op
      BY <2>4 DEF Refresh, RefreshSend, RefreshClear, CloseAll, Goto, WorkerType
    <3>2. worker.pc \in EntryPC
      BY <2>4, FlowOfWorker DEF Flow, EntryPC
    <3>3. Refreshing /\ Ahead(k)
      BY <2>2, <3>1, <3>2 DEF Refreshing, Refreshed
    <3>4. CASE Refresh
      <4>1. worker.pc = "refresh" /\ k >= worker.cur
        BY <3>3, <3>4, FlowOfWorker DEF Flow, Ahead
      <4>2. worker.cur \notin gate.state => k # worker.cur
        BY <2>2, <3>3, <4>1, StepsOver
      <4>3. \/ worker.cur > MaxCode
            \/ worker.cur \in gate.state /\ Goto("refreshSend")
            \/ worker.cur \notin gate.state /\ worker' = [worker EXCEPT !.cur = @ + 1]
        BY <3>4 DEF Refresh
      <4>4. ASSUME Goto("refreshSend") PROVE worker'.pc = "refreshSend" /\ worker'.cur = worker.cur
        BY <4>4 DEF Goto, WorkerType
      <4>5. ASSUME worker' = [worker EXCEPT !.cur = @ + 1]
            PROVE  worker'.pc = worker.pc /\ worker'.cur = worker.cur + 1
        BY <4>5 DEF WorkerType
      <4>6. k <= MaxCode /\ k \in Int /\ worker.cur \in Int
        BY <2>3 DEF Code, WorkerType
      <4> QED
        BY <4>1, <4>2, <4>3, <4>4, <4>5, <4>6 DEF Ahead
    <3>5. CASE RefreshSend
      <4>1. worker.pc = "refreshSend" /\ worker'.pc = "refreshClear" /\ worker'.cur = worker.cur
        BY <3>5 DEF RefreshSend, At, Goto, WorkerType
      <4>2. k # worker.cur
        <5>1. SendInput({worker.cur}, FALSE) /\ worker.cur \in gate.port
          BY <3>5, <4>1 DEF RefreshSend, Send, Released
        <5> QED
          BY <2>2, <5>1, ReleaseArrives
      <4> QED
        BY <2>3, <3>3, <4>1, <4>2 DEF Ahead, Code, WorkerType
    <3>6. CASE RefreshClear
      <4>1. worker.pc = "refreshClear" /\ worker'.pc = "refresh" /\ worker'.cur = worker.cur + 1
        BY <3>6 DEF RefreshClear, At, WorkerType
      <4> QED
        BY <2>3, <3>3, <4>1 DEF Ahead, Code, WorkerType
    <3>7. ~CloseAll
      BY <3>3, FlowOfWorker DEF Flow, Ahead
    <3> QED
      BY <2>4, <3>4, <3>5, <3>6, <3>7
  <2>5. ASSUME NEW m, ToNormal(m) PROVE worker'.pc = "refresh" /\ worker'.cur = 1
    BY <2>5 DEF ToNormal, Idle
  <2>6. ASSUME NEW kind, OpenSession(kind) PROVE worker'.pc = "refresh" /\ worker'.cur = 1
    BY <2>6 DEF OpenSession, Idle
  <2>7. ASSUME NEW m, ToPassing(m) PROVE FALSE
    BY <2>7 DEF ToPassing, Idle, Refreshing
  <2>8. k >= 1
    BY <2>3 DEF Code
  <2> QED
    BY <2>1, <2>4, <2>5, <2>6, <2>7, <2>8 DEF Ahead
<1>2. ASSUME Outside, UNCHANGED worker PROVE Ahead(k)'
  <2>1. worker.pc \in EntryPC
    BY <1>2 DEF Refreshing
  <2>2. \E c \in Key : Expire(c)
    <3>1. hook.pc = "idle" /\ worker.pc \notin {"idle", "exited"}
      BY <2>1 DEF Turns, EntryPC
    <3>2. ~HookStep
      BY <3>1, HookGoesOn, HookLooksUp DEF HookStep
    <3>3. ~LockScreen /\ ~NoticeLock
      BY <3>1 DEF LockScreen, NoticeLock, At
    <3> QED
      BY <1>2, <3>1, <3>2, <3>3, UserWaits DEF Outside, User
  <2>3. UNCHANGED os /\ gate'.real = gate.real /\ gate'.absorb = gate.absorb
    BY <2>2 DEF Expire, GateType
  <2> QED
    BY <1>2, <2>3 DEF Refreshed, Refreshing, Ahead
<1> QED
  BY <1>1, <1>2, OtherChanges

-----------------------------------------------------------------------------
KeyUpInv ==
    /\ PortInv /\ ModeInv /\ Turns /\ PhysicalInv /\ NoFailure
    /\ Released /\ StateHasReal /\ Refreshed

LEMMA KeyUpAtFirst == PhysicalTargets /\ Init => KeyUpInv
<1> SUFFICES ASSUME PhysicalTargets, Init PROVE KeyUpInv
  OBVIOUS
<1>1. PortInv /\ ModeInv /\ Turns
  BY PortsAtFirst, ModesAtFirst, TurnsAtFirst
<1>2. worker = Idle /\ hook = NoHook /\ session = NoSession /\ gate = InitGate /\ os = {}
  BY DEF Init
<1>3. PhysicalInv
  BY <1>2 DEF PhysicalInv, PhysicalTargets, Idle, NoHook, InitGate, TogglePC
<1>4. NoFailure /\ Released /\ StateHasReal /\ Refreshed
  BY <1>2 DEF NoFailure, Released, StateHasReal, Refreshed, Refreshing, Idle, NoHook,
     NoSession, InitGate, EntryPC, PrePC
<1> QED
  BY <1>1, <1>3, <1>4 DEF KeyUpInv

LEMMA KeyUpStep ==
    ASSUME Serial, PhysicalMacros, PhysicalTargets, KeyUpInv, [Next]_vars
    PROVE  KeyUpInv'
<1> USE DEF KeyUpInv
<1>1. PortInv' /\ ModeInv'
  BY PortsStep, ModesStep
<1>2. CASE Next
  <2>1. TypeOK /\ SessionAbsorbs /\ ~MayFail
    BY DEF PortInv, ModeInv, PhysicalMacros
  <2>2. Turns' /\ PhysicalInv' /\ NoFailure' /\ Released'
    BY <1>2, <2>1, TurnsKept, PhysicalKept, NoFailureKept, ReleasedKept
  <2>3. StateHasReal' /\ Refreshed'
    BY <1>2, <2>1, StateKept, RefreshedKept
  <2> QED
    BY <1>1, <2>2, <2>3
<1>3. CASE UNCHANGED vars
  <2>1. Turns' /\ PhysicalInv' /\ NoFailure' /\ Released'
    BY <1>3 DEF vars, Turns, PhysicalInv, NoFailure, Released
  <2>2. StateHasReal' /\ Refreshed'
    BY <1>3 DEF vars, Entering, StateHasReal, InState, AltHeld,
       Refreshed, Refreshing, Ahead
  <2> QED
    BY <1>1, <2>1, <2>2
<1> QED
  BY <1>2, <1>3

\* ToGUINormal, ToEdiNormal and every session release the keys before they absorb,
\* whatever was executed before: at the step that begins to absorb, no application
\* takes a key to be pressed that the user still holds, whose release it would
\* never see.  The only exception is an Esc or Enter that the end of a session has
\* taken out of the virtual state while it was held.
THEOREM KeysAreUp ==
    Serial /\ PhysicalMacros /\ PhysicalTargets /\ Spec => KeyUpBeforeAbsorb
<1> SUFFICES ASSUME Serial, PhysicalMacros, PhysicalTargets PROVE Spec => KeyUpBeforeAbsorb
  OBVIOUS
<1>1. Init => KeyUpInv
  BY KeyUpAtFirst
<1>2. KeyUpInv /\ [Next]_vars => KeyUpInv'
  BY KeyUpStep
<1>3. KeyUpInv /\ [Next]_vars =>
        [~gate.absorb /\ gate'.absorb => os \cap gate.real \subseteq env.lost]_vars
  <2> SUFFICES ASSUME KeyUpInv, Next, ~gate.absorb, gate'.absorb
               PROVE  os \cap gate.real \subseteq env.lost
    OBVIOUS
  <2> TypeOK /\ Refreshed /\ gate \in GateType
    BY DEF KeyUpInv, PortInv, TypeOK
  <2>1. Absorb
    <3>1. ~SameAbsorb
      BY DEF SameAbsorb
    <3>2. ~Leave
      BY DEF Leave, GateType
    <3> QED
      BY <3>1, <3>2, GateChanges
  <2>2. worker.pc = "absorb" /\ worker.op # "to_passing"
    BY <2>1 DEF Absorb, At, GateType
  <2> QED
    BY <2>2 DEF Refreshed, Refreshing, Ahead, EntryPC
<1> QED
  BY <1>1, <1>2, <1>3, PTL DEF Spec, KeyUpBeforeAbsorb

-----------------------------------------------------------------------------
(***************************************************************************)
(* Why an application takes a key to be pressed.  Every such key has a     *)
(* cause, and while somebody holds a key or an operation is in progress it *)
(* is one of three; at rest there is none.                                 *)
(***************************************************************************)
\* The hotkeys and the keys mapped to themselves do not depend on the mode.
SameInEveryMode ==
    /\ \A m, n \in Modes, k \in Key : Targets(m, k) = Targets(n, k)
    /\ \A m, n \in Modes : InitIdentity[m] = InitIdentity[n]

\* The keys whose release the hook has not been told of; those it lets through.
Held    == (down \ Toggle) \cup (Toggle \cap gate.lowlevel)
Lets(k) == ~gate.absorb \/ k \in gate.identity[mode]

\* The key itself was let through and its release will be, it is the target of a
\* hotkey that is held, it is the Alt key of SwitchWindow, or the code has lost it.
Own(k) ==
    \/ k \in gate.real /\ Lets(k) /\ (k \in Held \/ Releasing(k))
    \/ hook.pc = "decide" /\ ~hook.press /\ hook.key = k /\ Lets(k)
Sent(k) ==
    \E s \in Key : /\ k \in Targets(mode, s)
                   /\ s \in Held \/ (hook.key = s /\ ~hook.press /\ hook.pc \in {"lookup", "send"})
Cause(k) == Own(k) \/ Sent(k) \/ AltHeld(k) \/ k \in env.lost

HookKnows ==
    /\ hook.pc # "idle" /\ hook.press => hook.key \in Held
    /\ hook.pc # "idle" /\ ~hook.press => hook.key \notin Toggle
    /\ hook.pc = "decide" /\ hook.press => hook.key \in gate.real
    /\ \A k \in gate.real \cap Key : Unmapped(k)

\* What refresh_toggle_state has released, as the program counter moves on.
ToggleGoes ==
    /\ worker.pc \in {"toggleSend", "toggleClose"} => worker.keys = Targets(mode, worker.cur)
    /\ worker.pc \in TogglePC \ {"toggleSend"} => Targets(mode, worker.cur) \cap os = {}
    /\ worker.pc \in {"toggleClear", "toggleLow"} /\ worker.cur \in os =>
          Sent(worker.cur) \/ AltHeld(worker.cur) \/ worker.cur \in env.lost

Causes   == env.hooked => \A k \in os : Cause(k)
StuckInv == KeyUpInv /\ MapsStay /\ ToggleCur /\ HookKnows /\ Causes /\ ToggleGoes

\* The keys held change with the user, and at the end of refresh_toggle_state.
LEMMA HeldStays ==
    ASSUME TypeOK, Next, UNCHANGED <<down, hook>>, hook.pc = "idle"
    PROVE  ToggleLow \/ Held' = Held
<1>1. ASSUME NEW k, NEW press, UserKey(k, press) PROVE SameLow
  <2>1. \/ UNCHANGED gate
        \/ hook' = [NoHook EXCEPT !.pc = "lookup", !.key = k, !.press = press, !.mode = mode]
    BY <1>1, Zenon DEF UserKey
  <2>2. UNCHANGED gate \/ hook'.pc = "lookup"
    BY <2>1 DEF NoHook
  <2> QED
    BY <2>2 DEF SameLow
<1>2. SameLow \/ ToggleLow
  BY <1>1, GateChanges
<1> QED
  BY <1>2 DEF Held, SameLow

LEMMA HookKnowsKept ==
    ASSUME Serial, SameInEveryMode, TypeOK, Turns, MapsStay, HookKnows, Next
    PROVE  HookKnows'
<1> gate \in GateType /\ hook \in HookType /\ mode \in Modes
  BY DEF TypeOK
<1>1. ASSUME WorkerStep, UNCHANGED <<down, hook>> PROVE HookKnows'
  <2>1. hook.pc = "idle"
    BY <1>1, HookWaits
  <2>2. SameReal \/ ToggleClear
    BY <2>1, GateChanges, HookGoesOn
  <2>3. gate'.real \subseteq gate.real
    BY <2>2 DEF SameReal, ToggleClear, GateType
  <2> QED
    BY <1>1, <2>1, <2>3 DEF HookKnows, Unmapped
<1>2. ASSUME Outside, UNCHANGED <<worker, mode, session>> PROVE HookKnows'
  <2>1. ASSUME NEW k \in Key, NEW press \in BOOLEAN, UserKey(k, press) PROVE HookKnows'
    <3>1. gate'.real = gate.real /\ hook.pc = "idle"
      BY <2>1 DEF UserKey, GateType
    <3>2. \/ UNCHANGED hook
          \/ /\ hook'.pc = "lookup" /\ hook'.key = k /\ hook'.press = press
             /\ press \/ k \notin Toggle
             /\ gate'.lowlevel = Set(gate.lowlevel, {k}, press) /\ down' = Set(down, {k}, press)
      BY <2>1 DEF UserKey, NoHook, GateType
    <3> QED
      BY <3>1, <3>2 DEF HookKnows, Unmapped, Held, Set
  <2>2. ASSUME NEW k \in Key, Expire(k) PROVE HookKnows'
    <3>1. UNCHANGED <<hook, down>> /\ gate'.real = gate.real /\ gate'.lowlevel = gate.lowlevel
      BY <2>2 DEF Expire, GateType
    <3> QED
      BY <3>1 DEF HookKnows, Unmapped, Held
  <2>3. CASE LockScreen \/ NoticeLock
    <3>1. UNCHANGED <<hook, down>> /\ gate'.real = gate.real /\ gate'.lowlevel = gate.lowlevel
      BY <2>3 DEF LockScreen, NoticeLock, GateType
    <3> QED
      BY <3>1 DEF HookKnows, Unmapped, Held
  <2>4. CASE HookStep
    <3>1. worker.pc = "idle" /\ ~ToggleLow /\ ~ToggleClear
      BY <2>4, HookGoesOn, HookLooksUp, FlowOfWorker DEF HookStep, Turns, Flow
    <3>2. Held' = Held
      <4>1. UNCHANGED down /\ gate'.lowlevel = gate.lowlevel
        BY <2>4 DEF HookStep, HookLookup, HookSend, HookVirtual, HookClose, HookRecord,
           HookDecide, GateType
      <4> QED
        BY <4>1 DEF Held
    <3>3. CASE HookRecord
      <4> DEFINE cs == RepSet(hook.key) \cup {hook.key}
      <4>1. gate'.real = Set(gate.real, cs, hook.press)
        BY <3>3 DEF HookRecord, GateType
      <4>2. /\ hook.pc = "record" /\ hook'.pc = "decide"
            /\ hook'.key = hook.key /\ hook'.press = hook.press
        BY <3>3, HookGoesOn
      <4>3. hook.key \in Key
        BY <4>2 DEF TypeOK
      <4>4. cs \cap Key = {hook.key}
        BY <4>3, CodesAssumption DEF CodesAssumption, RepSet
      <4>5. Unmapped(hook.key)
        BY <4>2, <4>3 DEF MapsStay, SameInEveryMode, Unmapped, HookType
      <4> HIDE DEF cs
      <4> QED
        BY <3>2, <4>1, <4>2, <4>4, <4>5 DEF HookKnows, Unmapped, Set
    <3>4. CASE ~HookRecord
      <4>1. gate'.real = gate.real
        BY <3>1, <3>4, GateChanges DEF SameReal
      <4>2. /\ hook.pc # "idle"
            /\ hook'.pc # "idle" => /\ hook'.key = hook.key /\ hook'.press = hook.press
                                    /\ hook'.pc # "decide"
        BY <2>4, <3>4, HookGoesOn, HookLooksUp DEF HookStep
      <4> QED
        BY <3>2, <4>1, <4>2 DEF HookKnows, Unmapped
    <3> QED
      BY <3>3, <3>4
  <2> QED
    BY <1>2, <2>1, <2>2, <2>3, <2>4 DEF Outside, User
<1> QED
  BY <1>1, <1>2, OtherChanges

-----------------------------------------------------------------------------
\* The user and the hook: a key that goes down at the applications has a cause, and
\* a cause ends with the release of the key.
LEMMA CausesOutside ==
    ASSUME Serial, PhysicalMacros, SameInEveryMode, KeyUpInv, MapsStay, HookKnows, Causes,
           Next, Outside, UNCHANGED <<worker, mode, session>>, UNCHANGED env.lost
    PROVE  Causes'
<1> /\ TypeOK /\ Turns /\ PhysicalInv /\ Released /\ gate \in GateType /\ hook \in HookType
    /\ mode \in Modes /\ os \subseteq Key /\ down \subseteq Key
  BY DEF KeyUpInv, PortInv, TypeOK
<1>1. \A k : (AltHeld(k)' <=> AltHeld(k)) /\ (k \in env'.lost <=> k \in env.lost)
  BY DEF AltHeld, Entering
<1>2. \A k : SameMaps /\ SameAbsorb => (Lets(k)' <=> Lets(k))
  BY DEF Lets, SameMaps, SameAbsorb
<1>3. ASSUME NEW k \in Key, NEW press \in BOOLEAN, UserKey(k, press) PROVE Causes'
  <2> SUFFICES ASSUME env.hooked, NEW x \in os PROVE Cause(x)'
    <3>1. UNCHANGED env /\ (env.hooked => UNCHANGED os)
      BY <1>3 DEF UserKey
    <3> QED
      BY <3>1 DEF Causes
  <2>1. hook.pc = "idle" /\ Cause(x) /\ ~env.locked
    BY <1>3, UserWaits DEF Causes, Turns
  <2>2. SameMaps /\ SameAbsorb /\ gate'.real = gate.real
    BY <1>3, <2>1, FlowOfWorker, GateChanges, UserWaits, HookGoesOn DEF SameReal, Flow
  <2>3. CASE ~press /\ k \in Toggle
    <3>1. UNCHANGED <<gate, hook>> /\ down' = down \ {k}
      BY <1>3, <2>3 DEF UserKey, Set
    <3>2. Held' = Held
      BY <2>3, <3>1 DEF Held
    <3> QED
      BY <1>1, <1>2, <2>1, <2>2, <3>1, <3>2 DEF Cause, Own, Sent, Releasing
  <2>4. CASE press \/ k \notin Toggle
    <3>1. /\ gate'.lowlevel = Set(gate.lowlevel, {k}, press) /\ down' = Set(down, {k}, press)
          /\ hook'.pc = "lookup" /\ hook'.key = k /\ hook'.press = press
      BY <1>3, <2>1, <2>4 DEF UserKey, NoHook, GateType
    <3>2. Held \ {k} \subseteq Held' /\ (press => Held \subseteq Held')
      BY <3>1 DEF Held, Set
    <3>3. ~press => Releasing(k)'
      BY <3>1 DEF Releasing
    <3>4. Own(x) => Own(x)'
      BY <1>2, <2>1, <2>2, <3>2, <3>3 DEF Own, Releasing
    <3>5. Sent(x) => Sent(x)'
      BY <2>1, <3>1, <3>2 DEF Sent
    <3> QED
      BY <1>1, <2>1, <3>4, <3>5 DEF Cause
  <2> QED
    BY <2>3, <2>4
<1>4. ASSUME NEW k \in Key, Expire(k) PROVE Causes'
  <2>1. UNCHANGED <<hook, down, os, env>> /\ gate'.real = gate.real /\ gate'.lowlevel = gate.lowlevel
        /\ SameMaps /\ SameAbsorb
    BY <1>4 DEF Expire, GateType, SameMaps, SameAbsorb
  <2> QED
    BY <1>1, <1>2, <2>1 DEF Causes, Cause, Own, Sent, Releasing, Held
<1>5. CASE LockScreen
  BY <1>5 DEF LockScreen, Causes
<1>6. CASE NoticeLock
  <2>1. UNCHANGED <<hook, down, os>> /\ gate'.real = gate.real /\ gate'.lowlevel = gate.lowlevel
        /\ SameMaps /\ SameAbsorb
    BY <1>6 DEF NoticeLock, GateType, SameMaps, SameAbsorb
  <2>2. env'.hooked = env.hooked
    BY <1>6 DEF NoticeLock, TypeOK
  <2> QED
    BY <1>1, <1>2, <2>1, <2>2 DEF Causes, Cause, Own, Sent, Releasing, Held
<1>7. CASE HookStep
  <2>1. worker.pc = "idle" /\ UNCHANGED <<env, down>> /\ env.hooked
    <3>1. UNCHANGED <<env, down>>
      BY <1>7, Zenon DEF HookStep, HookLookup, HookSend, HookVirtual, HookClose, HookRecord, HookDecide
    <3> QED
      BY <1>7, <3>1, HookGoesOn, HookLooksUp DEF HookStep, Turns
  <2>2. SameMaps /\ SameAbsorb /\ SameLow
    BY <1>7, <2>1, FlowOfWorker, GateChanges, HookGoesOn, HookLooksUp, UserKeyHook
      DEF Flow, HookStep, Idle
  <2>3. Held' = Held
    BY <2>1, <2>2 DEF Held, SameLow
  <2>4. hook.mode = mode /\ hook.key \in Key
    BY <1>7, HookGoesOn, HookLooksUp DEF HookStep, Turns, TypeOK
  <2>5. ~HookRecord => gate'.real = gate.real
    BY <2>1, GateChanges, FlowOfWorker DEF SameReal, Flow
  <2>6. CASE HookLookup
    <3> SUFFICES ASSUME NEW k \in os PROVE Cause(k)'
      BY <2>6 DEF Causes, HookLookup
    <3>1. hook.pc = "lookup" /\ hook'.pc = (IF hook'.target = {} THEN "record" ELSE "send")
          /\ hook'.key = hook.key /\ hook'.press = hook.press
          /\ hook'.target = Targets(mode, hook.key)
      BY <2>4, <2>6, HookLooksUp DEF MapsStay
    <3>2. gate'.real = gate.real /\ Cause(k)
      BY <2>1, <2>5, <2>6, <3>1, HookGoesOn DEF Causes
    <3>3. Own(k) => Own(k)'
      <4>1. k \in gate.real => Targets(mode, k) = {}
        BY DEF HookKnows, Unmapped
      <4> QED
        BY <1>2, <2>2, <2>3, <3>1, <3>2, <4>1 DEF Own, Releasing
    <3>4. Sent(k) => Sent(k)'
      BY <2>3, <3>1 DEF Sent
    <3> QED
      BY <1>1, <3>2, <3>3, <3>4 DEF Cause
  <2>7. CASE HookSend
    <3> SUFFICES ASSUME NEW k \in os' PROVE Cause(k)'
      BY DEF Causes
    <3>1. hook.pc = "send" /\ hook'.pc = "virtual" /\ SendInput(hook.target, hook.press)
          /\ gate'.real = gate.real
      BY <2>5, <2>7, HookGoesOn DEF HookSend
    <3>2. hook.target = Targets(mode, hook.key) /\ hook.target \subseteq Key
      BY <2>4, <3>1 DEF MapsStay, PhysicalInv
    <3>3. ~hook.press => k \notin hook.target /\ k \in os
      <4> SUFFICES ASSUME hook.press = FALSE PROVE k \notin hook.target /\ k \in os
        BY DEF HookType
      <4>1. SendInput(hook.target, FALSE) /\ hook.target \subseteq gate.port
        BY <3>1 DEF Released
      <4>2. k \in os
        BY <4>1 DEF SendInput, Set
      <4> QED
        BY <3>2, <4>1, <4>2, ReleaseArrives
    <3>4. hook.press => k \in os \/ k \in hook.target
      <4> SUFFICES ASSUME hook.press, k \notin os PROVE k \in hook.target
        OBVIOUS
      <4>1. k \in {PhysOf[c] : c \in hook.target}
        BY <3>1 DEF SendInput, Set
      <4> QED
        BY <3>2, <4>1, CodesAssumption DEF CodesAssumption
    <3>5. CASE hook.press /\ k \in hook.target
      BY <2>3, <2>4, <3>1, <3>2, <3>5 DEF Cause, Sent, HookKnows
    <3>6. CASE k \in os /\ ~(hook.press /\ k \in hook.target)
      <4>1. Cause(k)
        BY <2>1, <3>6 DEF Causes
      <4>2. Own(k) => Own(k)'
        BY <1>2, <2>2, <2>3, <3>1 DEF Own, Releasing
      <4>3. Sent(k) => Sent(k)'
        BY <2>3, <3>1, <3>2, <3>3 DEF Sent
      <4> QED
        BY <1>1, <4>1, <4>2, <4>3 DEF Cause
    <3> QED
      BY <3>3, <3>4, <3>5, <3>6
  <2>8. CASE HookVirtual \/ HookClose
    <3> SUFFICES ASSUME NEW k \in os PROVE Cause(k)'
      BY <2>8 DEF Causes, HookVirtual, HookClose
    <3>1. /\ hook.pc \in {"virtual", "close"} /\ hook'.pc \in {"close", "idle"}
          /\ gate'.real = gate.real /\ Cause(k)
      BY <2>1, <2>5, <2>8, HookGoesOn DEF Causes
    <3> QED
      BY <1>1, <1>2, <2>2, <2>3, <3>1 DEF Cause, Own, Sent, Releasing
  <2>9. CASE HookRecord
    <3> SUFFICES ASSUME NEW k \in os PROVE Cause(k)'
      BY <2>9 DEF Causes, HookRecord
    <3> DEFINE cs == RepSet(hook.key) \cup {hook.key}
    <3>1. gate'.real = Set(gate.real, cs, hook.press)
      BY <2>9 DEF HookRecord, GateType
    <3>2. /\ hook.pc = "record" /\ hook'.pc = "decide" /\ hook'.key = hook.key
          /\ hook'.press = hook.press /\ Cause(k)
      BY <2>1, <2>9, HookGoesOn DEF Causes
    <3>3. k \in cs => k = hook.key
      <4>1. RepSet(hook.key) \cap Key = {}
        BY <2>4, CodesAssumption DEF CodesAssumption, RepSet
      <4> QED
        BY <4>1
    <3> HIDE DEF cs
    <3>4. Own(k) => Own(k)'
      BY <1>2, <2>2, <2>3, <3>1, <3>2, <3>3 DEF Own, Releasing, Set
    <3>5. Sent(k) => Sent(k)'
      BY <2>3, <3>2 DEF Sent
    <3> QED
      BY <1>1, <3>2, <3>4, <3>5 DEF Cause
  <2>10. CASE HookDecide
    <3> SUFFICES ASSUME NEW k \in os' PROVE Cause(k)'
      BY DEF Causes
    <3>1. /\ hook.pc = "decide" /\ hook'.pc = "idle" /\ gate'.real = gate.real
          /\ os' = IF Passes(hook.key, hook.mode) THEN Set(os, {hook.key}, hook.press) ELSE os
      BY <2>5, <2>10, HookGoesOn DEF HookDecide
    <3>2. gate.port = {}
      BY <2>1, <3>1 DEF KeyUpInv, PortInv, Accounted, HookPorts, WorkerPorts, ClosesAll, ClosesKeys
    <3>3. Passes(hook.key, hook.mode) <=> Lets(hook.key)
      BY <2>1, <2>4, <3>2 DEF Passes, Lets
    <3>4. CASE k \in os /\ (k = hook.key => ~Lets(k))
      <4>1. Cause(k)
        BY <2>1, <3>4 DEF Causes
      <4>2. Own(k) => Own(k)'
        BY <1>2, <2>2, <2>3, <3>1, <3>4 DEF Own, Releasing
      <4>3. Sent(k) => Sent(k)'
        BY <2>3, <3>1 DEF Sent
      <4> QED
        BY <1>1, <4>1, <4>2, <4>3 DEF Cause
    <3>5. CASE k = hook.key /\ Lets(k)
      <4>1. hook.press
        BY <3>1, <3>3, <3>5 DEF Set
      <4> QED
        BY <1>2, <2>2, <2>3, <3>1, <3>5, <4>1 DEF Cause, Own, HookKnows
    <3>6. k \in os \/ (k = hook.key /\ Lets(k))
      BY <3>1, <3>3 DEF Set
    <3> QED
      BY <3>4, <3>5, <3>6
  <2> QED
    BY <1>7, <2>6, <2>7, <2>8, <2>9, <2>10 DEF HookStep
<1> QED
  BY <1>3, <1>4, <1>5, <1>6, <1>7 DEF Outside, User

-----------------------------------------------------------------------------
\* The worker: what it changes of the modes, the maps and the record of the keys
\* leaves every key of the applications with a cause.
LEMMA CausesOfWorker ==
    ASSUME Serial, SameInEveryMode, KeyUpInv, MapsStay, HookKnows, Causes, ToggleGoes,
           Next, WorkerStep, UNCHANGED <<down, hook>>, SameScreen \/ UninstallHook,
           TypeOK', MapsStay'
    PROVE  Causes'
<1> /\ TypeOK /\ Turns /\ PhysicalInv /\ Released /\ Refreshed
    /\ gate \in GateType /\ worker \in WorkerType /\ mode \in Modes /\ mode' \in Modes /\ os \subseteq Key
  BY DEF KeyUpInv, PortInv, TypeOK
<1> SUFFICES ASSUME env'.hooked, NEW k \in os' PROVE Cause(k)'
  BY DEF Causes
<1>1. env.hooked /\ hook.pc = "idle" /\ hook'.pc = "idle" /\ k \in Key
  BY HookWaits DEF UninstallHook, SameScreen, TypeOK
<1>2. CASE k \notin os
  <2>1. ScopeSend
    BY <1>2, OsChanges
  <2>2. worker.keys = {AltKey} /\ session.kind = "switch" /\ worker'.pc = "scopeClose"
    BY <2>1, FlowOfWorker DEF Flow, Turns, ScopePC
  <2>3. k = AltKey
    <3>1. PhysOf[AltKey] = AltKey
      BY CodesAssumption DEF CodesAssumption
    <3> QED
      BY <1>2, <2>1, <2>2, <3>1 DEF ScopeSend, Send, SendInput, Set
  <2>4. UNCHANGED session
    BY <2>1 DEF ScopeSend
  <2> QED
    BY <2>2, <2>3, <2>4 DEF Cause, AltHeld, Entering, EntryPC
<1>3. CASE k \in os
  <2>1. Cause(k)
    BY <1>1, <1>3 DEF Causes
  <2>2. (AltHeld(k) => AltHeld(k)') /\ (k \in env.lost => k \in env'.lost)
    BY <1>3, AltHeldKept, OtherChanges
  <2>3. \A s \in Key : Targets(mode', s) = Targets(mode, s)
    BY DEF SameInEveryMode
  <2>4. ToggleLow \/ Held' = Held
    BY <1>1, HeldStays
  <2>5. Sent(k) => Sent(k)'
    <3>1. CASE ToggleLow
      <4>1. worker.pc = "toggleLow" /\ gate'.lowlevel = gate.lowlevel \ {worker.cur}
        BY <3>1, FlowOfWorker DEF Flow, ToggleLow, GateType
      <4>2. k \notin Targets(mode, worker.cur)
        BY <1>3, <4>1 DEF ToggleGoes, TogglePC
      <4> QED
        BY <1>1, <2>3, <4>1, <4>2 DEF Sent, Held
    <3> QED
      BY <1>1, <2>3, <2>4, <3>1 DEF Sent
  <2>6. Own(k) => Own(k)' \/ Sent(k) \/ AltHeld(k) \/ k \in env.lost
    <3> SUFFICES ASSUME k \in gate.real, Lets(k), k \in Held, ~Sent(k), ~AltHeld(k), k \notin env.lost
                 PROVE  Own(k)'
      BY <1>1 DEF Own, Releasing
    <3>1. Lets(k)'
      <4>1. CASE Absorb
        <5>1. worker.pc = "absorb" /\ gate'.absorb = (worker.op # "to_passing")
          BY <4>1 DEF Absorb, At, GateType
        <5>2. gate'.absorb => gate.absorb
          BY <1>3, <5>1 DEF Refreshed, Refreshing, Ahead, EntryPC
        <5>3. UNCHANGED mode /\ gate'.identity = gate.identity
          BY <4>1 DEF Absorb, GateType
        <5> QED
          BY <5>2, <5>3 DEF Lets
      <4>2. CASE ~Absorb
        <5>1. gate'.absorb => gate.absorb
          <6>1. Leave => (gate'.absorb => gate.absorb)
            BY DEF Leave, GateType
          <6> QED
            BY <4>2, <6>1, GateChanges DEF SameAbsorb
        <5>2. gate'.identity[mode'] = gate.identity[mode]
          BY DEF MapsStay, SameInEveryMode
        <5> QED
          BY <5>1, <5>2 DEF Lets
      <4> QED
        BY <4>1, <4>2
    <3>2. ~(ToggleLow /\ k = worker.cur) /\ ~(ToggleClear /\ k = worker.cur)
      <4>1. ToggleLow \/ ToggleClear => worker.pc \in {"toggleClear", "toggleLow"}
        BY FlowOfWorker DEF Flow
      <4> QED
        BY <1>3, <4>1 DEF ToggleGoes
    <3>3. k \in Held'
      <4>1. CASE ToggleLow
        <5>1. gate'.lowlevel = gate.lowlevel \ {worker.cur}
          BY <4>1 DEF ToggleLow, GateType
        <5> QED
          BY <3>2, <4>1, <5>1 DEF Held
      <4> QED
        BY <2>4, <4>1
    <3>4. k \in gate'.real
      <4>1. CASE ToggleClear
        <5>1. gate'.real = gate.real \ {worker.cur}
          BY <4>1 DEF ToggleClear, GateType
        <5> QED
          BY <3>2, <4>1, <5>1
      <4>2. CASE ~ToggleClear
        BY <1>1, <4>2, GateChanges, HookGoesOn DEF SameReal
      <4> QED
        BY <4>1, <4>2
    <3> QED
      BY <3>1, <3>3, <3>4 DEF Own
  <2> QED
    BY <2>1, <2>2, <2>5, <2>6 DEF Cause
<1> QED
  BY <1>2, <1>3

LEMMA ToggleGoesKept ==
    ASSUME Serial, ~MayFail, SameInEveryMode, KeyUpInv, MapsStay, ToggleCur, HookKnows, Causes, ToggleGoes, Next
    PROVE  ToggleGoes'
<1> /\ TypeOK /\ Turns /\ PhysicalInv /\ Released
    /\ gate \in GateType /\ worker \in WorkerType /\ mode \in Modes /\ os \subseteq Key
  BY DEF KeyUpInv, PortInv, TypeOK
<1>tog. Toggle \subseteq Key /\ \A k \in Toggle : RepOf[k] = 0 /\ k \in Code
  BY CodesAssumption DEF CodesAssumption
<1>1. ASSUME WorkerStep, UNCHANGED <<down, hook>> PROVE ToggleGoes'
  <2> SUFFICES ASSUME worker'.pc \in TogglePC PROVE ToggleGoes'
    BY DEF ToggleGoes, TogglePC
  <2>1. hook.pc = "idle" /\ hook'.pc = "idle"
    BY <1>1, HookWaits
  <2>2. \/ ToggleSend \/ ToggleClose \/ ToggleKey \/ ToggleClear
        \/ \E k \in Toggle : RefreshToggle(k)
    BY <1>1, FlowOfWorker DEF Flow, CaughtPC, TogglePC, WorkerStep, Begin, Steps, ToggleStep
  <2>3. UNCHANGED mode /\ UNCHANGED session.kind
    BY <2>2, FlowOfWorker, OtherChanges DEF Flow, Idle, SameSession
  <2>4. CASE ToggleSend \/ ToggleClose \/ ToggleKey \/ ToggleClear
    <3>1. worker.pc \in TogglePC /\ worker'.cur = worker.cur /\ worker'.keys = worker.keys
          /\ worker'.op = worker.op
      BY <2>4 DEF ToggleSend, ToggleClose, ToggleKey, ToggleClear, At, Goto, WorkerType, TogglePC
    <3>2. Held' = Held
      BY <1>1, <2>1, <2>4, HeldStays, FlowOfWorker DEF Flow
    <3>3. os' \subseteq os
      BY <1>1, <2>4, OsChanges, FlowOfWorker DEF Flow
    <3>4. \A k : Sent(k) => Sent(k)'
      BY <2>1, <2>3, <3>2 DEF Sent
    <3>5. \A k : (AltHeld(k) => AltHeld(k)') /\ (k \in env.lost => k \in env'.lost)
      BY <2>3, <3>1, <2>4, FlowOfWorker, OtherChanges DEF Flow, AltHeld, Entering, EntryPC
    <3>6. CASE ToggleSend
      <4>1. worker.pc = "toggleSend" /\ worker'.pc = "toggleClose" /\ SendInput(worker.keys, FALSE)
        BY <3>6, FlowOfWorker DEF Flow, ToggleSend, Send
      <4>2. worker.keys = Targets(mode, worker.cur) /\ worker.keys \subseteq Key
            /\ worker.keys \subseteq gate.port
        BY <4>1 DEF ToggleGoes, PhysicalInv, Released, TogglePC
      <4>3. worker.keys \cap os' = {}
        BY <4>1, <4>2, ReleaseArrives
      <4> QED
        BY <2>3, <3>1, <4>1, <4>2, <4>3 DEF ToggleGoes
    <3>7. CASE ToggleClose
      <4>1. worker.pc = "toggleClose" /\ worker'.pc = "toggleKey"
        BY <3>7, FlowOfWorker DEF Flow
      <4> QED
        BY <2>3, <3>1, <3>3, <4>1 DEF ToggleGoes, TogglePC
    <3>8. CASE ToggleKey
      <4>1. worker.pc = "toggleKey" /\ worker'.pc = "toggleClear" /\ SendInput({worker.cur}, FALSE)
        BY <3>8, FlowOfWorker DEF Flow, ToggleKey, Send
      <4>2. worker.cur \in os' => Sent(worker.cur) \/ AltHeld(worker.cur) \/ worker.cur \in env.lost
        <5> SUFFICES ASSUME worker.cur \in os'
                     PROVE  Sent(worker.cur) \/ AltHeld(worker.cur) \/ worker.cur \in env.lost
          OBVIOUS
        <5>1. PhysOf[worker.cur] = worker.cur
          BY <3>3, CodesAssumption DEF CodesAssumption
        <5>2. ~Passes(worker.cur, mode)
          BY <4>1, <5>1 DEF SendInput, Set
        <5>3. ~Lets(worker.cur) /\ env.hooked
          BY <5>2 DEF Passes, Lets
        <5> QED
          BY <2>1, <3>3, <5>3 DEF Causes, Cause, Own
      <4> QED
        BY <2>3, <3>1, <3>3, <3>4, <3>5, <4>1, <4>2 DEF ToggleGoes, TogglePC
    <3>9. CASE ToggleClear
      <4>1. worker.pc = "toggleClear" /\ worker'.pc = "toggleLow"
        BY <3>9, FlowOfWorker DEF Flow
      <4> QED
        BY <2>3, <3>1, <3>3, <3>4, <3>5, <4>1 DEF ToggleGoes, TogglePC
    <3> QED
      BY <2>4, <3>6, <3>7, <3>8, <3>9
  <2>5. ASSUME NEW k \in Toggle, RefreshToggle(k) PROVE ToggleGoes'
    <3>1. /\ worker'.pc = "toggleSend" /\ worker'.cur = k
          /\ worker'.keys = UNION {InitHotkey[m][k] : m \in Modes}
      BY <2>5 DEF RefreshToggle, Idle, MapsStay
    <3>2. \A m \in Modes : InitHotkey[m][k] = Targets(m, k)
      BY <1>tog DEF Targets, RepSet
    <3>3. \A m \in Modes : Targets(m, k) = Targets(mode, k)
      BY <1>tog DEF SameInEveryMode
    <3>4. worker'.keys = Targets(mode, k)
      BY <3>1, <3>2, <3>3
    <3> QED
      BY <2>3, <3>1, <3>4 DEF ToggleGoes
  <2> QED
    BY <2>2, <2>4, <2>5
<1>2. ASSUME Outside, UNCHANGED <<worker, mode, session>>, UNCHANGED env.lost PROVE ToggleGoes'
  <2> SUFFICES ASSUME worker.pc \in TogglePC PROVE ToggleGoes'
    BY <1>2 DEF ToggleGoes, TogglePC
  <2>1. \E c \in Key : Expire(c)
    <3>1. hook.pc = "idle" /\ worker.pc \notin {"idle", "exited"}
      BY DEF Turns, TogglePC
    <3>2. ~HookStep
      BY <3>1, HookGoesOn, HookLooksUp DEF HookStep
    <3>3. ~LockScreen /\ ~NoticeLock
      BY <3>1 DEF LockScreen, NoticeLock, At
    <3> QED
      BY <1>2, <3>1, <3>2, <3>3, UserWaits DEF Outside, User
  <2>2. UNCHANGED <<os, hook, down>> /\ gate'.lowlevel = gate.lowlevel
    BY <2>1 DEF Expire, GateType
  <2>3. Held' = Held
    BY <2>2 DEF Held
  <2> QED
    BY <1>2, <2>2, <2>3 DEF ToggleGoes, Sent, AltHeld, Entering
<1> QED
  BY <1>1, <1>2, OtherChanges

-----------------------------------------------------------------------------
\* At the end of the program the hook no longer speaks for the keys that are down:
\* they are held, still to be released by uninstall_hook, or lost.  It knows those
\* that are really pressed; the targets of hotkeys that are held are lost.
ExitCauses ==
    ~env.hooked =>
        \A k \in os : k \in down \/ k \in env.lost \/ (worker.pc = "exit" /\ k \in worker.todo)

LEMMA SentIsLost ==
    ASSUME CodesAssumption, TypeOK, MapsStay, PhysicalInv, hook.pc = "idle", NEW k \in Key, Sent(k)
    PROVE  k \in HeldTargets
<1> DEFINE held  == down \cup (Toggle \cap gate.lowlevel)
           codes == held \cup UNION {RepSet(s) : s \in held}
<1>1. PICK s \in Held : k \in Targets(mode, s)
  BY DEF Sent
<1>2. s \in held /\ s \in Key
  BY <1>1, CodesAssumption DEF Held, CodesAssumption, TypeOK
<1>3. \E t \in codes : k \in gate.hotkey[mode][t]
  <2>1. CASE \E c \in RepSet(s) : InitHotkey[mode][c] # {}
    <3>1. RepOf[s] \in RepSet(s)
      BY <2>1 DEF RepSet
    <3> QED
      BY <1>1, <1>2, <2>1, <3>1 DEF Targets, MapsStay
  <2>2. CASE ~\E c \in RepSet(s) : InitHotkey[mode][c] # {}
    BY <1>1, <1>2, <2>2 DEF Targets, MapsStay
  <2> QED
    BY <2>1, <2>2
<1>4. k \in UNION {gate.hotkey[m][t] : m \in Modes, t \in codes}
  BY <1>3 DEF TypeOK
<1>5. PhysOf[k] = k
  BY CodesAssumption DEF CodesAssumption
<1> HIDE DEF codes
<1>6. HeldTargets = {PhysOf[c] : c \in UNION {gate.hotkey[m][t] : m \in Modes, t \in codes}}
  BY DEF HeldTargets, codes
<1> QED
  BY <1>4, <1>5, <1>6

LEMMA ExitCausesKept ==
    ASSUME PhysicalMacros, StuckInv, ExitCauses, Next
    PROVE  ExitCauses'
<1> /\ TypeOK /\ Turns /\ Causes /\ gate \in GateType /\ worker \in WorkerType /\ hook \in HookType
    /\ mode \in Modes /\ os \subseteq Key /\ down \subseteq Key /\ env \in EnvType
    /\ MapsStay /\ PhysicalInv
  BY DEF StuckInv, KeyUpInv, PortInv, TypeOK
<1>1. CASE env'.hooked
  BY <1>1 DEF ExitCauses
<1>lost. env.lost \subseteq env'.lost
  BY OtherChanges
<1>2. ASSUME UninstallHook PROVE ExitCauses'
  <2>1. /\ env.hooked /\ hook.pc = "idle" /\ worker.pc \in {"idle", "ended"}
        /\ worker'.pc = "exit" /\ worker'.todo = gate.real /\ os' = os
        /\ env'.lost = env.lost \cup HeldTargets
    BY <1>2 DEF UninstallHook, Idle, EnvType, At
  <2>2. session.kind = "none"
    BY <1>2 DEF UninstallHook, StuckInv, KeyUpInv, NoFailure, At
  <2>3. ASSUME NEW k \in os PROVE k \in gate.real \/ k \in env'.lost
    <3>1. Cause(k) /\ ~AltHeld(k)
      BY <2>1, <2>2 DEF AltHeld, Causes
    <3>2. Sent(k) => k \in HeldTargets
      BY <2>1, CodesAssumption, SentIsLost
    <3> QED
      BY <2>1, <3>1, <3>2 DEF Cause, Own
  <2> QED
    BY <2>1, <2>3 DEF ExitCauses
<1>3. ASSUME ~env.hooked, ~env'.hooked PROVE ExitCauses'
  <2>1. worker.pc \in {"exit", "exited"} /\ hook.pc = "idle" /\ (env.locked => os = {})
    BY <1>3 DEF Turns
  <2>2. ASSUME ExitRelease PROVE ExitCauses'
    <3>1. UNCHANGED <<down, mode, env>> /\ worker.pc = "exit"
      BY <2>2 DEF ExitRelease, At
    <3>2. ASSUME NEW c \in worker.todo, SendInput({c}, FALSE),
                 worker' = [worker EXCEPT !.todo = @ \ {c}]
          PROVE  ExitCauses'
      <4>1. c \in Key => PhysOf[c] = c
        BY CodesAssumption DEF CodesAssumption
      <4>2. os' = os \ {PhysOf[c]}
        BY <1>3, <3>2 DEF SendInput, Set, Passes
      <4> QED
        BY <1>lost, <3>1, <3>2, <4>1, <4>2 DEF ExitCauses, WorkerType
    <3>3. ASSUME worker.todo = {}, UNCHANGED os PROVE ExitCauses'
      BY <1>lost, <1>3, <3>1, <3>3 DEF ExitCauses
    <3> QED
      BY <2>2, <3>2, <3>3 DEF ExitRelease
  <2>3. ASSUME NEW k \in Key, NEW press \in BOOLEAN, UserKey(k, press) PROVE ExitCauses'
    <3>1. /\ down' = Set(down, {k}, press) /\ UNCHANGED <<env, worker>>
          /\ os' = IF env.locked THEN os ELSE Set(os, {k}, press)
      BY <1>3, <2>3 DEF UserKey
    <3> QED
      BY <1>lost, <1>3, <2>1, <3>1 DEF ExitCauses, Set
  <2>4. CASE UNCHANGED <<os, down, worker>>
    BY <1>lost, <1>3, <2>4 DEF ExitCauses
  <2>5. ASSUME WorkerStep PROVE ExitRelease
    <3>1. ~Begin /\ ~(\E k \in Toggle : RefreshToggle(k)) /\ ~Fail
      BY <2>1, FlowOfWorker DEF Flow, Idle, Begin, Fail, PhysicalMacros
    <3>2. Steps /\ ~NoticeLock
      BY <2>5, <3>1 DEF WorkerStep
    <3> QED
      BY <2>1, <2>5, <3>2, FlowOfWorker DEF WorkerStep, Steps, ToggleStep, Flow
  <2>6. Outside => \/ \E k \in Key, press \in BOOLEAN : UserKey(k, press)
                   \/ UNCHANGED <<os, down, worker>>
    <3>1. ~HookStep
      BY <2>1, Zenon DEF HookStep, HookLookup, HookSend, HookVirtual, HookClose, HookRecord, HookDecide
    <3>2. ~LockScreen /\ ~NoticeLock
      BY <1>3, <2>1, Zenon DEF LockScreen, NoticeLock, At
    <3>3. \A k : Expire(k) => UNCHANGED <<os, down, worker>>
      BY Zenon DEF Expire
    <3> QED
      BY <3>1, <3>2, <3>3 DEF Outside, User
  <2> QED
    BY <2>2, <2>3, <2>4, <2>5, <2>6, OtherChanges
<1>4. LockScreen \/ NoticeLock => env'.hooked = env.hooked
  BY DEF LockScreen, NoticeLock, EnvType
<1> QED
  BY <1>1, <1>2, <1>3, <1>4, OtherChanges DEF SameScreen

-----------------------------------------------------------------------------
\* When nobody holds a key and no operation is in progress, no application takes a
\* key to be pressed, whichever hotkeys, macros, mode changes, sessions, lock keys,
\* and screen locks came before; and none does when the program has ended, but for
\* the keys that the code has lost (NoStuckKey).
THEOREM KeysComeUp ==
    /\ Serial /\ PhysicalMacros /\ PhysicalTargets /\ NoMaps /\ SameInEveryMode
    /\ Spec
    => []NoStuckKey
<1> DEFINE Inv == StuckInv /\ ExitCauses
<1> SUFFICES ASSUME Serial, PhysicalMacros, PhysicalTargets, NoMaps, SameInEveryMode
             PROVE  Spec => []NoStuckKey
  OBVIOUS
<1>1. Init => Inv
  <2> SUFFICES ASSUME Init PROVE Inv
    OBVIOUS
  <2>1. KeyUpInv
    BY KeyUpAtFirst
  <2>2. worker = Idle /\ hook = NoHook /\ gate = InitGate /\ os = {}
    BY DEF Init
  <2>3. MapsStay /\ ToggleCur /\ HookKnows /\ Causes /\ ToggleGoes
    BY <2>2 DEF InitGate, NoHook, Idle, MapsStay, ToggleCur, TogglePC, HookKnows, Causes, ToggleGoes
  <2> QED
    BY <2>1, <2>2, <2>3 DEF StuckInv, ExitCauses
<1>2. StuckInv /\ [Next]_vars => StuckInv'
  <2> SUFFICES ASSUME StuckInv, [Next]_vars PROVE StuckInv'
    OBVIOUS
  <2> KeyUpInv /\ MapsStay /\ ToggleCur /\ HookKnows /\ Causes /\ ToggleGoes /\ TypeOK /\ Turns
    BY DEF StuckInv, KeyUpInv, PortInv
  <2>1. KeyUpInv' /\ TypeOK'
    BY KeyUpStep DEF KeyUpInv, PortInv
  <2> ~MayFail
    BY DEF PhysicalMacros
  <2>2. CASE Next
    <3>1. MapsStay' /\ ToggleCur'
      BY <2>2, MapsKept, ToggleCurKept
    <3>2. HookKnows' /\ ToggleGoes'
      BY <2>2, HookKnowsKept, ToggleGoesKept
    <3>3. Causes'
      BY <2>1, <2>2, <3>1, CausesOfWorker, CausesOutside, OtherChanges
    <3> QED
      BY <2>1, <3>1, <3>2, <3>3 DEF StuckInv
  <2>3. CASE UNCHANGED vars
    <3>1. MapsStay' /\ ToggleCur' /\ HookKnows'
      BY <2>3 DEF vars, MapsStay, ToggleCur, HookKnows, Held
    <3>2. Causes' /\ ToggleGoes'
      BY <2>3 DEF vars, Causes, Cause, Own, Releasing, Lets, Sent, AltHeld, Entering, Held, ToggleGoes
    <3> QED
      BY <2>1, <3>1, <3>2 DEF StuckInv
  <2> QED
    BY <2>2, <2>3
<1>3. Inv /\ [Next]_vars => Inv'
  <2> SUFFICES ASSUME Inv, [Next]_vars PROVE ExitCauses'
    BY <1>2
  <2> QED
    BY ExitCausesKept DEF vars, ExitCauses
<1>4. Inv => NoStuckKey
  <2> SUFFICES ASSUME StuckInv, ExitCauses, Quiet PROVE os \subseteq env.lost
    BY DEF NoStuckKey
  <2>1. CASE AtRest
    <3>1. hook.pc = "idle" /\ worker.pc = "idle" /\ session.kind = "none" /\ Held = {}
      BY <2>1 DEF Quiet, AtRest, Held
    <3>2. env.hooked /\ Causes
      BY <3>1 DEF StuckInv, KeyUpInv, Turns
    <3> QED
      BY <3>1, <3>2 DEF Causes, Cause, Own, Releasing, Sent, AltHeld
  <2>2. CASE worker.pc = "exited"
    <3>1. ~env.hooked /\ down = {}
      BY <2>2 DEF StuckInv, KeyUpInv, Turns, Quiet
    <3> QED
      BY <2>2, <3>1 DEF ExitCauses
  <2> QED
    BY <2>1, <2>2 DEF Quiet
<1> QED
  BY <1>1, <1>3, <1>4, PTL DEF Spec
=============================================================================
