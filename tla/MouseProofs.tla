---------------------------- MODULE MouseProofs ----------------------------
(***************************************************************************)
(* Theorems about Mouse, for any keys, directions and bindings: types, at  *)
(* most one move after the keys have changed, what is sent through the     *)
(* INPUT that all threads share, and the button that GUI Visual holds.     *)
(***************************************************************************)
EXTENDS Mouse, TLAPS

Threads == held \subseteq Key /\ accel \in [Direction -> ThreadType] /\ input \in [x : Step, y : Step]

\* A thread that sees its keys is not late, and one that has just seen them neither.
Late ==
    \A d \in Direction :
        /\ held = accel[d].keys => accel[d].late = 0
        /\ accel[d].pc \in Calling => accel[d].late = 0
        /\ accel[d].late <= 1

\* Calls at the same time have seen each other, and what a call has written may have
\* been written over by one it has seen only.
Seen ==
    \A d \in Movers :
        /\ Movers \subseteq accel[d].seen
        /\ accel[d].pc # "dx" => \E e \in accel[d].seen : input.x = Unit(e).x
        /\ accel[d].pc = "send" => \E e \in accel[d].seen : input.y = Unit(e).y

ThreadInv == Threads /\ Late /\ Seen

\* The worker waits or calls for the function at the head of what it executes.
WorkerCalls ==
    /\ worker.pc # "rest" => worker.todo # <<>>
    /\ \A d \in Direction : accel[d].pc \in Calling /\ ~accel[d].flag =>
           worker.pc = "call" /\ Head(worker.todo) = d
    /\ \A d \in Direction : accel[d].pc = "sleep" => accel[d].flag

WorkerType == worker \in [pc : {"rest", "wait", "call"}, todo : Seq(Function)]
PlainType == prev \subseteq Key /\ mode \in Mode /\ button \in BOOLEAN /\ past \in Past

MouseInv == PlainType /\ WorkerType /\ ThreadInv /\ WorkerCalls

-----------------------------------------------------------------------------
LEMMA UnitStep == \A d \in Direction : Unit(d).x \in Step /\ Unit(d).y \in Step
BY DEF Unit, Step

\* Keys are pressed or released.
LEMMA PressedThreads ==
    ASSUME ThreadInv, NEW keys \in SUBSET Key, Pressed(keys), UNCHANGED input
    PROVE  /\ ThreadInv'
           /\ \A d \in Direction : accel'[d].pc = accel[d].pc /\ accel'[d].flag = accel[d].flag
<1>1. held' = keys /\ accel' = OnTime(keys, accel) /\ input' = input
    BY DEF Pressed
<1>2. \A d \in Direction :
          /\ accel[d] \in ThreadType /\ accel'[d] \in ThreadType
          /\ accel'[d].pc = accel[d].pc /\ accel'[d].flag = accel[d].flag
          /\ accel'[d].keys = accel[d].keys /\ accel'[d].seen = accel[d].seen
          /\ accel'[d].late = IF keys = accel[d].keys THEN 0 ELSE accel[d].late
    BY <1>1 DEF ThreadInv, Threads, OnTime, ThreadType
<1>3. Threads'
    BY <1>1, <1>2 DEF ThreadInv, Threads, OnTime
<1>4. Late'
    BY <1>1, <1>2 DEF ThreadInv, Late
<1>5. Movers' = Movers
    BY <1>2 DEF Movers
<1>6. Seen'
    BY <1>1, <1>2, <1>5 DEF ThreadInv, Seen, Movers
<1> QED
    BY <1>2, <1>3, <1>4, <1>6 DEF ThreadInv

\* A step of one thread that does not begin a call of func_.
LEMMA OneThread ==
    ASSUME ThreadInv, NEW d \in Direction, NEW a \in ThreadType,
           accel' = [accel EXCEPT ![d] = a], UNCHANGED <<held, input>>,
           held = a.keys => a.late = 0, a.pc \notin Calling, a.late <= 1
    PROVE  ThreadInv'
<1>1. Threads'
    BY DEF ThreadInv, Threads
<1>2. \A e \in Direction : accel'[e] = IF e = d THEN a ELSE accel[e]
    BY DEF ThreadInv, Threads
<1>3. Late'
    BY <1>2 DEF ThreadInv, Late
<1>4. Movers' = Movers \ {d}
    BY <1>2 DEF Movers
<1>5. Seen'
    BY <1>2, <1>4 DEF ThreadInv, Seen
<1> QED
    BY <1>1, <1>3, <1>5 DEF ThreadInv

\* A call of func_ begins.
LEMMA CallBegins ==
    ASSUME ThreadInv, NEW d \in Direction, NEW a \in ThreadType,
           accel' = Called(d, a), UNCHANGED <<held, input>>, a.late = 0, d \notin Movers
    PROVE  /\ ThreadInv'
           /\ \A e \in Direction : e # d => accel'[e].pc = accel[e].pc /\ accel'[e].flag = accel[e].flag
           /\ accel'[d].pc = "dx" /\ accel'[d].flag = a.flag
<1>1. Movers \subseteq Direction
    BY DEF Movers
<1>2. /\ accel'[d] \in ThreadType
      /\ accel'[d].pc = "dx" /\ accel'[d].late = 0 /\ accel'[d].seen = Movers \cup {d}
      /\ accel'[d].flag = a.flag
    BY <1>1 DEF Called, ThreadType, Calling
<1>3. \A e \in Direction \ {d} :
          /\ accel'[e] \in ThreadType
          /\ accel'[e].pc = accel[e].pc /\ accel'[e].late = accel[e].late
          /\ accel'[e].keys = accel[e].keys /\ accel'[e].flag = accel[e].flag
          /\ accel'[e].seen = IF e \in Movers THEN accel[e].seen \cup {d} ELSE accel[e].seen
    BY <1>1 DEF Called, ThreadInv, Threads, ThreadType
<1>4. Threads'
    BY <1>2, <1>3 DEF Called, ThreadInv, Threads
<1>5. Late'
  <2> SUFFICES ASSUME NEW e \in Direction
               PROVE  /\ held' = accel'[e].keys => accel'[e].late = 0
                      /\ accel'[e].pc \in Calling => accel'[e].late = 0
                      /\ accel'[e].late <= 1
    BY DEF Late
  <2>1. CASE e = d
    BY <1>2, <2>1
  <2>2. CASE e # d
    BY <1>3, <2>2 DEF ThreadInv, Late
  <2> QED
    BY <2>1, <2>2
<1>6. Movers' = Movers \cup {d}
    BY <1>2, <1>3 DEF Movers, Calling
<1>7. Seen'
  <2> SUFFICES ASSUME NEW e \in Movers \cup {d}
               PROVE  /\ Movers \cup {d} \subseteq accel'[e].seen
                      /\ accel'[e].pc # "dx" => \E f \in accel'[e].seen : input'.x = Unit(f).x
                      /\ accel'[e].pc = "send" => \E f \in accel'[e].seen : input'.y = Unit(f).y
    BY <1>6 DEF Seen
  <2>1. CASE e = d
    BY <1>2, <2>1
  <2>2. CASE e # d
    <3>1. e \in Movers /\ e \in Direction \ {d}
        BY <1>1, <2>2
    <3>2. accel'[e].pc = accel[e].pc /\ accel'[e].seen = accel[e].seen \cup {d}
        BY <1>3, <3>1
    <3> QED
        BY <3>1, <3>2 DEF ThreadInv, Seen
  <2> QED
    BY <2>1, <2>2
<1> QED
    BY <1>2, <1>3, <1>4, <1>5, <1>7 DEF ThreadInv

\* A call writes one field of the INPUT and goes on.
LEMMA CallWrites ==
    ASSUME ThreadInv, NEW d \in Direction, SetX(d) \/ SetY(d)
    PROVE  /\ ThreadInv'
           /\ \A e \in Direction : /\ accel'[e].pc \in Calling <=> accel[e].pc \in Calling
                                   /\ accel'[e].flag = accel[e].flag
<1>1. accel[d].pc \in Calling /\ accel'[d].pc \in Calling /\ accel'[d] \in ThreadType
    BY DEF SetX, SetY, Calling, ThreadInv, Threads, ThreadType
<1>2. \A e \in Direction :
          /\ e # d => accel'[e] = accel[e]
          /\ accel'[e].late = accel[e].late /\ accel'[e].keys = accel[e].keys
          /\ accel'[e].seen = accel[e].seen /\ accel'[e].flag = accel[e].flag
    BY DEF SetX, SetY, ThreadInv, Threads, ThreadType
<1>3. Threads'
    BY <1>1, <1>2, UnitStep DEF SetX, SetY, ThreadInv, Threads
<1>4. held' = held
    BY DEF SetX, SetY
<1>5. Late'
    BY <1>1, <1>2, <1>4 DEF ThreadInv, Late
<1>6. Movers' = Movers /\ d \in Movers
    BY <1>1, <1>2 DEF Movers
<1>7. Seen'
  <2> SUFFICES ASSUME NEW e \in Movers
               PROVE  /\ Movers \subseteq accel'[e].seen
                      /\ accel'[e].pc # "dx" => \E f \in accel'[e].seen : input'.x = Unit(f).x
                      /\ accel'[e].pc = "send" => \E f \in accel'[e].seen : input'.y = Unit(f).y
    BY <1>6 DEF Seen
  <2>1. d \in accel'[e].seen /\ Movers \subseteq accel'[e].seen
    BY <1>2, <1>6 DEF ThreadInv, Seen, Movers
  <2>2. input \in [x : Step, y : Step]
    BY DEF ThreadInv, Threads
  <2>3. CASE SetX(d)
    <3>1. input'.x = Unit(d).x /\ input'.y = input.y
        BY <2>2, <2>3 DEF SetX
    <3>2. accel'[e].pc = "send" => accel[e].pc = "send"
        BY <1>2, <2>3 DEF SetX, ThreadInv, Threads, ThreadType
    <3> QED
        BY <1>2, <2>1, <3>1, <3>2 DEF ThreadInv, Seen, Movers
  <2>4. CASE SetY(d)
    <3>1. input'.y = Unit(d).y /\ input'.x = input.x
        BY <2>2, <2>4 DEF SetY
    <3>2. accel'[e].pc # "dx" => accel[e].pc # "dx"
        BY <1>2, <2>4 DEF SetY, ThreadInv, Threads, ThreadType
    <3> QED
        BY <1>2, <2>1, <3>1, <3>2 DEF ThreadInv, Seen, Movers
  <2> QED
    BY <2>3, <2>4
<1> QED
    BY <1>1, <1>2, <1>3, <1>5, <1>7 DEF ThreadInv

\* The functions of a unit, known or not.
LEMMA CommandOfType ==
    ASSUME commands \in Bindings, mode \in Mode, NEW unit
    PROVE  CommandOf(unit) \in Seq(Function)
BY MouseAssumption DEF CommandOf

\* The worker goes on with the next function, if it is at one.
LEMMA Proceeds ==
    ASSUME WorkerType, worker.todo # <<>>, NextFunction
    PROVE  WorkerType' /\ worker'.pc = "rest"
<1>1. worker.todo \in Seq(Function) /\ Tail(worker.todo) \in Seq(Function)
    BY DEF WorkerType
<1> QED
    BY <1>1 DEF NextFunction, WorkerType

-----------------------------------------------------------------------------
\* What the keys of the user and the functions other than those of the cursor do:
\* the keys change, or nothing of the threads does.
LEMMA KeysOrNothing ==
    ASSUME MouseInv, UNCHANGED input,
           (\E keys \in SUBSET Key : Pressed(keys)) \/ UNCHANGED <<held, accel>>,
           UNCHANGED worker \/ (worker.pc = "rest" /\ WorkerType' /\ worker'.pc = "rest")
    PROVE  WorkerType' /\ ThreadInv' /\ WorkerCalls'
<1>1. /\ ThreadInv'
      /\ \A d \in Direction : accel'[d].pc = accel[d].pc /\ accel'[d].flag = accel[d].flag
  <2>1. CASE \E keys \in SUBSET Key : Pressed(keys)
    BY <2>1, PressedThreads DEF MouseInv
  <2>2. CASE UNCHANGED <<held, accel>>
    BY <2>2 DEF MouseInv, ThreadInv, Threads, Late, Seen, Movers
  <2> QED
    BY <2>1, <2>2
<1>2. WorkerType'
    BY DEF MouseInv, WorkerType
<1>3. WorkerCalls'
    BY <1>1 DEF MouseInv, WorkerCalls
<1> QED
    BY <1>1, <1>2, <1>3

\* What is remembered of a function is remembered by its name.
LEMMA ButtonType ==
    ASSUME PlainType, NEW f \in Function, NEW m \in Mode, NEW down \in BOOLEAN,
           NEW refused \in Function \cup {"none"}, Button(f, m, down, refused)
    PROVE  mode' \in Mode /\ button' \in BOOLEAN /\ past' \in Past
<1>1. past.left \in Function \cup {"none"}
    BY DEF PlainType, Past
<1>2. \E left \in Function \cup {"none"} : past' = [refused |-> refused, left |-> left]
    BY <1>1 DEF Button
<1> QED
    BY <1>2 DEF Button, Past

\* A refused event of the button releases keys that are held, an accepted one none.
LEMMA ClickKeys ==
    ASSUME MouseInv, NEW f \in Function, NEW m \in Mode, NEW down \in BOOLEAN,
           Accepted(f, m, down) \/ Refuse(f, m, down)
    PROVE  /\ mode' \in Mode /\ button' \in BOOLEAN /\ past' \in Past
           /\ (\E keys \in SUBSET Key : Pressed(keys)) \/ UNCHANGED <<held, accel>>
<1>1. PlainType /\ SUBSET held \subseteq SUBSET Key
    BY DEF MouseInv, ThreadInv, Threads
<1>2. CASE Accepted(f, m, down)
    BY <1>1, <1>2, ButtonType DEF Accepted
<1>3. CASE Refuse(f, m, down)
    BY <1>1, <1>3, ButtonType DEF Refuse
<1> QED
    BY <1>2, <1>3

LEMMA ClickDown ==
    ASSUME MouseInv, NEW f, NEW m, Click(f, m) \/ ClickRefused(f, m)
    PROVE  \E down \in BOOLEAN : Accepted(f, m, down) \/ Refuse(f, m, down)
<1>1. {TRUE, button} \subseteq BOOLEAN
    BY DEF MouseInv, PlainType
<1> QED
    BY <1>1 DEF Click, ClickRefused

-----------------------------------------------------------------------------
\* The functions that the worker executes, apart from those of the cursor.
LEMMA OtherFunctions ==
    ASSUME commands \in Bindings, MouseInv,
           \/ Type \/ ClickLeft \/ ClickOther("click_right") \/ ClickOther("click_mid")
           \/ ToGUIVisual \/ ToGUINormal \/ ToEdiNormal \/ ToInsert \/ ToResident
    PROVE  MouseInv'
<1> DEFINE KeysAtMost == (\E keys \in SUBSET Key : Pressed(keys)) \/ UNCHANGED <<held, accel>>
           Plainly == mode' \in Mode /\ button' \in BOOLEAN /\ past' \in Past
<1>1. /\ held \subseteq Key /\ SUBSET held \subseteq SUBSET Key
      /\ prev \subseteq Key /\ mode \in Mode /\ button \in BOOLEAN /\ past \in Past
      /\ PlainType /\ WorkerType
    BY DEF MouseInv, ThreadInv, Threads, PlainType
<1>2. past.refused \in Function \cup {"none"} /\ "none" \in Function \cup {"none"}
    BY <1>1 DEF Past
<1>3. CASE Type
  <2>1. PICK unit : worker' = [worker EXCEPT !.todo = CommandOf(unit)]
    BY <1>3 DEF Type
  <2>2. worker.pc = "rest" /\ WorkerType' /\ worker'.pc = "rest"
    BY <1>1, <1>3, <2>1, CommandOfType DEF Type, Idle, WorkerType
  <2>3. PlainType' /\ KeysAtMost
    BY <1>1, <1>3 DEF Type, PlainType
  <2> QED
    BY <1>3, <2>2, <2>3, KeysOrNothing DEF Type, MouseInv
<1>4. ASSUME NEW f, Calls(f), NextFunction, Plainly, KeysAtMost, UNCHANGED <<prev, input>>
      PROVE  MouseInv'
  <2>1. PlainType' /\ worker.pc = "rest" /\ worker.todo # <<>>
    BY <1>1, <1>4 DEF PlainType, Calls
  <2> QED
    BY <1>1, <1>4, <2>1, Proceeds, KeysOrNothing DEF MouseInv
<1>5. OutOfVisual \in Mode
    BY <1>1 DEF OutOfVisual, Mode
<1>6. CASE ClickLeft
  <2>1. PICK down \in BOOLEAN : Accepted("click_left", OutOfVisual, down) \/ Refuse("click_left", OutOfVisual, down)
    BY <1>6, ClickDown DEF ClickLeft
  <2>2. Plainly /\ KeysAtMost
    BY <1>5, <2>1, ClickKeys DEF Function
  <2> QED
    BY <1>4, <1>6, <2>2 DEF ClickLeft
<1>7. ASSUME NEW f \in {"click_right", "click_mid"}, ClickOther(f)
      PROVE  MouseInv'
  <2>1. Button(f, OutOfVisual, button, past.refused) /\ f \in Function
    BY <1>7 DEF ClickOther, Function
  <2>2. Plainly
    BY <1>1, <1>2, <1>5, <2>1, ButtonType
  <2>3. KeysAtMost
    BY <1>1, <1>7 DEF ClickOther
  <2> QED
    BY <1>4, <1>7, <2>2, <2>3 DEF ClickOther
<1>8. CASE ToGUIVisual
  <2>1. PICK down \in BOOLEAN : \/ Accepted("to_gui_visual", "gui_visual", down)
                               \/ Refuse("to_gui_visual", "gui_visual", down)
    BY <1>1, <1>8 DEF ToGUIVisual
  <2>2. Plainly /\ KeysAtMost
    BY <2>1, ClickKeys DEF Function, Modes, Mode
  <2> QED
    BY <1>4, <1>8, <2>2 DEF ToGUIVisual
<1>9. CASE ToGUINormal
  <2>1. CASE UNCHANGED <<held, mode, button, past, accel>>
    BY <1>1, <1>4, <1>9, <2>1 DEF ToGUINormal
  <2>2. CASE ClickRefused("to_gui_normal", "gui_visual")
    <3>1. PICK down \in BOOLEAN : \/ Accepted("to_gui_normal", "gui_visual", down)
                                 \/ Refuse("to_gui_normal", "gui_visual", down)
        BY <2>2, ClickDown
    <3>2. Plainly /\ KeysAtMost
        BY <3>1, ClickKeys DEF Function, Modes, Mode
    <3> QED
        BY <1>4, <1>9, <3>2 DEF ToGUINormal
  <2>3. ASSUME NEW down \in BOOLEAN, NEW refused \in Function \cup {"none"},
               Button("to_gui_normal", "gui_normal", down, refused), Pressed({})
        PROVE  MouseInv'
    <3>1. Plainly
        BY <1>1, <2>3, ButtonType DEF Function, Modes, Mode
    <3> QED
        BY <1>4, <1>9, <2>3, <3>1 DEF ToGUINormal
  <2> QED
    BY <1>1, <1>2, <1>9, <2>1, <2>2, <2>3 DEF ToGUINormal
<1>10. CASE ToEdiNormal
  <2>1. CASE UNCHANGED <<held, mode, button, past, accel>>
    BY <1>1, <1>4, <1>10, <2>1 DEF ToEdiNormal
  <2>2. CASE Button("to_edi_normal", "edi_normal", button, past.refused) /\ Pressed({})
    <3>1. Plainly
        BY <1>1, <1>2, <2>2, ButtonType DEF Function, Modes, Mode
    <3> QED
        BY <1>4, <1>10, <2>2, <3>1 DEF ToEdiNormal
  <2> QED
    BY <1>10, <2>1, <2>2 DEF ToEdiNormal
<1>11. CASE ToInsert
  <2>1. Plainly
    BY <1>1, <1>2, <1>11, ButtonType DEF ToInsert, Function, Modes, Mode
  <2> QED
    BY <1>4, <1>11, <2>1 DEF ToInsert
<1>12. CASE ToResident
  <2>1. Plainly
    BY <1>1, <1>2, <1>12, ButtonType DEF ToResident, Function, Modes, Mode
  <2> QED
    BY <1>4, <1>12, <2>1 DEF ToResident
<1> QED
    BY <1>3, <1>6, <1>7, <1>8, <1>9, <1>10, <1>11, <1>12

\* The functions of the cursor: the worker starts a thread, or moves the cursor itself.
LEMMA CursorFunctions ==
    ASSUME MouseInv, NEW d \in Direction, MoveCursor(d) \/ Launch(d)
    PROVE  MouseInv'
<1>1. CASE MoveCursor(d)
  <2>1. CASE accel[d].flag
    <3>1. WorkerType' /\ worker.pc = "rest" /\ worker'.pc = "rest"
        BY <1>1, <2>1, Proceeds DEF MoveCursor, Calls, MouseInv
    <3> QED
        BY <1>1, <3>1, KeysOrNothing DEF MoveCursor, MouseInv, PlainType
  <2>2. CASE ~accel[d].flag
    <3>1. /\ WorkerType' /\ worker.pc = "rest"
          /\ worker'.pc = "wait" /\ worker'.todo = worker.todo /\ worker.todo # <<>>
        BY <1>1, <2>2 DEF MoveCursor, Calls, MouseInv, WorkerType
    <3>2. ThreadInv'
        BY <1>1 DEF MoveCursor, MouseInv, ThreadInv, Threads, Late, Seen, Movers
    <3>3. WorkerCalls'
        BY <1>1, <3>1 DEF MoveCursor, MouseInv, WorkerCalls
    <3> QED
        BY <1>1, <3>1, <3>2, <3>3 DEF MoveCursor, MouseInv, PlainType
  <2> QED
    BY <2>1, <2>2
<1>2. CASE Launch(d)
  <2> DEFINE a == [NoThread EXCEPT !.keys = held]
  <2>1. /\ worker.pc = "wait" /\ worker.todo # <<>> /\ Head(worker.todo) = d
        /\ accel[d].pc = "none" /\ PlainType' /\ UNCHANGED <<held, input>>
    BY <1>2 DEF Launch, MouseInv, WorkerCalls, PlainType
  <2>2. held \subseteq Key
    BY DEF MouseInv, ThreadInv, Threads
  <2>3. CASE held = {}
    <3>1. a \in ThreadType /\ a.late = 0 /\ ~a.flag
        BY <2>2 DEF ThreadType, NoThread
    <3>2. d \notin Movers
        BY <2>1 DEF Movers, Calling
    <3>3. accel' = Called(d, a) /\ worker' = [worker EXCEPT !.pc = "call"]
        BY <1>2, <2>3 DEF Launch
    <3>4. /\ ThreadInv' /\ accel'[d].pc = "dx" /\ ~accel'[d].flag
          /\ \A e \in Direction : e # d => accel'[e].pc = accel[e].pc /\ accel'[e].flag = accel[e].flag
        BY <2>1, <3>1, <3>2, <3>3, CallBegins DEF MouseInv
    <3>5. WorkerType' /\ worker'.pc = "call" /\ worker'.todo = worker.todo
        BY <3>3 DEF MouseInv, WorkerType
    <3>6. WorkerCalls'
        BY <2>1, <3>4, <3>5 DEF MouseInv, WorkerCalls
    <3> QED
        BY <2>1, <3>4, <3>5, <3>6 DEF MouseInv
  <2>4. CASE held # {}
    <3> DEFINE b == [a EXCEPT !.pc = "sleep", !.flag = TRUE]
    <3>1. /\ b \in ThreadType /\ b.late = 0 /\ b.late <= 1 /\ b.flag
          /\ b.pc = "sleep" /\ b.pc \notin Calling
      <4>1. a \in ThreadType /\ a.late = 0
        BY <2>2 DEF ThreadType, NoThread
      <4> HIDE DEF a
      <4>2. b \in ThreadType
        BY <4>1 DEF ThreadType
      <4>3. b.late = 0 /\ b.pc = "sleep"
        BY <4>1 DEF ThreadType
      <4>4. b.flag
        BY <4>1 DEF ThreadType
      <4> QED
        BY <4>2, <4>3, <4>4 DEF Calling
    <3>2. accel' = [accel EXCEPT ![d] = b] /\ NextFunction
        BY <1>2, <2>4 DEF Launch
    <3>3. ThreadInv'
        BY <2>1, <3>1, <3>2, OneThread DEF MouseInv
    <3>4. WorkerType' /\ worker'.pc = "rest"
        BY <2>1, <3>2, Proceeds DEF MouseInv
    <3>5. \A e \in Direction : accel'[e] = IF e = d THEN b ELSE accel[e]
        BY <3>2 DEF MouseInv, ThreadInv, Threads
    <3>6. WorkerCalls'
        BY <2>1, <3>1, <3>4, <3>5 DEF MouseInv, WorkerCalls
    <3> QED
        BY <2>1, <3>3, <3>4, <3>6 DEF MouseInv
  <2> QED
    BY <2>3, <2>4
<1> QED
    BY <1>1, <1>2

\* A thread ends its loop, a call or itself; the worker is not concerned.
LEMMA ThreadAlone ==
    ASSUME MouseInv, NEW d \in Direction, NEW a \in ThreadType,
           accel' = [accel EXCEPT ![d] = a], UNCHANGED <<held, prev, mode, button, past, worker, input>>,
           held = a.keys => a.late = 0, a.pc \notin Calling, a.late <= 1, a.pc = "sleep" => a.flag
    PROVE  MouseInv'
<1>1. ThreadInv'
    BY OneThread DEF MouseInv
<1>2. PlainType' /\ WorkerType'
    BY DEF MouseInv, PlainType, WorkerType
<1>3. \A e \in Direction : accel'[e] = IF e = d THEN a ELSE accel[e]
    BY DEF MouseInv, ThreadInv, Threads
<1>4. WorkerCalls'
    BY <1>3 DEF MouseInv, WorkerCalls
<1> QED
    BY <1>1, <1>2, <1>4 DEF MouseInv

\* A call on the worker ends, perhaps with keys released, and the worker goes on.
LEMMA CallEnds ==
    ASSUME MouseInv, NEW d \in Direction, accel[d].pc \in Calling, ~accel[d].flag,
           NEW keys \in SUBSET Key, held' = keys,
           accel' = OnTime(keys, [accel EXCEPT ![d] = NoThread]), NextFunction,
           UNCHANGED <<prev, mode, button, past, input>>
    PROVE  MouseInv'
<1>1. worker.pc = "call" /\ worker.todo # <<>> /\ Head(worker.todo) = d
    BY DEF MouseInv, WorkerCalls
<1>2. WorkerType' /\ worker'.pc = "rest"
    BY <1>1, Proceeds DEF MouseInv
<1>3. accel \in [Direction -> ThreadType]
    BY DEF MouseInv, ThreadInv, Threads
<1>4. /\ accel'[d] \in ThreadType /\ accel'[d].pc = "none" /\ ~accel'[d].flag /\ accel'[d].late = 0
      /\ accel'[d].pc \notin Calling
  <2>1. NoThread \in ThreadType /\ NoThread.pc = "none" /\ ~NoThread.flag /\ NoThread.late = 0
    BY DEF NoThread, ThreadType
  <2>2. accel'[d] = IF keys = NoThread.keys THEN [NoThread EXCEPT !.late = 0] ELSE NoThread
    BY <1>3 DEF OnTime
  <2>3. [NoThread EXCEPT !.late = 0] = NoThread
    BY DEF NoThread
  <2> QED
    BY <2>1, <2>2, <2>3 DEF Calling
<1>5. \A e \in Direction : e # d =>
          /\ accel[e] \in ThreadType /\ accel'[e] \in ThreadType
          /\ accel'[e].pc = accel[e].pc /\ accel'[e].flag = accel[e].flag
          /\ accel'[e].keys = accel[e].keys /\ accel'[e].seen = accel[e].seen
          /\ accel'[e].late = IF keys = accel[e].keys THEN 0 ELSE accel[e].late
    BY <1>3 DEF OnTime, ThreadType
<1>6. Threads'
    BY <1>4, <1>5 DEF MouseInv, ThreadInv, Threads, OnTime
<1>7. Late'
  <2> SUFFICES ASSUME NEW e \in Direction
               PROVE  /\ held' = accel'[e].keys => accel'[e].late = 0
                      /\ accel'[e].pc \in Calling => accel'[e].late = 0
                      /\ accel'[e].late <= 1
    BY DEF Late
  <2>1. CASE e = d
    BY <1>4, <2>1
  <2>2. CASE e # d
    BY <1>5, <2>2 DEF MouseInv, ThreadInv, Late
  <2> QED
    BY <2>1, <2>2
<1>8. Movers' = Movers \ {d}
    BY <1>4, <1>5 DEF Movers
<1>9. Seen'
  <2>1. \A e \in Movers : e \in Direction
    BY DEF Movers
  <2> SUFFICES ASSUME NEW e \in Movers \ {d}
               PROVE  /\ Movers' \subseteq accel'[e].seen
                      /\ accel'[e].pc # "dx" => \E f \in accel'[e].seen : input'.x = Unit(f).x
                      /\ accel'[e].pc = "send" => \E f \in accel'[e].seen : input'.y = Unit(f).y
    BY <1>8 DEF Seen
  <2> QED
    BY <1>5, <1>8, <2>1 DEF MouseInv, ThreadInv, Seen
<1>10. WorkerCalls'
  <2>1. \A e \in Direction : e # d => ~(accel[e].pc \in Calling /\ ~accel[e].flag)
    BY <1>1 DEF MouseInv, WorkerCalls
  <2>2. \A e \in Direction : ~(accel'[e].pc \in Calling /\ ~accel'[e].flag)
    BY <1>4, <1>5, <2>1
  <2>3. \A e \in Direction : accel'[e].pc = "sleep" => accel'[e].flag
    BY <1>4, <1>5 DEF MouseInv, WorkerCalls
  <2> QED
    BY <1>2, <2>2, <2>3 DEF WorkerCalls
<1> QED
    BY <1>2, <1>6, <1>7, <1>9, <1>10 DEF MouseInv, ThreadInv, PlainType

\* While the keys stay, no thread becomes late or stops being so.
LEMMA SameThreads ==
    ASSUME MouseInv, NEW d \in Direction
    PROVE  OnTime(held, [accel EXCEPT ![d] = NoThread]) = [accel EXCEPT ![d] = NoThread]
<1> DEFINE ended == [accel EXCEPT ![d] = NoThread]
<1>1. accel \in [Direction -> ThreadType]
    BY DEF MouseInv, ThreadInv, Threads
<1>2. \A e \in Direction : held = ended[e].keys => [ended[e] EXCEPT !.late = 0] = ended[e]
  <2> SUFFICES ASSUME NEW e \in Direction, held = ended[e].keys
               PROVE  [ended[e] EXCEPT !.late = 0] = ended[e]
    OBVIOUS
  <2>1. CASE e = d
    BY <1>1, <2>1 DEF NoThread
  <2>2. CASE e # d
    <3>1. accel[e] \in ThreadType /\ accel[e].late = 0 /\ ended[e] = accel[e]
        BY <1>1, <2>2 DEF MouseInv, ThreadInv, Late
    <3> QED
        BY <3>1 DEF ThreadType
  <2> QED
    BY <2>1, <2>2
<1> QED
    BY <1>1, <1>2 DEF OnTime

LEMMA ThreadSteps ==
    ASSUME MouseInv, NEW d \in Direction, Thread(d)
    PROVE  MouseInv'
<1>1. /\ accel[d] \in ThreadType /\ accel \in [Direction -> ThreadType] /\ held \subseteq Key
      /\ held = accel[d].keys => accel[d].late = 0
      /\ accel[d].pc \in Calling => accel[d].late = 0
      /\ accel[d].late <= 1 /\ accel[d].late \in Nat
    BY DEF MouseInv, ThreadInv, Threads, Late, ThreadType
<1>2. ASSUME NEW place \in {"end", "threw"}
      PROVE  /\ [NoThread EXCEPT !.pc = place, !.flag = TRUE] \in ThreadType
             /\ [NoThread EXCEPT !.pc = place, !.flag = TRUE].late = 0
             /\ [NoThread EXCEPT !.pc = place, !.flag = TRUE].pc = place
    BY DEF NoThread, ThreadType
<1>3. CASE Check(d)
  <2>1. CASE held = accel[d].keys
    <3>1. accel' = Called(d, accel[d]) /\ UNCHANGED <<held, prev, mode, button, past, worker, input>>
        BY <1>3, <2>1 DEF Check
    <3>2. accel[d].late = 0 /\ d \notin Movers /\ accel[d].flag
        BY <1>1, <1>3, <2>1 DEF Check, Movers, Calling, MouseInv, WorkerCalls
    <3>3. /\ ThreadInv' /\ accel'[d].pc = "dx" /\ accel'[d].flag
          /\ \A e \in Direction : e # d => accel'[e].pc = accel[e].pc /\ accel'[e].flag = accel[e].flag
        BY <1>1, <3>1, <3>2, CallBegins DEF MouseInv
    <3>4. WorkerCalls'
        BY <3>1, <3>3 DEF MouseInv, WorkerCalls
    <3> QED
        BY <3>1, <3>3, <3>4 DEF MouseInv, PlainType, WorkerType
  <2>2. CASE held # accel[d].keys
    <3>1. PICK a : a = [NoThread EXCEPT !.pc = "end", !.flag = TRUE]
        OBVIOUS
    <3>2. accel' = [accel EXCEPT ![d] = a] /\ UNCHANGED <<held, prev, mode, button, past, worker, input>>
        BY <1>3, <2>2, <3>1 DEF Check
    <3>3. a \in ThreadType /\ a.late = 0 /\ a.late <= 1 /\ a.pc = "end"
        BY <1>2, <3>1
    <3> QED
        BY <3>2, <3>3, ThreadAlone DEF Calling
  <2> QED
    BY <2>1, <2>2
<1>4. CASE EndLoop(d)
  <2>1. PICK a : a = [accel[d] EXCEPT !.pc = "return", !.flag = FALSE]
    OBVIOUS
  <2>2. accel' = [accel EXCEPT ![d] = a] /\ UNCHANGED <<held, prev, mode, button, past, worker, input>>
    BY <1>1, <1>4, <2>1 DEF EndLoop
  <2>3. a \in ThreadType
    BY <1>1, <2>1 DEF ThreadType
  <2>4. a.pc = "return" /\ a.late = accel[d].late /\ a.keys = accel[d].keys
    BY <1>1, <2>1 DEF ThreadType
  <2> QED
    BY <1>1, <2>2, <2>3, <2>4, ThreadAlone DEF Calling
<1>5. CASE Return(d)
  <2>1. PICK a : a = [accel[d] EXCEPT !.pc = "none"]
    OBVIOUS
  <2>2. accel' = [accel EXCEPT ![d] = a] /\ UNCHANGED <<held, prev, mode, button, past, worker, input>>
    BY <1>1, <1>5, <2>1 DEF Return
  <2>3. a \in ThreadType
    BY <1>1, <2>1 DEF ThreadType
  <2>4. a.pc = "none" /\ a.late = accel[d].late /\ a.keys = accel[d].keys
    BY <1>1, <2>1 DEF ThreadType
  <2> QED
    BY <1>1, <2>2, <2>3, <2>4, ThreadAlone DEF Calling
<1>6. CASE SetX(d) \/ SetY(d)
  <2>1. /\ ThreadInv'
        /\ \A e \in Direction : /\ accel'[e].pc \in Calling <=> accel[e].pc \in Calling
                                /\ accel'[e].flag = accel[e].flag
    BY <1>6, CallWrites DEF MouseInv
  <2>2. UNCHANGED <<prev, mode, button, past, worker>>
    BY <1>6 DEF SetX, SetY
  <2>3. \A e \in Direction : accel'[e].pc = "sleep" => accel[e].pc = "sleep"
    BY <1>1, <1>6 DEF SetX, SetY, ThreadType
  <2>4. WorkerCalls'
    BY <2>1, <2>2, <2>3 DEF MouseInv, WorkerCalls
  <2> QED
    BY <2>1, <2>2, <2>4 DEF MouseInv, PlainType, WorkerType
<1>7. CASE Sent(d)
  <2>1. CASE accel[d].flag
    <3>1. PICK l \in Nat : l = IF held = accel[d].keys THEN 0 ELSE accel[d].late + 1
        BY <1>1
    <3> DEFINE a == [accel[d] EXCEPT !.pc = "sleep", !.seen = {}, !.late = l]
    <3>2. accel' = [accel EXCEPT ![d] = a] /\ UNCHANGED <<held, prev, mode, button, past, worker, input>>
        BY <1>1, <1>7, <2>1, <3>1 DEF Sent
    <3>3. a \in ThreadType
        BY <1>1 DEF ThreadType
    <3>4. a.pc = "sleep" /\ a.keys = accel[d].keys /\ a.late = l
        BY <1>1 DEF ThreadType
    <3>5. a.flag
        BY <1>1, <2>1 DEF ThreadType
    <3>6. accel[d].late = 0
        BY <1>1, <1>7 DEF Sent, Calling
    <3>7. (held = a.keys => a.late = 0) /\ a.late <= 1
        BY <1>1, <3>1, <3>4, <3>6
    <3> HIDE DEF a
    <3> QED
        BY <3>2, <3>3, <3>4, <3>5, <3>7, ThreadAlone DEF Calling
  <2>2. CASE ~accel[d].flag
    <3>1. accel' = [accel EXCEPT ![d] = NoThread] /\ held' = held
        BY <1>7, <2>2 DEF Sent
    <3>2. OnTime(held, [accel EXCEPT ![d] = NoThread]) = [accel EXCEPT ![d] = NoThread]
        BY SameThreads
    <3> QED
        BY <1>1, <1>7, <2>2, <3>1, <3>2, CallEnds DEF Sent, Calling
  <2> QED
    BY <2>1, <2>2
<1>8. CASE Refused(d)
  <2>1. CASE accel[d].flag
    <3>1. PICK a : a = [NoThread EXCEPT !.pc = "threw", !.flag = TRUE]
        OBVIOUS
    <3>2. accel' = [accel EXCEPT ![d] = a] /\ UNCHANGED <<held, prev, mode, button, past, worker, input>>
        BY <1>8, <2>1, <3>1 DEF Refused
    <3>3. a \in ThreadType /\ a.late = 0 /\ a.late <= 1 /\ a.pc = "threw"
        BY <1>2, <3>1
    <3> QED
        BY <3>2, <3>3, ThreadAlone DEF Calling
  <2>2. CASE ~accel[d].flag
    BY <1>1, <1>8, <2>2, CallEnds DEF Refused, Calling
  <2> QED
    BY <2>1, <2>2
<1> QED
    BY <1>3, <1>4, <1>5, <1>6, <1>7, <1>8 DEF Thread

-----------------------------------------------------------------------------
LEMMA InitMouseInv == Init => MouseInv
<1> SUFFICES ASSUME Init PROVE MouseInv
    OBVIOUS
<1>1. PlainType
    BY DEF Init, PlainType, Mode, Past
<1>2. WorkerType
  <2>1. <<>> \in Seq(Function)
    OBVIOUS
  <2> QED
    BY <2>1 DEF Init, WorkerType
<1>3. NoThread \in ThreadType /\ NoThread.late = 0 /\ NoThread.late <= 1 /\ NoThread.pc = "none"
    BY DEF NoThread, ThreadType
<1>4. \A d \in Direction : accel[d] = NoThread
    BY DEF Init
<1>5. Threads
    BY <1>3 DEF Init, Threads, Step
<1>6. Late /\ Movers = {}
    BY <1>3, <1>4 DEF Late, Movers, Calling
<1>7. Seen
    BY <1>6 DEF Seen
<1>8. WorkerCalls
    BY <1>3, <1>4 DEF Init, WorkerCalls, Calling
<1> QED
    BY <1>1, <1>2, <1>5, <1>6, <1>7, <1>8 DEF MouseInv, ThreadInv

LEMMA NextMouseInv ==
    ASSUME commands \in Bindings, MouseInv, [Next]_vars
    PROVE  MouseInv'
<1>1. CASE User
  <2>1. PICK k \in Key : Press(k) \/ Release(k)
    BY <1>1 DEF User
  <2>2. held \subseteq Key
    BY DEF MouseInv, ThreadInv, Threads
  <2>3. \E keys \in SUBSET Key : Pressed(keys)
    BY <2>1, <2>2 DEF Press, Release
  <2>4. PlainType' /\ UNCHANGED <<worker, input>>
    BY <2>1 DEF Press, Release, MouseInv, PlainType
  <2> QED
    BY <2>3, <2>4, KeysOrNothing DEF MouseInv
<1>2. CASE Worker
    BY <1>2, OtherFunctions, CursorFunctions DEF Worker
<1>3. CASE \E d \in Direction : Thread(d)
    BY <1>3, ThreadSteps
<1>4. CASE UNCHANGED vars
    BY <1>4 DEF vars, MouseInv, PlainType, WorkerType, ThreadInv, Threads, Late, Seen, Movers, WorkerCalls
<1> QED
    BY <1>1, <1>2, <1>3, <1>4 DEF Next

\* The invariant holds in every behaviour, whose bindings stay.
THEOREM MouseInvariant == Spec => [](commands \in Bindings /\ MouseInv)
<1>1. Init => commands \in Bindings
    BY DEF Init
<1>2. [Next]_vars => UNCHANGED commands
    BY DEF Next, User, Worker, Thread, vars
<1> DEFINE Inv == commands \in Bindings /\ MouseInv
<1>3. Init => Inv
    BY <1>1, InitMouseInv
<1>4. Inv /\ [Next]_vars => Inv'
    BY <1>2, NextMouseInv
<1> QED
    BY <1>3, <1>4, PTL DEF Spec

\* Every variable has its type, whatever the user types, the system refuses and the
\* threads interleave.
THEOREM MouseTypeCorrect == Spec => []TypeOK
<1>1. commands \in Bindings /\ MouseInv => TypeOK
    BY DEF MouseInv, PlainType, WorkerType, ThreadInv, Threads, TypeOK
<1> QED
    BY <1>1, MouseInvariant, PTL

\* For any keys, directions and bindings: once the keys have changed, a thread of the
\* cursor (AsyncConstAccelerator::loop) sends one move at most before it stops.
THEOREM LateMovesBounded == Spec => []OneLateMove
<1>1. MouseInv => OneLateMove
    BY DEF MouseInv, ThreadInv, Late, OneLateMove
<1> QED
    BY <1>1, MouseInvariant, PTL

\* For any number of threads that share the static INPUT of util::move_cursor: each
\* field of what is sent was written for a direction whose call is in progress with it.
THEOREM NoMoveFromBefore == Spec => []NoStaleMove
<1>1. MouseInv => NoStaleMove
    BY DEF MouseInv, ThreadInv, Seen, Movers, Calling, NoStaleMove
<1> QED
    BY <1>1, MouseInvariant, PTL

-----------------------------------------------------------------------------
(***************************************************************************)
(* The button.  ButtonHasCause is inductive: only the functions of the     *)
(* button and of the modes concern it.                                     *)
(***************************************************************************)
\* What a function leaves behind, by what it makes of the mode and of the button.
LEMMA ButtonKept ==
    ASSUME PlainType, ButtonHasCause, NEW f, NEW m, NEW down, NEW refused,
           Button(f, m, down, refused),
           down /\ m # "gui_visual" =>
               \/ mode = "gui_visual" /\ f \in Forgetting
               \/ mode # "gui_visual" /\ button /\ refused = past.refused
               \/ refused = "click_left",
           ~down /\ m = "gui_visual" => refused \in {"to_gui_visual", "to_gui_normal"}
    PROVE  ButtonHasCause'
BY DEF Button, Leaves, ButtonHasCause

\* The functions of the button and of the modes.
LEMMA ButtonFunctions ==
    ASSUME PlainType, ButtonHasCause,
           \/ ClickLeft \/ ClickOther("click_right") \/ ClickOther("click_mid")
           \/ ToGUIVisual \/ ToGUINormal \/ ToEdiNormal \/ ToInsert \/ ToResident
    PROVE  ButtonHasCause'
<1>1. button \in BOOLEAN /\ OutOfVisual # "gui_visual"
    BY DEF PlainType, OutOfVisual
<1>2. CASE ClickLeft
  <2>1. PICK down : \/ down = FALSE /\ Button("click_left", OutOfVisual, down, "none")
                    \/ Button("click_left", OutOfVisual, down, "click_left")
    BY <1>2 DEF ClickLeft, Click, ClickRefused, Accepted, Refuse
  <2> QED
    BY <1>1, <2>1, ButtonKept
<1>3. ASSUME NEW f \in {"click_right", "click_mid"}, ClickOther(f)
      PROVE  ButtonHasCause'
  <2>1. Button(f, OutOfVisual, button, past.refused) /\ f \in Forgetting
    BY <1>3 DEF ClickOther, Forgetting
  <2> QED
    BY <1>1, <2>1, ButtonKept
<1>4. CASE ToGUIVisual
  <2>1. \/ Button("to_gui_visual", "gui_visual", TRUE, "none")
        \/ Button("to_gui_visual", "gui_visual", button, "to_gui_visual")
    BY <1>4 DEF ToGUIVisual, Accepted, Refuse
  <2> QED
    BY <2>1, ButtonKept
<1>5. CASE ToGUINormal
  <2>1. CASE UNCHANGED <<mode, button, past>>
    BY <2>1 DEF ButtonHasCause
  <2>2. CASE \E down : Button("to_gui_normal", "gui_visual", down, "to_gui_normal")
    BY <2>2, ButtonKept
  <2>3. CASE Button("to_gui_normal", "gui_normal", FALSE, "none")
    BY <2>3, ButtonKept
  <2>4. CASE mode # "gui_visual" /\ Button("to_gui_normal", "gui_normal", button, past.refused)
    BY <2>4, ButtonKept
  <2> QED
    BY <1>5, <2>1, <2>2, <2>3, <2>4 DEF ToGUINormal, ClickRefused, Refuse
<1>6. ASSUME NEW f \in {"to_edi_normal", "to_insert", "to_resident"},
             NEW m \in {"edi_normal", "insert", "resident"}, Button(f, m, button, past.refused)
      PROVE  ButtonHasCause'
  <2>1. f \in Forgetting /\ m # "gui_visual"
    BY DEF Forgetting
  <2> QED
    BY <1>6, <2>1, ButtonKept
<1>7. CASE ToEdiNormal
  <2>1. CASE UNCHANGED <<mode, button, past>>
    BY <2>1 DEF ButtonHasCause
  <2> QED
    BY <1>6, <1>7, <2>1 DEF ToEdiNormal
<1>8. CASE ToInsert \/ ToResident
    BY <1>6, <1>8 DEF ToInsert, ToResident
<1> QED
    BY <1>2, <1>3, <1>4, <1>5, <1>7, <1>8

\* For any keys and bindings, whatever lists of functions the worker executes and
\* wherever an event is refused: the left button is down in GUI Visual and up in the
\* other modes, but for the causes that ButtonHasCause names (click.cpp, change_mode.cpp).
THEOREM ButtonIsExplained == Spec => []ButtonHasCause
<1>1. Init => ButtonHasCause
    BY DEF Init, ButtonHasCause
<1>2. PlainType /\ ButtonHasCause /\ [Next]_vars => ButtonHasCause'
  <2> SUFFICES ASSUME PlainType, ButtonHasCause, [Next]_vars PROVE ButtonHasCause'
    OBVIOUS
  <2>1. CASE UNCHANGED <<mode, button, past>>
    BY <2>1 DEF ButtonHasCause
  <2>2. CASE User
    BY <2>1, <2>2 DEF User, Press, Release
  <2>3. ASSUME NEW d \in Direction, MoveCursor(d) \/ Launch(d) \/ Thread(d)
        PROVE  ButtonHasCause'
    BY <2>1, <2>3 DEF MoveCursor, Launch, Thread, Check, EndLoop, Return, SetX, SetY, Sent, Refused
  <2>4. CASE Type
    BY <2>1, <2>4 DEF Type
  <2>5. CASE Worker
    BY <2>3, <2>4, <2>5, ButtonFunctions DEF Worker
  <2>6. CASE UNCHANGED vars
    BY <2>1, <2>6 DEF vars
  <2> QED
    BY <2>2, <2>3, <2>5, <2>6 DEF Next
<1>3. MouseInv => PlainType
    BY DEF MouseInv
<1> QED
    BY <1>1, <1>2, <1>3, MouseInvariant, PTL DEF Spec

=============================================================================
