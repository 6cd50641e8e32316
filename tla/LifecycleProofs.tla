--------------------------- MODULE LifecycleProofs ---------------------------
(***************************************************************************)
(* Proofs about Lifecycle, for any number of instances and any commands:   *)
(* the state is well typed, there is never more than one server, and no    *)
(* process ends normally while its worker thread runs, whatever the        *)
(* clients, the user and the exceptions do; and, for clients that write    *)
(* one at a time, no request is lost, invented or executed twice.          *)
(***************************************************************************)
EXTENDS Lifecycle, FiniteSetTheorems, SequenceTheorems, TLAPS

-----------------------------------------------------------------------------
(***************************************************************************)
(* The data: commands and the memory.                                      *)
(***************************************************************************)
\* The text that the worker reads is a sequence of characters.
LEMMA TextType ==
    ASSUME NEW m \in [1..MemSize -> Char]
    PROVE  Text(m) \in Seq(Char)
<1> DEFINE I == {i \in 1..MemSize : \A j \in 1..i : m[j] # NUL}
<1>1. MemSize \in Nat
    BY ArgAssumption
<1>2. IsFiniteSet(1..MemSize) /\ Cardinality(1..MemSize) = MemSize
    BY <1>1, FS_Interval
<1>0. I \in SUBSET (1..MemSize)
    OBVIOUS
<1> HIDE DEF I
<1>6. IsFiniteSet(I) /\ Cardinality(I) <= Cardinality(1..MemSize)
    BY <1>0, <1>2, FS_Subset
<1>3. IsFiniteSet(I) /\ Cardinality(I) <= MemSize
    BY <1>2, <1>6
<1>4. Cardinality(I) \in Nat
    BY <1>3, FS_CardinalityType
<1>5. \A i \in 1..Cardinality(I) : m[i] \in Char
    BY <1>1, <1>3, <1>4
<1>7. SubSeq(m, 1, Cardinality(I)) \in Seq(Char)
    BY <1>4, <1>5, SubSeqProperties, 1 \in Int
<1> QED
    BY <1>7 DEF Text, I

\* A command written into the memory leaves its last character alone.
LEMMA OverwriteType ==
    ASSUME NEW m \in [1..MemSize -> Char], m[MemSize] = NUL, NEW p \in Proc
    PROVE  /\ Overwrite(m, Arg[p]) \in [1..MemSize -> Char]
           /\ Overwrite(m, Arg[p])[MemSize] = NUL
<1>1. MemSize \in Nat \ {0} /\ Arg[p] \in Seq(Char \ {NUL}) /\ Len(Arg[p]) < MemSize
    BY ArgAssumption
<1>2. Len(Arg[p]) \in Nat /\ Arg[p] \in [1..Len(Arg[p]) -> Char \ {NUL}]
    BY <1>1, LenProperties
<1>3. \A i \in 1..MemSize : i <= Len(Arg[p]) => Arg[p][i] \in Char
    BY <1>1, <1>2
<1> QED
    BY <1>1, <1>2, <1>3 DEF Overwrite

LEMMA BlankType == Blank \in [1..MemSize -> Char] /\ Blank[MemSize] = NUL
<1>1. MemSize \in 1..MemSize
    BY ArgAssumption
<1> QED
    BY <1>1 DEF Blank, Char

-----------------------------------------------------------------------------
(***************************************************************************)
(* Type correctness.                                                       *)
(***************************************************************************)
LEMMA InitType == Init => TypeOK
<1> SUFFICES ASSUME Init PROVE TypeOK
    OBVIOUS
<1>1. mem \in [1..MemSize -> Char] /\ mem[MemSize] = NUL
    BY BlankType DEF Init
<1>2. done \in Seq(Seq(Char)) /\ <<>> \in Seq(Char)
    BY EmptySeq DEF Init
<1> QED
    BY <1>1, <1>2 DEF Init, TypeOK, NoWorker, MainPC, WorkerPC

\* A worker that exists may go to any of its steps.
LEMMA GotoType ==
    ASSUME TypeOK, NEW p \in Proc, worker[p].pc # "none", NEW s \in WorkerPC,
           Goto(p, s), UNCHANGED main
    PROVE  /\ worker' \in [Proc -> [pc : WorkerPC, cmd : Seq(Char), view : BOOLEAN]]
           /\ \A q \in Proc :
                main'[q] \in {"start", "clear", "send", "init"} => worker'[q].pc = "none"
<1>1. worker[p] \in [pc : WorkerPC, cmd : Seq(Char), view : BOOLEAN]
    BY DEF TypeOK
<1>2. main[p] \notin {"start", "clear", "send", "init"}
    BY DEF TypeOK
<1>3. \A q \in Proc : q # p => worker'[q] = worker[q]
    BY DEF TypeOK, Goto
<1> QED
    BY <1>1, <1>2, <1>3 DEF TypeOK, Goto

\* Running a function leads the worker to the step of its effect.
LEMMA RunType ==
    ASSUME TypeOK, NEW p \in Proc, worker[p].pc # "none", NEW e, NEW next \in WorkerPC,
           Run(p, e, next), UNCHANGED main
    PROVE  /\ worker' \in [Proc -> [pc : WorkerPC, cmd : Seq(Char), view : BOOLEAN]]
           /\ runnable' \in [Proc -> BOOLEAN]
           /\ hints' \in [Proc -> [running : BOOLEAN, alive : BOOLEAN]]
           /\ \A q \in Proc :
                main'[q] \in {"start", "clear", "send", "init"} => worker'[q].pc = "none"
<1>1. After(e, next) \in WorkerPC
    BY DEF After, WorkerPC
<1>2. Goto(p, After(e, next))
    BY DEF Run
<1>3. hints' \in [Proc -> [running : BOOLEAN, alive : BOOLEAN]]
    BY DEF Run, TypeOK
<1>4. runnable' \in [Proc -> BOOLEAN]
    BY DEF Run, TypeOK
<1> QED
    BY <1>1, <1>2, <1>3, <1>4, GotoType

\* The steps of the main thread.
LEMMA MainType ==
    ASSUME TypeOK, NEW p \in Proc, MainStep(p)
    PROVE  TypeOK'
<1>1. CASE Create(p)
  <2>1. main' \in [Proc -> MainPC] /\ sub' \in [Proc -> BOOLEAN] /\ handles' \subseteq Proc
    BY <1>1 DEF TypeOK, MainPC, Create, MainAt, MainTo
  <2>2. mem' \in [1..MemSize -> Char] /\ mem'[MemSize] = NUL
    BY <1>1, BlankType DEF TypeOK, Create
  <2>3. worker' \in [Proc -> [pc : WorkerPC, cmd : Seq(Char), view : BOOLEAN]]
    <3>1. worker \in [Proc -> [pc : WorkerPC, cmd : Seq(Char), view : BOOLEAN]]
      BY DEF TypeOK
    <3>2. CASE handles # {}
      BY <1>1, <3>1, <3>2 DEF Create
    <3>3. CASE handles = {}
      <4>1. worker' = [q \in Proc |-> [worker[q] EXCEPT !.view = FALSE]]
        BY <1>1, <3>3 DEF Create
      <4>2. \A q \in Proc : [worker[q] EXCEPT !.view = FALSE] \in [pc : WorkerPC, cmd : Seq(Char), view : BOOLEAN]
        BY <3>1
      <4> QED
        BY <4>1, <4>2
    <3> QED
      BY <3>2, <3>3
  <2>4. \A q \in Proc : worker'[q].pc = worker[q].pc
    BY <1>1 DEF TypeOK, Create
  <2>5. \A q \in Proc : main'[q] \in {"start", "clear", "send", "init"}
                            => main[q] \in {"start", "clear", "send", "init"}
    BY <1>1 DEF TypeOK, MainPC, Create, MainAt, MainTo
  <2> QED
    BY <1>1, <2>1, <2>2, <2>3, <2>4, <2>5 DEF TypeOK, Create
<1>2. CASE Clear(p)
    BY <1>2, BlankType DEF TypeOK, MainPC, WorkerPC, Clear, MainAt, MainTo
<1>3. CASE Send(p)
    BY <1>3, OverwriteType DEF TypeOK, MainPC, WorkerPC, Send, Servers, MainAt, MainTo
<1>4. CASE StartUp(p)
  <2>1. main' \in [Proc -> MainPC] /\ handles' \subseteq Proc
    BY <1>4 DEF TypeOK, MainPC, StartUp, MainAt, MainTo
  <2>2. worker' \in [Proc -> [pc : WorkerPC, cmd : Seq(Char), view : BOOLEAN]]
    <3>1. worker \in [Proc -> [pc : WorkerPC, cmd : Seq(Char), view : BOOLEAN]] /\ "check" \in WorkerPC
      BY DEF TypeOK, WorkerPC
    <3>2. worker' = worker \/ worker' = [worker EXCEPT ![p].pc = "check"]
      BY <1>4 DEF StartUp
    <3> QED
      BY <3>1, <3>2
  <2>3. \A q \in Proc : main'[q] \in {"start", "clear", "send", "init"} =>
                            main[q] = main'[q] /\ worker'[q].pc = worker[q].pc
    BY <1>4 DEF TypeOK, MainPC, StartUp, MainAt, MainTo
  <2> QED
    BY <1>4, <2>1, <2>2, <2>3 DEF TypeOK, StartUp
<1>5. CASE Catch(p)
    BY <1>5 DEF TypeOK, MainPC, WorkerPC, Catch, MainAt, MainTo
<1>6. CASE Wait(p)
    BY <1>6 DEF TypeOK, MainPC, WorkerPC, Wait, MainAt, MainTo
<1>7. CASE Leave(p)
    BY <1>7 DEF TypeOK, MainPC, WorkerPC, Leave, MainAt, MainTo
<1> QED
    BY <1>1, <1>2, <1>3, <1>4, <1>5, <1>6, <1>7 DEF MainStep

\* The steps of the worker.
LEMMA WorkerType ==
    ASSUME TypeOK, NEW p \in Proc, WorkerStep(p)
    PROVE  TypeOK'
<1>1. CASE Check(p)
  <2>1. worker[p].pc # "none" /\ UNCHANGED main
    BY <1>1 DEF Check, At
  <2>2. (IF runnable[p] THEN "background" ELSE "ended") \in WorkerPC
    BY DEF WorkerPC
  <2> QED
    BY <1>1, <2>1, <2>2, GotoType DEF TypeOK, Check
<1>2. CASE Destroyed(p)
    BY <1>2 DEF TypeOK, MainPC, WorkerPC, Destroyed, At, MainTo
<1>3. CASE Update(p)
  <2>1. worker[p].pc # "none" /\ UNCHANGED main
    BY <1>3 DEF Update, At
  <2>2. (IF forced[p] THEN "final" ELSE "mail") \in WorkerPC
    BY DEF WorkerPC
  <2> QED
    BY <1>3, <2>1, <2>2, GotoType DEF TypeOK, Update
<1>4. CASE MailLater(p)
    BY ZenonT(60), <1>4 DEF TypeOK, MainPC, WorkerPC, MailLater, At, Goto
<1>5. CASE MailRead(p)
    BY <1>5, TextType DEF TypeOK, MainPC, WorkerPC, MailRead, At
<1>6. CASE Execute(p)
  <2>1. worker[p].pc # "none" /\ UNCHANGED main
    BY <1>6 DEF Execute, At
  <2>2. "clear" \in WorkerPC
    BY DEF WorkerPC
  <2>3. PICK e : Run(p, e, "clear")
    BY <1>6 DEF Execute
  <2>4. done' \in Seq(Seq(Char))
    BY <1>6 DEF TypeOK, Execute
  <2> QED
    BY <1>6, <2>1, <2>2, <2>3, <2>4, RunType DEF TypeOK, Execute
<1>7. CASE MailClear(p)
    BY <1>7, BlankType DEF TypeOK, MainPC, WorkerPC, MailClear, At
<1>8. CASE Input(p)
  <2>1. worker[p].pc # "none" /\ UNCHANGED main
    BY <1>8 DEF Input, At
  <2>2. "check" \in WorkerPC
    BY DEF WorkerPC
  <2>3. PICK e : Run(p, e, "check")
    BY <1>8 DEF Input
  <2> QED
    BY <1>8, <2>1, <2>2, <2>3, RunType DEF TypeOK, Input
<1>9. CASE Stop(p)
  <2>1. worker[p].pc # "none" /\ UNCHANGED main
    BY <1>9 DEF Stop, At
  <2>2. (IF worker[p].cmd = <<>> THEN "check" ELSE "clear") \in WorkerPC
    BY DEF WorkerPC
  <2> QED
    BY <1>9, <2>1, <2>2, GotoType DEF TypeOK, Stop
<1>10. CASE SessionForced(p)
    BY ZenonT(60), <1>10 DEF TypeOK, MainPC, WorkerPC, SessionForced, At, Goto
<1>11. CASE Unwind(p)
    BY ZenonT(60), <1>11 DEF TypeOK, MainPC, WorkerPC, Unwind, At, Goto
<1>12. CASE Final(p)
    BY ZenonT(60), <1>12 DEF TypeOK, MainPC, WorkerPC, Final, At, Goto
<1> QED
    BY <1>1, <1>2, <1>3, <1>4, <1>5, <1>6, <1>7, <1>8, <1>9, <1>10, <1>11, <1>12 DEF WorkerStep

\* The user, the screen, the exceptions and the hint thread.
LEMMA OutsideType ==
    ASSUME TypeOK, NEW p \in Proc, Outside(p) \/ DrawEnd(p)
    PROVE  TypeOK'
<1>1. CASE TrayExit(p)
    BY <1>1 DEF TypeOK, MainPC, WorkerPC, TrayExit, MainAt
<1>2. CASE LoopEnd(p)
    BY <1>2 DEF TypeOK, MainPC, WorkerPC, LoopEnd, MainAt, MainTo
<1>3. CASE LoopThrow(p)
    BY <1>3 DEF TypeOK, MainPC, WorkerPC, LoopThrow, MainAt, MainTo
<1>4. CASE PressForced(p)
    BY <1>4 DEF TypeOK, MainPC, WorkerPC, PressForced, MainAt
<1>5. CASE Locked(p)
    BY ZenonT(60), <1>5 DEF TypeOK, MainPC, WorkerPC, Locked, At, Goto
<1>6. CASE SessionKey(p)
    BY ZenonT(60), <1>6 DEF TypeOK, MainPC, WorkerPC, SessionKey, At, Goto
<1>7. CASE DrawEnd(p)
    BY <1>7 DEF TypeOK, MainPC, WorkerPC, DrawEnd
<1> QED
    BY <1>1, <1>2, <1>3, <1>4, <1>5, <1>6, <1>7 DEF Outside

\* Every behaviour keeps the type invariant: the mailbox holds characters and
\* ends inside the memory, whoever writes to it, and only a process that went
\* through init() has a worker.
THEOREM LifecycleTypeCorrect == Spec => []TypeOK
<1>1. TypeOK /\ [Next]_vars => TypeOK'
  <2> SUFFICES ASSUME TypeOK, [Next]_vars PROVE TypeOK'
    OBVIOUS
  <2>1. CASE Next
    BY <2>1, MainType, WorkerType, OutsideType DEF Next
  <2>2. CASE UNCHANGED vars
    BY <2>2 DEF vars, TypeOK
  <2> QED
    BY <2>1, <2>2
<1> QED
    BY InitType, <1>1, PTL DEF Spec

-----------------------------------------------------------------------------
(***************************************************************************)
(* One server.  An instance becomes the server only when nobody has the    *)
(* mapping open, and a server keeps it open: the invariant is inductive.   *)
(***************************************************************************)
\* However instances start and end, two of them never both serve.
THEOREM ServerUnique == Spec => []OneServer
<1>1. Init => OneServer
  BY DEF Init, OneServer, Servers
<1>2. TypeOK /\ OneServer /\ [Next]_vars => OneServer'
  <2> SUFFICES ASSUME TypeOK, OneServer, [Next]_vars PROVE OneServer'
    OBVIOUS
  <2>1. CASE \E p \in Proc : Create(p)
    <3>1. PICK p \in Proc : Create(p)
      BY <2>1
    <3>2. handles' = handles \cup {p} /\ sub' = [sub EXCEPT ![p] = handles # {}]
      BY <3>1 DEF Create
    <3>3. CASE handles = {}
      BY <3>2, <3>3 DEF OneServer, Servers
    <3>4. CASE handles # {}
      <4>1. Servers' \subseteq Servers
        BY <3>2, <3>4 DEF Servers, TypeOK
      <4> QED
        BY <4>1 DEF OneServer
    <3> QED
      BY <3>3, <3>4
  <2>2. CASE handles' \subseteq handles /\ UNCHANGED sub
    BY <2>2 DEF OneServer, Servers
  <2>3. ASSUME NEW p \in Proc, MainStep(p), ~Create(p)
        PROVE  handles' \subseteq handles /\ UNCHANGED sub
    BY <2>3 DEF MainStep, Clear, Send, StartUp, Catch, Wait, Leave
  <2>4. ASSUME NEW p \in Proc, WorkerStep(p)
        PROVE  handles' \subseteq handles /\ UNCHANGED sub
    BY <2>4 DEF WorkerStep, Check, Destroyed, Update, MailLater, MailRead, Execute,
                MailClear, Input, Stop, SessionForced, Unwind, Final
  <2>5. ASSUME NEW p \in Proc, Outside(p) \/ DrawEnd(p)
        PROVE  handles' \subseteq handles /\ UNCHANGED sub
    BY <2>5 DEF Outside, DrawEnd, TrayExit, LoopEnd, LoopThrow, PressForced, Locked, SessionKey
  <2> QED
    BY <2>1, <2>2, <2>3, <2>4, <2>5 DEF Next, vars
<1> QED
  BY LifecycleTypeCorrect, <1>1, <1>2, PTL DEF Spec

-----------------------------------------------------------------------------
(***************************************************************************)
(* No orphan: inductive together with the part of TypeOK that says that no *)
(* worker exists before the loop of the tray.                              *)
(***************************************************************************)
\* The steps of a worker keep a worker that is there or has ended.
LEMMA WorkerStays ==
    ASSUME TypeOK, NEW p \in Proc, NEW q \in Proc,
           WorkerStep(p) \/ DrawEnd(p) \/ Locked(p) \/ SessionKey(p),
           worker[q].pc \in {"none", "ended"}
    PROVE  worker'[q].pc = worker[q].pc
<1> USE DEF At, Goto
<1>1. CASE p # q
  <2>1. worker \in [Proc -> [pc : WorkerPC, cmd : Seq(Char), view : BOOLEAN]]
    BY DEF TypeOK
  <2> QED
    BY <1>1, <2>1 DEF WorkerStep, DrawEnd, Locked, SessionKey, Check, Destroyed, Update,
        MailLater, MailRead, Execute, MailClear, Input, Run, Stop, SessionForced, Unwind, Final
<1>2. CASE p = q
  BY <1>2 DEF WorkerStep, DrawEnd, Locked, SessionKey, Check, Destroyed, Update, MailLater,
        MailRead, Execute, MailClear, Input, Stop, SessionForced, Unwind, Final
<1> QED
  BY <1>1, <1>2

\* main() returns only when the worker has ended or never was, by whichever
\* way the process comes to its end.
THEOREM WorkerAlwaysJoined == Spec => []WorkerJoined
<1> DEFINE Over == {"leave", "exited"}
<1>1. Init => WorkerJoined
  BY DEF Init, WorkerJoined
<1>2. TypeOK /\ WorkerJoined /\ [Next]_vars => WorkerJoined'
  <2> SUFFICES ASSUME TypeOK, WorkerJoined, [Next]_vars, NEW q \in Proc, main'[q] \in Over
               PROVE  worker'[q].pc \in {"none", "ended"}
    BY DEF WorkerJoined
  <2>1. CASE \E p \in Proc : WorkerStep(p) \/ DrawEnd(p) \/ Locked(p) \/ SessionKey(p)
    <3>1. PICK p \in Proc : WorkerStep(p) \/ DrawEnd(p) \/ Locked(p) \/ SessionKey(p)
      BY <2>1
    <3>2. main[q] \in Over
      BY <3>1 DEF TypeOK, WorkerStep, DrawEnd, Locked, SessionKey, Check, Destroyed, MainTo,
          Update, MailLater, MailRead, Execute, MailClear, Input, Stop, SessionForced, Unwind, Final
    <3> QED
      BY <3>1, <3>2, WorkerStays DEF WorkerJoined
  <2>2. CASE \E p \in Proc : MainStep(p)
    <3>1. PICK p \in Proc : MainStep(p)
      BY <2>2
    <3>2. CASE Create(p)
      <4>1. main[q] \in Over
        BY <3>2 DEF Create, MainAt, MainTo, TypeOK
      <4>2. worker'[q].pc = worker[q].pc
        BY <3>2 DEF Create, TypeOK
      <4> QED
        BY <4>1, <4>2 DEF WorkerJoined
    <3>3. CASE StartUp(p)
      <4>1. p = q => worker[q].pc = "none" /\ UNCHANGED worker
        BY <3>3 DEF StartUp, MainAt, MainTo, TypeOK
      <4>2. p # q => main[q] = main'[q] /\ worker'[q] = worker[q]
        BY <3>3 DEF StartUp, MainTo, TypeOK
      <4> QED
        BY <4>1, <4>2 DEF WorkerJoined
    <3>4. CASE Send(p)
      BY <3>4 DEF Send, MainAt, MainTo, TypeOK, WorkerJoined
    <3>5. CASE Clear(p) \/ Catch(p) \/ Wait(p) \/ Leave(p)
      BY <3>5 DEF Clear, Catch, Wait, Leave, MainAt, MainTo, TypeOK, WorkerJoined
    <3> QED
      BY <3>1, <3>2, <3>3, <3>4, <3>5 DEF MainStep
  <2>3. CASE \E p \in Proc : TrayExit(p) \/ LoopEnd(p) \/ LoopThrow(p) \/ PressForced(p)
    BY <2>3 DEF TrayExit, LoopEnd, LoopThrow, PressForced, MainAt, MainTo, TypeOK, WorkerJoined
  <2>4. CASE UNCHANGED vars
    BY <2>4 DEF vars, WorkerJoined
  <2> QED
    BY <2>1, <2>2, <2>3, <2>4 DEF Next, Outside
<1> QED
  BY LifecycleTypeCorrect, <1>1, <1>2, PTL DEF Spec

-----------------------------------------------------------------------------
(***************************************************************************)
(* The mailbox.  Two hypotheses on the world around win-vind: a client     *)
(* writes only into an empty mailbox that nobody uses (the mapping has no  *)
(* lock, and two clients that write together mix their characters), and no *)
(* two requests are the same, so that what is executed names its request.  *)
(* They say nothing about crashes: any process may end at any step, and a  *)
(* worker whose entry is gone may still execute and clear what it has read.*)
(***************************************************************************)
DistinctRequests == \A p, q \in Proc : Arg[p] # <<>> /\ Arg[p] = Arg[q] => p = q

Early  == {"start", "clear", "send"}
Idle   == {"none", "check", "background", "mail", "input"}
Msg(p) == Overwrite(Blank, Arg[p])

\* A process that has the mapping has started, a client has no worker, a new server
\* finds and leaves the memory empty.
Roles ==
    /\ \A p \in handles : main[p] # "start"
    /\ \A p \in Proc : sub[p] => worker[p].pc = "none" /\ main[p] \notin {"clear", "init"}
    /\ \A p \in Proc : main[p] \in {"clear", "send"} /\ ~sub[p] => p \in handles /\ mem = Blank

\* A request is written once, by a process past its start, to one server.
SentOnce ==
    /\ \A p, q \in Proc : <<p, q>> \in sent =>
          Arg[p] # <<>> /\ main[p] \notin Early /\ main[q] \notin Early /\ ~sub[q]
    /\ \A p, q, r \in Proc : <<p, q>> \in sent /\ <<p, r>> \in sent => q = r

\* The memory of a server holds nothing or one whole request that was sent to
\* it; what was sent to it is still there or has been executed, and an executed
\* one is there only until the worker that took it clears it.
Mailbox ==
    \A q \in Servers :
        /\ mem = Blank \/ \E p \in Proc : <<p, q>> \in sent /\ mem = Msg(p)
        /\ \A p \in Proc : <<p, q>> \in sent =>
              /\ InDone(Arg[p]) \/ mem = Msg(p)
              /\ InDone(Arg[p]) /\ mem = Msg(p) => worker[q].cmd = Arg[p]
        /\ \A r \in Proc : worker[r].view => r = q

\* What a worker has taken was sent to its process; while that is the server
\* the memory still holds it, seen through the view of this mapping.
Taken ==
    \A q \in Proc : worker[q].cmd # <<>> =>
        \E p \in Proc :
            /\ <<p, q>> \in sent /\ worker[q].cmd = Arg[p]
            /\ q \in Servers => worker[q].view /\ mem = Msg(p)

\* The steps of the worker at which it has a request, and whether that has been
\* executed.
Stages ==
    \A q \in Proc :
        /\ worker[q].pc \in Idle => worker[q].cmd = <<>>
        /\ worker[q].pc \in {"execute", "clear"} => worker[q].cmd # <<>>
        /\ worker[q].pc = "execute" => ~InDone(worker[q].cmd)
        /\ worker[q].pc \in {"clear", "session", "stop"} /\ worker[q].cmd # <<>>
              => InDone(worker[q].cmd)

MailInv == Roles /\ SentOnce /\ Mailbox /\ Taken /\ Stages /\ OnlySent /\ AtMostOnce

-----------------------------------------------------------------------------
\* The text of a blank memory, and of a blank one with a command written to it.
LEMMA BlankText == Text(Blank) = <<>>
<1> DEFINE I == {i \in 1..MemSize : \A j \in 1..i : Blank[j] # NUL}
<1>1. MemSize \in Nat \ {0}
    BY ArgAssumption
<1>2. \A i \in 1..MemSize : 1 \in 1..i /\ 1 \in 1..MemSize
    BY <1>1
<1>3. I = {}
    BY <1>2 DEF Blank
<1>4. Cardinality(I) = 0
    BY <1>3, FS_EmptySet
<1>5. SubSeq(Blank, 1, 0) = <<>>
    BY SMT
<1> QED
    BY <1>4, <1>5 DEF Text

LEMMA MsgText ==
    ASSUME NEW p \in Proc
    PROVE  Text(Msg(p)) = Arg[p]
<1> DEFINE m == Msg(p)
           n == Len(Arg[p])
           I == {i \in 1..MemSize : \A j \in 1..i : m[j] # NUL}
<1>1. MemSize \in Nat /\ Arg[p] \in Seq(Char \ {NUL}) /\ n < MemSize /\ n \in Nat
    BY ArgAssumption, LenProperties
<1>2. Arg[p] \in [1..n -> Char \ {NUL}]
    BY <1>1, LenProperties
<1>3. \A i \in 1..MemSize : m[i] = IF i <= n THEN Arg[p][i] ELSE NUL
    BY <1>1 DEF Msg, Overwrite, Blank
<1>4. \A i \in 1..MemSize : m[i] # NUL <=> i <= n
    BY <1>1, <1>2, <1>3
<1> HIDE DEF m, n
<1>5. I = 1..n
  <2>1. \A i \in 1..MemSize : i \in 1..i /\ i \in 1..MemSize
    BY <1>1
  <2>2. \A i \in 1..n : i \in 1..MemSize /\ \A j \in 1..i : j \in 1..MemSize /\ j <= n
    BY <1>1
  <2>3. \A i \in 1..MemSize : i <= n => i \in 1..n
    BY <1>1
  <2> QED
    BY <1>1, <1>4, <2>1, <2>2, <2>3
<1> HIDE DEF I
<1>6. Cardinality(I) = n
  <2>1. Cardinality(1..n) = IF 1 > n THEN 0 ELSE n - 1 + 1
    BY <1>1, FS_Interval, 1 \in Int
  <2> QED
    BY <1>1, <1>5, <2>1
<1>7. \A i \in 1..n : m[i] = Arg[p][i] /\ m[i] \in Char
    BY <1>1, <1>2, <1>3
<1>8. /\ SubSeq(m, 1, n) \in Seq(Char)
      /\ Len(SubSeq(m, 1, n)) = n
      /\ \A i \in 1..n : SubSeq(m, 1, n)[i] = m[i]
  <2>1. SubSeq(m, 1, n) = [i \in 1..n |-> m[i]]
    BY <1>1
  <2>2. SubSeq(m, 1, n) \in Seq(Char)
    BY <1>1, <1>7, <2>1
  <2>3. Len(SubSeq(m, 1, n)) = n
    BY <1>1, <2>1
  <2> QED
    BY <2>1, <2>2, <2>3
<1>9. SubSeq(m, 1, n) = Arg[p]
  <2>1. Arg[p] \in Seq(Char)
    BY <1>1
  <2> QED
    BY <1>7, <1>8, <2>1, SeqEqual DEF n
<1> QED
    BY <1>6, <1>9 DEF Text, m, I

\* Writing no command leaves the memory as it is.
LEMMA WriteNothing ==
    ASSUME NEW m \in [1..MemSize -> Char]
    PROVE  Overwrite(m, <<>>) = m
<1>1. \A i \in 1..MemSize : ~(i <= Len(<<>>))
    BY ArgAssumption
<1> QED
    BY <1>1 DEF Overwrite

\* The list of executed commands grows at its end.
LEMMA DoneGrows ==
    ASSUME TypeOK, NEW c \in Seq(Char), done' = Append(done, c)
    PROVE  /\ \A d : InDone(d)' <=> (InDone(d) \/ d = c)
           /\ OnlySent /\ sent' = sent /\ (\E r \in sent : c = Arg[r[1]]) => OnlySent'
           /\ AtMostOnce /\ ~InDone(c) => AtMostOnce'
<1>1. /\ done \in Seq(Seq(Char)) /\ Len(done) \in Nat
      /\ Len(done') = Len(done) + 1
      /\ \A i \in 1..Len(done) : done'[i] = done[i]
      /\ done'[Len(done) + 1] = c
    BY AppendProperties, LenProperties DEF TypeOK
<1>2. \A i : i \in 1..Len(done') <=> (i \in 1..Len(done) \/ i = Len(done) + 1)
    BY <1>1
<1>3. \A d : InDone(d)' <=> (InDone(d) \/ d = c)
  <2> SUFFICES ASSUME NEW d PROVE (\E i \in 1..Len(done') : done'[i] = d)
                                    <=> ((\E i \in 1..Len(done) : done[i] = d) \/ d = c)
    BY DEF InDone
  <2> QED
    BY <1>1, <1>2
<1>4. OnlySent /\ sent' = sent /\ (\E r \in sent : c = Arg[r[1]]) => OnlySent'
    BY <1>1, <1>2 DEF OnlySent
<1>5. AtMostOnce /\ ~InDone(c) => AtMostOnce'
  <2> SUFFICES ASSUME AtMostOnce, ~InDone(c), NEW i \in 1..Len(done'), NEW j \in 1..Len(done'),
                      done'[i] = done'[j]
               PROVE  i = j
    BY DEF AtMostOnce
  <2>1. CASE i \in 1..Len(done) /\ j \in 1..Len(done)
    BY <2>1, <1>1 DEF AtMostOnce
  <2>2. CASE i = Len(done) + 1 /\ j = Len(done) + 1
    BY <2>2
  <2>3. CASE i \in 1..Len(done) /\ j = Len(done) + 1
    BY <2>3, <1>1 DEF InDone
  <2>4. CASE i = Len(done) + 1 /\ j \in 1..Len(done)
    BY <2>4, <1>1 DEF InDone
  <2> QED
    BY <1>2, <2>1, <2>2, <2>3, <2>4
<1> QED
    BY <1>3, <1>4, <1>5

-----------------------------------------------------------------------------
\* A step that neither writes the memory nor takes, executes or clears a
\* request: the worker only moves to a step that fits what it has.
Quiet ==
    /\ UNCHANGED <<mem, sent, done, sub>> /\ handles' \subseteq handles
    /\ \A q \in Proc :
        /\ worker'[q].cmd = worker[q].cmd /\ worker'[q].view = worker[q].view
        /\ main'[q] \in Early => main'[q] = main[q] /\ (q \in handles => q \in handles')
        /\ sub[q] => worker'[q].pc = "none" /\ main'[q] \notin {"clear", "init"}
        /\ worker'[q].pc \in Idle => worker[q].cmd = <<>>
        /\ worker'[q].pc \in {"execute", "clear"} => worker[q].cmd # <<>>
        /\ worker'[q].pc = "execute" => ~InDone(worker[q].cmd)
        /\ worker'[q].pc \in {"clear", "session", "stop"} /\ worker[q].cmd # <<>>
              => InDone(worker[q].cmd)

LEMMA QuietStep ==
    ASSUME TypeOK, MailInv, Quiet
    PROVE  MailInv'
<1>1. Servers' \subseteq Servers
    BY DEF Quiet, Servers
<1>2. \A c : InDone(c)' <=> InDone(c)
    BY DEF Quiet, InDone
<1>3. Roles'
  <2>1. \A q \in handles' : q \in Proc /\ q \in handles
    BY DEF Quiet, TypeOK
  <2>2. \A q \in handles' : main'[q] # "start"
    BY <2>1 DEF MailInv, Roles, Quiet, Early
  <2>3. \A q \in Proc : sub'[q] => worker'[q].pc = "none" /\ main'[q] \notin {"clear", "init"}
    BY DEF Quiet
  <2>4. \A q \in Proc : main'[q] \in {"clear", "send"} /\ ~sub'[q] => q \in handles' /\ mem' = Blank
    BY DEF MailInv, Roles, Quiet, Early
  <2> QED
    BY <2>2, <2>3, <2>4 DEF Roles
<1>4. SentOnce'
    BY DEF MailInv, SentOnce, Quiet
<1>5. Mailbox'
  <2> SUFFICES ASSUME NEW q \in Servers'
               PROVE  /\ mem' = Blank \/ \E p \in Proc : <<p, q>> \in sent' /\ mem' = Msg(p)
                      /\ \A p \in Proc : <<p, q>> \in sent' =>
                            /\ InDone(Arg[p])' \/ mem' = Msg(p)
                            /\ InDone(Arg[p])' /\ mem' = Msg(p) => worker'[q].cmd = Arg[p]
                      /\ \A r \in Proc : worker'[r].view => r = q
    BY DEF Mailbox
  <2>1. q \in Servers /\ q \in Proc
    BY <1>1 DEF Servers, TypeOK
  <2>2. mem' = mem /\ sent' = sent /\ worker'[q].cmd = worker[q].cmd
    BY <2>1 DEF Quiet
  <2>3. \A r \in Proc : worker'[r].view = worker[r].view
    BY DEF Quiet
  <2> QED
    BY <1>2, <2>1, <2>2, <2>3 DEF MailInv, Mailbox
<1>6. Taken'
  <2> SUFFICES ASSUME NEW q \in Proc, worker'[q].cmd # <<>>
               PROVE  \E p \in Proc : /\ <<p, q>> \in sent' /\ worker'[q].cmd = Arg[p]
                                      /\ q \in Servers' => worker'[q].view /\ mem' = Msg(p)
    BY DEF Taken
  <2>1. /\ mem' = mem /\ sent' = sent /\ worker'[q].cmd = worker[q].cmd
        /\ worker'[q].view = worker[q].view
    BY DEF Quiet
  <2> QED
    BY <1>1, <2>1 DEF MailInv, Taken
<1>7. Stages'
    BY <1>2 DEF MailInv, Stages, Quiet
<1>8. OnlySent' /\ AtMostOnce'
    BY DEF MailInv, OnlySent, AtMostOnce, Quiet
<1> QED
    BY <1>3, <1>4, <1>5, <1>6, <1>7, <1>8 DEF MailInv

\* What the next lemmas say of a worker that does not change.
LEMMA StagesStay ==
    ASSUME MailInv, NEW q \in Proc
    PROVE  /\ sub[q] => worker[q].pc = "none" /\ main[q] \notin {"clear", "init"}
           /\ worker[q].pc \in Idle => worker[q].cmd = <<>>
           /\ worker[q].pc \in {"execute", "clear"} => worker[q].cmd # <<>>
           /\ worker[q].pc = "execute" => ~InDone(worker[q].cmd)
           /\ worker[q].pc \in {"clear", "session", "stop"} /\ worker[q].cmd # <<>>
                 => InDone(worker[q].cmd)
BY DEF MailInv, Roles, Stages

\* Most steps of the main thread, the user and the hint thread are quiet.
LEMMA MainQuiet ==
    ASSUME TypeOK, MailInv, NEW p \in Proc,
           \/ StartUp(p) \/ Catch(p) \/ Wait(p) \/ Leave(p) \/ Destroyed(p) \/ DrawEnd(p)
           \/ TrayExit(p) \/ LoopEnd(p) \/ LoopThrow(p) \/ PressForced(p)
    PROVE  Quiet
<1> USE StagesStay DEF Early, MainAt, MainTo
<1>1. CASE StartUp(p)
  <2>1. worker[p].pc = "none" /\ worker[p].cmd = <<>> /\ ~sub[p] /\ main[p] = "init"
    BY <1>1 DEF StartUp, TypeOK, MailInv, Stages, Idle, Roles
  <2>2. \A q \in Proc : q # p => worker'[q] = worker[q] /\ main'[q] = main[q]
                                   /\ (q \in handles => q \in handles')
    BY <1>1 DEF StartUp, TypeOK
  <2>3. /\ worker'[p].pc \in {"none", "check"} /\ worker'[p].cmd = worker[p].cmd
        /\ worker'[p].view = worker[p].view
        /\ main'[p] \in {"catch", "leave", "loop"}
    BY <1>1, <2>1 DEF StartUp, TypeOK
  <2>4. UNCHANGED <<mem, sent, done, sub>> /\ handles' \subseteq handles
    BY <1>1 DEF StartUp
  <2> QED
    BY <2>1, <2>2, <2>3, <2>4 DEF Quiet
<1>2. CASE Catch(p) \/ Wait(p) \/ Leave(p) \/ LoopEnd(p) \/ LoopThrow(p) \/ TrayExit(p) \/ PressForced(p)
  <2>1. UNCHANGED <<mem, sent, done, sub, worker>> /\ handles' \subseteq handles
    BY <1>2 DEF Catch, Wait, Leave, LoopEnd, LoopThrow, TrayExit, PressForced
  <2>2. \A q \in Proc : \/ main'[q] = main[q] /\ (q \in handles => q \in handles')
                        \/ main[q] \in {"catch", "wait", "leave", "loop"}
                           /\ main'[q] \in {"aborted", "wait", "leave", "exited", "catch", "loop"}
    BY <1>2 DEF Catch, Wait, Leave, LoopEnd, LoopThrow, TrayExit, PressForced, TypeOK
  <2> QED
    BY <2>1, <2>2 DEF Quiet
<1>3. CASE Destroyed(p)
  <2>1. UNCHANGED <<mem, sent, done, sub, worker, handles>>
    BY <1>3 DEF Destroyed
  <2>2. worker[p].pc # "none" /\ main[p] \notin Early /\ main[p] # "init"
    BY <1>3 DEF Destroyed, At, TypeOK
  <2>3. \A q \in Proc : main'[q] = IF q = p THEN "aborted" ELSE main[q]
    BY <1>3 DEF Destroyed, TypeOK
  <2> QED
    BY <2>1, <2>2, <2>3 DEF Quiet
<1>4. CASE DrawEnd(p)
    BY <1>4 DEF DrawEnd, Quiet
<1> QED
    BY <1>1, <1>2, <1>3, <1>4

\* So are the steps of the worker that go on without the memory.
LEMMA WorkerQuiet ==
    ASSUME TypeOK, MailInv, NEW p \in Proc,
           \/ Check(p) \/ Update(p) \/ MailLater(p) \/ Locked(p) \/ Input(p) \/ SessionKey(p)
           \/ Stop(p) \/ SessionForced(p) \/ Unwind(p) \/ Final(p)
    PROVE  Quiet
<1>1. UNCHANGED <<mem, sent, done, sub, handles, main>>
    BY DEF Check, Update, MailLater, Locked, Input, SessionKey, Stop, SessionForced, Unwind, Final
<1>2. worker[p].pc # "none"
    BY DEF Check, Update, MailLater, Locked, Input, SessionKey, Stop, SessionForced, Unwind, Final, At
<1>3. PICK s \in WorkerPC \ {"none", "execute"} :
        /\ Goto(p, s)
        /\ s \in Idle => worker[p].cmd = <<>>
        /\ s = "clear" => worker[p].cmd # <<>>
        /\ s \in {"clear", "session", "stop"} /\ worker[p].cmd # <<>> => InDone(worker[p].cmd)
  <2> USE StagesStay DEF WorkerPC, Idle, At
  <2>1. CASE Check(p)
    BY <2>1 DEF Check
  <2>2. CASE Update(p)
    BY <2>2 DEF Update
  <2>3. CASE MailLater(p) \/ Locked(p)
    BY <2>3 DEF MailLater, Locked
  <2>4. CASE Input(p)
    <3>1. PICK e : Run(p, e, "check")
      BY <2>4 DEF Input
    <3>2. worker[p].cmd = <<>>
      BY <2>4 DEF Input
    <3>3. After(e, "check") \in {"final", "session", "check"}
      BY DEF After
    <3> QED
      BY <3>1, <3>2, <3>3 DEF Run
  <2>5. CASE SessionKey(p)
    BY <2>5 DEF SessionKey
  <2>6. CASE Stop(p)
    BY <2>6 DEF Stop
  <2>7. CASE SessionForced(p) \/ Unwind(p) \/ Final(p)
    BY <2>7 DEF SessionForced, Unwind, Final
  <2> QED
    BY <2>1, <2>2, <2>3, <2>4, <2>5, <2>6, <2>7
<1>4. \A q \in Proc : q # p => worker'[q] = worker[q]
    BY <1>3 DEF Goto, TypeOK
<1>5. worker'[p].pc = s /\ worker'[p].cmd = worker[p].cmd /\ worker'[p].view = worker[p].view
    BY <1>3 DEF Goto, TypeOK
<1>6. ~sub[p]
    BY <1>2, StagesStay
<1>7. /\ UNCHANGED <<mem, sent, done, sub>> /\ handles' \subseteq handles
      /\ \A q \in Proc : main'[q] = main[q] /\ (q \in handles => q \in handles')
    BY <1>1
<1>8. ASSUME NEW q \in Proc
      PROVE  /\ worker'[q].cmd = worker[q].cmd /\ worker'[q].view = worker[q].view
             /\ sub[q] => worker'[q].pc = "none" /\ main[q] \notin {"clear", "init"}
             /\ worker'[q].pc \in Idle => worker[q].cmd = <<>>
             /\ worker'[q].pc \in {"execute", "clear"} => worker[q].cmd # <<>>
             /\ worker'[q].pc = "execute" => ~InDone(worker[q].cmd)
             /\ worker'[q].pc \in {"clear", "session", "stop"} /\ worker[q].cmd # <<>>
                   => InDone(worker[q].cmd)
  <2>1. CASE q = p
    BY <2>1, <1>3, <1>5, <1>6
  <2>2. CASE q # p
    BY <2>2, <1>4, StagesStay
  <2> QED
    BY <2>1, <2>2
<1> QED
    BY <1>7, <1>8 DEF Quiet

\* The memory tells which request it holds.
LEMMA MsgDistinct ==
    ASSUME NEW p \in Proc
    PROVE  /\ Arg[p] # <<>> => Msg(p) # Blank
           /\ \A q \in Proc : Msg(p) = Msg(q) => Arg[p] = Arg[q]
BY MsgText, BlankText

LEMMA CreateMail ==
    ASSUME TypeOK, MailInv, NEW p \in Proc, Create(p)
    PROVE  MailInv'
<1>1. /\ main[p] = "start" /\ worker[p].pc = "none" /\ handles' = handles \cup {p}
      /\ sent' = sent /\ done' = done
      /\ sub' = [sub EXCEPT ![p] = handles # {}]
    BY DEF Create, MainAt, TypeOK
<1>2. \A q \in Proc : worker'[q].pc = worker[q].pc /\ worker'[q].cmd = worker[q].cmd
    BY DEF Create, TypeOK
<1>3. \A q \in Proc : main'[q] = IF q = p THEN IF handles # {} THEN "send" ELSE "clear" ELSE main[q]
    BY DEF Create, MainTo, TypeOK
<1>4. \A q \in Proc : sub'[q] = IF q = p THEN handles # {} ELSE sub[q]
    BY <1>1 DEF TypeOK
<1>5. \A q \in Proc : <<p, q>> \notin sent /\ <<q, p>> \notin sent
    BY <1>1 DEF MailInv, SentOnce, Early
<1>6. SentOnce'
    BY <1>1, <1>3, <1>4, <1>5 DEF MailInv, SentOnce
<1>7. \A c : InDone(c)' <=> InDone(c)
    BY <1>1 DEF InDone
<1>8. Stages'
    BY <1>2, <1>7 DEF MailInv, Stages
<1>9. OnlySent' /\ AtMostOnce'
    BY <1>1 DEF MailInv, OnlySent, AtMostOnce
<1>10. Roles' /\ Mailbox' /\ Taken'
  <2>1. CASE handles # {}
    <3>1. mem' = mem /\ worker' = worker
      BY <2>1 DEF Create
    <3>2. Servers' \subseteq Servers
      BY <1>1, <1>4, <2>1 DEF Servers, TypeOK
    <3>3. Roles'
      <4>1. \A q \in handles' : q \in Proc /\ main'[q] # "start"
        BY <1>1, <1>3, <2>1 DEF MailInv, Roles, TypeOK
      <4>2. \A q \in Proc : sub'[q] => worker'[q].pc = "none" /\ main'[q] \notin {"clear", "init"}
        BY <1>1, <1>2, <1>3, <1>4, <2>1 DEF MailInv, Roles
      <4>3. \A q \in Proc : main'[q] \in {"clear", "send"} /\ ~sub'[q] => q \in handles' /\ mem' = Blank
        BY <1>1, <1>3, <1>4, <2>1, <3>1 DEF MailInv, Roles
      <4> QED
        BY <4>1, <4>2, <4>3 DEF Roles
    <3>4. Mailbox'
      BY <1>1, <1>7, <3>1, <3>2 DEF MailInv, Mailbox
    <3>5. Taken'
      BY <1>1, <3>1, <3>2 DEF MailInv, Taken
    <3> QED
      BY <3>3, <3>4, <3>5
  <2>2. CASE handles = {}
    <3>1. mem' = Blank /\ \A q \in Proc : ~worker'[q].view
      BY <2>2 DEF Create, TypeOK
    <3>2. Servers' \subseteq {p}
      BY <1>1, <2>2 DEF Servers
    <3>3. Roles'
      BY <1>1, <1>2, <1>3, <1>4, <2>2, <3>1 DEF MailInv, Roles
    <3>4. Mailbox'
      BY <1>1, <1>5, <3>1, <3>2 DEF Mailbox
    <3>5. Taken'
      BY <1>1, <1>2, <1>5, <3>2 DEF MailInv, Taken
    <3> QED
      BY <3>3, <3>4, <3>5
  <2> QED
    BY <2>1, <2>2
<1> QED
    BY <1>6, <1>8, <1>9, <1>10 DEF MailInv

\* The server that clears the memory at its start finds it clear.
LEMMA ClearMail ==
    ASSUME TypeOK, MailInv, NEW p \in Proc, Clear(p)
    PROVE  MailInv'
<1>1. /\ main[p] = "clear" /\ mem' = Blank /\ handles' = handles /\ sent' = sent
      /\ done' = done /\ sub' = sub /\ worker' = worker
    BY DEF Clear, MainAt
<1>2. ~sub[p] /\ mem = Blank /\ p \in handles
    BY <1>1 DEF MailInv, Roles
<1>3. \A q \in Proc : main'[q] = IF q = p THEN "send" ELSE main[q]
    BY DEF Clear, MainTo, TypeOK
<1>4. \A c : InDone(c)' <=> InDone(c)
    BY <1>1 DEF InDone
<1>5. Servers' = Servers
    BY <1>1 DEF Servers
<1>6. Roles'
  <2>1. \A q \in handles : q \in Proc
    BY DEF TypeOK
  <2> QED
    BY <1>1, <1>2, <1>3, <2>1 DEF MailInv, Roles
<1>7. SentOnce'
    BY <1>1, <1>3 DEF MailInv, SentOnce, Early
<1>8. Mailbox'
    BY <1>1, <1>2, <1>4, <1>5 DEF MailInv, Mailbox
<1>9. Taken' /\ Stages'
    BY <1>1, <1>2, <1>4, <1>5 DEF MailInv, Taken, Stages
<1>10. OnlySent' /\ AtMostOnce'
    BY <1>1 DEF MailInv, OnlySent, AtMostOnce
<1> QED
    BY <1>6, <1>7, <1>8, <1>9, <1>10 DEF MailInv

\* A request goes to the server, if there is one, and into an empty memory.
LEMMA SendMail ==
    ASSUME Serial, DistinctRequests, TypeOK, OneServer, MailInv, NEW p \in Proc, Send(p)
    PROVE  MailInv'
<1>1. /\ main[p] = "send" /\ mem' = Overwrite(mem, Arg[p]) /\ handles' = handles
      /\ done' = done /\ sub' = sub /\ worker' = worker
      /\ sent' = IF Arg[p] = <<>> THEN sent ELSE sent \cup ({p} \X Servers)
    BY DEF Send, MainAt
<1>2. \A q \in Proc : main'[q] = IF q = p THEN IF sub[p] THEN "leave" ELSE "init" ELSE main[q]
    BY DEF Send, MainTo, TypeOK
<1>3. \A c : InDone(c)' <=> InDone(c)
    BY <1>1 DEF InDone
<1>4. Servers' = Servers /\ Servers \subseteq Proc
    BY <1>1 DEF Servers, TypeOK
<1>5. Stages'
    BY <1>1, <1>3 DEF MailInv, Stages
<1>6. AtMostOnce'
    BY <1>1 DEF MailInv, AtMostOnce
<1>7. OnlySent'
    BY <1>1 DEF MailInv, OnlySent
<1>8. CASE Arg[p] = <<>>
  <2>1. mem' = mem /\ sent' = sent
    BY <1>1, <1>8, WriteNothing DEF TypeOK
  <2>2. Quiet
    BY <1>1, <1>2, <2>1, StagesStay DEF Quiet, Early
  <2> QED
    BY <2>2, QuietStep
<1>9. CASE Arg[p] # <<>> /\ Servers = {}
  <2>1. sent' = sent
    BY <1>1, <1>9
  <2>2. \A q \in Proc : q \in handles => sub[q]
    BY <1>9 DEF Servers
  <2>3. Roles'
    <3>1. \A q \in handles : q \in Proc
      BY DEF TypeOK
    <3> QED
      BY <1>1, <1>2, <2>2, <3>1 DEF MailInv, Roles
  <2>4. SentOnce'
    BY <1>1, <1>2, <2>1 DEF MailInv, SentOnce, Early
  <2>5. Mailbox' /\ Taken'
    BY <1>1, <1>4, <1>9, <2>1 DEF MailInv, Mailbox, Taken
  <2> QED
    BY <1>5, <1>6, <1>7, <2>3, <2>4, <2>5 DEF MailInv
<1>10. CASE Arg[p] # <<>> /\ Servers # {}
  <2>1. PICK q \in Proc : Servers = {q}
    BY <1>4, <1>10 DEF OneServer
  <2>2. q \in handles /\ ~sub[q]
    BY <2>1 DEF Servers
  <2>3. mem = Blank /\ worker[q].cmd = <<>> /\ main'[q] \notin Early
    <3>1. CASE sub[p]
      <4>1. MailboxFree
        BY <1>10, <3>1 DEF Send
      <4>2. Text(mem) = <<>> /\ worker[q].cmd = <<>> /\ main[q] \notin {"clear", "send"}
        BY <2>1, <4>1 DEF MailboxFree
      <4>3. main[q] # "start" /\ q # p
        BY <2>2, <3>1 DEF MailInv, Roles
      <4>4. mem = Blank
        <5>1. mem = Blank \/ \E r \in Proc : <<r, q>> \in sent /\ mem = Msg(r)
          BY <2>1 DEF MailInv, Mailbox
        <5>2. \A r \in Proc : <<r, q>> \in sent => Text(Msg(r)) # <<>>
          BY MsgText DEF MailInv, SentOnce
        <5> QED
          BY <4>2, <5>1, <5>2
      <4> QED
        BY <1>2, <4>2, <4>3, <4>4 DEF Early
    <3>2. CASE ~sub[p]
      <4>1. p \in handles /\ mem = Blank
        BY <1>1, <3>2 DEF MailInv, Roles
      <4>2. p = q
        BY <2>1, <3>2, <4>1 DEF Servers
      <4>3. worker[p].pc = "none"
        BY <1>1 DEF TypeOK
      <4> QED
        BY <1>2, <3>2, <4>1, <4>2, <4>3 DEF MailInv, Stages, Idle, Early
    <3> QED
      BY <3>1, <3>2
  <2>4. mem' = Msg(p) /\ sent' = sent \cup {<<p, q>>}
    BY <1>1, <1>10, <2>1, <2>3 DEF Msg
  <2>5. \A r \in Proc : <<p, r>> \notin sent
    BY <1>1 DEF MailInv, SentOnce, Early
  <2>6. \A r \in Proc : Arg[r] = Arg[p] => r = p
    BY <1>10 DEF DistinctRequests
  <2>7. ~InDone(Arg[p])
    <3> SUFFICES ASSUME NEW i \in 1..Len(done), done[i] = Arg[p] PROVE FALSE
      BY DEF InDone
    <3>1. PICK r \in sent : done[i] = Arg[r[1]]
      BY DEF MailInv, OnlySent
    <3>2. r \in Proc \X Proc
      BY <3>1 DEF TypeOK
    <3>3. r[1] = p /\ r = <<p, r[2]>> /\ r[2] \in Proc
      BY <2>6, <3>1, <3>2
    <3> QED
      BY <2>5, <3>3
  <2>8. main'[p] \notin Early
    BY <1>2 DEF Early
  <2>9. Roles'
    <3>1. \A x \in handles : x \in Proc
      BY DEF TypeOK
    <3>2. \A x \in Proc : main'[x] \in {"clear", "send"} => sub[x]
      <4> SUFFICES ASSUME NEW x \in Proc, main'[x] \in {"clear", "send"}, ~sub[x] PROVE FALSE
        OBVIOUS
      <4>1. x # p /\ main'[x] = main[x]
        BY <1>2, <2>8 DEF Early
      <4>2. x \in handles
        BY <4>1 DEF MailInv, Roles
      <4>3. x = q
        BY <2>1, <4>2 DEF Servers
      <4> QED
        BY <2>3, <4>3 DEF Early
    <3> QED
      BY <1>1, <1>2, <3>1, <3>2 DEF MailInv, Roles
  <2>10. SentOnce'
    <3>1. \A x, y \in Proc : <<x, y>> \in sent' => (<<x, y>> \in sent \/ (x = p /\ y = q))
      BY <2>4
    <3>2. \A x \in Proc : main[x] \notin Early => main'[x] \notin Early
      BY <1>2, <2>8
    <3> QED
      BY <1>1, <1>10, <2>2, <2>3, <2>5, <2>8, <3>1, <3>2 DEF MailInv, SentOnce
  <2>11. Mailbox'
    <3>1. ASSUME NEW r \in Proc, <<r, q>> \in sent', r # p
          PROVE  InDone(Arg[r]) /\ mem' # Msg(r)
      <4>1. <<r, q>> \in sent
        BY <2>4, <3>1
      <4>2. Arg[r] # <<>>
        BY <4>1 DEF MailInv, SentOnce
      <4>3. mem # Msg(r)
        BY <2>3, <4>2, MsgDistinct
      <4>4. InDone(Arg[r])
        BY <2>1, <4>1, <4>3 DEF MailInv, Mailbox
      <4> QED
        BY <2>4, <2>6, <3>1, <4>4, MsgDistinct
    <3>2. <<p, q>> \in sent'
      BY <2>4
    <3>3. \A r \in Proc : worker[r].view => r = q
      BY <2>1 DEF MailInv, Mailbox
    <3>4. Servers' = {q}
      BY <1>4, <2>1
    <3> QED
      BY <1>1, <1>3, <2>4, <2>7, <3>1, <3>2, <3>3, <3>4 DEF Mailbox
  <2>12. Taken'
    <3>1. Servers' = {q}
      BY <1>4, <2>1
    <3> QED
      BY <1>1, <2>3, <2>4, <3>1 DEF MailInv, Taken
  <2> QED
    BY <1>5, <1>6, <1>7, <2>9, <2>10, <2>11, <2>12 DEF MailInv
<1> QED
    BY <1>8, <1>9, <1>10

\* The worker of the server takes the request that the memory holds.
LEMMA MailReadMail ==
    ASSUME TypeOK, OneServer, MailInv, NEW p \in Proc, MailRead(p)
    PROVE  MailInv'
<1>1. /\ worker[p].pc = "mail" /\ p \in handles /\ handles' = handles /\ mem' = mem
      /\ sent' = sent /\ done' = done /\ main' = main /\ sub' = sub
    BY DEF MailRead, At
<1>2. worker[p].cmd = <<>> /\ ~sub[p]
    BY <1>1, StagesStay DEF Idle
<1>3. Servers' = Servers /\ Servers = {p}
    BY <1>1, <1>2 DEF Servers, OneServer
<1>4. /\ worker'[p].cmd = Text(mem) /\ worker'[p].view = TRUE
      /\ worker'[p].pc = IF Text(mem) = <<>> THEN "input" ELSE "execute"
      /\ \A q \in Proc : q # p => worker'[q] = worker[q]
    BY DEF MailRead, TypeOK
<1>5. \A c : InDone(c)' <=> InDone(c)
    BY <1>1 DEF InDone
<1>6. Text(mem) # <<>> => \E r \in Proc : <<r, p>> \in sent /\ mem = Msg(r) /\ Text(mem) = Arg[r]
    BY ZenonT(60), <1>3, MsgText, BlankText DEF MailInv, Mailbox
<1>7. Text(mem) # <<>> => ~InDone(Text(mem))
  <2> SUFFICES ASSUME Text(mem) # <<>>, InDone(Text(mem)) PROVE FALSE
    OBVIOUS
  <2>1. PICK r \in Proc : <<r, p>> \in sent /\ mem = Msg(r) /\ Text(mem) = Arg[r]
    BY <1>6
  <2>2. worker[p].cmd = Arg[r]
    BY <1>3, <2>1 DEF MailInv, Mailbox
  <2> QED
    BY <1>2, <2>1, <2>2
<1>8. Roles' /\ SentOnce' /\ OnlySent' /\ AtMostOnce'
  <2>1. Roles'
    BY <1>1, <1>2, <1>4 DEF MailInv, Roles
  <2> QED
    BY <1>1, <2>1 DEF MailInv, SentOnce, OnlySent, AtMostOnce
<1>9. Mailbox'
  <2>1. \A r \in Proc : mem = Msg(r) => worker'[p].cmd = Arg[r]
    BY <1>4, MsgText
  <2>2. \A r \in Proc : worker'[r].view => r = p
    BY <1>3, <1>4 DEF MailInv, Mailbox
  <2> QED
    BY <1>1, <1>3, <1>5, <2>1, <2>2 DEF MailInv, Mailbox
<1>10. Taken'
  <2> SUFFICES ASSUME NEW q \in Proc, worker'[q].cmd # <<>>
               PROVE  \E r \in Proc : /\ <<r, q>> \in sent /\ worker'[q].cmd = Arg[r]
                                      /\ q \in Servers => worker'[q].view /\ mem = Msg(r)
    BY <1>1, <1>3 DEF Taken
  <2>1. CASE q = p
    BY <2>1, <1>4, <1>6
  <2>2. CASE q # p
    BY <2>2, <1>4 DEF MailInv, Taken
  <2> QED
    BY <2>1, <2>2
<1>11. Stages'
  <2> SUFFICES ASSUME NEW q \in Proc
               PROVE  /\ worker'[q].pc \in Idle => worker'[q].cmd = <<>>
                      /\ worker'[q].pc \in {"execute", "clear"} => worker'[q].cmd # <<>>
                      /\ worker'[q].pc = "execute" => ~InDone(worker'[q].cmd)
                      /\ worker'[q].pc \in {"clear", "session", "stop"} /\ worker'[q].cmd # <<>>
                            => InDone(worker'[q].cmd)
    BY <1>5 DEF Stages
  <2>1. CASE q = p
    BY <2>1, <1>4, <1>7 DEF Idle
  <2>2. CASE q # p
    BY <2>2, <1>4, StagesStay
  <2> QED
    BY <2>1, <2>2
<1> QED
    BY <1>8, <1>9, <1>10, <1>11 DEF MailInv

\* A worker executes what it has taken, also one whose entry is gone.
LEMMA ExecuteMail ==
    ASSUME DistinctRequests, TypeOK, MailInv, NEW p \in Proc, Execute(p)
    PROVE  MailInv'
<1> DEFINE c == worker[p].cmd
<1>1. /\ worker[p].pc = "execute" /\ done' = Append(done, c) /\ handles' = handles /\ mem' = mem
      /\ sent' = sent /\ main' = main /\ sub' = sub
    BY DEF Execute, At
<1>2. c # <<>> /\ ~InDone(c) /\ ~sub[p] /\ c \in Seq(Char)
    BY <1>1, StagesStay DEF TypeOK
<1>3. PICK r \in Proc : <<r, p>> \in sent /\ c = Arg[r]
    BY <1>2 DEF MailInv, Taken
<1>4. Servers' = Servers /\ Servers \subseteq Proc
    BY <1>1 DEF Servers, TypeOK
<1>5. /\ worker'[p].pc \in {"final", "session", "clear"}
      /\ worker'[p].cmd = c /\ worker'[p].view = worker[p].view
      /\ \A q \in Proc : q # p => worker'[q] = worker[q]
  <2>1. PICK e : Run(p, e, "clear")
    BY DEF Execute
  <2>2. After(e, "clear") \in {"final", "session", "clear"}
    BY DEF After
  <2> QED
    BY <2>1, <2>2 DEF Run, Goto, TypeOK
<1>6. /\ \A d : InDone(d)' <=> (InDone(d) \/ d = c)
      /\ OnlySent' /\ AtMostOnce'
  <2>1. <<r, p>>[1] = r
    OBVIOUS
  <2>2. \E s \in sent : c = Arg[s[1]]
    BY <1>3, <2>1
  <2> QED
    BY <1>1, <1>2, <2>2, DoneGrows DEF MailInv
<1>7. \A x, q \in Proc : <<x, q>> \in sent /\ Arg[x] = c => x = r /\ q = p
    BY <1>2, <1>3 DEF DistinctRequests, MailInv, SentOnce
<1>8. Roles' /\ SentOnce'
  <2>1. Roles'
    BY <1>1, <1>2, <1>5 DEF MailInv, Roles
  <2> QED
    BY <1>1, <2>1 DEF MailInv, SentOnce
<1>9. Mailbox'
  <2> SUFFICES ASSUME NEW q \in Servers
               PROVE  /\ mem = Blank \/ \E x \in Proc : <<x, q>> \in sent /\ mem = Msg(x)
                      /\ \A x \in Proc : <<x, q>> \in sent =>
                            /\ InDone(Arg[x])' \/ mem = Msg(x)
                            /\ InDone(Arg[x])' /\ mem = Msg(x) => worker'[q].cmd = Arg[x]
                      /\ \A x \in Proc : worker'[x].view => x = q
    BY <1>1, <1>4 DEF Mailbox
  <2>1. q \in Proc /\ worker'[q].cmd = worker[q].cmd
    BY <1>4, <1>5
  <2>2. \A x \in Proc : worker'[x].view = worker[x].view
    BY <1>5
  <2> QED
    BY <1>5, <1>6, <1>7, <2>1, <2>2 DEF MailInv, Mailbox
<1>10. Taken'
  <2>1. \A q \in Proc : worker'[q].cmd = worker[q].cmd /\ worker'[q].view = worker[q].view
    BY <1>5
  <2> QED
    BY <1>1, <1>4, <2>1 DEF MailInv, Taken
<1>11. Stages'
  <2> SUFFICES ASSUME NEW q \in Proc
               PROVE  /\ worker'[q].pc \in Idle => worker'[q].cmd = <<>>
                      /\ worker'[q].pc \in {"execute", "clear"} => worker'[q].cmd # <<>>
                      /\ worker'[q].pc = "execute" => ~(InDone(worker'[q].cmd) \/ worker'[q].cmd = c)
                      /\ worker'[q].pc \in {"clear", "session", "stop"} /\ worker'[q].cmd # <<>>
                            => InDone(worker'[q].cmd) \/ worker'[q].cmd = c
    BY <1>6 DEF Stages
  <2>1. CASE q = p
    BY <2>1, <1>2, <1>5 DEF Idle
  <2>2. CASE q # p
    <3>1. worker[q].pc = "execute" => worker[q].cmd # c
      <4> SUFFICES ASSUME worker[q].pc = "execute", worker[q].cmd = c PROVE FALSE
        OBVIOUS
      <4>1. \E x \in Proc : <<x, q>> \in sent /\ worker[q].cmd = Arg[x]
        BY StagesStay DEF MailInv, Taken
      <4> QED
        BY <2>2, <1>7, <4>1
    <3> QED
      BY <2>2, <3>1, <1>5, StagesStay
  <2> QED
    BY <2>1, <2>2
<1> QED
    BY <1>6, <1>8, <1>9, <1>10, <1>11 DEF MailInv

\* Clearing the mailbox takes away the executed request and nothing else.
LEMMA MailClearMail ==
    ASSUME TypeOK, OneServer, MailInv, NEW p \in Proc, MailClear(p)
    PROVE  MailInv'
<1> DEFINE c == worker[p].cmd
<1>1. /\ worker[p].pc = "clear" /\ done' = done /\ handles' = handles
      /\ mem' = (IF worker[p].view THEN Blank ELSE mem)
      /\ sent' = sent /\ main' = main /\ sub' = sub
    BY DEF MailClear, At
<1>2. c # <<>> /\ InDone(c) /\ ~sub[p]
    BY <1>1, StagesStay
<1>3. PICK r \in Proc : <<r, p>> \in sent /\ c = Arg[r] /\ (p \in Servers => worker[p].view /\ mem = Msg(r))
    BY <1>2 DEF MailInv, Taken
<1>4. Servers' = Servers /\ Servers \subseteq Proc
    BY <1>1 DEF Servers, TypeOK
<1>5. /\ worker'[p].pc = "input" /\ worker'[p].cmd = <<>> /\ worker'[p].view = worker[p].view
      /\ \A q \in Proc : q # p => worker'[q] = worker[q]
    BY DEF MailClear, TypeOK
<1>6. \A d : InDone(d)' <=> InDone(d)
    BY <1>1 DEF InDone
<1>7. \A q \in Servers : q # p => mem' = mem
    BY <1>1 DEF MailInv, Mailbox
<1>8. Roles' /\ SentOnce' /\ OnlySent' /\ AtMostOnce'
  <2>1. \A q \in Proc : worker'[q].pc = worker[q].pc \/ ~sub[q]
    BY <1>2, <1>5
  <2>2. mem = Blank => mem' = Blank
    BY <1>1
  <2>3. Roles'
    BY <1>1, <2>1, <2>2 DEF MailInv, Roles
  <2> QED
    BY <1>1, <2>3 DEF MailInv, SentOnce, OnlySent, AtMostOnce
<1>9. Mailbox'
  <2> SUFFICES ASSUME NEW q \in Servers
               PROVE  /\ mem' = Blank \/ \E x \in Proc : <<x, q>> \in sent /\ mem' = Msg(x)
                      /\ \A x \in Proc : <<x, q>> \in sent =>
                            /\ InDone(Arg[x]) \/ mem' = Msg(x)
                            /\ InDone(Arg[x]) /\ mem' = Msg(x) => worker'[q].cmd = Arg[x]
                      /\ \A x \in Proc : worker'[x].view => x = q
    BY <1>1, <1>4, <1>6 DEF Mailbox
  <2>1. \A x \in Proc : worker'[x].view = worker[x].view
    BY <1>5
  <2>2. CASE q = p
    <3>1. mem' = Blank /\ mem = Msg(r)
      BY <1>1, <1>3, <2>2
    <3>2. \A x \in Proc : <<x, p>> \in sent => mem' # Msg(x)
      BY <3>1, MsgDistinct DEF MailInv, SentOnce
    <3>3. ASSUME NEW x \in Proc, <<x, p>> \in sent
          PROVE  InDone(Arg[x])
      <4>1. CASE mem = Msg(x)
        BY <1>2, <1>3, <3>1, <4>1, MsgDistinct
      <4>2. CASE mem # Msg(x)
        BY <2>2, <3>3, <4>2 DEF MailInv, Mailbox
      <4> QED
        BY <4>1, <4>2
    <3>4. \A x \in Proc : worker[x].view => x = q
      BY DEF MailInv, Mailbox
    <3> QED
      BY <2>1, <2>2, <3>1, <3>2, <3>3, <3>4
  <2>3. CASE q # p
    <3>1. mem' = mem /\ worker'[q] = worker[q]
      BY <1>4, <1>5, <1>7, <2>3
    <3> QED
      BY <2>1, <3>1 DEF MailInv, Mailbox
  <2> QED
    BY <2>2, <2>3
<1>10. Taken'
  <2> SUFFICES ASSUME NEW q \in Proc, worker'[q].cmd # <<>>
               PROVE  \E x \in Proc : /\ <<x, q>> \in sent /\ worker'[q].cmd = Arg[x]
                                      /\ q \in Servers => worker'[q].view /\ mem' = Msg(x)
    BY <1>1, <1>4 DEF Taken
  <2>1. q # p /\ worker'[q] = worker[q]
    BY <1>5
  <2> QED
    BY <1>7, <2>1 DEF MailInv, Taken
<1>11. Stages'
  <2> SUFFICES ASSUME NEW q \in Proc
               PROVE  /\ worker'[q].pc \in Idle => worker'[q].cmd = <<>>
                      /\ worker'[q].pc \in {"execute", "clear"} => worker'[q].cmd # <<>>
                      /\ worker'[q].pc = "execute" => ~InDone(worker'[q].cmd)
                      /\ worker'[q].pc \in {"clear", "session", "stop"} /\ worker'[q].cmd # <<>>
                            => InDone(worker'[q].cmd)
    BY <1>6 DEF Stages
  <2>1. CASE q = p
    BY <2>1, <1>5
  <2>2. CASE q # p
    BY <2>2, <1>5, StagesStay
  <2> QED
    BY <2>1, <2>2
<1> QED
    BY <1>8, <1>9, <1>10, <1>11 DEF MailInv

LEMMA InitMail == Init => MailInv
<1> SUFFICES ASSUME Init PROVE MailInv
    OBVIOUS
<1>1. /\ handles = {} /\ mem = Blank /\ sent = {} /\ done = <<>>
      /\ \A p \in Proc : main[p] = "start" /\ ~sub[p] /\ worker[p] = NoWorker
    BY DEF Init
<1>2. Servers = {} /\ Len(done) = 0
    BY <1>1 DEF Servers
<1>3. Roles /\ SentOnce /\ Mailbox /\ OnlySent /\ AtMostOnce
    BY <1>1, <1>2 DEF Roles, SentOnce, Mailbox, OnlySent, AtMostOnce
<1>4. Taken /\ Stages
    BY <1>1 DEF Taken, Stages, NoWorker, Idle
<1> QED
    BY <1>3, <1>4 DEF MailInv

\* The mailbox protocol as a whole.
LEMMA MailAlways == Serial /\ DistinctRequests /\ Spec => []MailInv
<1> SUFFICES ASSUME Serial, DistinctRequests PROVE Spec => []MailInv
    OBVIOUS
<1>1. TypeOK /\ OneServer /\ MailInv /\ [Next]_vars => MailInv'
  <2> SUFFICES ASSUME TypeOK, OneServer, MailInv, [Next]_vars PROVE MailInv'
    OBVIOUS
  <2>1. CASE UNCHANGED vars
    <3>1. Quiet
      BY <2>1, StagesStay DEF vars, Quiet
    <3> QED
      BY <3>1, QuietStep
  <2>2. ASSUME NEW p \in Proc, MainStep(p)
        PROVE  MailInv'
    BY <2>2, CreateMail, ClearMail, SendMail, MainQuiet, QuietStep DEF MainStep
  <2>3. ASSUME NEW p \in Proc, WorkerStep(p)
        PROVE  MailInv'
    BY <2>3, MailReadMail, ExecuteMail, MailClearMail, MainQuiet, WorkerQuiet, QuietStep DEF WorkerStep
  <2>4. ASSUME NEW p \in Proc, DrawEnd(p) \/ Outside(p)
        PROVE  MailInv'
    BY <2>4, MainQuiet, WorkerQuiet, QuietStep DEF Outside
  <2> QED
    BY <2>1, <2>2, <2>3, <2>4 DEF Next
<1> QED
    BY InitMail, LifecycleTypeCorrect, ServerUnique, <1>1, PTL DEF Spec

\* A request is executed at most once, although the mailbox is cleared only
\* after the execution, the worker outlives the entry that owns the mapping,
\* and another instance may become the server in between.
THEOREM ExecutedAtMostOnce == Serial /\ DistinctRequests /\ Spec => []AtMostOnce
<1>1. MailInv => AtMostOnce
    BY DEF MailInv
<1> QED
    BY MailAlways, <1>1, PTL

\* What is executed is a request that some instance has sent, whole.
THEOREM ExecutedWasSent == Serial /\ DistinctRequests /\ Spec => []OnlySent
<1>1. MailInv => OnlySent
    BY DEF MailInv
<1> QED
    BY MailAlways, <1>1, PTL

\* As long as the process that was the server keeps the mapping open, a
\* request that was sent to it is in the memory or has been executed.
THEOREM RequestsKept == Serial /\ DistinctRequests /\ Spec => []NoRequestLost
<1>1. TypeOK /\ MailInv => NoRequestLost
  <2> SUFFICES ASSUME TypeOK, MailInv, NEW s \in sent, Serving(s[2])
               PROVE  InDone(Arg[s[1]]) \/ Text(mem) = Arg[s[1]]
    BY DEF NoRequestLost
  <2>1. PICK p, q \in Proc : s = <<p, q>>
    BY DEF TypeOK
  <2>2. s[1] = p /\ s[2] = q /\ <<p, q>> \in sent
    BY <2>1
  <2>3. q \in Servers
    BY <2>2 DEF Serving, Servers, MailInv, SentOnce
  <2>4. InDone(Arg[p]) \/ mem = Msg(p)
    BY <2>2, <2>3 DEF MailInv, Mailbox
  <2> QED
    BY <2>2, <2>4, MsgText
<1> QED
    BY LifecycleTypeCorrect, MailAlways, <1>1, PTL

=============================================================================
