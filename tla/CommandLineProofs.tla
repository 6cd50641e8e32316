-------------------------- MODULE CommandLineProofs --------------------------
(***************************************************************************)
(* The command line implements History: whatever is typed, completed,      *)
(* copied, queued, executed or noticed in between.                         *)
(***************************************************************************)
EXTENDS CommandLine, SequenceTheorems, TLAPS

-----------------------------------------------------------------------------
(***************************************************************************)
(* Sequences of anything.                                                  *)
(***************************************************************************)
IsSeq(q) == \E S : q \in Seq(S)

LEMMA Appended ==
    ASSUME NEW q, IsSeq(q), NEW x
    PROVE  /\ IsSeq(Append(q, x)) /\ Append(q, x) # <<>>
           /\ Front(Append(q, x)) = q /\ Last(Append(q, x)) = x
<1>1. PICK S : q \in Seq(S)
  BY DEF IsSeq
<1> DEFINE T == S \cup {x}
           both == Append(q, x)
           n == Len(q)
<1>2. q \in Seq(T) /\ x \in T /\ n \in Nat /\ q \in [1..n -> T]
  BY <1>1
<1> HIDE DEF T
<1>3. /\ both \in Seq(T) /\ both # <<>> /\ Len(both) = n + 1
      /\ both[n + 1] = x /\ \A i \in 1..n : both[i] = q[i]
  BY <1>2, AppendProperties
<1> HIDE DEF both, n
<1>4. Front(both) = SubSeq(both, 1, n)
  BY <1>2, <1>3 DEF Front
<1>5. SubSeq(both, 1, n) = q
  <2>1. \A i \in 1..n : both[i] \in T
    BY <1>2, <1>3
  <2>2. /\ SubSeq(both, 1, n) \in Seq(T)
        /\ Len(SubSeq(both, 1, n)) = IF 1 <= n THEN n - 1 + 1 ELSE 0
        /\ \A i \in 1..n - 1 + 1 : SubSeq(both, 1, n)[i] = both[1 + i - 1]
    BY <1>2, <2>1, SubSeqProperties
  <2>3. Len(SubSeq(both, 1, n)) = n
    BY <1>2, <2>2
  <2>4. \A i \in 1..n : SubSeq(both, 1, n)[i] = q[i]
    BY <1>2, <1>3, <2>2
  <2> QED
    BY <1>2, <2>2, <2>3, <2>4, SeqEqual DEF n
<1>6. Last(both) = x
  BY <1>2, <1>3 DEF Last
<1> QED
  BY <1>3, <1>4, <1>5, <1>6 DEF IsSeq, both

LEMMA FrontAndLast ==
    ASSUME NEW q, IsSeq(q), q # <<>>
    PROVE  IsSeq(Front(q)) /\ q = Append(Front(q), Last(q))
<1>1. PICK S : q \in Seq(S)
  BY DEF IsSeq
<1> DEFINE n == Len(q) - 1
           most == SubSeq(q, 1, n)
<1>2. n \in Nat /\ Len(q) = n + 1 /\ \A i \in 1..n + 1 : q[i] \in S
  BY <1>1
<1>3. Front(q) = most /\ Last(q) = q[n + 1]
  BY <1>2 DEF Front, Last
<1> HIDE DEF n
<1>4. /\ most \in Seq(S) /\ Len(most) = IF 1 <= n THEN n - 1 + 1 ELSE 0
      /\ \A i \in 1..n - 1 + 1 : most[i] = q[1 + i - 1]
  BY <1>2, SubSeqProperties
<1> HIDE DEF most
<1>5. Len(most) = n
  BY <1>2, <1>4
<1>6. /\ Append(most, q[n + 1]) \in Seq(S) /\ Len(Append(most, q[n + 1])) = n + 1
      /\ Append(most, q[n + 1])[n + 1] = q[n + 1]
      /\ \A i \in 1..n : Append(most, q[n + 1])[i] = most[i]
  BY <1>2, <1>4, <1>5, AppendProperties
<1>7. \A i \in 1..n + 1 : q[i] = Append(most, q[n + 1])[i]
  BY <1>2, <1>4, <1>6
<1>8. q = Append(most, q[n + 1])
  BY <1>1, <1>2, <1>6, <1>7, SeqEqual
<1> QED
  BY <1>3, <1>4, <1>8 DEF IsSeq

-----------------------------------------------------------------------------
(***************************************************************************)
(* What a step does to the lines.                                          *)
(***************************************************************************)
\* The edited line is the last one, as long as there is a session.
HistoryInv == IsSeq(hists) /\ open \in BOOLEAN /\ (open => hists # <<>>)

Stays    == hists' = hists /\ open' = open
Opens    == ~open /\ open' = TRUE /\ hists' = Append(hists, <<>>)
Edits    == open /\ open' = open /\ \E line : hists' = WithLatest(hists, line)
Cancels  == open /\ open' = FALSE /\ hists' = Front(hists)
Submits  == open /\ open' = FALSE /\ hists' = hists

LEMMA OutsideStays ==
    ASSUME Outside
    PROVE  Stays
<1>1. ASSUME NEW p, Foreground(p) PROVE Stays
  BY <1>1 DEF Foreground, session, Stays
<1>2. CASE StartProcess
  BY <1>2 DEF StartProcess, session, Stays
<1>3. CASE Tick
  BY <1>3 DEF Tick, session, Stays
<1>4. CASE Draw
  BY <1>4 DEF Draw, session, Stays
<1>5. CASE UpdateApp
  BY <1>5 DEF UpdateApp, session, Stays
<1>6. CASE Pull
  BY <1>6 DEF Pull, session, Stays
<1>7. CASE TypeKey
  BY <1>7 DEF TypeKey, session, Stays
<1> QED
  BY <1>1, <1>2, <1>3, <1>4, <1>5, <1>6, <1>7 DEF Outside

LEMMA OpenSessionOpens ==
    ASSUME OpenSession
    PROVE  Opens
BY DEF OpenSession, Opens

LEMMA EditEdits ==
    ASSUME NEW line, NEW left, open, Edit(line, left)
    PROVE  Edits
BY DEF Edit, Edits

\* What a key does in a session.
LEMMA SessionChanges ==
    ASSUME Session
    PROVE  Edits \/ Cancels \/ Submits \/ Stays
<1>1. open
  BY DEF Session
<1>2. ASSUME NEW left, QuitLoop(left) PROVE Cancels
  BY <1>1, <1>2 DEF QuitLoop, Close, Cancels
<1>3. ASSUME NEW left, Backspace(left) PROVE Edits
  BY <1>1, <1>3, EditEdits DEF Backspace
<1>4. ASSUME NEW left, BackwardHistory(left) PROVE Edits \/ Stays
  <2>1. CASE histIdx - 1 < 0
    BY <1>4, <2>1 DEF BackwardHistory, Ignore, Stays
  <2>2. CASE ~(histIdx - 1 < 0)
    BY <1>1, <1>4, <2>2, EditEdits DEF BackwardHistory
  <2> QED
    BY <2>1, <2>2
<1>5. ASSUME NEW left, ForwardHistory(left) PROVE Edits \/ Stays
  <2>1. CASE histIdx + 1 > Len(hists) - 1
    BY <1>5, <2>1 DEF ForwardHistory, Ignore, Stays
  <2>2. CASE ~(histIdx + 1 > Len(hists) - 1)
    BY <1>1, <1>5, <2>2, EditEdits DEF ForwardHistory
  <2> QED
    BY <2>1, <2>2
<1>6. ASSUME NEW left, ComplementCommand(left) PROVE Edits \/ Stays
  <2>1. CASE cands = <<>>
    BY <1>6, <2>1 DEF ComplementCommand, Stays
  <2>2. CASE cands # <<>>
    BY <1>1, <1>6, <2>2, EditEdits DEF ComplementCommand
  <2> QED
    BY <2>1, <2>2
<1>7. ASSUME NEW left, Decide(left) PROVE Submits
  BY <1>1, <1>7 DEF Decide, Close, Submits
<1>8. ASSUME NEW unit, NEW left, WriteAsPrintable(unit, left) PROVE Edits \/ Stays
  BY <1>1, <1>8 DEF WriteAsPrintable, Edits, Stays
<1> QED
  BY <1>2, <1>3, <1>4, <1>5, <1>6, <1>7, <1>8 DEF Session

LEMMA LinesStep ==
    ASSUME [Next]_vars
    PROVE  Stays \/ Opens \/ Edits \/ Cancels \/ Submits
<1>1. CASE Next
  BY <1>1, OutsideStays, OpenSessionOpens, SessionChanges DEF Next
<1>2. CASE UNCHANGED vars
  BY <1>2 DEF vars, session, Stays
<1> QED
  BY <1>1, <1>2

LEMMA HistoryStep ==
    ASSUME HistoryInv, [Next]_vars
    PROVE  HistoryInv'
<1>1. CASE Stays
  BY <1>1 DEF HistoryInv, Stays
<1>2. CASE Opens
  BY <1>2, Appended DEF HistoryInv, Opens
<1>3. CASE Edits
  BY <1>3, Appended, FrontAndLast DEF HistoryInv, Edits, WithLatest
<1>4. CASE Cancels
  BY <1>4, FrontAndLast DEF HistoryInv, Cancels
<1>5. CASE Submits
  BY <1>5 DEF HistoryInv, Submits
<1> QED
  BY <1>1, <1>2, <1>3, <1>4, <1>5, LinesStep

-----------------------------------------------------------------------------
(***************************************************************************)
(* The refinement.                                                         *)
(***************************************************************************)
Kept == IF open THEN Front(hists) ELSE hists
Line == IF open THEN <<Latest>> ELSE <<>>

LEMMA LinesImplement ==
    ASSUME HistoryInv, [Next]_vars
    PROVE  [HistoryImplements!Next]_<<Kept, Line>>
<1> USE DEF HistoryImplements!Next, Kept, Line, Latest
<1>1. CASE Stays
  BY <1>1 DEF Stays
<1>2. CASE Opens
  <2>1. Front(hists') = hists /\ Last(hists') = <<>>
    BY <1>2, Appended DEF HistoryInv, Opens
  <2> QED
    BY <1>2, <2>1 DEF Opens, HistoryImplements!Open
<1>3. CASE Edits
  <2>1. Front(hists') = Front(hists)
    BY <1>3, Appended, FrontAndLast DEF HistoryInv, Edits, WithLatest
  <2> QED
    BY <1>3, <2>1 DEF Edits, HistoryImplements!Edit
<1>4. CASE Cancels
  BY <1>4 DEF Cancels, HistoryImplements!Cancel
<1>5. CASE Submits
  <2>1. hists' = Append(Front(hists), Last(hists))
    BY <1>5, FrontAndLast DEF HistoryInv, Submits
  <2> QED
    BY <1>5, <2>1 DEF Submits, HistoryImplements!Submit
<1> QED
  BY <1>1, <1>2, <1>3, <1>4, <1>5, LinesStep

\* The command line implements History: what was submitted stays in the history as it
\* was, whatever is typed, completed, copied from it, queued or executed, for all files,
\* commands, keys and applications (command_mode.cpp, hists_).
THEOREM HistoryKept == Spec => KeepsHistory
<1>1. Init => HistoryInv
  <2>1. IsSeq(<<>>)
    BY DEF IsSeq
  <2> QED
    BY <2>1 DEF Init, HistoryInv
<1>2. Init => HistoryImplements!Init
  BY DEF Init, HistoryImplements!Init
<1> QED
  BY <1>1, <1>2, HistoryStep, LinesImplement, PTL
     DEF Spec, KeepsHistory, HistoryImplements!Spec, Kept, Line
=============================================================================
