------------------------------- MODULE HubProofs -------------------------------
(***************************************************************************)
(* Proofs about the hub: whatever map commands are given, the deployed     *)
(* maps have different triggers and the last command for a trigger counts. *)
(***************************************************************************)
EXTENDS InputHub, InductionProofs, SequenceTheorems

-----------------------------------------------------------------------------
(***************************************************************************)
(* Matchers: whatever is read, a matcher keeps its command, and has one    *)
(* head for each state.                                                    *)
(***************************************************************************)
State == {"MATCHING", "ACCEPTED", "REJECTED", "ANY_ACCEPTED", "ANYNUM_MATCHING", "ANYNUM_ACCEPTED", "OVERFLOW"}
Matcher ==
    {mt \in [cmd : Command, states : Seq(State), heads : Seq(Int)] : Len(mt.states) = Len(mt.heads)}
Map == [mt : Matcher, target : Command]
Draft == [trigger : Command, target : Command]
Kept(new, mt) == new \in Matcher /\ new.cmd = mt.cmd

LEMMA PushType ==
    ASSUME NEW mt \in Matcher, NEW s \in State, NEW h \in Int
    PROVE  Kept(Push(mt, s, h), mt)
<1> DEFINE ss == Append(mt.states, s)
           hs == Append(mt.heads, h)
<1>1. /\ mt \in [cmd : Command, states : Seq(State), heads : Seq(Int)]
      /\ mt.states \in Seq(State) /\ mt.heads \in Seq(Int) /\ Len(mt.states) = Len(mt.heads)
  BY DEF Matcher
<1>2. ss \in Seq(State) /\ hs \in Seq(Int) /\ Len(ss) = Len(hs)
  BY <1>1
<1>3. Push(mt, s, h) = [[mt EXCEPT !.states = ss] EXCEPT !.heads = hs]
  BY <1>1 DEF Push
<1> HIDE DEF ss, hs
<1> DEFINE p == [[mt EXCEPT !.states = ss] EXCEPT !.heads = hs]
<1>4. p \in [cmd : Command, states : Seq(State), heads : Seq(Int)] /\ p.states = ss /\ p.heads = hs /\ p.cmd = mt.cmd
  BY <1>1, <1>2
<1>5. p \in Matcher
  BY <1>2, <1>4 DEF Matcher
<1> QED
  BY <1>3, <1>4, <1>5 DEF Kept

LEMMA RejectType ==
    ASSUME NEW mt \in Matcher
    PROVE  Kept(Reject(mt), mt)
<1>1. Len(mt.cmd) \in Int
  BY DEF Matcher, Command
<1> QED
  BY <1>1, PushType DEF Reject, State

LEMMA HeadType ==
    ASSUME NEW mt \in Matcher
    PROVE  /\ mt.heads # <<>> => Top(mt.heads) \in Int
           /\ mt.states # <<>> => mt.heads # <<>> /\ Top(mt.states) \in State
           /\ LastHead(mt) \in Int
<1>1. mt.heads \in Seq(Int) /\ mt.states \in Seq(State) /\ mt.cmd \in Seq(Unit) /\ Len(mt.states) = Len(mt.heads)
  BY DEF Matcher, Command
<1> QED
  BY <1>1 DEF Top, LastHead

LEMMA AcceptNumberType ==
    ASSUME NEW mt \in Matcher, NEW h \in Int
    PROVE  Kept(AcceptNumber(mt, h), mt)
BY PushType DEF AcceptNumber, State

LEMMA UpdateMatchingType ==
    ASSUME NEW mt \in Matcher, NEW keys
    PROVE  Kept(UpdateMatching(mt, keys), mt)
<1> DEFINE h == IF mt.heads = <<>> THEN 0 ELSE Top(mt.heads) + 1
           want == mt.cmd[h + 1].keys
<1>1. h \in Int
  BY HeadType
<1> HIDE DEF h, want
<1>2. Kept(FirstNumber(mt, keys, h), mt)
  BY <1>1, AcceptNumberType, RejectType, PushType DEF FirstNumber, State
<1>3. Kept(UpdateAny(mt, h), mt)
  BY <1>1, PushType DEF UpdateAny, State
<1>4. \A s \in State : Kept(Push(mt, s, h), mt)
  BY <1>1, PushType
<1>5. h > LastHead(mt) \/ h <= LastHead(mt)
  BY <1>1, HeadType
<1>6. CASE h > LastHead(mt)
  <2>1. UpdateMatching(mt, keys) = Reject(mt)
    BY <1>6, <1>1, HeadType DEF UpdateMatching, h, want
  <2> QED
    BY <2>1, RejectType
<1>7. CASE h <= LastHead(mt)
  <2>1. ~(h > LastHead(mt))
    BY <1>7, <1>1, HeadType
  <2>2. \/ UpdateMatching(mt, keys) = UpdateAny(mt, h)
        \/ UpdateMatching(mt, keys) = FirstNumber(mt, keys, h)
        \/ UpdateMatching(mt, keys) = Reject(mt)
        \/ \E s \in State : UpdateMatching(mt, keys) = Push(mt, s, h)
    BY <1>7, <2>1 DEF UpdateMatching, h, want, State
  <2> QED
    BY <2>2, <1>2, <1>3, <1>4, RejectType
<1> QED
  BY <1>5, <1>6, <1>7

LEMMA UpdateType ==
    ASSUME NEW mt \in Matcher, NEW keys
    PROVE  Kept(UpdateState(mt, keys), mt)
<1> DEFINE s == IF mt.states = <<>> THEN "MATCHING" ELSE Top(mt.states)
<1>1. mt.states # <<>> => Top(mt.heads) \in Int
  BY HeadType
<1>2. /\ Kept(UpdateMatching(mt, keys), mt)
      /\ Kept(Reject(mt), mt)
  BY UpdateMatchingType, RejectType
<1>0. Kept(mt, mt)
  BY DEF Kept
<1>3. CASE s \in {"MATCHING", "ACCEPTED", "REJECTED", "OVERFLOW"}
  <2>1. UpdateState(mt, keys) \in {UpdateMatching(mt, keys), Reject(mt), mt}
    BY <1>3 DEF UpdateState
  <2> QED
    BY <1>0, <1>2, <2>1
<1>4. CASE s = "ANY_ACCEPTED"
  <2>1. UpdateState(mt, keys) = UpdateAny(mt, Top(mt.heads)) /\ mt.states # <<>>
    BY <1>4 DEF UpdateState
  <2> QED
    BY <1>1, <2>1, PushType DEF UpdateAny, State
<1>5. CASE s \in {"ANYNUM_MATCHING", "ANYNUM_ACCEPTED"}
  <2>1. UpdateState(mt, keys) = MoreNumber(mt, keys) /\ mt.states # <<>>
    BY <1>5 DEF UpdateState
  <2> QED
    BY <1>1, <1>2, <2>1, AcceptNumberType DEF MoreNumber
<1>6. s \in State
  BY HeadType DEF State
<1> QED
  BY <1>3, <1>4, <1>5, <1>6 DEF State

LEMMA FreshType ==
    ASSUME NEW cmd \in Command
    PROVE  Fresh(cmd) \in Matcher /\ Fresh(cmd).cmd = cmd
BY DEF Fresh, Matcher

LEMMA ResetType ==
    ASSUME NEW mt \in Matcher
    PROVE  Kept(ResetState(mt), mt)
<1>1. mt.cmd \in Command
  BY DEF Matcher
<1>2. Kept(Fresh(mt.cmd), mt) /\ Kept(mt, mt)
  BY <1>1, FreshType DEF Kept
<1> QED
  BY <1>2 DEF ResetState

LEMMA FrontType ==
    ASSUME NEW S, NEW q \in Seq(S), q # <<>>
    PROVE  SubSeq(q, 1, Len(q) - 1) \in Seq(S) /\ Len(SubSeq(q, 1, Len(q) - 1)) = Len(q) - 1
<1> DEFINE n == Len(q) - 1
<1>1. n \in Nat /\ \A i \in 1..n : q[i] \in S
  OBVIOUS
<1> HIDE DEF n
<1>2. SubSeq(q, 1, n) \in Seq(S) /\ Len(SubSeq(q, 1, n)) = IF 1 <= n THEN n - 1 + 1 ELSE 0
  BY <1>1, SubSeqProperties
<1>3. Len(SubSeq(q, 1, n)) = n
  BY <1>1, <1>2
<1> QED
  BY <1>2, <1>3 DEF n

LEMMA BackwardType ==
    ASSUME NEW mt \in Matcher
    PROVE  Kept(BackwardState(mt), mt)
<1> DEFINE ss == SubSeq(mt.states, 1, Len(mt.states) - 1)
           hs == SubSeq(mt.heads, 1, Len(mt.heads) - 1)
           p == [[mt EXCEPT !.states = ss] EXCEPT !.heads = hs]
<1>1. /\ mt \in [cmd : Command, states : Seq(State), heads : Seq(Int)]
      /\ mt.states \in Seq(State) /\ mt.heads \in Seq(Int) /\ Len(mt.states) = Len(mt.heads)
  BY DEF Matcher
<1>2. CASE mt.states = <<>>
  BY <1>2 DEF BackwardState, Kept
<1>3. CASE mt.states # <<>>
  <2>1. mt.heads # <<>>
    BY <1>1, <1>3
  <2>2. ss \in Seq(State) /\ hs \in Seq(Int) /\ Len(ss) = Len(hs)
    BY <1>1, <1>3, <2>1, FrontType
  <2>3. BackwardState(mt) = p
    BY <1>1, <1>3 DEF BackwardState
  <2> HIDE DEF ss, hs
  <2>4. p \in [cmd : Command, states : Seq(State), heads : Seq(Int)] /\ p.states = ss /\ p.heads = hs /\ p.cmd = mt.cmd
    BY <1>1, <2>2
  <2>5. p \in Matcher
    BY <2>2, <2>4 DEF Matcher
  <2> QED
    BY <2>3, <2>4, <2>5 DEF Kept
<1> QED
  BY <1>2, <1>3

-----------------------------------------------------------------------------
(***************************************************************************)
(* Tables: whatever is read, triggers and targets stay.                    *)
(***************************************************************************)
Alike(new, old) ==
    /\ new \in Seq(Map) /\ Len(new) = Len(old)
    /\ \A i \in 1..Len(old) : Trigger(new[i]) = Trigger(old[i]) /\ new[i].target = old[i].target

With(m, mt) == [m EXCEPT !.mt = mt]

LEMMA WithType ==
    ASSUME NEW m \in Map, NEW mt \in Matcher
    PROVE  With(m, mt) \in Map /\ With(m, mt).mt = mt /\ With(m, mt).target = m.target
BY DEF With, Map

LEMMA AlikeItself ==
    ASSUME NEW maps \in Seq(Map)
    PROVE  Alike(maps, maps)
BY DEF Alike

LEMMA AlikeTransitive ==
    ASSUME NEW a, NEW b, NEW c, Alike(a, b), Alike(b, c)
    PROVE  Alike(a, c)
BY DEF Alike

LEMMA EntryType ==
    ASSUME NEW maps \in Seq(Map), NEW i \in 1..Len(maps)
    PROVE  maps[i] \in Map /\ maps[i].mt \in Matcher /\ maps[i].target \in Command /\ Trigger(maps[i]) \in Command
<1>1. maps[i] \in Map
  OBVIOUS
<1>2. maps[i].mt \in Matcher /\ maps[i].target \in Command
  BY <1>1 DEF Map
<1> QED
  BY <1>1, <1>2 DEF Trigger, Matcher

LEMMA EachAlike ==
    ASSUME NEW maps \in Seq(Map), NEW mts, \A i \in 1..Len(maps) : Kept(mts[i], maps[i].mt)
    PROVE  Alike([i \in DOMAIN maps |-> With(maps[i], mts[i])], maps)
<1> DEFINE new == [i \in DOMAIN maps |-> With(maps[i], mts[i])]
<1>1. DOMAIN maps = 1..Len(maps) /\ Len(maps) \in Nat /\ \A i \in 1..Len(maps) : maps[i] \in Map
  OBVIOUS
<1>2. \A i \in 1..Len(maps) : /\ With(maps[i], mts[i]) \in Map /\ With(maps[i], mts[i]).mt = mts[i]
                              /\ With(maps[i], mts[i]).target = maps[i].target /\ mts[i].cmd = maps[i].mt.cmd
  BY <1>1, WithType DEF Kept
<1>3. new \in [1..Len(maps) -> Map]
  BY <1>1, <1>2
<1>4. new \in Seq(Map) /\ Len(new) = Len(maps)
  BY <1>1, <1>3
<1> QED
  BY <1>1, <1>2, <1>4 DEF Alike, Trigger

LEMMA UpdateAllAlike ==
    ASSUME NEW maps \in Seq(Map), NEW keys
    PROVE  Alike(UpdateAll(maps, keys), maps)
<1> DEFINE mts == [i \in DOMAIN maps |-> UpdateState(maps[i].mt, keys)]
<1>1. \A i \in 1..Len(maps) : maps[i].mt \in Matcher
  BY EntryType
<1>2. \A i \in 1..Len(maps) : Kept(mts[i], maps[i].mt)
  BY <1>1, UpdateType
<1>3. UpdateAll(maps, keys) = [i \in DOMAIN maps |-> With(maps[i], mts[i])]
  BY DEF UpdateAll, With
<1> HIDE DEF mts
<1> QED
  BY <1>2, <1>3, EachAlike

LEMMA ResetAllAlike ==
    ASSUME NEW maps \in Seq(Map)
    PROVE  Alike(ResetAll(maps), maps)
<1> DEFINE mts == [i \in DOMAIN maps |-> ResetState(maps[i].mt)]
<1>1. \A i \in 1..Len(maps) : maps[i].mt \in Matcher
  BY EntryType
<1>2. \A i \in 1..Len(maps) : Kept(mts[i], maps[i].mt)
  BY <1>1, ResetType
<1>3. ResetAll(maps) = [i \in DOMAIN maps |-> With(maps[i], mts[i])]
  BY DEF ResetAll, With
<1> HIDE DEF mts
<1> QED
  BY <1>2, <1>3, EachAlike

LEMMA BackwardAlike ==
    ASSUME NEW maps \in Seq(Map)
    PROVE  Alike([i \in DOMAIN maps |-> [maps[i] EXCEPT !.mt = BackwardState(@)]], maps)
<1> DEFINE mts == [i \in DOMAIN maps |-> BackwardState(maps[i].mt)]
<1>1. \A i \in 1..Len(maps) : maps[i].mt \in Matcher
  BY EntryType
<1>2. \A i \in 1..Len(maps) : Kept(mts[i], maps[i].mt)
  BY <1>1, BackwardType
<1>3. [i \in DOMAIN maps |-> [maps[i] EXCEPT !.mt = BackwardState(@)]] = [i \in DOMAIN maps |-> With(maps[i], mts[i])]
  BY DEF With
<1> HIDE DEF mts
<1> QED
  BY <1>2, <1>3, EachAlike

LEMMA WinnerType ==
    ASSUME NEW maps \in Seq(Map), NEW keys
    PROVE  /\ Winner(maps, keys) # 0 => Winner(maps, keys) \in 1..Len(maps)
           /\ keys = {} => Winner(maps, keys) = 0
<1> DEFINE acc == {i \in DOMAIN maps : IsAccepted(maps[i].mt) /\ keys # {}}
<1>1. acc \in SUBSET Nat /\ acc \subseteq 1..Len(maps)
  OBVIOUS
<1>2. keys = {} => acc = {}
  OBVIOUS
<1>3. Winner(maps, keys) = IF acc = {} THEN 0 ELSE Min(acc)
  BY DEF Winner
<1> HIDE DEF acc
<1>4. acc # {} => Min(acc) \in acc
  <2> SUFFICES ASSUME acc # {} PROVE Min(acc) \in acc
    OBVIOUS
  <2>1. \E x \in acc : \A y \in acc : x <= y
    BY <1>1, Least
  <2> QED
    BY <2>1 DEF Min
<1> QED
  BY <1>1, <1>2, <1>3, <1>4

LEMMA MappedAlike ==
    ASSUME NEW s \in Seq(Map), NEW keys, NEW auto_reset \in BOOLEAN
    PROVE  Alike(Mapped(s, keys, auto_reset).maps, s) /\ Mapped(s, keys, auto_reset).cmd \in Command
<1> DEFINE w == Winner(s, keys)
           after == IF auto_reset THEN ResetAll(s) ELSE s
           back == [i \in DOMAIN s |-> [s[i] EXCEPT !.mt = BackwardState(@)]]
<1>1. Alike(back, s) /\ Alike(after, s) /\ Alike(s, s)
  BY BackwardAlike, ResetAllAlike, AlikeItself
<1>2. <<>> \in Command
  BY DEF Command
<1>3. w # 0 => s[w].target \in Command
  BY WinnerType, EntryType
<1>4. Mapped(s, keys, auto_reset) =
        CASE AllRejected(s) /\ keys \cap Char = {} -> [maps |-> back, cmd |-> <<>>]
          [] AllRejected(s) /\ keys \cap Char # {} -> [maps |-> after, cmd |-> <<>>]
          [] ~AllRejected(s) /\ w = 0 -> [maps |-> s, cmd |-> <<>>]
          [] OTHER -> [maps |-> after, cmd |-> s[w].target]
  BY DEF Mapped
<1> HIDE DEF back, after, w
<1>5. \/ Mapped(s, keys, auto_reset) \in {[maps |-> back, cmd |-> <<>>], [maps |-> after, cmd |-> <<>>], [maps |-> s, cmd |-> <<>>]}
      \/ Mapped(s, keys, auto_reset) = [maps |-> after, cmd |-> s[w].target] /\ w # 0
  BY <1>4
<1> QED
  BY <1>1, <1>2, <1>3, <1>5

LEMMA MapCommandAlike ==
    ASSUME NEW maps \in Seq(Map), NEW keys, NEW auto_reset \in BOOLEAN
    PROVE  /\ Alike(MapCommandFrom(maps, keys, auto_reset).maps, maps)
           /\ MapCommandFrom(maps, keys, auto_reset).cmd \in Command
<1> DEFINE s == UpdateAll(maps, keys)
<1>1. Alike(s, maps) /\ s \in Seq(Map)
  BY UpdateAllAlike DEF Alike
<1>2. MapCommandFrom(maps, keys, auto_reset) = Mapped(s, keys, auto_reset)
  BY DEF MapCommandFrom
<1> HIDE DEF s
<1> QED
  BY <1>1, <1>2, MappedAlike, AlikeTransitive

-----------------------------------------------------------------------------
(***************************************************************************)
(* Sequences that are read from the front.                                 *)
(***************************************************************************)
LEMMA FeedAlike ==
    ASSUME NEW maps \in Seq(Map), NEW unit
    PROVE  Alike(Feed(maps, unit), maps)
BY MapCommandAlike, AlikeItself DEF Feed

LEMMA FeedAllAlike ==
    ASSUME NEW maps \in Seq(Map), NEW cmd \in Command
    PROVE  Alike(FeedAll(maps, cmd), maps)
<1> DEFINE N == Len(cmd)
           Reads(g) == g = [n \in 0..N |-> IF n = 0 THEN maps ELSE Feed(g[n - 1], cmd[n])]
           F == [p \in Seq(Map) \X (1..N) |-> Feed(p[1], cmd[p[2]])]
           after == CHOOSE g : Reads(g)
<1>1. N \in Nat
  BY DEF Command
<1>2. FeedAll(maps, cmd) = after[N]
  BY DEF FeedAll
<1>3. Reads(after)
  <2>1. F \in [Seq(Map) \X (1..N) -> Seq(Map)]
    <3>1. \A p \in Seq(Map) \X (1..N) : Feed(p[1], cmd[p[2]]) \in Seq(Map)
      BY FeedAlike DEF Alike
    <3> QED
      BY <3>1
  <2> HIDE DEF N
  <2>2. \A q \in Seq(Map), n \in 1..N : F[<<q, n>>] = Feed(q, cmd[n])
    OBVIOUS
  <2> HIDE DEF F
  <2>3. PICK g : Becomes(g, Seq(Map), N, F, maps)
    BY <1>1, <2>1, Folding
  <2>4. /\ g \in [0..N -> Seq(Map)] /\ g[0] = maps
        /\ \A n \in 1..N : g[n - 1] \in Seq(Map) /\ g[n] = F[<<g[n - 1], n>>]
    BY <1>1, <2>3 DEF Becomes
  <2>5. ASSUME NEW n \in 0..N PROVE g[n] = IF n = 0 THEN maps ELSE Feed(g[n - 1], cmd[n])
    <3>1. CASE n = 0
      BY <2>4, <3>1
    <3>2. CASE n # 0
      <4>1. n \in 1..N
        BY <1>1, <3>2
      <4>2. g[n - 1] \in Seq(Map) /\ g[n] = F[<<g[n - 1], n>>]
        BY <2>4, <4>1
      <4> QED
        BY <2>2, <3>2, <4>1, <4>2
    <3> QED
      BY <3>1, <3>2
  <2>6. Reads(g)
    BY <2>4, <2>5
  <2> QED
    BY <2>6
<1> HIDE DEF after
<1>4. after[0] = maps /\ \A n \in 1..N : after[n] = Feed(after[n - 1], cmd[n])
  BY <1>1, <1>3
<1> DEFINE T == {n \in 0..N : Alike(after[n], maps)}
<1>5. 0 \in T
  BY <1>1, <1>4, AlikeItself
<1>6. ASSUME NEW n \in 1..N, n - 1 \in T PROVE n \in T
  <2>1. Alike(after[n - 1], maps) /\ after[n - 1] \in Seq(Map)
    BY <1>6 DEF Alike
  <2>2. Alike(after[n], after[n - 1])
    BY <1>4, <2>1, FeedAlike
  <2>3. Alike(after[n], maps)
    BY <2>1, <2>2, AlikeTransitive
  <2> QED
    BY <2>3
<1> HIDE DEF T, N
<1>7. N \in T
  <2>1. 0..N \subseteq T
    BY <1>1, <1>5, <1>6, Upwards
  <2> QED
    BY <1>1, <2>1
<1> QED
  BY <1>2, <1>7 DEF T

-----------------------------------------------------------------------------
(***************************************************************************)
(* Entries of a sequence.                                                  *)
(***************************************************************************)
Taken(at, S, n) == \E w \in S : Cardinality(Upto(at, S, w)) = n

LEMMA PlaceTaken ==
    ASSUME NEW S, IsFiniteSet(S), NEW at, \A w \in S : at[w] \in Int,
           \A v, w \in S : at[v] = at[w] => v = w, NEW n \in 1..Cardinality(S)
    PROVE  Taken(at, S, n)
BY PlacesInOrder DEF Taken

\* The place of i among the places.
Rank(places, i) == Cardinality({j \in places : j <= i})

LEMMA Places ==
    ASSUME NEW N \in Nat, NEW places \in SUBSET (1..N)
    PROVE  /\ Cardinality(places) \in Nat
           /\ \A n \in 1..Cardinality(places) :
                \E i \in places : Rank(places, i) = n
           /\ \A i \in places : Rank(places, i) \in 1..Cardinality(places)
<1> DEFINE at == [i \in places |-> i]
<1>1. IsFiniteSet(places)
  <2>1. IsFiniteSet(1..N)
    BY FS_Interval
  <2> QED
    BY <2>1, FS_Subset
<1>2. (\A w \in places : at[w] \in Int) /\ \A v, w \in places : at[v] = at[w] => v = w
  OBVIOUS
<1>3. \A i \in places : Cardinality(Upto(at, places, i)) = Rank(places, i)
  <2>1. \A i \in places : Upto(at, places, i) = {j \in places : j <= i}
    BY DEF Upto
  <2> QED
    BY <2>1 DEF Rank
<1> HIDE DEF at
<1>4. /\ Cardinality(places) \in Nat
      /\ \A i \in places : Cardinality(Upto(at, places, i)) \in 1..Cardinality(places)
  BY <1>1, <1>2, PlacesInOrder
<1>5. ASSUME NEW n \in 1..Cardinality(places)
      PROVE  \E i \in places : Cardinality(Upto(at, places, i)) = n
  <2>1. Taken(at, places, n)
    BY <1>1, <1>2, PlaceTaken
  <2> QED
    BY <2>1 DEF Taken
<1> QED
  BY <1>3, <1>4, <1>5

LEMMA PlacesApart ==
    ASSUME NEW N \in Nat, NEW places \in SUBSET (1..N), NEW i \in places, NEW k \in places,
           Rank(places, i) = Rank(places, k)
    PROVE  i = k
<1> DEFINE at == [j \in places |-> j]
<1>1. IsFiniteSet(places)
  <2>1. IsFiniteSet(1..N)
    BY FS_Interval
  <2> QED
    BY <2>1, FS_Subset
<1>2. (\A w \in places : at[w] \in Int) /\ \A v, w \in places : at[v] = at[w] => v = w
  OBVIOUS
<1>3. \A j \in places : Cardinality(Upto(at, places, j)) = Rank(places, j)
  <2>1. \A j \in places : Upto(at, places, j) = {m \in places : m <= j}
    BY DEF Upto
  <2> QED
    BY <2>1 DEF Rank
<1> HIDE DEF at
<1>4. \A v, w \in places : Cardinality(Upto(at, places, v)) = Cardinality(Upto(at, places, w)) => v = w
  BY <1>1, <1>2, PlacesInOrder
<1>5. Cardinality(Upto(at, places, i)) = Cardinality(Upto(at, places, k))
  BY <1>3
<1> QED
  BY <1>4, <1>5

\* Where the n-th entry comes from.
Nth(places, n) == CHOOSE i \in places : Rank(places, i) = n

LEMMA NthIs ==
    ASSUME NEW N \in Nat, NEW places \in SUBSET (1..N), NEW n \in 1..Cardinality(places)
    PROVE  Nth(places, n) \in places /\ Rank(places, Nth(places, n)) = n
<1>1. \E i \in places : Rank(places, i) = n
  BY Places
<1> QED
  BY <1>1 DEF Nth

LEMMA EntriesAre ==
    ASSUME NEW S, NEW seq \in Seq(S), NEW places \in SUBSET (1..Len(seq))
    PROVE  /\ Entries(seq, places) \in Seq(S)
           /\ \A n \in DOMAIN Entries(seq, places) :
                Nth(places, n) \in places /\ Entries(seq, places)[n] = seq[Nth(places, n)]
           /\ \A m, n \in DOMAIN Entries(seq, places) : Nth(places, m) = Nth(places, n) => m = n
           /\ \A i \in places : \E n \in DOMAIN Entries(seq, places) : Entries(seq, places)[n] = seq[i]
<1> DEFINE c == Cardinality(places)
           E == [n \in 1..c |-> seq[Nth(places, n)]]
<1>1. Len(seq) \in Nat /\ \A i \in 1..Len(seq) : seq[i] \in S
  OBVIOUS
<1>2. c \in Nat
  BY <1>1, Places
<1>3. Entries(seq, places) = E
  BY DEF Entries, Nth, Rank
<1>4. ASSUME NEW n \in 1..c PROVE Nth(places, n) \in places /\ Rank(places, Nth(places, n)) = n
  BY <1>1, NthIs
<1>5. E \in [1..c -> S]
  BY <1>1, <1>4
<1>6. E \in Seq(S) /\ DOMAIN E = 1..c
  BY <1>2, <1>5
<1>7. ASSUME NEW m \in 1..c, NEW n \in 1..c, Nth(places, m) = Nth(places, n) PROVE m = n
  BY <1>4, <1>7
<1>8. ASSUME NEW i \in places PROVE \E n \in 1..c : E[n] = seq[i]
  <2> DEFINE n == Rank(places, i)
  <2>1. n \in 1..c
    BY <1>1, Places
  <2>2. Nth(places, n) \in places /\ Rank(places, Nth(places, n)) = n
    BY <1>4, <2>1
  <2>3. Nth(places, n) = i
    BY <1>1, <2>2, PlacesApart
  <2>4. E[n] = seq[i]
    BY <2>1, <2>3
  <2> QED
    BY <2>1, <2>4
<1>9. \A n \in DOMAIN E : Nth(places, n) \in places /\ E[n] = seq[Nth(places, n)]
  BY <1>4, <1>6
<1> HIDE DEF E, c
<1> QED
  BY <1>3, <1>6, <1>7, <1>8, <1>9

LEMMA EntriesSet ==
    ASSUME NEW S, NEW seq \in Seq(S), NEW places \in SUBSET (1..Len(seq))
    PROVE  ToSet(Entries(seq, places)) = {seq[i] : i \in places}
<1> DEFINE E == Entries(seq, places)
<1>1. \A n \in DOMAIN E : Nth(places, n) \in places /\ E[n] = seq[Nth(places, n)]
  BY EntriesAre
<1>2. \A i \in places : \E n \in DOMAIN E : E[n] = seq[i]
  BY EntriesAre
<1> HIDE DEF E
<1>3. ToSet(E) = {E[n] : n \in DOMAIN E}
  BY DEF ToSet
<1>4. ASSUME NEW e PROVE e \in ToSet(E) <=> e \in {seq[i] : i \in places}
  <2>1. ASSUME e \in ToSet(E) PROVE e \in {seq[i] : i \in places}
    <3>1. PICK n \in DOMAIN E : e = E[n]
      BY <1>3, <2>1
    <3>2. Nth(places, n) \in places /\ e = seq[Nth(places, n)]
      BY <1>1, <3>1
    <3> QED
      BY <3>2
  <2>2. ASSUME e \in {seq[i] : i \in places} PROVE e \in ToSet(E)
    <3>1. PICK i \in places : e = seq[i]
      BY <2>2
    <3>2. PICK n \in DOMAIN E : E[n] = seq[i]
      BY <1>2, <3>1
    <3> QED
      BY <1>3, <3>1, <3>2
  <2> QED
    BY <2>1, <2>2
<1> QED
  BY <1>4 DEF E

-----------------------------------------------------------------------------
(***************************************************************************)
(* Triggers: no two maps of a table have the same.                         *)
(***************************************************************************)
LEMMA SameItself ==
    ASSUME NEW c \in Command
    PROVE  SameCommand(c, c)
BY DEF SameCommand

LEMMA SameSymmetric ==
    ASSUME NEW c \in Command, NEW d \in Command, SameCommand(c, d)
    PROVE  SameCommand(d, c)
BY DEF SameCommand, Command

LEMMA SameTransitive ==
    ASSUME NEW c \in Command, NEW d \in Command, NEW e \in Command, SameCommand(c, d), SameCommand(d, e)
    PROVE  SameCommand(c, e)
BY DEF SameCommand, Command

Apart(maps) ==
    \A i, j \in 1..Len(maps) : SameCommand(Trigger(maps[i]), Trigger(maps[j])) => i = j
DraftsApart(drafts) ==
    \A i, j \in 1..Len(drafts) : SameCommand(drafts[i].trigger, drafts[j].trigger) => i = j

LEMMA AlikeApart ==
    ASSUME NEW new, NEW old, Alike(new, old), Apart(old)
    PROVE  Apart(new)
BY DEF Alike, Apart

LEMMA EntriesApart ==
    ASSUME NEW maps \in Seq(Map), NEW places \in SUBSET (1..Len(maps)), Apart(maps)
    PROVE  Apart(Entries(maps, places))
<1> DEFINE E == Entries(maps, places)
<1>1. /\ E \in Seq(Map)
      /\ \A n \in DOMAIN E : Nth(places, n) \in places /\ E[n] = maps[Nth(places, n)]
      /\ \A m, n \in DOMAIN E : Nth(places, m) = Nth(places, n) => m = n
  BY EntriesAre
<1> HIDE DEF E
<1>2. DOMAIN E = 1..Len(E)
  BY <1>1
<1>3. ASSUME NEW m \in 1..Len(E), NEW n \in 1..Len(E), SameCommand(Trigger(E[m]), Trigger(E[n]))
      PROVE  m = n
  <2>1. /\ Nth(places, m) \in 1..Len(maps) /\ E[m] = maps[Nth(places, m)]
        /\ Nth(places, n) \in 1..Len(maps) /\ E[n] = maps[Nth(places, n)]
    BY <1>1, <1>2
  <2>2. Nth(places, m) = Nth(places, n)
    BY <1>3, <2>1 DEF Apart
  <2> QED
    BY <1>1, <1>2, <2>2
<1>4. Apart(E)
  BY <1>3 DEF Apart
<1> QED
  BY <1>4 DEF E

LEMMA DraftEntriesApart ==
    ASSUME NEW drafts \in Seq(Draft), NEW places \in SUBSET (1..Len(drafts)), DraftsApart(drafts)
    PROVE  DraftsApart(Entries(drafts, places))
<1> DEFINE E == Entries(drafts, places)
<1>1. /\ E \in Seq(Draft)
      /\ \A n \in DOMAIN E : Nth(places, n) \in places /\ E[n] = drafts[Nth(places, n)]
      /\ \A m, n \in DOMAIN E : Nth(places, m) = Nth(places, n) => m = n
  BY EntriesAre
<1> HIDE DEF E
<1>2. DOMAIN E = 1..Len(E)
  BY <1>1
<1>3. ASSUME NEW m \in 1..Len(E), NEW n \in 1..Len(E), SameCommand(E[m].trigger, E[n].trigger)
      PROVE  m = n
  <2>1. /\ Nth(places, m) \in 1..Len(drafts) /\ E[m] = drafts[Nth(places, m)]
        /\ Nth(places, n) \in 1..Len(drafts) /\ E[n] = drafts[Nth(places, n)]
    BY <1>1, <1>2
  <2>2. Nth(places, m) = Nth(places, n)
    BY <1>3, <2>1 DEF DraftsApart
  <2> QED
    BY <1>1, <1>2, <2>2
<1>4. DraftsApart(E)
  BY <1>3 DEF DraftsApart
<1> QED
  BY <1>4 DEF E

LEMMA WithoutTriggerIs ==
    ASSUME NEW maps \in Seq(Map), NEW cmd \in Command
    PROVE  /\ WithoutTrigger(maps, cmd) \in Seq(Map)
           /\ ToSet(WithoutTrigger(maps, cmd)) = {m \in ToSet(maps) : ~SameCommand(Trigger(m), cmd)}
           /\ Apart(maps) => Apart(WithoutTrigger(maps, cmd))
<1> DEFINE places == {i \in DOMAIN maps : ~SameCommand(Trigger(maps[i]), cmd)}
           W == Entries(maps, places)
<1>1. places \in SUBSET (1..Len(maps)) /\ WithoutTrigger(maps, cmd) = W
  BY DEF WithoutTrigger
<1>2. ToSet(maps) = {maps[i] : i \in DOMAIN maps}
  BY DEF ToSet
<1>3. {maps[i] : i \in places} = {m \in ToSet(maps) : ~SameCommand(Trigger(m), cmd)}
  BY <1>2
<1> HIDE DEF places
<1>4. W \in Seq(Map)
  BY <1>1, EntriesAre
<1>5. ToSet(W) = {maps[i] : i \in places}
  BY <1>1, EntriesSet
<1>6. Apart(maps) => Apart(W)
  BY <1>1, EntriesApart
<1> QED
  BY <1>1, <1>3, <1>4, <1>5, <1>6

LEMMA WithoutIs ==
    ASSUME NEW drafts \in Seq(Draft), NEW cmd \in Command
    PROVE  /\ Without(drafts, cmd) \in Seq(Draft)
           /\ ToSet(Without(drafts, cmd)) = {m \in ToSet(drafts) : ~SameCommand(m.trigger, cmd)}
           /\ DraftsApart(drafts) => DraftsApart(Without(drafts, cmd))
<1> DEFINE places == {i \in DOMAIN drafts : ~SameCommand(drafts[i].trigger, cmd)}
           W == Entries(drafts, places)
<1>1. places \in SUBSET (1..Len(drafts)) /\ Without(drafts, cmd) = W
  BY DEF Without
<1>2. ToSet(drafts) = {drafts[i] : i \in DOMAIN drafts}
  BY DEF ToSet
<1>3. {drafts[i] : i \in places} = {m \in ToSet(drafts) : ~SameCommand(m.trigger, cmd)}
  BY <1>2
<1> HIDE DEF places
<1>4. W \in Seq(Draft)
  BY <1>1, EntriesAre
<1>5. ToSet(W) = {drafts[i] : i \in places}
  BY <1>1, EntriesSet
<1>6. DraftsApart(drafts) => DraftsApart(W)
  BY <1>1, DraftEntriesApart
<1> QED
  BY <1>1, <1>3, <1>4, <1>5, <1>6


LEMMA MatchingType ==
    ASSUME NEW map \in Draft
    PROVE  Matching(map) \in Map /\ Trigger(Matching(map)) = map.trigger /\ Matching(map).target = map.target
<1>1. map.trigger \in Command /\ map.target \in Command
  BY DEF Draft
<1>2. Fresh(map.trigger) \in Matcher /\ Fresh(map.trigger).cmd = map.trigger
  BY <1>1, FreshType
<1> QED
  BY <1>1, <1>2 DEF Matching, Map, Trigger

LEMMA AppendedSet ==
    ASSUME NEW S, NEW seq \in Seq(S), NEW x \in S
    PROVE  ToSet(Append(seq, x)) = ToSet(seq) \cup {x}
<1> DEFINE A == Append(seq, x)
<1>1. Len(A) = Len(seq) + 1 /\ A[Len(seq) + 1] = x /\ \A i \in 1..Len(seq) : A[i] = seq[i]
  OBVIOUS
<1>2. Len(seq) \in Nat /\ DOMAIN A = 1..Len(seq) + 1 /\ DOMAIN seq = 1..Len(seq)
  OBVIOUS
<1> HIDE DEF A
<1>3. {A[i] : i \in DOMAIN A} = {seq[i] : i \in DOMAIN seq} \cup {x}
  BY <1>1, <1>2
<1> QED
  BY <1>3 DEF ToSet, A

LEMMA OverwrittenIs ==
    ASSUME NEW maps \in Seq(Map), NEW map \in Draft
    PROVE  /\ Overwritten(maps, map) \in Seq(Map)
           /\ ToSet(Overwritten(maps, map)) =
                {m \in ToSet(maps) : ~SameCommand(Trigger(m), map.trigger)} \cup {Matching(map)}
           /\ Apart(maps) => Apart(Overwritten(maps, map))
<1> DEFINE W == WithoutTrigger(maps, map.trigger)
           x == Matching(map)
           A == Append(W, x)
<1>1. map.trigger \in Command
  BY DEF Draft
<1>0. W \in Seq(Map) /\ (Apart(maps) => Apart(W))
  BY <1>1, WithoutTriggerIs
<1>2. ToSet(W) = {m \in ToSet(maps) : ~SameCommand(Trigger(m), map.trigger)}
  BY <1>1, WithoutTriggerIs
<1>3. x \in Map /\ Trigger(x) = map.trigger
  BY MatchingType
<1>4. Overwritten(maps, map) = A
  BY DEF Overwritten
<1>5. ASSUME NEW i \in 1..Len(W) PROVE ~SameCommand(Trigger(W[i]), Trigger(x))
  <2>1. W[i] \in ToSet(W)
    BY <1>0 DEF ToSet
  <2> QED
    BY <2>1, <1>2, <1>3
<1> HIDE DEF W, x
<1>6. A \in Seq(Map) /\ ToSet(A) = ToSet(W) \cup {x}
  <2>1. A \in Seq(Map)
    BY <1>0, <1>3
  <2>2. ToSet(A) = ToSet(W) \cup {x}
    BY <1>0, <1>3, AppendedSet
  <2> QED
    BY <2>1, <2>2
<1>7. ASSUME Apart(W) PROVE Apart(A)
  <2>1. Len(W) \in Nat /\ Len(A) = Len(W) + 1 /\ A[Len(W) + 1] = x /\ \A i \in 1..Len(W) : A[i] = W[i]
    BY <1>0, <1>3
  <2>2. ASSUME NEW i \in 1..Len(W) PROVE Trigger(W[i]) \in Command
    BY <1>0, EntryType
  <2>3. \A i \in 1..Len(W) : ~SameCommand(Trigger(x), Trigger(W[i]))
    BY <1>1, <1>3, <1>5, <2>2, SameSymmetric
  <2>4. ASSUME NEW i \in 1..Len(A), NEW j \in 1..Len(A), SameCommand(Trigger(A[i]), Trigger(A[j]))
        PROVE  i = j
    <3>1. (i \in 1..Len(W) \/ i = Len(W) + 1) /\ (j \in 1..Len(W) \/ j = Len(W) + 1)
      BY <2>1
    <3>2. CASE i \in 1..Len(W) /\ j \in 1..Len(W)
      BY <1>7, <2>1, <2>4, <3>2 DEF Apart
    <3>3. CASE i \in 1..Len(W) /\ j = Len(W) + 1
      BY <1>5, <2>1, <2>4, <3>3
    <3>4. CASE i = Len(W) + 1 /\ j \in 1..Len(W)
      BY <2>1, <2>3, <2>4, <3>4
    <3> QED
      BY <3>1, <3>2, <3>3, <3>4
  <2> QED
    BY <2>4 DEF Apart
<1> HIDE DEF A
<1>8. ToSet(A) = {m \in ToSet(maps) : ~SameCommand(Trigger(m), map.trigger)} \cup {x}
  BY <1>2, <1>6
<1> QED
  BY <1>0, <1>4, <1>6, <1>7, <1>8 DEF x

\* What is overwritten by the first n of the new maps.
OverwrittenSo(result, maps, news, n) ==
    /\ result \in Seq(Map) /\ Apart(result)
    /\ \A m \in ToSet(maps) :
          (\A k \in 1..n : ~SameCommand(Trigger(m), news[k].trigger)) => m \in ToSet(result)
    /\ \A k \in 1..n : Matching(news[k]) \in ToSet(result)

LEMMA OverwrittenNext ==
    ASSUME NEW maps, NEW news \in Seq(Draft), DraftsApart(news), NEW n \in 1..Len(news), NEW before,
           OverwrittenSo(before, maps, news, n - 1)
    PROVE  OverwrittenSo(Overwritten(before, news[n]), maps, news, n)
<1> DEFINE map == news[n]
           R == Overwritten(before, map)
<1>1. Len(news) \in Nat /\ n \in Nat /\ map \in Draft /\ \A k \in 1..n : news[k] \in Draft
  OBVIOUS
<1>2. before \in Seq(Map) /\ Apart(before)
  BY DEF OverwrittenSo
<1> HIDE DEF map
<1>3. /\ R \in Seq(Map) /\ Apart(R)
      /\ ToSet(R) = {m \in ToSet(before) : ~SameCommand(Trigger(m), map.trigger)} \cup {Matching(map)}
  BY <1>1, <1>2, OverwrittenIs
<1> HIDE DEF R
<1>4. ASSUME NEW m \in ToSet(maps), \A k \in 1..n : ~SameCommand(Trigger(m), news[k].trigger)
      PROVE  m \in ToSet(R)
  <2>1. \A k \in 1..n - 1 : ~SameCommand(Trigger(m), news[k].trigger)
    BY <1>1, <1>4
  <2>2. m \in ToSet(before)
    BY <2>1 DEF OverwrittenSo
  <2>3. ~SameCommand(Trigger(m), map.trigger)
    BY <1>1, <1>4 DEF map
  <2> QED
    BY <1>3, <2>2, <2>3
<1>5. ASSUME NEW k \in 1..n PROVE Matching(news[k]) \in ToSet(R)
  <2>1. CASE k = n
    BY <1>3, <2>1 DEF map
  <2>2. CASE k # n
    <3>1. k \in 1..n - 1
      BY <1>1, <2>2
    <3>2. Matching(news[k]) \in ToSet(before)
      BY <3>1 DEF OverwrittenSo
    <3>3. Trigger(Matching(news[k])) = news[k].trigger
      BY <1>1, MatchingType
    <3>4. ~SameCommand(news[k].trigger, map.trigger)
      BY <1>1, <2>2 DEF DraftsApart, map
    <3> QED
      BY <1>3, <3>2, <3>3, <3>4
  <2> QED
    BY <2>1, <2>2
<1>6. OverwrittenSo(R, maps, news, n)
  BY <1>3, <1>4, <1>5 DEF OverwrittenSo
<1> QED
  BY <1>6 DEF R, map

LEMMA OverwrittenByIs ==
    ASSUME NEW maps \in Seq(Map), Apart(maps), NEW news \in Seq(Draft), DraftsApart(news)
    PROVE  OverwrittenSo(OverwrittenBy(maps, news), maps, news, Len(news))
<1> DEFINE N == Len(news)
           Reads(g) == g = [n \in 0..N |-> IF n = 0 THEN maps ELSE Overwritten(g[n - 1], news[n])]
           F == [p \in Seq(Map) \X (1..N) |-> Overwritten(p[1], news[p[2]])]
           after == CHOOSE g : Reads(g)
<1>1. N \in Nat /\ \A n \in 1..N : news[n] \in Draft
  OBVIOUS
<1>2. OverwrittenBy(maps, news) = after[N]
  BY DEF OverwrittenBy
<1>3. Reads(after)
  <2>1. F \in [Seq(Map) \X (1..N) -> Seq(Map)]
    <3>1. \A p \in Seq(Map) \X (1..N) : Overwritten(p[1], news[p[2]]) \in Seq(Map)
      BY <1>1, OverwrittenIs
    <3> QED
      BY <3>1
  <2> HIDE DEF N
  <2>2. \A q \in Seq(Map), n \in 1..N : F[<<q, n>>] = Overwritten(q, news[n])
    OBVIOUS
  <2> HIDE DEF F
  <2>3. PICK g : Becomes(g, Seq(Map), N, F, maps)
    BY <1>1, <2>1, Folding
  <2>4. /\ g \in [0..N -> Seq(Map)] /\ g[0] = maps
        /\ \A n \in 1..N : g[n - 1] \in Seq(Map) /\ g[n] = F[<<g[n - 1], n>>]
    BY <1>1, <2>3 DEF Becomes
  <2>5. ASSUME NEW n \in 0..N PROVE g[n] = IF n = 0 THEN maps ELSE Overwritten(g[n - 1], news[n])
    <3>1. CASE n = 0
      BY <2>4, <3>1
    <3>2. CASE n # 0
      <4>1. n \in 1..N
        BY <1>1, <3>2
      <4>2. g[n - 1] \in Seq(Map) /\ g[n] = F[<<g[n - 1], n>>]
        BY <2>4, <4>1
      <4> QED
        BY <2>2, <3>2, <4>1, <4>2
    <3> QED
      BY <3>1, <3>2
  <2>6. Reads(g)
    BY <2>4, <2>5
  <2> QED
    BY <2>6
<1> HIDE DEF after
<1>4. after[0] = maps /\ \A n \in 1..N : after[n] = Overwritten(after[n - 1], news[n])
  BY <1>1, <1>3
<1> DEFINE T == {n \in 0..N : OverwrittenSo(after[n], maps, news, n)}
<1>5. 0 \in T
  BY <1>1, <1>4 DEF OverwrittenSo
<1>6. ASSUME NEW n \in 1..N, n - 1 \in T PROVE n \in T
  BY <1>1, <1>4, <1>6, OverwrittenNext
<1> HIDE DEF T, N
<1>7. N \in T
  <2>1. 0..N \subseteq T
    BY <1>1, <1>5, <1>6, Upwards
  <2> QED
    BY <1>1, <2>1
<1> QED
  BY <1>2, <1>7 DEF T, N

-----------------------------------------------------------------------------
(***************************************************************************)
(* Solving: the table keeps its triggers and targets, the result is a      *)
(* command, and a target of functions is its own result.                   *)
(***************************************************************************)
Result == [table : Seq(Map), queue : Command, out : Command, disabled : BOOLEAN, ok : BOOLEAN]
ResultOf(r, table) == r \in Result /\ Alike(r.table, table)
Results(table) == {r \in Result : Alike(r.table, table)}
Rec(t, q, o, d, k) == [table |-> t, queue |-> q, out |-> o, disabled |-> d, ok |-> k]

LEMMA RecType ==
    ASSUME NEW table, NEW t, Alike(t, table), NEW q \in Command, NEW o \in Command,
           NEW d \in BOOLEAN, NEW k \in BOOLEAN
    PROVE  ResultOf(Rec(t, q, o, d, k), table)
BY DEF Alike, Rec, ResultOf, Result

LEMMA JoinedType ==
    ASSUME NEW c \in Command, NEW d \in Command, NEW unit \in Unit
    PROVE  c \o d \in Command /\ Append(c, unit) \in Command /\ c \o Append(d, unit) \in Command
BY DEF Command

LEMMA ResultFields ==
    ASSUME NEW table, NEW r, ResultOf(r, table)
    PROVE  /\ r.table \in Seq(Map) /\ Alike(r.table, table) /\ r.queue \in Command /\ r.out \in Command
           /\ r.disabled \in BOOLEAN /\ r.ok \in BOOLEAN
           /\ r = Rec(r.table, r.queue, r.out, r.disabled, r.ok)
BY DEF ResultOf, Result, Rec

PutTable(r, x) == [r EXCEPT !.table = x]
PutQueue(r, x) == [r EXCEPT !.queue = x]
PutOut(r, x) == [r EXCEPT !.out = x]
PutDisabled(r, x) == [r EXCEPT !.disabled = x]
PutOk(r, x) == [r EXCEPT !.ok = x]

LEMMA Put ==
    ASSUME NEW r, NEW t, NEW q, NEW o, NEW d, NEW k, r = Rec(t, q, o, d, k), NEW x
    PROVE  /\ PutTable(r, x) = Rec(x, q, o, d, k)
           /\ PutQueue(r, x) = Rec(t, x, o, d, k)
           /\ PutOut(r, x) = Rec(t, q, x, d, k)
           /\ PutDisabled(r, x) = Rec(t, q, o, x, k)
           /\ PutOk(r, x) = Rec(t, q, o, d, x)
<1>1. PutTable(r, x) = Rec(x, q, o, d, k)
  BY DEF PutTable, Rec
<1>2. PutQueue(r, x) = Rec(t, x, o, d, k)
  BY DEF PutQueue, Rec
<1>3. PutOut(r, x) = Rec(t, q, x, d, k)
  BY DEF PutOut, Rec
<1>4. PutDisabled(r, x) = Rec(t, q, o, x, k)
  BY DEF PutDisabled, Rec
<1>5. PutOk(r, x) = Rec(t, q, o, d, x)
  BY DEF PutOk, Rec
<1> QED
  BY <1>1, <1>2, <1>3, <1>4, <1>5

\* The outcomes of a unit, one by one.
LEMMA SolveUnitCases ==
    ASSUME NEW trigger, NEW recursively \in BOOLEAN, NEW deeper, NEW table,
           NEW acc, ResultOf(acc, table), NEW unit
    PROVE  LET s == acc.table
               w == Winner(s, unit.keys)
               r == SolveUnit(trigger, recursively, deeper, acc, unit)
               last == acc.disabled \/ ChangesMode(s[w].target)
           IN  \/ r = Rec(ResetAll(s), <<>>, acc.out \o Append(acc.queue, unit), acc.disabled, acc.ok)
               \/ r = Rec(s, Append(acc.queue, unit), acc.out, acc.disabled, acc.ok) /\ w = 0
               \/ w # 0 /\ r = Rec(ResetAll(s), <<>>, acc.out, acc.disabled, acc.ok)
               \/ w # 0 /\ r = Rec(ResetAll(s), <<>>, acc.out \o s[w].target, last, acc.ok)
               \/ w # 0 /\ r = Rec(ResetAll(s), <<>>, acc.out \o deeper[w].out, acc.disabled, acc.ok /\ deeper[w].ok)
<1> DEFINE s == acc.table
           w == Winner(s, unit.keys)
           last == acc.disabled \/ ChangesMode(s[w].target)
           kept == [acc EXCEPT !.out = @ \o Append(acc.queue, unit), !.queue = <<>>]
           taken == [acc EXCEPT !.table = ResetAll(s), !.queue = <<>>]
           r == SolveUnit(trigger, recursively, deeper, acc, unit)
<1> DEFINE back == acc.out \o Append(acc.queue, unit)
           more == Append(acc.queue, unit)
           plus == acc.out \o s[w].target
           solved == acc.out \o deeper[w].out
           fine == acc.ok /\ deeper[w].ok
<1>1. acc = Rec(s, acc.queue, acc.out, acc.disabled, acc.ok)
  BY ResultFields
<1>2. [kept EXCEPT !.table = ResetAll(s)] = Rec(ResetAll(s), <<>>, back, acc.disabled, acc.ok)
  <2>1. [kept EXCEPT !.table = ResetAll(s)] = PutTable(PutQueue(PutOut(acc, back), <<>>), ResetAll(s))
    BY DEF PutTable, PutQueue, PutOut
  <2> HIDE DEF kept, back, s
  <2> QED
    BY <1>1, <2>1, Put
<1>3. [acc EXCEPT !.queue = Append(@, unit)] = Rec(s, more, acc.out, acc.disabled, acc.ok)
  <2>1. [acc EXCEPT !.queue = Append(@, unit)] = PutQueue(acc, more)
    BY DEF PutQueue
  <2> HIDE DEF more, s
  <2> QED
    BY <1>1, <2>1, Put
<1>4. taken = Rec(ResetAll(s), <<>>, acc.out, acc.disabled, acc.ok)
  <2>1. taken = PutQueue(PutTable(acc, ResetAll(s)), <<>>)
    BY DEF PutTable, PutQueue
  <2> HIDE DEF s, taken
  <2> QED
    BY <1>1, <2>1, Put
<1>0. taken.out = acc.out /\ taken.ok = acc.ok
  <2> HIDE DEF taken
  <2> QED
    BY <1>4 DEF Rec
<1>5. [taken EXCEPT !.out = @ \o s[w].target, !.disabled = last] = Rec(ResetAll(s), <<>>, plus, last, acc.ok)
  <2> HIDE DEF taken, last, s, w
  <2>1. taken.out \o s[w].target = plus
    BY <1>0
  <2> HIDE DEF plus
  <2>2. [taken EXCEPT !.out = @ \o s[w].target, !.disabled = last] = PutDisabled(PutOut(taken, plus), last)
    BY <2>1 DEF PutOut, PutDisabled
  <2> QED
    BY <1>4, <2>2, Put
<1>6. [taken EXCEPT !.out = @ \o deeper[w].out, !.ok = @ /\ deeper[w].ok]
        = Rec(ResetAll(s), <<>>, solved, acc.disabled, fine)
  <2> HIDE DEF taken, last, s, w
  <2>1. taken.out \o deeper[w].out = solved /\ (taken.ok /\ deeper[w].ok) = fine
    BY <1>0
  <2> HIDE DEF solved, fine
  <2>2. [taken EXCEPT !.out = @ \o deeper[w].out, !.ok = @ /\ deeper[w].ok] = PutOk(PutOut(taken, solved), fine)
    BY <2>1 DEF PutOut, PutOk
  <2> QED
    BY <1>4, <2>2, Put
<1>7. r = CASE AllRejected(s) -> [kept EXCEPT !.table = ResetAll(s)]
            [] ~AllRejected(s) /\ w = 0 -> [acc EXCEPT !.queue = Append(@, unit)]
            [] ~AllRejected(s) /\ w # 0 /\ Ignored(trigger, s[w]) -> taken
            [] OTHER ->
                IF ~recursively \/ last
                THEN [taken EXCEPT !.out = @ \o s[w].target, !.disabled = last]
                ELSE [taken EXCEPT !.out = @ \o deeper[w].out, !.ok = @ /\ deeper[w].ok]
  BY DEF SolveUnit
<1> HIDE DEF kept, taken, last, w, s, r
<1>8. \/ r = [kept EXCEPT !.table = ResetAll(s)]
      \/ r = [acc EXCEPT !.queue = Append(@, unit)] /\ w = 0
      \/ w # 0 /\ r = taken
      \/ w # 0 /\ r = [taken EXCEPT !.out = @ \o s[w].target, !.disabled = last]
      \/ w # 0 /\ r = [taken EXCEPT !.out = @ \o deeper[w].out, !.ok = @ /\ deeper[w].ok]
  BY <1>7
<1> QED
  BY <1>2, <1>3, <1>4, <1>5, <1>6, <1>8 DEF s, w, last, r

\* The solved targets of the map and of the table.
Row(row, table) == \A j \in 0..Len(table) : ResultOf(row[j], table)

LEMMA SolveUnitType ==
    ASSUME NEW trigger, NEW recursively \in BOOLEAN, NEW table \in Seq(Map), NEW deeper, Row(deeper, table),
           NEW acc, ResultOf(acc, table), NEW unit \in Unit
    PROVE  ResultOf(SolveUnit(trigger, recursively, deeper, acc, unit), table)
<1> DEFINE s == acc.table
           w == Winner(s, unit.keys)
           last == acc.disabled \/ ChangesMode(s[w].target)
           r == SolveUnit(trigger, recursively, deeper, acc, unit)
<1>1. /\ s \in Seq(Map) /\ Alike(s, table) /\ acc.queue \in Command /\ acc.out \in Command
      /\ acc.disabled \in BOOLEAN /\ acc.ok \in BOOLEAN
  BY ResultFields
<1>2. Alike(ResetAll(s), table)
  BY <1>1, ResetAllAlike, AlikeTransitive
<1>3. <<>> \in Command /\ acc.out \o Append(acc.queue, unit) \in Command /\ Append(acc.queue, unit) \in Command
  BY <1>1, JoinedType DEF Command
<1>4. ASSUME w # 0
      PROVE  acc.out \o s[w].target \in Command /\ acc.out \o deeper[w].out \in Command /\ (acc.ok /\ deeper[w].ok) \in BOOLEAN
  <2>1. w \in 1..Len(s) /\ Len(s) = Len(table)
    BY <1>1, <1>4, WinnerType DEF Alike
  <2>2. s[w].target \in Command
    BY <1>1, <2>1, EntryType
  <2>3. ResultOf(deeper[w], table)
    BY <2>1 DEF Row
  <2>4. deeper[w].out \in Command
    BY <2>3, ResultFields
  <2> QED
    BY <1>1, <2>2, <2>4 DEF Command
<1>5. last \in BOOLEAN
  BY <1>1 DEF ChangesMode
<1>6. \/ r = Rec(ResetAll(s), <<>>, acc.out \o Append(acc.queue, unit), acc.disabled, acc.ok)
      \/ r = Rec(s, Append(acc.queue, unit), acc.out, acc.disabled, acc.ok) /\ w = 0
      \/ w # 0 /\ r = Rec(ResetAll(s), <<>>, acc.out, acc.disabled, acc.ok)
      \/ w # 0 /\ r = Rec(ResetAll(s), <<>>, acc.out \o s[w].target, last, acc.ok)
      \/ w # 0 /\ r = Rec(ResetAll(s), <<>>, acc.out \o deeper[w].out, acc.disabled, acc.ok /\ deeper[w].ok)
  BY SolveUnitCases
<1> HIDE DEF r, w, s, last
<1>7. ResultOf(Rec(ResetAll(s), <<>>, acc.out \o Append(acc.queue, unit), acc.disabled, acc.ok), table)
  BY <1>1, <1>2, <1>3, RecType
<1>8. ResultOf(Rec(s, Append(acc.queue, unit), acc.out, acc.disabled, acc.ok), table)
  BY <1>1, <1>3, RecType
<1>9. ResultOf(Rec(ResetAll(s), <<>>, acc.out, acc.disabled, acc.ok), table)
  BY <1>1, <1>2, <1>3, RecType
<1>10. w # 0 => ResultOf(Rec(ResetAll(s), <<>>, acc.out \o s[w].target, last, acc.ok), table)
  BY <1>1, <1>2, <1>3, <1>4, <1>5, RecType
<1>11. w # 0 => ResultOf(Rec(ResetAll(s), <<>>, acc.out \o deeper[w].out, acc.disabled, acc.ok /\ deeper[w].ok), table)
  BY <1>1, <1>2, <1>3, <1>4, RecType
<1> QED
  BY <1>6, <1>7, <1>8, <1>9, <1>10, <1>11 DEF r

LEMMA SolveNextType ==
    ASSUME NEW trigger, NEW recursively \in BOOLEAN, NEW table \in Seq(Map), NEW deeper, Row(deeper, table),
           NEW acc, ResultOf(acc, table), NEW unit \in Unit
    PROVE  ResultOf(SolveNext(trigger, recursively, deeper, acc, unit), table)
<1> DEFINE next == [acc EXCEPT !.table = UpdateAll(@, unit.keys)]
           left == [acc EXCEPT !.out = @ \o Append(acc.queue, unit), !.queue = <<>>]
<1>1. /\ acc.table \in Seq(Map) /\ Alike(acc.table, table) /\ acc.queue \in Command /\ acc.out \in Command
      /\ acc.disabled \in BOOLEAN /\ acc.ok \in BOOLEAN
  BY ResultFields
<1>2. acc = Rec(acc.table, acc.queue, acc.out, acc.disabled, acc.ok)
  BY ResultFields
<1>3. next = Rec(UpdateAll(acc.table, unit.keys), acc.queue, acc.out, acc.disabled, acc.ok)
  <2>1. next = PutTable(acc, UpdateAll(acc.table, unit.keys))
    BY DEF PutTable
  <2> HIDE DEF next
  <2> QED
    BY <1>2, <2>1, Put
<1>4. left = Rec(acc.table, <<>>, acc.out \o Append(acc.queue, unit), acc.disabled, acc.ok)
  <2> DEFINE back == acc.out \o Append(acc.queue, unit)
  <2>1. left = PutQueue(PutOut(acc, back), <<>>)
    BY DEF PutOut, PutQueue
  <2> HIDE DEF left, back
  <2>2. left = Rec(acc.table, <<>>, back, acc.disabled, acc.ok)
    BY <1>2, <2>1, Put
  <2> QED
    BY <2>2 DEF back
<1>5. Alike(UpdateAll(acc.table, unit.keys), table)
  BY <1>1, UpdateAllAlike, AlikeTransitive
<1>6. <<>> \in Command /\ acc.out \o Append(acc.queue, unit) \in Command
  BY <1>1, JoinedType DEF Command
<1> HIDE DEF next, left
<1>7. ResultOf(next, table) /\ ResultOf(left, table)
  BY <1>1, <1>3, <1>4, <1>5, <1>6, RecType
<1>8. SolveNext(trigger, recursively, deeper, acc, unit)
        \in {left, SolveUnit(trigger, recursively, deeper, next, unit)}
  BY DEF SolveNext, next, left
<1> QED
  BY <1>7, <1>8, SolveUnitType

LEMMA SolveStartType ==
    ASSUME NEW table \in Seq(Map), NEW ok \in BOOLEAN
    PROVE  ResultOf(SolveStart(table, ok), table)
<1>1. SolveStart(table, ok) = Rec(ResetAll(table), <<>>, <<>>, FALSE, ok)
  BY DEF SolveStart, Rec
<1>2. <<>> \in Command
  BY DEF Command
<1> QED
  BY <1>1, <1>2, ResetAllAlike, RecType

LEMMA SolveEndType ==
    ASSUME NEW table, NEW r, ResultOf(r, table)
    PROVE  ResultOf(SolveEnd(r), table) /\ SolveEnd(r).out = r.out \o r.queue
<1> DEFINE all == r.out \o r.queue
           fine == r.ok /\ ~AnyOverflow(r.table)
<1>1. r = Rec(r.table, r.queue, r.out, r.disabled, r.ok)
  BY ResultFields
<1>0. SolveEnd(r) = PutOk(PutOut(r, all), fine)
  BY DEF SolveEnd, PutOut, PutOk
<1>2. SolveEnd(r) = Rec(r.table, r.queue, all, r.disabled, fine)
  <2> HIDE DEF all, fine
  <2> QED
    BY <1>0, <1>1, Put
<1>3. /\ r.table \in Seq(Map) /\ Alike(r.table, table) /\ r.queue \in Command /\ r.out \in Command
      /\ r.disabled \in BOOLEAN /\ r.ok \in BOOLEAN
  BY ResultFields
<1>4. all \in Command
  BY <1>3 DEF Command
<1>5. fine \in BOOLEAN
  BY <1>3
<1> HIDE DEF all, fine
<1>6. ResultOf(SolveEnd(r), table)
  BY <1>2, <1>3, <1>4, <1>5, RecType
<1>7. SolveEnd(r).out = all
  BY <1>2 DEF Rec
<1> QED
  BY <1>6, <1>7 DEF all

Later(p, q, x) == p \o Append(q, x) = Append(p \o q, x)

LEMMA AppendLater ==
    ASSUME NEW S, NEW p \in Seq(S), NEW q \in Seq(S), NEW x \in S
    PROVE  Later(p, q, x)
<1> DEFINE a == p \o Append(q, x)
           b == Append(p \o q, x)
<1>1. a \in Seq(S) /\ b \in Seq(S) /\ Len(a) = Len(b)
  OBVIOUS
<1>2. \A i \in 1..Len(a) : a[i] = b[i]
  OBVIOUS
<1> HIDE DEF a, b
<1>3. a = b
  BY <1>1, <1>2, SeqEqual
<1> QED
  BY <1>3 DEF a, b, Later

\* c is the first n units of cmd.
Spells(c, cmd, n) == c \in Command /\ Len(c) = n /\ \A i \in 1..n : c[i] = cmd[i]
Reads(r, cmd, n) == ~r.disabled /\ Spells(r.out \o r.queue, cmd, n)

LEMMA SpellsNext ==
    ASSUME NEW cmd \in Command, NEW n \in 1..Len(cmd), NEW c, Spells(c, cmd, n - 1)
    PROVE  Spells(Append(c, cmd[n]), cmd, n)
<1> DEFINE d == Append(c, cmd[n])
<1>1. c \in Seq(Unit) /\ cmd \in Seq(Unit) /\ cmd[n] \in Unit /\ n \in Nat /\ Len(c) = n - 1
  BY DEF Command, Spells
<1>2. d \in Seq(Unit) /\ Len(d) = n /\ d[n] = cmd[n] /\ \A i \in 1..n - 1 : d[i] = c[i]
  BY <1>1
<1>3. \A i \in 1..n - 1 : c[i] = cmd[i]
  BY DEF Spells
<1> HIDE DEF d
<1>4. Spells(d, cmd, n)
  BY <1>1, <1>2, <1>3 DEF Spells, Command
<1> QED
  BY <1>4 DEF d

Passes(r, acc, unit) == ~r.disabled /\ r.out \o r.queue = acc.out \o Append(acc.queue, unit)

LEMMA SolveFunctionUnit ==
    ASSUME NEW trigger, NEW recursively \in BOOLEAN, NEW table \in Seq(Map), NEW deeper,
           NEW acc, ResultOf(acc, table), ~acc.disabled, NEW unit \in Unit, unit.kind = "function"
    PROVE  Passes(SolveNext(trigger, recursively, deeper, acc, unit), acc, unit)
<1> DEFINE next == [acc EXCEPT !.table = UpdateAll(@, unit.keys)]
           r == SolveUnit(trigger, recursively, deeper, next, unit)
           s == UpdateAll(acc.table, unit.keys)
           more == Append(acc.queue, unit)
<1>1. /\ acc.table \in Seq(Map) /\ Alike(acc.table, table) /\ acc.queue \in Command /\ acc.out \in Command
      /\ acc.disabled = FALSE /\ acc.ok \in BOOLEAN
  BY ResultFields
<1>2. acc = Rec(acc.table, acc.queue, acc.out, acc.disabled, acc.ok)
  BY ResultFields
<1>3. next = Rec(s, acc.queue, acc.out, acc.disabled, acc.ok)
  <2>1. next = PutTable(acc, s)
    BY DEF PutTable
  <2> HIDE DEF next, s
  <2> QED
    BY <1>2, <2>1, Put
<1>4. Alike(s, table)
  BY <1>1, UpdateAllAlike, AlikeTransitive
<1>5. unit.keys = {} /\ ~IsExternal(unit)
  BY DEF Unit, IsExternal
<1>6. SolveNext(trigger, recursively, deeper, acc, unit) = r
  BY <1>1, <1>5 DEF SolveNext
<1> HIDE DEF next, s
<1>7. ResultOf(next, table)
  BY <1>1, <1>3, <1>4, RecType
<1>8. /\ next.table = s /\ next.queue = acc.queue /\ next.out = acc.out /\ next.disabled = FALSE
      /\ next.ok = acc.ok
  BY <1>1, <1>3 DEF Rec
<1>9. s \in Seq(Map) /\ Winner(s, unit.keys) = 0
  BY <1>4, <1>5, WinnerType DEF Alike
<1>10. \/ r = Rec(ResetAll(s), <<>>, acc.out \o more, FALSE, acc.ok)
       \/ r = Rec(s, more, acc.out, FALSE, acc.ok)
  <2> DEFINE w == Winner(next.table, unit.keys)
  <2>1. \/ r = Rec(ResetAll(next.table), <<>>, next.out \o Append(next.queue, unit), next.disabled, next.ok)
        \/ r = Rec(next.table, Append(next.queue, unit), next.out, next.disabled, next.ok)
        \/ w # 0
    BY <1>7, SolveUnitCases
  <2>2. w = 0
    BY <1>8, <1>9
  <2> HIDE DEF w, r
  <2> QED
    BY <1>8, <2>1, <2>2
<1>11. acc.out \o more \in Seq(Unit) /\ (acc.out \o more) \o <<>> = acc.out \o more
  <2>1. acc.out \in Seq(Unit) /\ more \in Seq(Unit)
    BY <1>1 DEF Command
  <2> QED
    BY <2>1
<1> HIDE DEF r, more
<1>12. /\ r.disabled = FALSE
       /\ (r.out = acc.out \o more /\ r.queue = <<>>) \/ (r.out = acc.out /\ r.queue = more)
  BY <1>10 DEF Rec
<1>13. Passes(r, acc, unit)
  BY <1>11, <1>12 DEF more, Passes
<1> QED
  BY <1>6, <1>13

LEMMA ReadsNext ==
    ASSUME NEW trigger, NEW recursively \in BOOLEAN, NEW table \in Seq(Map), NEW deeper,
           NEW acc, ResultOf(acc, table), NEW cmd \in Command, NEW n \in 1..Len(cmd),
           cmd[n].kind = "function", Reads(acc, cmd, n - 1)
    PROVE  Reads(SolveNext(trigger, recursively, deeper, acc, cmd[n]), cmd, n)
<1> DEFINE r == SolveNext(trigger, recursively, deeper, acc, cmd[n])
<1> HIDE DEF r
<1>1. cmd[n] \in Unit
  BY DEF Command
<1>2. acc.out \in Seq(Unit) /\ acc.queue \in Seq(Unit)
  BY ResultFields DEF Command
<1>3. ~acc.disabled /\ Spells(acc.out \o acc.queue, cmd, n - 1)
  BY DEF Reads
<1>4. ~r.disabled /\ r.out \o r.queue = acc.out \o Append(acc.queue, cmd[n])
  <2>1. Passes(r, acc, cmd[n])
    BY <1>1, <1>3, SolveFunctionUnit DEF r
  <2> QED
    BY <2>1 DEF Passes
<1>5. acc.out \o Append(acc.queue, cmd[n]) = Append(acc.out \o acc.queue, cmd[n])
  <2> DEFINE p == acc.out
             q == acc.queue
             x == cmd[n]
  <2>1. p \in Seq(Unit) /\ q \in Seq(Unit) /\ x \in Unit
    BY <1>1, <1>2
  <2> HIDE DEF p, q, x
  <2>2. Later(p, q, x)
    BY <2>1, AppendLater
  <2> QED
    BY <2>2 DEF Later, p, q, x
<1>6. Spells(Append(acc.out \o acc.queue, cmd[n]), cmd, n)
  BY <1>3, SpellsNext
<1>7. Reads(r, cmd, n)
  BY <1>4, <1>5, <1>6 DEF Reads
<1> QED
  BY <1>7 DEF r

LEMMA SpellsAll ==
    ASSUME NEW cmd \in Command, NEW c, Spells(c, cmd, Len(cmd))
    PROVE  c = cmd
<1>1. cmd \in Seq(Unit) /\ c \in Seq(Unit) /\ Len(c) = Len(cmd) /\ \A i \in 1..Len(c) : c[i] = cmd[i]
  BY DEF Command, Spells
<1> QED
  BY <1>1, SeqEqual

Functions(cmd) == \A i \in DOMAIN cmd : cmd[i].kind = "function"

LEMMA SolveCommandIs ==
    ASSUME NEW trigger, NEW recursively \in BOOLEAN, NEW table \in Seq(Map), NEW deeper, Row(deeper, table),
           NEW cmd \in Command
    PROVE  LET r == SolveCommand(trigger, recursively, deeper, table, cmd)
           IN  ResultOf(r, table) /\ (Functions(cmd) => r.out = cmd)
<1> DEFINE N == Len(cmd)
           S == Results(table)
           start == SolveStart(table, TRUE)
           Step(acc, n) == SolveNext(trigger, recursively, deeper, acc, cmd[n])
           Is(g) == g = [n \in 0..N |-> IF n = 0 THEN start ELSE Step(g[n - 1], n)]
           F == [p \in S \X (1..N) |-> Step(p[1], p[2])]
           after == CHOOSE g : Is(g)
           r == SolveCommand(trigger, recursively, deeper, table, cmd)
<1>1. N \in Nat /\ \A n \in 1..N : cmd[n] \in Unit
  BY DEF Command
<1>2. r = SolveEnd(after[N])
  BY DEF SolveCommand
<1>3. \A x : x \in S <=> ResultOf(x, table)
  BY DEF Results, ResultOf
<1>4. \A acc \in S, n \in 1..N : Step(acc, n) \in S
  BY <1>1, <1>3, SolveNextType
<1>5. start \in S
  BY <1>3, SolveStartType
<1> HIDE DEF S, start, Step, N
<1>6. Is(after)
  <2>1. F \in [S \X (1..N) -> S]
    <3>1. \A p \in S \X (1..N) : Step(p[1], p[2]) \in S
      BY <1>4
    <3> QED
      BY <3>1
  <2>2. \A q \in S, n \in 1..N : F[<<q, n>>] = Step(q, n)
    OBVIOUS
  <2> HIDE DEF F
  <2>3. PICK g : Becomes(g, S, N, F, start)
    BY <1>1, <1>5, <2>1, Folding
  <2>4. /\ g \in [0..N -> S] /\ g[0] = start
        /\ \A n \in 1..N : g[n - 1] \in S /\ g[n] = F[<<g[n - 1], n>>]
    BY <1>1, <2>3 DEF Becomes
  <2>5. ASSUME NEW n \in 0..N PROVE g[n] = IF n = 0 THEN start ELSE Step(g[n - 1], n)
    <3>1. CASE n = 0
      BY <2>4, <3>1
    <3>2. CASE n # 0
      <4>1. n \in 1..N
        BY <1>1, <3>2
      <4>2. g[n - 1] \in S /\ g[n] = F[<<g[n - 1], n>>]
        BY <2>4, <4>1
      <4> QED
        BY <2>2, <3>2, <4>1, <4>2
    <3> QED
      BY <3>1, <3>2
  <2>6. Is(g)
    BY <2>4, <2>5
  <2> QED
    BY <2>6
<1> HIDE DEF after
<1>7. after[0] = start /\ \A n \in 1..N : after[n] = Step(after[n - 1], n)
  BY <1>1, <1>6
<1> HIDE DEF Is
<1> DEFINE T == {n \in 0..N : after[n] \in S}
           U == {n \in 0..N : after[n] \in S /\ Reads(after[n], cmd, n)}
<1>8. after[N] \in S
  <2>1. 0 \in T /\ \A n \in 1..N : n - 1 \in T => n \in T
    BY <1>1, <1>4, <1>5, <1>7
  <2> HIDE DEF T
  <2>2. 0..N \subseteq T
    BY <1>1, <2>1, Upwards
  <2> QED
    BY <1>1, <2>2 DEF T
<1>9. ASSUME Functions(cmd) PROVE Reads(after[N], cmd, N)
  <2>1. Reads(start, cmd, 0)
    <3>1. start.disabled = FALSE /\ start.out = <<>> /\ start.queue = <<>>
      BY DEF start, SolveStart
    <3>2. <<>> \o <<>> = <<>> /\ <<>> \in Seq(Unit) /\ Len(<<>>) = 0
      OBVIOUS
    <3> HIDE DEF start
    <3> QED
      BY <3>1, <3>2 DEF Reads, Spells, Command
  <2>2. 0 \in U
    BY <1>1, <1>5, <1>7, <2>1
  <2>3. ASSUME NEW n \in 1..N, n - 1 \in U PROVE n \in U
    <3>1. cmd[n].kind = "function"
      BY <1>9 DEF Functions, Command, N
    <3>2. after[n - 1] \in S /\ Reads(after[n - 1], cmd, n - 1)
      BY <2>3
    <3>3. ResultOf(after[n - 1], table)
      BY <1>3, <3>2
    <3>4. Reads(Step(after[n - 1], n), cmd, n)
      BY <3>1, <3>2, <3>3, ReadsNext DEF Step, N
    <3>5. Step(after[n - 1], n) \in S
      BY <1>4, <3>2
    <3> QED
      BY <1>7, <3>4, <3>5
  <2> HIDE DEF U
  <2>4. 0..N \subseteq U
    BY <1>1, <2>2, <2>3, Upwards
  <2> QED
    BY <1>1, <2>4 DEF U
<1>10. ResultOf(r, table) /\ r.out = after[N].out \o after[N].queue
  BY <1>2, <1>3, <1>8, SolveEndType
<1>11. Functions(cmd) => r.out = cmd
  <2>1. Functions(cmd) => Spells(r.out, cmd, Len(cmd))
    BY <1>9, <1>10 DEF Reads, N
  <2> QED
    BY <2>1, SpellsAll
<1> QED
  BY <1>10, <1>11

\* The target of the map (0) or of the map i of the table.
Target(i, target, table) == IF i = 0 THEN target ELSE table[i].target

LEMMA SolveFromIs ==
    ASSUME NEW trigger, NEW target \in Command, NEW table \in Seq(Map), NEW recursively \in BOOLEAN
    PROVE  LET r == SolveFrom(trigger, target, table, recursively)
           IN  ResultOf(r, table) /\ (Functions(target) => r.out = target)
<1> DEFINE L == Len(table)
           Rows == [0..L -> Results(table)]
           Solving(row) ==
               [i \in 0..L |-> SolveCommand(trigger, recursively, row, table, Target(i, target, table))]
           start == [i \in 0..L |-> SolveStart(table, FALSE)]
           Is(g) == g = [d \in 0..L + 1 |-> IF d = 0 THEN start ELSE Solving(g[d - 1])]
           F == [p \in Rows \X (1..L + 1) |-> Solving(p[1])]
           solved == CHOOSE g : Is(g)
           r == SolveFrom(trigger, target, table, recursively)
<1>1. L \in Nat /\ \A i \in 1..L : table[i].target \in Command
  BY EntryType
<1>2. r = solved[L + 1][0]
  <2> DEFINE Cmd(i) == IF i = 0 THEN target ELSE table[i].target
             Old(g) == g = [d \in 0..L + 1 |->
                            [i \in 0..L |->
                                IF d = 0 THEN SolveStart(table, FALSE)
                                ELSE SolveCommand(trigger, recursively, g[d - 1], table, Cmd(i))]]
  <2>1. ASSUME NEW g PROVE Old(g) <=> Is(g)
    <3>1. ASSUME NEW d \in 0..L + 1
          PROVE  [i \in 0..L |->
                                IF d = 0 THEN SolveStart(table, FALSE)
                                ELSE SolveCommand(trigger, recursively, g[d - 1], table, Cmd(i))]
                   = IF d = 0 THEN start ELSE Solving(g[d - 1])
      BY DEF Target
    <3> QED
      BY <3>1
  <2>2. r = (CHOOSE g : Old(g))[L + 1][0]
    BY DEF SolveFrom
  <2> HIDE DEF Is, Old
  <2>3. (CHOOSE g : Old(g)) = solved
    BY <2>1
  <2> QED
    BY <2>2, <2>3
<1>3. \A x : x \in Results(table) <=> ResultOf(x, table)
  BY DEF Results, ResultOf
<1>4. ASSUME NEW row \in Rows PROVE Row(row, table)
  BY <1>3 DEF Row
<1>5. ASSUME NEW i \in 0..L PROVE Target(i, target, table) \in Command
  BY <1>1 DEF Target
<1>6. ASSUME NEW row \in Rows, NEW i \in 0..L
      PROVE  ResultOf(SolveCommand(trigger, recursively, row, table, Target(i, target, table)), table)
  BY <1>4, <1>5, SolveCommandIs
<1>7. ASSUME NEW row \in Rows PROVE Solving(row) \in Rows
  BY <1>3, <1>6
<1>8. start \in Rows
  BY <1>3, SolveStartType
<1>9. ASSUME NEW row \in Rows
      PROVE  ResultOf(Solving(row)[0], table) /\ (Functions(target) => Solving(row)[0].out = target)
  <2>1. Solving(row)[0] = SolveCommand(trigger, recursively, row, table, target)
    BY <1>1 DEF Target
  <2> HIDE DEF Solving
  <2> QED
    BY <2>1, <1>4, SolveCommandIs
<1> HIDE DEF Rows, Solving, start, L
<1>10. Is(solved)
  <2>1. F \in [Rows \X (1..L + 1) -> Rows]
    BY <1>7
  <2>2. \A q \in Rows, d \in 1..L + 1 : F[<<q, d>>] = Solving(q)
    OBVIOUS
  <2> HIDE DEF F
  <2>0. L + 1 \in Nat
    BY <1>1
  <2>3. PICK g : Becomes(g, Rows, L + 1, F, start)
    BY <1>8, <2>0, <2>1, Folding
  <2>4. /\ g \in [0..L + 1 -> Rows] /\ g[0] = start
        /\ \A d \in 1..L + 1 : g[d - 1] \in Rows /\ g[d] = F[<<g[d - 1], d>>]
    BY <1>1, <2>3 DEF Becomes
  <2>5. ASSUME NEW d \in 0..L + 1 PROVE g[d] = IF d = 0 THEN start ELSE Solving(g[d - 1])
    <3>1. CASE d = 0
      BY <2>4, <3>1
    <3>2. CASE d # 0
      <4>1. d \in 1..L + 1
        BY <1>1, <3>2
      <4>2. g[d - 1] \in Rows /\ g[d] = F[<<g[d - 1], d>>]
        BY <2>4, <4>1
      <4> QED
        BY <2>2, <3>2, <4>1, <4>2
    <3> QED
      BY <3>1, <3>2
  <2>6. Is(g)
    BY <2>4, <2>5
  <2> QED
    BY <2>6
<1> HIDE DEF solved
<1>11. solved[0] = start /\ \A d \in 1..L + 1 : solved[d] = Solving(solved[d - 1])
  BY <1>1, <1>10
<1> HIDE DEF Is
<1> DEFINE T == {d \in 0..L + 1 : solved[d] \in Rows}
<1>12. 0..L \subseteq T
  <2>1. 0 \in T /\ \A d \in 1..L : d - 1 \in T => d \in T
    BY <1>1, <1>7, <1>8, <1>11
  <2> HIDE DEF T
  <2> QED
    BY <1>1, <2>1, Upwards
<1>13. solved[L] \in Rows /\ solved[L + 1] = Solving(solved[L])
  <2>1. L \in 0..L /\ L + 1 \in 1..L + 1 /\ (L + 1) - 1 = L
    BY <1>1
  <2> QED
    BY <1>11, <1>12, <2>1
<1> QED
  BY <1>2, <1>9, <1>13

LEMMA SolveIs ==
    ASSUME NEW map \in Draft, NEW table \in Seq(Map), NEW recursively \in BOOLEAN
    PROVE  LET r == Solve(map, table, recursively)
           IN  /\ Alike(r.table, table) /\ r.out \in Command /\ r.ok \in BOOLEAN
               /\ Functions(map.target) /\ ~SameCommand(map.trigger, map.target) => r.out = map.target
<1> DEFINE as_is == [table |-> table, out |-> map.target, ok |-> TRUE]
           none == [as_is EXCEPT !.out = <<>>]
           from == SolveFrom(map.trigger, map.target, table, recursively)
           r == Solve(map, table, recursively)
<1>1. map.target \in Command /\ map.trigger \in Command /\ <<>> \in Command
  BY DEF Draft, Command
<1>2. ResultOf(from, table) /\ (Functions(map.target) => from.out = map.target)
  BY <1>1, SolveFromIs
<1>3. /\ as_is.table = table /\ as_is.out = map.target /\ as_is.ok = TRUE
      /\ none.table = table /\ none.out = <<>> /\ none.ok = TRUE
  OBVIOUS
<1>4. \/ r = as_is
      \/ r = none /\ SameCommand(map.trigger, map.target)
      \/ r = from
  BY DEF Solve
<1>5. Alike(table, table) /\ Alike(from.table, table) /\ from.out \in Command /\ from.ok \in BOOLEAN
  BY <1>2, AlikeItself, ResultFields
<1> HIDE DEF as_is, none, from, r
<1>6. Alike(r.table, table) /\ r.out \in Command /\ r.ok \in BOOLEAN
  BY <1>1, <1>3, <1>4, <1>5
<1>7. Functions(map.target) /\ ~SameCommand(map.trigger, map.target) => r.out = map.target
  BY <1>2, <1>3, <1>4
<1> QED
  BY <1>6, <1>7 DEF r

-----------------------------------------------------------------------------
(***************************************************************************)
(* Deployment.                                                             *)
(***************************************************************************)
\* The draft is deployed as it was given.
Deployed(maps, draft) ==
    \E i \in 1..Len(maps) : Trigger(maps[i]) = draft.trigger /\ maps[i].target = draft.target
Counts(draft) == OnlyFunctions(draft.target) /\ ~SameCommand(draft.trigger, draft.target)

LEMMA AlikeDeployed ==
    ASSUME NEW new, NEW old, Alike(new, old), NEW draft, Deployed(old, draft)
    PROVE  Deployed(new, draft)
BY DEF Alike, Deployed

LEMMA InSet ==
    ASSUME NEW S, NEW seq \in Seq(S), NEW e
    PROVE  e \in ToSet(seq) <=> \E i \in 1..Len(seq) : seq[i] = e
BY DEF ToSet

LEMMA CountsFunctions ==
    ASSUME NEW draft \in Draft, Counts(draft)
    PROVE  Functions(draft.target) /\ draft.target # <<>> /\ ~SameCommand(draft.trigger, draft.target)
BY DEF Counts, OnlyFunctions, Functions

Retargeted(m, t) == [m EXCEPT !.target = t]

LEMMA RetargetedType ==
    ASSUME NEW m \in Map, NEW t \in Command
    PROVE  Retargeted(m, t) \in Map /\ Trigger(Retargeted(m, t)) = Trigger(m) /\ Retargeted(m, t).target = t
BY DEF Retargeted, Map, Trigger

LEMMA DraftRetargetedType ==
    ASSUME NEW m \in Draft, NEW t \in Command
    PROVE  Retargeted(m, t) \in Draft /\ Retargeted(m, t).trigger = m.trigger /\ Retargeted(m, t).target = t
BY DEF Retargeted, Draft

LEMMA RetargetedSame ==
    ASSUME NEW m \in Draft
    PROVE  Retargeted(m, m.target) = m
BY DEF Retargeted, Draft

\* The maps whose targets are solved to something.
LEMMA SolvedIs ==
    ASSUME NEW maps \in Seq(Map), Apart(maps), NEW results, \A i \in 1..Len(maps) : results[i].out \in Command
    PROVE  /\ Solved(maps, results) \in Seq(Map)
           /\ Apart(Solved(maps, results))
           /\ \A i \in 1..Len(maps) : results[i].out # <<>> =>
                \E j \in 1..Len(Solved(maps, results)) :
                    /\ Trigger(Solved(maps, results)[j]) = Trigger(maps[i])
                    /\ Solved(maps, results)[j].target = results[i].out
<1> DEFINE new == [i \in DOMAIN maps |-> Retargeted(maps[i], results[i].out)]
           places == {i \in DOMAIN maps : results[i].out # <<>>}
           E == Entries(new, places)
<1>1. Len(maps) \in Nat /\ DOMAIN maps = 1..Len(maps) /\ \A i \in 1..Len(maps) : maps[i] \in Map
  OBVIOUS
<1>2. ASSUME NEW i \in 1..Len(maps)
      PROVE  new[i] \in Map /\ Trigger(new[i]) = Trigger(maps[i]) /\ new[i].target = results[i].out
  BY <1>1, RetargetedType
<1>3. new \in Seq(Map) /\ Len(new) = Len(maps)
  <2>1. new \in [1..Len(maps) -> Map]
    BY <1>1, <1>2
  <2> HIDE DEF new
  <2> QED
    BY <1>1, <2>1
<1>4. Solved(maps, results) = E
  BY DEF Solved, Retargeted
<1>5. \A i \in 1..Len(maps) : i \in places <=> results[i].out # <<>>
  BY <1>1
<1>6. places \in SUBSET (1..Len(new))
  BY <1>1, <1>3
<1> HIDE DEF new, places
<1>7. Apart(new)
  BY <1>2, <1>3 DEF Apart
<1>8. E \in Seq(Map)
  BY <1>3, <1>6, EntriesAre
<1>9. Apart(E)
  BY <1>3, <1>6, <1>7, EntriesApart
<1>10. ASSUME NEW i \in 1..Len(maps), results[i].out # <<>>
       PROVE  \E j \in 1..Len(E) : Trigger(E[j]) = Trigger(maps[i]) /\ E[j].target = results[i].out
  <2>1. i \in places
    BY <1>5, <1>10
  <2>2. ToSet(E) = {new[j] : j \in places}
    BY <1>3, <1>6, EntriesSet
  <2>3. new[i] \in ToSet(E)
    BY <2>1, <2>2
  <2>4. PICK j \in 1..Len(E) : E[j] = new[i]
    BY <1>8, <2>3, InSet
  <2> QED
    BY <1>2, <2>4
<1> HIDE DEF E
<1> QED
  BY <1>4, <1>8, <1>9, <1>10

LEMMA DeployDefaultIs ==
    ASSUME NEW drafts \in Seq(Draft), DraftsApart(drafts)
    PROVE  DeployDefault(drafts).maps \in Seq(Map) /\ Apart(DeployDefault(drafts).maps)
<1> DEFINE maps == [i \in DOMAIN drafts |-> Matching(drafts[i])]
           results == [i \in DOMAIN drafts |-> Solve(drafts[i], maps, TRUE)]
<1>1. Len(drafts) \in Nat /\ DOMAIN drafts = 1..Len(drafts) /\ \A i \in 1..Len(drafts) : drafts[i] \in Draft
  OBVIOUS
<1>2. ASSUME NEW i \in 1..Len(drafts) PROVE maps[i] \in Map /\ Trigger(maps[i]) = drafts[i].trigger
  BY <1>1, MatchingType
<1>3. maps \in Seq(Map) /\ Len(maps) = Len(drafts)
  <2>1. maps \in [1..Len(drafts) -> Map]
    BY <1>1, <1>2
  <2> HIDE DEF maps
  <2> QED
    BY <1>1, <2>1
<1>4. DeployDefault(drafts).maps = Solved(maps, results)
  BY DEF DeployDefault
<1> HIDE DEF maps
<1>5. Apart(maps)
  BY <1>2, <1>3 DEF Apart, DraftsApart
<1>6. ASSUME NEW i \in 1..Len(maps) PROVE results[i].out \in Command
  <2>1. results[i] = Solve(drafts[i], maps, TRUE)
    BY <1>1, <1>3
  <2> HIDE DEF results
  <2> QED
    BY <2>1, <1>1, <1>3, SolveIs
<1> HIDE DEF results
<1>7. Solved(maps, results) \in Seq(Map) /\ Apart(Solved(maps, results))
  BY <1>3, <1>5, <1>6, SolvedIs
<1> QED
  BY <1>4, <1>7

LEMMA DeployNoremapIs ==
    ASSUME NEW defaults \in Seq(Map), Apart(defaults), NEW noremap \in Seq(Draft), DraftsApart(noremap)
    PROVE  LET d == DeployNoremap(defaults, noremap)
           IN  /\ d.maps \in Seq(Map) /\ Apart(d.maps) /\ d.ok \in BOOLEAN
               /\ \A k \in 1..Len(noremap) : Counts(noremap[k]) => Deployed(d.maps, noremap[k])
<1> DEFINE own == OverwrittenBy(defaults, noremap)
           given(i) == [trigger |-> Trigger(own[i]), target |-> own[i].target]
           results == [i \in DOMAIN own |-> Solve(given(i), defaults, FALSE)]
           solved == Solved(own, results)
           d == DeployNoremap(defaults, noremap)
<1>1. d.maps = ResetAll(solved) /\ d.ok = AllOk(results)
  BY DEF DeployNoremap
<1>2. OverwrittenSo(own, defaults, noremap, Len(noremap))
  BY OverwrittenByIs
<1> HIDE DEF own, d
<1>3. own \in Seq(Map) /\ Apart(own) /\ Len(own) \in Nat /\ DOMAIN own = 1..Len(own)
  BY <1>2 DEF OverwrittenSo
<1>4. ASSUME NEW i \in 1..Len(own) PROVE given(i) \in Draft
  BY <1>3, EntryType DEF Draft
<1>5. ASSUME NEW i \in 1..Len(own)
      PROVE  /\ results[i].out \in Command
             /\ Functions(own[i].target) /\ ~SameCommand(Trigger(own[i]), own[i].target) =>
                    results[i].out = own[i].target
  <2>1. results[i] = Solve(given(i), defaults, FALSE) /\ given(i) \in Draft
    BY <1>3, <1>4
  <2>2. given(i).trigger = Trigger(own[i]) /\ given(i).target = own[i].target
    OBVIOUS
  <2> HIDE DEF results, given
  <2> QED
    BY <2>1, <2>2, SolveIs
<1> HIDE DEF results, given
<1>6. solved \in Seq(Map) /\ Apart(solved)
  BY <1>3, <1>5, SolvedIs
<1>7. ASSUME NEW i \in 1..Len(own), results[i].out # <<>>
      PROVE  \E j \in 1..Len(solved) : Trigger(solved[j]) = Trigger(own[i]) /\ solved[j].target = results[i].out
  BY <1>3, <1>5, <1>7, SolvedIs
<1> HIDE DEF solved
<1>8. Alike(ResetAll(solved), solved)
  BY <1>6, ResetAllAlike
<1>9. d.maps \in Seq(Map) /\ Apart(d.maps) /\ Alike(d.maps, solved)
  BY <1>1, <1>6, <1>8, AlikeApart DEF Alike
<1>10. ASSUME NEW k \in 1..Len(noremap), Counts(noremap[k]) PROVE Deployed(d.maps, noremap[k])
  <2>1. noremap[k] \in Draft
    OBVIOUS
  <2>2. Matching(noremap[k]) \in ToSet(own)
    BY <1>2 DEF OverwrittenSo
  <2>3. PICK i \in 1..Len(own) : own[i] = Matching(noremap[k])
    BY <1>3, <2>2, InSet
  <2>4. Trigger(own[i]) = noremap[k].trigger /\ own[i].target = noremap[k].target
    BY <2>1, <2>3, MatchingType
  <2>5. results[i].out = noremap[k].target /\ noremap[k].target # <<>>
    BY <1>5, <1>10, <2>1, <2>4, CountsFunctions
  <2>6. Deployed(solved, noremap[k])
    BY <1>7, <2>4, <2>5 DEF Deployed
  <2> QED
    BY <1>9, <2>6, AlikeDeployed
<1>11. d.ok \in BOOLEAN
  BY <1>1 DEF AllOk
<1> QED
  BY <1>9, <1>10, <1>11 DEF d

\* The maps after the first n of the map commands, own and table what they start with.
DeployedSo(acc, own, table, map, n) ==
    /\ Alike(acc.table, table) /\ acc.ok \in BOOLEAN
    /\ acc.maps \in Seq(Map) /\ Apart(acc.maps)
    /\ \A e \in ToSet(acc.maps) : e \in ToSet(own) \/ \E k \in 1..n : Trigger(e) = map[k].trigger
    /\ \A e \in ToSet(own) :
          (\A k \in 1..n : ~SameCommand(Trigger(e), map[k].trigger)) => e \in ToSet(acc.maps)
    /\ \A k \in 1..n : Counts(map[k]) => Deployed(acc.maps, map[k])

LEMMA DeployedEntry ==
    ASSUME NEW maps \in Seq(Map), NEW draft
    PROVE  Deployed(maps, draft) <=> \E e \in ToSet(maps) : Trigger(e) = draft.trigger /\ e.target = draft.target
<1>1. \A e : e \in ToSet(maps) <=> \E i \in 1..Len(maps) : maps[i] = e
  BY InSet
<1> QED
  BY <1>1 DEF Deployed

LEMMA DeployMapNext ==
    ASSUME NEW own, NEW table, NEW map \in Seq(Draft), DraftsApart(map), NEW n \in 1..Len(map),
           NEW acc, DeployedSo(acc, own, table, map, n - 1),
           NEW r, Alike(r.table, acc.table), r.out \in Command, r.ok \in BOOLEAN,
           Counts(map[n]) => r.out = map[n].target
    PROVE  DeployedSo(DeployMap(acc, map[n], r), own, table, map, n)
<1> DEFINE m == map[n]
           new == DeployMap(acc, m, r)
           draft == Retargeted(m, r.out)
           over == Overwritten(acc.maps, draft)
<1>1. Len(map) \in Nat /\ n \in Nat /\ m \in Draft /\ \A k \in 1..n : map[k] \in Draft
  OBVIOUS
<1>2. acc.maps \in Seq(Map) /\ Apart(acc.maps) /\ acc.ok \in BOOLEAN /\ Alike(acc.table, table)
  BY DEF DeployedSo
<1>3. new.table = r.table /\ new.ok = (acc.ok /\ r.ok) /\ new.maps = IF r.out = <<>> THEN acc.maps ELSE over
  BY DEF DeployMap, Retargeted
<1>4. Alike(new.table, table) /\ new.ok \in BOOLEAN
  BY <1>2, <1>3, AlikeTransitive
<1> HIDE DEF new, m
<1>5. draft \in Draft /\ draft.trigger = m.trigger /\ draft.target = r.out
  BY <1>1, DraftRetargetedType
<1> HIDE DEF draft
<1>6. /\ over \in Seq(Map) /\ Apart(over)
      /\ ToSet(over) = {e \in ToSet(acc.maps) : ~SameCommand(Trigger(e), m.trigger)} \cup {Matching(draft)}
  BY <1>2, <1>5, OverwrittenIs
<1>7. Trigger(Matching(draft)) = m.trigger /\ Matching(draft).target = r.out
  BY <1>5, MatchingType
<1> HIDE DEF over
<1>8. new.maps \in Seq(Map) /\ Apart(new.maps)
  BY <1>2, <1>3, <1>6
<1>9. ASSUME NEW e \in ToSet(new.maps) PROVE e \in ToSet(own) \/ \E k \in 1..n : Trigger(e) = map[k].trigger
  <2>1. e \in ToSet(acc.maps) \/ e = Matching(draft)
    BY <1>3, <1>6, <1>9
  <2>2. CASE e \in ToSet(acc.maps)
    <3>1. e \in ToSet(own) \/ \E k \in 1..n - 1 : Trigger(e) = map[k].trigger
      BY <2>2 DEF DeployedSo
    <3>2. 1..n - 1 \subseteq 1..n
      BY <1>1
    <3> QED
      BY <3>1, <3>2
  <2>3. CASE e = Matching(draft)
    BY <1>1, <1>7, <2>3 DEF m
  <2> QED
    BY <2>1, <2>2, <2>3
<1>10. ASSUME NEW e \in ToSet(own), \A k \in 1..n : ~SameCommand(Trigger(e), map[k].trigger)
       PROVE  e \in ToSet(new.maps)
  <2>1. \A k \in 1..n - 1 : ~SameCommand(Trigger(e), map[k].trigger)
    BY <1>1, <1>10
  <2>2. e \in ToSet(acc.maps)
    BY <2>1 DEF DeployedSo
  <2>3. ~SameCommand(Trigger(e), m.trigger)
    BY <1>1, <1>10 DEF m
  <2> QED
    BY <1>3, <1>6, <2>2, <2>3
<1>11. ASSUME NEW k \in 1..n, Counts(map[k]) PROVE Deployed(new.maps, map[k])
  <2>1. CASE k = n
    <3>1. r.out = m.target /\ r.out # <<>>
      BY <1>1, <1>11, <2>1, CountsFunctions DEF m
    <3>2. Matching(draft) \in ToSet(new.maps)
      BY <1>3, <1>6, <3>1
    <3> QED
      BY <1>7, <1>8, <2>1, <3>1, <3>2, DeployedEntry DEF m
  <2>2. CASE k # n
    <3>1. k \in 1..n - 1
      BY <1>1, <2>2
    <3>2. Deployed(acc.maps, map[k])
      BY <1>11, <3>1 DEF DeployedSo
    <3>3. PICK e \in ToSet(acc.maps) : Trigger(e) = map[k].trigger /\ e.target = map[k].target
      BY <1>2, <3>2, DeployedEntry
    <3>4. ~SameCommand(map[k].trigger, m.trigger)
      BY <1>1, <2>2 DEF DraftsApart, m
    <3>5. e \in ToSet(new.maps)
      BY <1>3, <1>6, <3>3, <3>4
    <3> QED
      BY <1>8, <3>3, <3>5, DeployedEntry
  <2> QED
    BY <2>1, <2>2
<1>12. DeployedSo(new, own, table, map, n)
  BY <1>4, <1>8, <1>9, <1>10, <1>11 DEF DeployedSo
<1> QED
  BY <1>12 DEF new, m

\* A map that is no user map shares its matcher with the table.
LEMMA SharedAlike ==
    ASSUME NEW end, end.maps \in Seq(Map), end.table \in Seq(Map), NEW map \in Seq(Draft),
           \A i \in 1..Len(end.maps) :
               (\A k \in 1..Len(map) : ~SameCommand(map[k].trigger, Trigger(end.maps[i]))) =>
                   \E j \in 1..Len(end.table) : Trigger(end.table[j]) = Trigger(end.maps[i]),
           Apart(end.table)
    PROVE  Alike(Shared(end, map).maps, end.maps)
<1> DEFINE isOwn(cmd) == \E i \in DOMAIN map : SameCommand(map[i].trigger, cmd)
           same(m) == CHOOSE t \in {end.table[i] : i \in DOMAIN end.table} :
                          SameCommand(Trigger(t), Trigger(m))
           maps == end.maps
           mts == [i \in DOMAIN maps |-> IF isOwn(Trigger(maps[i])) THEN maps[i].mt ELSE same(maps[i]).mt]
           new == [i \in DOMAIN maps |-> IF isOwn(Trigger(maps[i])) THEN maps[i] ELSE With(maps[i], same(maps[i]).mt)]
<1>1. Shared(end, map).maps = new
  BY DEF Shared, With
<1>2. /\ Len(maps) \in Nat /\ DOMAIN maps = 1..Len(maps)
      /\ DOMAIN map = 1..Len(map) /\ DOMAIN end.table = 1..Len(end.table)
  OBVIOUS
<1>3. ASSUME NEW i \in 1..Len(maps) PROVE maps[i] \in Map /\ maps[i].mt \in Matcher /\ Trigger(maps[i]) \in Command
  BY EntryType
<1>4. ASSUME NEW i \in 1..Len(maps), ~isOwn(Trigger(maps[i])) PROVE Kept(same(maps[i]).mt, maps[i].mt)
  <2>1. PICK j \in 1..Len(end.table) : Trigger(end.table[j]) = Trigger(maps[i])
    BY <1>2, <1>4
  <2>2. SameCommand(Trigger(end.table[j]), Trigger(maps[i]))
    BY <1>3, <2>1, SameItself
  <2>3. \E t \in {end.table[l] : l \in DOMAIN end.table} : SameCommand(Trigger(t), Trigger(maps[i]))
    BY <1>2, <2>2
  <2> DEFINE t == same(maps[i])
  <2>4. t \in {end.table[l] : l \in DOMAIN end.table} /\ SameCommand(Trigger(t), Trigger(maps[i]))
    BY <2>3
  <2> HIDE DEF t
  <2>5. PICK l \in 1..Len(end.table) : t = end.table[l]
    BY <1>2, <2>4
  <2>6. SameCommand(Trigger(end.table[l]), Trigger(end.table[j]))
    BY <2>1, <2>4, <2>5
  <2>7. l = j
    BY <2>6 DEF Apart
  <2>8. t.mt \in Matcher /\ Trigger(t) = Trigger(maps[i])
    BY <2>1, <2>5, <2>7, EntryType
  <2>9. Kept(t.mt, maps[i].mt)
    BY <2>8 DEF Kept, Trigger
  <2> QED
    BY <2>9 DEF t
<1> HIDE DEF isOwn, same
<1>5. ASSUME NEW i \in 1..Len(maps) PROVE Kept(mts[i], maps[i].mt)
  <2>1. Kept(maps[i].mt, maps[i].mt)
    BY <1>3 DEF Kept
  <2>2. mts[i] = IF isOwn(Trigger(maps[i])) THEN maps[i].mt ELSE same(maps[i]).mt
    BY <1>2
  <2> QED
    BY <1>4, <2>1, <2>2
<1>6. new = [i \in DOMAIN maps |-> With(maps[i], mts[i])]
  <2>1. \A m \in Map : With(m, m.mt) = m
    BY DEF With, Map
  <2>2. ASSUME NEW i \in DOMAIN maps
        PROVE  (IF isOwn(Trigger(maps[i])) THEN maps[i] ELSE With(maps[i], same(maps[i]).mt)) = With(maps[i], mts[i])
    <3>1. mts[i] = IF isOwn(Trigger(maps[i])) THEN maps[i].mt ELSE same(maps[i]).mt
      BY <2>2
    <3>2. maps[i] \in Map
      BY <1>2, <1>3
    <3> HIDE DEF mts, maps
    <3> QED
      BY <2>1, <3>1, <3>2
  <2> HIDE DEF mts, maps
  <2> QED
    BY <2>2
<1> HIDE DEF new, mts
<1>7. Alike(new, maps)
  BY <1>5, <1>6, EachAlike
<1> QED
  BY <1>1, <1>7

Acc(acc) == acc.table \in Seq(Map) /\ acc.ok \in BOOLEAN /\ acc.maps \in Seq(Map)

LEMMA DeployMapType ==
    ASSUME NEW acc, Acc(acc), NEW m \in Draft
    PROVE  LET new == DeployMap(acc, m, Solve(m, acc.table, TRUE))
           IN  new \in [table : Seq(Map), ok : BOOLEAN, maps : Seq(Map)]
<1> DEFINE r == Solve(m, acc.table, TRUE)
           draft == Retargeted(m, r.out)
           new == DeployMap(acc, m, r)
<1>1. acc.table \in Seq(Map) /\ acc.ok \in BOOLEAN /\ acc.maps \in Seq(Map)
  BY DEF Acc
<1>2. Alike(r.table, acc.table) /\ r.out \in Command /\ r.ok \in BOOLEAN
  BY <1>1, SolveIs
<1> HIDE DEF r
<1>3. draft \in Draft
  BY <1>2, DraftRetargetedType
<1>4. new = [table |-> r.table, ok |-> (acc.ok /\ r.ok), maps |-> IF r.out = <<>> THEN acc.maps ELSE Overwritten(acc.maps, draft)]
  BY DEF DeployMap, Retargeted
<1> HIDE DEF draft, new
<1>5. Overwritten(acc.maps, draft) \in Seq(Map)
  BY <1>1, <1>3, OverwrittenIs
<1>6. r.table \in Seq(Map)
  BY <1>2 DEF Alike
<1>7. new \in [table : Seq(Map), ok : BOOLEAN, maps : Seq(Map)]
  BY <1>1, <1>2, <1>4, <1>5, <1>6
<1> QED
  BY <1>7 DEF new, r

LEMMA DeployMapsIs ==
    ASSUME NEW noremap, noremap.maps \in Seq(Map), Apart(noremap.maps), noremap.ok \in BOOLEAN,
           NEW map \in Seq(Draft), DraftsApart(map)
    PROVE  LET d == DeployMaps(noremap, map)
           IN  /\ d.maps \in Seq(Map) /\ Apart(d.maps)
               /\ \A k \in 1..Len(map) : Counts(map[k]) => Deployed(d.maps, map[k])
               /\ \A e \in ToSet(noremap.maps) :
                    (\A k \in 1..Len(map) : ~SameCommand(Trigger(e), map[k].trigger)) => Deployed(d.maps, [trigger |-> Trigger(e), target |-> e.target])
<1> DEFINE own == noremap.maps
           table == OverwrittenBy(own, map)
           N == Len(map)
           S == [table : Seq(Map), ok : BOOLEAN, maps : Seq(Map)]
           start == [table |-> table, maps |-> own, ok |-> noremap.ok]
           Step(acc, n) == DeployMap(acc, map[n], Solve(map[n], acc.table, TRUE))
           Is(g) == g = [n \in 0..N |-> IF n = 0 THEN start ELSE Step(g[n - 1], n)]
           F == [p \in S \X (1..N) |-> Step(p[1], p[2])]
           after == CHOOSE g : Is(g)
           end == after[N]
           d == DeployMaps(noremap, map)
<1>1. N \in Nat /\ \A n \in 1..N : map[n] \in Draft
  OBVIOUS
<1>2. d = Shared(end, map)
  BY DEF DeployMaps
<1>3. OverwrittenSo(table, own, map, N)
  BY OverwrittenByIs
<1> HIDE DEF table
<1>4. table \in Seq(Map) /\ Apart(table)
  BY <1>3 DEF OverwrittenSo
<1>5. ASSUME NEW acc \in S, NEW n \in 1..N PROVE Step(acc, n) \in S
  <2>1. Acc(acc)
    BY DEF Acc
  <2> QED
    BY <1>1, <2>1, DeployMapType
<1>6. start \in S /\ start.table = table /\ start.maps = own /\ start.ok = noremap.ok
  BY <1>4
<1> HIDE DEF S, start, Step, N
<1>7. Is(after)
  <2>1. F \in [S \X (1..N) -> S]
    <3>1. \A p \in S \X (1..N) : Step(p[1], p[2]) \in S
      BY <1>5
    <3> QED
      BY <3>1
  <2>2. \A q \in S, n \in 1..N : F[<<q, n>>] = Step(q, n)
    OBVIOUS
  <2> HIDE DEF F
  <2>3. PICK g : Becomes(g, S, N, F, start)
    BY <1>1, <1>6, <2>1, Folding
  <2>4. /\ g \in [0..N -> S] /\ g[0] = start
        /\ \A n \in 1..N : g[n - 1] \in S /\ g[n] = F[<<g[n - 1], n>>]
    BY <1>1, <2>3 DEF Becomes
  <2>5. ASSUME NEW n \in 0..N PROVE g[n] = IF n = 0 THEN start ELSE Step(g[n - 1], n)
    <3>1. CASE n = 0
      BY <2>4, <3>1
    <3>2. CASE n # 0
      <4>1. n \in 1..N
        BY <1>1, <3>2
      <4>2. g[n - 1] \in S /\ g[n] = F[<<g[n - 1], n>>]
        BY <2>4, <4>1
      <4> QED
        BY <2>2, <3>2, <4>1, <4>2
    <3> QED
      BY <3>1, <3>2
  <2>6. Is(g)
    BY <2>4, <2>5
  <2> QED
    BY <2>6
<1> HIDE DEF after
<1>8. after[0] = start /\ \A n \in 1..N : after[n] = Step(after[n - 1], n)
  BY <1>1, <1>7
<1> HIDE DEF Is
<1> DEFINE T == {n \in 0..N : DeployedSo(after[n], own, table, map, n)}
<1>9. 0 \in T
  <2>1. Alike(table, table)
    BY <1>4, AlikeItself
  <2>2. DeployedSo(start, own, table, map, 0)
    BY <1>6, <2>1 DEF DeployedSo
  <2> QED
    BY <1>1, <1>8, <2>2
<1>10. ASSUME NEW n \in 1..N, n - 1 \in T PROVE n \in T
  <2> DEFINE acc == after[n - 1]
             r == Solve(map[n], acc.table, TRUE)
  <2>1. DeployedSo(acc, own, table, map, n - 1)
    BY <1>10
  <2>2. acc.table \in Seq(Map)
    BY <2>1 DEF DeployedSo, Alike
  <2>3. map[n] \in Draft
    BY <1>1
  <2>4. after[n] = DeployMap(acc, map[n], r)
    BY <1>8 DEF Step
  <2> HIDE DEF acc
  <2>5. /\ Alike(r.table, acc.table) /\ r.out \in Command /\ r.ok \in BOOLEAN
        /\ Functions(map[n].target) /\ ~SameCommand(map[n].trigger, map[n].target) => r.out = map[n].target
    BY <2>2, <2>3, SolveIs
  <2> HIDE DEF r
  <2>6. Counts(map[n]) => r.out = map[n].target
    BY <2>3, <2>5, CountsFunctions
  <2>7. n \in 1..Len(map)
    BY DEF N
  <2>8. DeployedSo(DeployMap(acc, map[n], r), own, table, map, n)
    BY <2>1, <2>5, <2>6, <2>7, DeployMapNext
  <2> QED
    BY <2>4, <2>8
<1>11. DeployedSo(end, own, table, map, N)
  <2> HIDE DEF T
  <2>1. 0..N \subseteq T
    BY <1>1, <1>9, <1>10, Upwards
  <2> QED
    BY <1>1, <2>1 DEF T
<1> HIDE DEF end, d
<1>12. /\ end.maps \in Seq(Map) /\ Apart(end.maps) /\ Alike(end.table, table) /\ end.table \in Seq(Map)
       /\ \A k \in 1..N : Counts(map[k]) => Deployed(end.maps, map[k])
  BY <1>11 DEF DeployedSo, Alike
<1>13. Apart(end.table)
  BY <1>4, <1>12, AlikeApart
<1>14. ASSUME NEW i \in 1..Len(end.maps), \A k \in 1..N : ~SameCommand(map[k].trigger, Trigger(end.maps[i]))
       PROVE  \E j \in 1..Len(end.table) : Trigger(end.table[j]) = Trigger(end.maps[i])
  <2> DEFINE e == end.maps[i]
  <2>1. Trigger(e) \in Command
    BY <1>12, EntryType
  <2>2. e \in ToSet(end.maps)
    BY <1>12, InSet
  <2> HIDE DEF e
  <2>3. \A k \in 1..N : ~SameCommand(map[k].trigger, Trigger(e))
    BY <1>14 DEF e
  <2>4. ASSUME NEW k \in 1..N PROVE ~SameCommand(Trigger(e), map[k].trigger) /\ Trigger(e) # map[k].trigger
    <3>1. map[k].trigger \in Command
      BY <1>1 DEF Draft
    <3> QED
      BY <2>1, <2>3, <3>1, SameItself, SameSymmetric
  <2>5. e \in ToSet(own)
    BY <1>11, <2>2, <2>4 DEF DeployedSo
  <2>6. e \in ToSet(table)
    BY <1>3, <2>4, <2>5 DEF OverwrittenSo
  <2>7. PICK j \in 1..Len(table) : table[j] = e
    BY <1>4, <2>6, InSet
  <2>8. j \in 1..Len(end.table) /\ Trigger(end.table[j]) = Trigger(e)
    BY <1>12, <2>7 DEF Alike
  <2> QED
    BY <2>8 DEF e
<1>15. Alike(d.maps, end.maps)
  <2>1. Alike(Shared(end, map).maps, end.maps)
    BY <1>12, <1>13, <1>14, SharedAlike DEF N
  <2> QED
    BY <1>2, <2>1
<1>16. d.maps \in Seq(Map) /\ Apart(d.maps)
  BY <1>12, <1>15, AlikeApart DEF Alike
<1>17. ASSUME NEW k \in 1..N, Counts(map[k]) PROVE Deployed(d.maps, map[k])
  BY <1>12, <1>15, <1>17, AlikeDeployed
<1>18. ASSUME NEW e \in ToSet(own), \A k \in 1..N : ~SameCommand(Trigger(e), map[k].trigger)
       PROVE  Deployed(d.maps, [trigger |-> Trigger(e), target |-> e.target])
  <2> DEFINE draft == [trigger |-> Trigger(e), target |-> e.target]
  <2>1. e \in ToSet(end.maps)
    BY <1>11, <1>18 DEF DeployedSo
  <2>2. draft.trigger = Trigger(e) /\ draft.target = e.target
    OBVIOUS
  <2> HIDE DEF draft
  <2>3. Deployed(end.maps, draft)
    BY <1>12, <2>1, <2>2, DeployedEntry
  <2>4. Deployed(d.maps, draft)
    BY <1>15, <2>3, AlikeDeployed
  <2> QED
    BY <2>4 DEF draft
<1> QED
  BY <1>16, <1>17, <1>18 DEF N, d

\* A registered map and a deployed one.
SameTarget(draft, other) == other.trigger = draft.trigger /\ other.target = draft.target

LEMMA DeployedSame ==
    ASSUME NEW maps, NEW draft, NEW other, SameTarget(draft, other), Deployed(maps, draft)
    PROVE  Deployed(maps, other)
BY DEF Deployed, SameTarget

\* What the registered map commands are: the triggers are all different.
Registered(r) ==
    /\ r \in [default : Seq(Draft), noremap : Seq(Draft), map : Seq(Draft)]
    /\ DraftsApart(r.default) /\ DraftsApart(r.noremap) /\ DraftsApart(r.map)
    /\ \A i \in 1..Len(r.map) : \A j \in 1..Len(r.noremap) :
          ~SameCommand(r.noremap[j].trigger, r.map[i].trigger)

\* What is deployed for them.
DeployedFor(maps, r) ==
    /\ maps \in Seq(Map) /\ Apart(maps)
    /\ \A k \in 1..Len(r.map) : Counts(r.map[k]) => Deployed(maps, r.map[k])
    /\ \A k \in 1..Len(r.noremap) : Counts(r.noremap[k]) => Deployed(maps, r.noremap[k])

LEMMA NoHotkeys ==
    ASSUME NEW maps \in Seq(Map), NEW r, Registered(r), DeployedFor(maps, r)
    PROVE  DeployedFor(Entries(maps, {i \in DOMAIN maps : ~IsHotkey(maps[i])}), r)
<1> DEFINE places == {i \in DOMAIN maps : ~IsHotkey(maps[i])}
           E == Entries(maps, places)
<1>1. DOMAIN maps = 1..Len(maps) /\ Apart(maps)
  BY DEF DeployedFor
<1>2. places \in SUBSET (1..Len(maps))
  BY <1>1
<1>3. \A i \in 1..Len(maps) : i \in places <=> ~IsHotkey(maps[i])
  BY <1>1
<1> HIDE DEF places
<1>4. E \in Seq(Map)
  BY <1>2, EntriesAre
<1>5. Apart(E)
  BY <1>1, <1>2, EntriesApart
<1>6. ToSet(E) = {maps[i] : i \in places}
  BY <1>2, EntriesSet
<1> HIDE DEF E
<1>7. ASSUME NEW draft \in Draft, Counts(draft), Deployed(maps, draft) PROVE Deployed(E, draft)
  <2>1. PICK i \in 1..Len(maps) : Trigger(maps[i]) = draft.trigger /\ maps[i].target = draft.target
    BY <1>7 DEF Deployed
  <2>2. Functions(draft.target)
    BY <1>7, CountsFunctions
  <2>3. ~IsHotkey(maps[i])
    <3>1. SUFFICES ASSUME IsHotkey(maps[i]) PROVE FALSE
      OBVIOUS
    <3>2. Len(draft.target) = 1 /\ IsExternal(draft.target[1])
      BY <2>1, <3>1 DEF IsHotkey
    <3>3. draft.target \in Seq(Unit)
      BY DEF Draft, Command
    <3>4. draft.target[1].kind = "function"
      BY <2>2, <3>2, <3>3 DEF Functions
    <3> QED
      BY <3>2, <3>4 DEF IsExternal
  <2>4. maps[i] \in ToSet(E)
    BY <1>3, <1>6, <2>3
  <2> QED
    BY <1>4, <2>1, <2>4, DeployedEntry
<1>8. r.map \in Seq(Draft) /\ r.noremap \in Seq(Draft)
  BY DEF Registered
<1>9. ASSUME NEW k \in 1..Len(r.map), Counts(r.map[k]) PROVE Deployed(E, r.map[k])
  <2>1. r.map[k] \in Draft
    BY <1>8
  <2>2. Deployed(maps, r.map[k])
    BY <1>9 DEF DeployedFor
  <2> QED
    BY <1>7, <1>9, <2>1, <2>2
<1>10. ASSUME NEW k \in 1..Len(r.noremap), Counts(r.noremap[k]) PROVE Deployed(E, r.noremap[k])
  <2>1. r.noremap[k] \in Draft
    BY <1>8
  <2>2. Deployed(maps, r.noremap[k])
    BY <1>10 DEF DeployedFor
  <2> QED
    BY <1>7, <1>10, <2>1, <2>2
<1>11. DeployedFor(E, r)
  BY <1>4, <1>5, <1>9, <1>10 DEF DeployedFor
<1> QED
  BY <1>11 DEF E, places

LEMMA DeployIs ==
    ASSUME NEW defaults \in Seq(Map), Apart(defaults), NEW r, Registered(r)
    PROVE  DeployedFor(Deploy(defaults, r).deployed, r)
<1> DEFINE nm == DeployNoremap(defaults, r.noremap)
           all == DeployMaps(nm, r.map)
<1>1. r.map \in Seq(Draft) /\ r.noremap \in Seq(Draft) /\ DraftsApart(r.map) /\ DraftsApart(r.noremap)
  BY DEF Registered
<1>2. /\ nm.maps \in Seq(Map) /\ Apart(nm.maps) /\ nm.ok \in BOOLEAN
      /\ \A k \in 1..Len(r.noremap) : Counts(r.noremap[k]) => Deployed(nm.maps, r.noremap[k])
  BY <1>1, DeployNoremapIs
<1> HIDE DEF nm
<1>3. /\ all.maps \in Seq(Map) /\ Apart(all.maps)
      /\ \A k \in 1..Len(r.map) : Counts(r.map[k]) => Deployed(all.maps, r.map[k])
      /\ \A e \in ToSet(nm.maps) :
            (\A k \in 1..Len(r.map) : ~SameCommand(Trigger(e), r.map[k].trigger)) =>
                Deployed(all.maps, [trigger |-> Trigger(e), target |-> e.target])
  BY <1>1, <1>2, DeployMapsIs
<1> HIDE DEF all
<1>4. ASSUME NEW k \in 1..Len(r.noremap), Counts(r.noremap[k]) PROVE Deployed(all.maps, r.noremap[k])
  <2>1. PICK e \in ToSet(nm.maps) : Trigger(e) = r.noremap[k].trigger /\ e.target = r.noremap[k].target
    BY <1>2, <1>4, DeployedEntry
  <2>2. \A i \in 1..Len(r.map) : ~SameCommand(Trigger(e), r.map[i].trigger)
    BY <2>1 DEF Registered
  <2> DEFINE draft == [trigger |-> Trigger(e), target |-> e.target]
  <2>3. Deployed(all.maps, draft)
    BY <1>3, <2>2
  <2>4. SameTarget(draft, r.noremap[k])
    BY <2>1 DEF SameTarget
  <2> HIDE DEF draft
  <2> QED
    BY <2>3, <2>4, DeployedSame
<1>5. DeployedFor(all.maps, r)
  BY <1>3, <1>4 DEF DeployedFor
<1>6. Deploy(defaults, r).deployed = Entries(all.maps, {i \in DOMAIN all.maps : ~IsHotkey(all.maps[i])})
  BY DEF Deploy, all, nm
<1> QED
  BY <1>3, <1>5, <1>6, NoHotkeys

LEMMA AlikeDeployedFor ==
    ASSUME NEW new, NEW old, Alike(new, old), NEW r, DeployedFor(old, r)
    PROVE  DeployedFor(new, r)
<1>1. new \in Seq(Map) /\ Apart(new)
  BY AlikeApart DEF DeployedFor, Alike
<1>2. ASSUME NEW k \in 1..Len(r.map), Counts(r.map[k]) PROVE Deployed(new, r.map[k])
  BY <1>2, AlikeDeployed DEF DeployedFor
<1>3. ASSUME NEW k \in 1..Len(r.noremap), Counts(r.noremap[k]) PROVE Deployed(new, r.noremap[k])
  BY <1>3, AlikeDeployed DEF DeployedFor
<1> QED
  BY <1>1, <1>2, <1>3 DEF DeployedFor

-----------------------------------------------------------------------------
(***************************************************************************)
(* Registration.                                                           *)
(***************************************************************************)
\* No two of the maps, and none of the others, has a trigger of the command.
FreeOf(drafts, cmd) ==
    /\ drafts \in Seq(Draft) /\ DraftsApart(drafts)
    /\ \A i \in 1..Len(drafts) : ~SameCommand(drafts[i].trigger, cmd)

LEMMA WithoutClears ==
    ASSUME NEW drafts \in Seq(Draft), DraftsApart(drafts), NEW cmd \in Command
    PROVE  FreeOf(Without(drafts, cmd), cmd)
<1> DEFINE W == Without(drafts, cmd)
<1>1. W \in Seq(Draft)
  BY WithoutIs
<1>2. DraftsApart(W)
  BY WithoutIs
<1>3. ToSet(W) = {m \in ToSet(drafts) : ~SameCommand(m.trigger, cmd)}
  BY WithoutIs
<1> HIDE DEF W
<1>4. \A i \in 1..Len(W) : W[i] \in ToSet(W)
  BY <1>1 DEF ToSet
<1>5. FreeOf(W, cmd)
  BY <1>1, <1>2, <1>3, <1>4 DEF FreeOf
<1> QED
  BY <1>5 DEF W

LEMMA AddedApart ==
    ASSUME NEW drafts, NEW map \in Draft, FreeOf(drafts, map.trigger)
    PROVE  Append(drafts, map) \in Seq(Draft) /\ DraftsApart(Append(drafts, map))
<1> DEFINE A == Append(drafts, map)
           L == Len(drafts)
<1>1. drafts \in Seq(Draft) /\ DraftsApart(drafts) /\ \A i \in 1..L : ~SameCommand(drafts[i].trigger, map.trigger)
  BY DEF FreeOf
<1>2. /\ A \in Seq(Draft) /\ L \in Nat /\ Len(A) = L + 1 /\ A[L + 1] = map
      /\ \A i \in 1..L : A[i] = drafts[i] /\ drafts[i] \in Draft
  BY <1>1
<1> HIDE DEF A, L
<1>3. \A i \in 1..L : ~SameCommand(map.trigger, drafts[i].trigger)
  <2>1. \A m \in Draft : m.trigger \in Command
    BY DEF Draft
  <2> QED
    BY <1>1, <1>2, <2>1, SameSymmetric
<1>4. ASSUME NEW i \in 1..Len(A), NEW j \in 1..Len(A), SameCommand(A[i].trigger, A[j].trigger)
      PROVE  i = j
  <2>1. (i \in 1..L \/ i = L + 1) /\ (j \in 1..L \/ j = L + 1)
    BY <1>2
  <2>2. CASE i \in 1..L /\ j \in 1..L
    BY <1>1, <1>2, <1>4, <2>2 DEF DraftsApart, L
  <2>3. CASE i \in 1..L /\ j = L + 1
    BY <1>1, <1>2, <1>4, <2>3
  <2>4. CASE i = L + 1 /\ j \in 1..L
    BY <1>2, <1>3, <1>4, <2>4
  <2> QED
    BY <2>1, <2>2, <2>3, <2>4
<1>5. DraftsApart(A)
  BY <1>4 DEF DraftsApart
<1> QED
  BY <1>2, <1>5 DEF A

RegOf(defaults, noremap, map) == [default |-> defaults, noremap |-> noremap, map |-> map]
Cross(map, noremap) ==
    \A a \in ToSet(map) : \A b \in ToSet(noremap) : ~SameCommand(b.trigger, a.trigger)

LEMMA RegisteredIs ==
    ASSUME NEW d \in Seq(Draft), NEW n \in Seq(Draft), NEW m \in Seq(Draft),
           DraftsApart(d), DraftsApart(n), DraftsApart(m), Cross(m, n)
    PROVE  Registered(RegOf(d, n, m))
<1> DEFINE r == RegOf(d, n, m)
<1>1. r \in [default : Seq(Draft), noremap : Seq(Draft), map : Seq(Draft)] /\ r.default = d /\ r.noremap = n /\ r.map = m
  BY DEF RegOf
<1>2. (\A i \in 1..Len(m) : m[i] \in ToSet(m)) /\ (\A j \in 1..Len(n) : n[j] \in ToSet(n))
  BY DEF ToSet
<1>3. \A i \in 1..Len(m) : \A j \in 1..Len(n) : ~SameCommand(n[j].trigger, m[i].trigger)
  BY <1>2 DEF Cross
<1> HIDE DEF r
<1>4. Registered(r)
  BY <1>1, <1>3 DEF Registered
<1> QED
  BY <1>4 DEF r

LEMMA RegisteredCross ==
    ASSUME NEW r, Registered(r)
    PROVE  Cross(r.map, r.noremap)
<1>1. r.map \in Seq(Draft) /\ r.noremap \in Seq(Draft)
  BY DEF Registered
<1>2. ASSUME NEW a \in ToSet(r.map), NEW b \in ToSet(r.noremap) PROVE ~SameCommand(b.trigger, a.trigger)
  <2>1. PICK i \in 1..Len(r.map) : r.map[i] = a
    BY <1>1, InSet
  <2>2. PICK j \in 1..Len(r.noremap) : r.noremap[j] = b
    BY <1>1, InSet
  <2> QED
    BY <2>1, <2>2 DEF Registered
<1> QED
  BY <1>2 DEF Cross

Line == [command : {"map", "noremap", "unmap", "mapclear"}, trigger : Command, target : Command]

LEMMA RegisterIs ==
    ASSUME NEW r, Registered(r), NEW line \in Line
    PROVE  Registered(Register(r, line))
<1> DEFINE map == [trigger |-> line.trigger, target |-> line.target]
           m == Without(r.map, line.trigger)
           n == Without(r.noremap, line.trigger)
           others == [r EXCEPT !.map = m, !.noremap = n]
<1>1. /\ r \in [default : Seq(Draft), noremap : Seq(Draft), map : Seq(Draft)]
      /\ r.default \in Seq(Draft) /\ r.map \in Seq(Draft) /\ r.noremap \in Seq(Draft)
      /\ DraftsApart(r.default) /\ DraftsApart(r.map) /\ DraftsApart(r.noremap)
  BY DEF Registered
<1>2. line.trigger \in Command /\ line.command \in {"map", "noremap", "unmap", "mapclear"}
  BY DEF Line
<1>3. map \in Draft /\ map.trigger = line.trigger
  BY DEF Line, Draft
<1>4. FreeOf(m, line.trigger) /\ FreeOf(n, line.trigger)
  BY <1>1, <1>2, WithoutClears
<1>5. ToSet(m) \subseteq ToSet(r.map) /\ ToSet(n) \subseteq ToSet(r.noremap)
  <2>1. ToSet(m) = {x \in ToSet(r.map) : ~SameCommand(x.trigger, line.trigger)}
    BY <1>1, <1>2, WithoutIs
  <2>2. ToSet(n) = {x \in ToSet(r.noremap) : ~SameCommand(x.trigger, line.trigger)}
    BY <1>1, <1>2, WithoutIs
  <2> QED
    BY <2>1, <2>2
<1> HIDE DEF map, m, n
<1>6. /\ m \in Seq(Draft) /\ DraftsApart(m) /\ n \in Seq(Draft) /\ DraftsApart(n)
      /\ \A i \in 1..Len(m) : ~SameCommand(m[i].trigger, line.trigger)
      /\ \A i \in 1..Len(n) : ~SameCommand(n[i].trigger, line.trigger)
  BY <1>4 DEF FreeOf
<1>7. /\ \A x \in ToSet(m) : x.trigger \in Command /\ ~SameCommand(x.trigger, line.trigger) /\ ~SameCommand(line.trigger, x.trigger)
      /\ \A x \in ToSet(n) : x.trigger \in Command /\ ~SameCommand(x.trigger, line.trigger) /\ ~SameCommand(line.trigger, x.trigger)
  <2>1. ASSUME NEW q \in Seq(Draft), NEW x \in ToSet(q), \A i \in 1..Len(q) : ~SameCommand(q[i].trigger, line.trigger)
        PROVE  x.trigger \in Command /\ ~SameCommand(x.trigger, line.trigger) /\ ~SameCommand(line.trigger, x.trigger)
    <3>1. PICK i \in 1..Len(q) : q[i] = x
      BY InSet
    <3>2. x \in Draft /\ ~SameCommand(x.trigger, line.trigger)
      BY <2>1, <3>1
    <3>3. x.trigger \in Command
      BY <3>2 DEF Draft
    <3> QED
      BY <1>2, <3>2, <3>3, SameSymmetric
  <2> QED
    BY <1>6, <2>1
<1>8. Cross(m, n)
  BY <1>5, RegisteredCross DEF Cross
<1>9. others = RegOf(r.default, n, m) /\ others.map = m /\ others.noremap = n
  <2> DEFINE first == [r EXCEPT !.map = m]
  <2>1. first = RegOf(r.default, r.noremap, m)
    BY <1>1 DEF RegOf
  <2>2. others = [first EXCEPT !.noremap = n]
    OBVIOUS
  <2> HIDE DEF first, others
  <2>3. others = RegOf(r.default, n, m)
    BY <2>1, <2>2 DEF RegOf
  <2> QED
    BY <2>3 DEF RegOf
<1>10. CASE line.command = "map"
  <2> DEFINE more == Append(m, map)
  <2>1. more \in Seq(Draft) /\ DraftsApart(more)
    BY <1>3, <1>4, AddedApart
  <2>2. ToSet(more) = ToSet(m) \cup {map}
    BY <1>3, <1>6, AppendedSet
  <2>3. Register(r, line) = [others EXCEPT !.map = more]
    BY <1>9, <1>10 DEF Register, map, m, n
  <2> HIDE DEF more, others
  <2>4. Register(r, line) = RegOf(r.default, n, more)
    BY <1>9, <2>3 DEF RegOf
  <2>5. Cross(more, n)
    BY <1>3, <1>7, <1>8, <2>2 DEF Cross
  <2> QED
    BY <1>1, <1>6, <2>1, <2>4, <2>5, RegisteredIs
<1>11. CASE line.command = "noremap"
  <2> DEFINE more == Append(n, map)
  <2>1. more \in Seq(Draft) /\ DraftsApart(more)
    BY <1>3, <1>4, AddedApart
  <2>2. ToSet(more) = ToSet(n) \cup {map}
    BY <1>3, <1>6, AppendedSet
  <2>3. Register(r, line) = [others EXCEPT !.noremap = more]
    BY <1>9, <1>11 DEF Register, map, m, n
  <2> HIDE DEF more, others
  <2>4. Register(r, line) = RegOf(r.default, more, m)
    BY <1>9, <2>3 DEF RegOf
  <2>5. Cross(m, more)
    BY <1>3, <1>7, <1>8, <2>2 DEF Cross
  <2> QED
    BY <1>1, <1>6, <2>1, <2>4, <2>5, RegisteredIs
<1>12. CASE line.command = "unmap"
  <2>1. Register(r, line) = others
    BY <1>12 DEF Register, m, n
  <2> QED
    BY <1>1, <1>6, <1>8, <1>9, <2>1, RegisteredIs
<1>13. CASE line.command = "mapclear"
  <2>1. Register(r, line) = RegOf(r.default, <<>>, <<>>)
    BY <1>1, <1>13 DEF Register, RegOf
  <2>2. <<>> \in Seq(Draft) /\ DraftsApart(<<>>) /\ Cross(<<>>, <<>>)
    BY DEF DraftsApart, Cross, ToSet
  <2> QED
    BY <1>1, <2>1, <2>2, RegisteredIs
<1> QED
  BY <1>2, <1>10, <1>11, <1>12, <1>13

LEMMA AddDefaultIs ==
    ASSUME NEW drafts \in Seq(Draft), DraftsApart(drafts), NEW map \in Draft
    PROVE  AddDefault(drafts, map) \in Seq(Draft) /\ DraftsApart(AddDefault(drafts, map))
<1>1. map.trigger \in Command
  BY DEF Draft
<1>2. FreeOf(Without(drafts, map.trigger), map.trigger)
  BY <1>1, WithoutClears
<1> QED
  BY <1>2, AddedApart DEF AddDefault

LEMMA DefaultsTyped ==
    Defaults \in Seq(Draft) /\ Lines \subseteq Line
BY HubAssumption DEF Draft, Line

LEMMA RegistrationsIs ==
    ASSUME NEW N \in Nat, N <= Len(Defaults)
    PROVE  Registrations(N) \in Seq(Draft) /\ DraftsApart(Registrations(N))
<1> DEFINE S == Seq(Draft)
           Step(drafts, n) == AddDefault(drafts, Defaults[n])
           Is(g) == g = [n \in 0..N |-> IF n = 0 THEN <<>> ELSE Step(g[n - 1], n)]
           F == [p \in S \X (1..N) |-> IF DraftsApart(p[1]) THEN Step(p[1], p[2]) ELSE p[1]]
           after == CHOOSE g : Is(g)
<1>1. \A n \in 1..N : Defaults[n] \in Draft
  BY DefaultsTyped
<1>2. Registrations(N) = after[N]
  BY DEF Registrations
<1>3. <<>> \in S /\ DraftsApart(<<>>)
  BY DEF DraftsApart
<1>4. ASSUME NEW q \in S, DraftsApart(q), NEW n \in 1..N PROVE Step(q, n) \in S /\ DraftsApart(Step(q, n))
  BY <1>1, <1>4, AddDefaultIs
<1> HIDE DEF S, Step
<1>5. F \in [S \X (1..N) -> S]
  <2>1. \A p \in S \X (1..N) : (IF DraftsApart(p[1]) THEN Step(p[1], p[2]) ELSE p[1]) \in S
    BY <1>4
  <2> QED
    BY <2>1
<1>6. \A q \in S, n \in 1..N : F[<<q, n>>] = IF DraftsApart(q) THEN Step(q, n) ELSE q
  OBVIOUS
<1> HIDE DEF F
<1>7. PICK g : Becomes(g, S, N, F, <<>>)
  BY <1>3, <1>5, Folding
<1>8. /\ g \in [0..N -> S] /\ g[0] = <<>>
      /\ \A n \in 1..N : g[n - 1] \in S /\ g[n] = F[<<g[n - 1], n>>]
  BY <1>7 DEF Becomes
<1> DEFINE T == {n \in 0..N : DraftsApart(g[n])}
<1>9. 0..N \subseteq T
  <2>1. 0 \in T
    BY <1>3, <1>8
  <2>2. ASSUME NEW n \in 1..N, n - 1 \in T PROVE n \in T
    <3> DEFINE q == g[n - 1]
    <3>1. q \in S /\ DraftsApart(q) /\ g[n] = F[<<q, n>>]
      BY <1>8, <2>2
    <3> HIDE DEF q
    <3>2. g[n] = Step(q, n)
      BY <1>6, <3>1
    <3>3. DraftsApart(g[n])
      BY <1>4, <3>1, <3>2
    <3> QED
      BY <3>3
  <2> HIDE DEF T
  <2> QED
    BY <2>1, <2>2, Upwards
<1>10. ASSUME NEW n \in 0..N PROVE g[n] = IF n = 0 THEN <<>> ELSE Step(g[n - 1], n)
  <2>1. CASE n = 0
    BY <1>8, <2>1
  <2>2. CASE n # 0
    <3>1. n \in 1..N /\ n - 1 \in 0..N
      BY <2>2
    <3>2. DraftsApart(g[n - 1])
      BY <1>9, <3>1
    <3> QED
      BY <1>6, <1>8, <2>2, <3>1, <3>2
  <2> QED
    BY <2>1, <2>2
<1>11. Is(g)
  BY <1>8, <1>10
<1>12. Is(after)
  BY <1>11
<1> HIDE DEF after
<1>13. after[0] = <<>> /\ \A n \in 1..N : after[n] = Step(after[n - 1], n)
  BY <1>12
<1> HIDE DEF Is
<1> DEFINE U == {n \in 0..N : after[n] \in S /\ DraftsApart(after[n])}
<1>14. 0..N \subseteq U
  <2>1. 0 \in U
    BY <1>3, <1>13
  <2>2. ASSUME NEW n \in 1..N, n - 1 \in U PROVE n \in U
    BY <1>4, <1>13, <2>2
  <2> HIDE DEF U
  <2> QED
    BY <2>1, <2>2, Upwards
<1>15. N \in U
  BY <1>14
<1> QED
  BY <1>2, <1>15 DEF S

-----------------------------------------------------------------------------
(***************************************************************************)
(* The steps of the hub.                                                   *)
(***************************************************************************)
HubInv ==
    /\ Registered(reg)
    /\ pc # "boot" => default \in Seq(Map) /\ Apart(default) /\ DeployedFor(deployed, reg)

LEMMA EnqueuedAlike ==
    ASSUME NEW maps \in Seq(Map), NEW keys, NEW n, NEW c, NEW queue
    PROVE  Alike(Enqueued(MapCommandFrom(maps, keys, FALSE), n, c, queue).maps, maps)
<1> DEFINE r == MapCommandFrom(maps, keys, FALSE)
           ended == AnyAccepted(r.maps) \/ AllRejected(r.maps)
           before == IF ended THEN ResetAll(r.maps) ELSE r.maps
<1>1. Alike(r.maps, maps) /\ r.cmd \in Command
  BY MapCommandAlike
<1> HIDE DEF r
<1>2. r.maps \in Seq(Map)
  BY <1>1 DEF Alike
<1>3. Alike(before, r.maps) /\ before \in Seq(Map)
  BY <1>2, ResetAllAlike, AlikeItself DEF Alike
<1>4. Enqueued(r, n, c, queue).maps = FeedAll(before, r.cmd)
  BY DEF Enqueued
<1> HIDE DEF before
<1>5. Alike(FeedAll(before, r.cmd), before)
  BY <1>1, <1>3, FeedAllAlike
<1>6. Alike(FeedAll(before, r.cmd), maps)
  BY <1>1, <1>3, <1>5, AlikeTransitive
<1> QED
  BY <1>4, <1>6 DEF r

LEMMA TakeKeeps ==
    ASSUME HubInv, pc # "boot", NEW item, NEW c, NEW queue, NEW queue2, NEW r,
           Take(item, c, queue, queue2, r)
    PROVE  HubInv'
<1> DEFINE e == EnqueueMapped(item, c, queue)
<1>1. default \in Seq(Map) /\ Apart(default) /\ DeployedFor(deployed, reg) /\ Registered(reg)
  BY DEF HubInv
<1>2. deployed' = e.maps /\ reg' = reg /\ default' = default
  BY DEF Take
<1>3. deployed \in Seq(Map)
  BY <1>1 DEF DeployedFor
<1>4. Alike(e.maps, deployed)
  BY <1>3, EnqueuedAlike DEF EnqueueMapped
<1> HIDE DEF e
<1>5. DeployedFor(e.maps, reg)
  BY <1>1, <1>4, AlikeDeployedFor
<1>6. DeployedFor(deployed', reg')
  BY <1>2, <1>5
<1>7. Registered(reg') /\ default' \in Seq(Map) /\ Apart(default')
  BY <1>1, <1>2
<1> QED
  BY <1>6, <1>7 DEF HubInv

LEMMA HubInit ==
    ASSUME Init
    PROVE  HubInv
<1> DEFINE d == Registrations(Len(Defaults))
<1>1. Len(Defaults) \in Nat /\ Len(Defaults) <= Len(Defaults)
  BY DefaultsTyped
<1>2. d \in Seq(Draft) /\ DraftsApart(d)
  BY <1>1, RegistrationsIs
<1>3. reg = RegOf(d, <<>>, <<>>) /\ pc = "boot"
  BY DEF Init, RegOf
<1>4. <<>> \in Seq(Draft) /\ DraftsApart(<<>>) /\ Cross(<<>>, <<>>)
  BY DEF DraftsApart, Cross, ToSet
<1> HIDE DEF d
<1>5. Registered(reg)
  BY <1>2, <1>3, <1>4, RegisteredIs
<1> QED
  BY <1>3, <1>5 DEF HubInv

LEMMA BootKeeps ==
    ASSUME HubInv, Boot
    PROVE  HubInv'
<1> DEFINE d == DeployDefault(reg.default)
           all == Deploy(d.maps, reg)
<1>1. Registered(reg) /\ reg.default \in Seq(Draft) /\ DraftsApart(reg.default)
  BY DEF HubInv, Registered
<1>2. default' = d.maps /\ deployed' = all.deployed /\ reg' = reg
  BY DEF Boot
<1>3. d.maps \in Seq(Map) /\ Apart(d.maps)
  BY <1>1, DeployDefaultIs
<1> HIDE DEF d
<1>4. DeployedFor(all.deployed, reg)
  BY <1>1, <1>3, DeployIs
<1> HIDE DEF all
<1>5. DeployedFor(deployed', reg')
  BY <1>2, <1>4
<1>6. Registered(reg') /\ default' \in Seq(Map) /\ Apart(default')
  BY <1>1, <1>2, <1>3
<1> QED
  BY <1>5, <1>6 DEF HubInv

LEMMA RemapKeeps ==
    ASSUME HubInv, NEW line \in Lines, Remap(line)
    PROVE  HubInv'
<1> DEFINE all == Deploy(default, reg')
<1>1. Registered(reg) /\ pc # "boot"
  BY DEF HubInv, Remap
<1>2. default \in Seq(Map) /\ Apart(default)
  BY <1>1 DEF HubInv
<1>3. reg' = Register(reg, line) /\ deployed' = all.deployed /\ default' = default
  BY DEF Remap
<1>4. line \in Line
  BY DefaultsTyped
<1>5. Registered(reg')
  BY <1>1, <1>3, <1>4, RegisterIs
<1>6. DeployedFor(all.deployed, reg')
  BY <1>2, <1>5, DeployIs
<1> HIDE DEF all
<1>7. DeployedFor(deployed', reg')
  BY <1>3, <1>6
<1>8. default' \in Seq(Map) /\ Apart(default')
  BY <1>2, <1>3
<1> QED
  BY <1>5, <1>7, <1>8 DEF HubInv

LEMMA SourceKeeps ==
    ASSUME HubInv, NEW line \in Lines, Source(line)
    PROVE  HubInv'
<1>1. Registered(reg) /\ line \in Line
  BY DefaultsTyped DEF HubInv
<1>2. reg' = Register(reg, line) /\ pc' = "boot"
  BY DEF Source
<1>3. Registered(reg')
  BY <1>1, <1>2, RegisterIs
<1> QED
  BY <1>2, <1>3 DEF HubInv

\* The maps stay.
LEMMA StillKeeps ==
    ASSUME HubInv, pc # "boot", UNCHANGED <<reg, default, deployed>>
    PROVE  HubInv'
BY DEF HubInv

LEMMA PullKeeps ==
    ASSUME HubInv, Pull
    PROVE  HubInv'
<1>1. CASE PullWaiting
  <2>1. pc # "boot" /\ Take(Head(waiting), count, Tail(waiting), typing, ref)
    BY <1>1 DEF PullWaiting, Running
  <2> QED
    BY <2>1, TakeKeeps
<1>2. CASE PullTyping
  <2>1. pc # "boot" /\ Take(Head(typing), count, <<>>, Tail(typing), ref)
    BY <1>2 DEF PullTyping, Running
  <2> QED
    BY <2>1, TakeKeeps
<1>3. ASSUME NEW raw \in RawUnits, PullTyped(raw) PROVE HubInv'
  <2>1. pc # "boot"
    BY <1>3 DEF PullTyped, Running
  <2>2. \E keys, digits : NothingTyped \/ CountTyped(digits) \/ UnitTyped(keys)
    BY <1>3 DEF PullTyped
  <2>3. CASE NothingTyped
    <3>1. UNCHANGED <<reg, default, deployed>>
      BY <2>3 DEF NothingTyped, tables
    <3> QED
      BY <2>1, <3>1, StillKeeps
  <2>4. ASSUME NEW digits, CountTyped(digits) PROVE HubInv'
    <3>1. UNCHANGED <<reg, default, deployed>>
      BY <2>4 DEF CountTyped, tables
    <3> QED
      BY <2>1, <3>1, StillKeeps
  <2>5. ASSUME NEW keys, UnitTyped(keys) PROVE HubInv'
    <3>1. \E item, c : Take(item, c, <<>>, <<>>, Close(ref))
      BY <2>5 DEF UnitTyped
    <3> QED
      BY <2>1, <3>1, TakeKeeps
  <2> QED
    BY <2>2, <2>3, <2>4, <2>5
<1> QED
  BY <1>1, <1>2, <1>3 DEF Pull

LEMMA HubStep ==
    ASSUME HubInv, [Next]_vars
    PROVE  HubInv'
<1>1. ASSUME NEW line \in Lines, Source(line) \/ Remap(line) PROVE HubInv'
  BY <1>1, SourceKeeps, RemapKeeps
<1>2. ASSUME NEW cmd, AutoCmd(cmd) PROVE HubInv'
  <2>1. pc # "boot" /\ UNCHANGED <<reg, default, deployed>>
    BY <1>2 DEF AutoCmd, tables
  <2> QED
    BY <2>1, StillKeeps
<1>3. ASSUME NEW cmd, Request(cmd) PROVE HubInv'
  <2>1. pc # "boot" /\ UNCHANGED <<reg, default, deployed>>
    BY <1>3 DEF Request, tables
  <2> QED
    BY <2>1, StillKeeps
<1>4. CASE UNCHANGED vars
  BY <1>4 DEF vars, tables, HubInv
<1> QED
  BY <1>1, <1>2, <1>3, <1>4, BootKeeps, PullKeeps DEF Next

LEMMA HubWins ==
    ASSUME HubInv
    PROVE  LastCommandWins
<1> SUFFICES ASSUME Running
             PROVE  /\ \A i, j \in DOMAIN deployed :
                          SameCommand(Trigger(deployed[i]), Trigger(deployed[j])) => i = j
                    /\ \A k \in DOMAIN (reg.map \o reg.noremap) :
                          LET m == (reg.map \o reg.noremap)[k]
                          IN  OnlyFunctions(m.target) /\ ~SameCommand(m.trigger, m.target)
                                  => \E i \in DOMAIN deployed :
                                        Trigger(deployed[i]) = m.trigger /\ deployed[i].target = m.target
  BY DEF LastCommandWins
<1>1. Registered(reg) /\ DeployedFor(deployed, reg)
  BY DEF HubInv, Running
<1>2. deployed \in Seq(Map) /\ DOMAIN deployed = 1..Len(deployed) /\ Apart(deployed)
  BY <1>1 DEF DeployedFor
<1>3. \A i, j \in DOMAIN deployed : SameCommand(Trigger(deployed[i]), Trigger(deployed[j])) => i = j
  BY <1>2 DEF Apart
<1> DEFINE both == reg.map \o reg.noremap
<1>4. reg.map \in Seq(Draft) /\ reg.noremap \in Seq(Draft)
  BY <1>1 DEF Registered
<1>5. ASSUME NEW k \in DOMAIN both
      PROVE  \/ k \in 1..Len(reg.map) /\ both[k] = reg.map[k]
             \/ k - Len(reg.map) \in 1..Len(reg.noremap) /\ both[k] = reg.noremap[k - Len(reg.map)]
  <2> DEFINE p == reg.map
             q == reg.noremap
  <2>1. p \in Seq(Draft) /\ q \in Seq(Draft) /\ k \in DOMAIN (p \o q)
    BY <1>4, <1>5
  <2> HIDE DEF p, q
  <2>2. \/ k \in 1..Len(p) /\ (p \o q)[k] = p[k]
        \/ k - Len(p) \in 1..Len(q) /\ (p \o q)[k] = q[k - Len(p)]
    BY <2>1
  <2> QED
    BY <2>2 DEF p, q
<1> HIDE DEF both
<1>6. ASSUME NEW k \in DOMAIN both, Counts(both[k]) PROVE Deployed(deployed, both[k])
  <2>1. CASE k \in 1..Len(reg.map) /\ both[k] = reg.map[k]
    BY <1>1, <1>6, <2>1 DEF DeployedFor
  <2>2. CASE k - Len(reg.map) \in 1..Len(reg.noremap) /\ both[k] = reg.noremap[k - Len(reg.map)]
    BY <1>1, <1>6, <2>2 DEF DeployedFor
  <2> QED
    BY <1>5, <2>1, <2>2
<1>7. ASSUME NEW k \in DOMAIN both, OnlyFunctions(both[k].target), ~SameCommand(both[k].trigger, both[k].target)
      PROVE  \E i \in DOMAIN deployed : Trigger(deployed[i]) = both[k].trigger /\ deployed[i].target = both[k].target
  BY <1>2, <1>6, <1>7 DEF Counts, Deployed
<1> QED
  BY <1>3, <1>7 DEF both

\* Whatever map commands the rc file and the user give, and whatever is read in
\* between: the registered maps and noremaps have triggers of their own, as the
\* deployed maps have, and what a registered map of functions stands for is deployed
\* as it was given (add_map, add_noremap, solve_mapping, deploy).
THEOREM LastWins == Spec => [](HubInv /\ LastCommandWins)
<1>1. Init => HubInv
  BY HubInit
<1>2. HubInv /\ [Next]_vars => HubInv'
  BY HubStep
<1>3. HubInv => LastCommandWins
  BY HubWins
<1> QED
  BY <1>1, <1>2, <1>3, PTL DEF Spec

=============================================================================
