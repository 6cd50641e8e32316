---------------------------- MODULE EasyClickProofs ---------------------------
(***************************************************************************)
(* Proofs about UICache and EasyClick.  The cache on its own, for any      *)
(* windows, contents and times: it implements WindowView, whoever waits    *)
(* waits for a build that exists, and a request that starts a build is     *)
(* answered with nothing older than itself; failing builds and the         *)
(* switching of the option are covered.  Together with EasyClick: the      *)
(* functions of the worker, which ask for elements, end with exceptions    *)
(* and move the cursor, keep all of this.  The hints of EasyClick and      *)
(* GridMove: no hint begins another, the hints that are drawn are those    *)
(* that begin with what was typed, and the cursor goes where the typed     *)
(* hint is.                                                                *)
(***************************************************************************)
EXTENDS EasyClick, InductionProofs, SequenceTheorems

\* A cache of a window with content v: its elements, and those that a build has read,
\* are in the order in which they were on the screen; one that was never asked for is empty.
Sound(c, v) ==
    /\ c.root <= v
    /\ c.build.pc \in {"stamp", "ready"} => c.root <= c.build.got /\ c.build.got <= v
    /\ ~c.known => c.root = NONE /\ c.build.pc = "none"

CachesSound ==
    \A w \in Window : Sound(cache[w], version[w]) /\ (~caching => ~cache[w].known)

\* A waiting request: there is something to wait for.
WaitsForBuild ==
    job.pc = "wait" =>
        /\ cache[job.win].known /\ cache[job.win].build.pc # "none"
        /\ job.own /\ cache[job.win].build.pc \in {"stamp", "ready"} =>
               cache[job.win].build.got >= job.asked

JobSound ==
    /\ job.pc \in {"latest", "wait", "clear"} => caching
    /\ job.pc \in {"latest", "wait", "read"} => job.asked <= version[job.win]
    /\ job.pc = "latest" => ~job.own /\ cache[job.win].known
    /\ WaitsForBuild
    /\ OwnBuildIsFresh

CacheInv == TypeOK /\ CachesSound /\ JobSound

-----------------------------------------------------------------------------
(***************************************************************************)
(* The operations on one cache: each keeps it sound and never takes its    *)
(* elements back to older ones.                                            *)
(***************************************************************************)
Advances(c, d, v) == d \in CacheType /\ Sound(d, v) /\ c.root <= d.root /\ d.known

\* ft_.get() gives up elements that are no older than those of the cache, or none.
LEMMA GetAdvances ==
    ASSUME NEW c \in CacheType, NEW v \in Nat, Sound(c, v), c.build.pc \in Finished
    PROVE  /\ Advances(c, Get(c), v)
           /\ c.build.pc = "ready" => Get(c).root = c.build.got
           /\ Get(c).build.pc = "none"
<1>1. c.known /\ c.root \in Nat /\ c.build \in BuildType
    BY DEF Sound, CacheType, Finished, Version, NONE
<1>2. NoBuild \in BuildType /\ NoBuild.pc = "none"
    BY DEF NoBuild, BuildType, NONE
<1>3. CASE c.build.pc = "ready"
  <2> DEFINE g == c.build.got
  <2>1. Get(c) = [c EXCEPT !.root = g, !.build = NoBuild]
      BY <1>3 DEF Get
  <2>2. g \in {NONE} \cup Version
      BY <1>1 DEF BuildType
  <2>3. c.root <= g /\ g <= v
      BY <1>3 DEF Sound
  <2> HIDE DEF g
  <2> QED
      BY <1>1, <1>2, <1>3, <2>1, <2>2, <2>3 DEF Advances, Sound, CacheType, g
<1>4. CASE c.build.pc = "failed"
  <2> DEFINE g == c.root
  <2>1. Get(c) = [c EXCEPT !.root = g, !.build = NoBuild]
      BY <1>4 DEF Get
  <2>2. g \in {NONE} \cup Version /\ g <= v /\ g <= g
      BY <1>1 DEF CacheType, Sound
  <2> HIDE DEF g
  <2>3. Get(c) \in CacheType /\ Get(c).root = g /\ Get(c).known = c.known /\ Get(c).build = NoBuild
      BY <2>1, <2>2, <1>2 DEF CacheType
  <2> QED
      BY <1>1, <1>2, <1>4, <2>2, <2>3 DEF Advances, Sound, g
<1> QED
    BY <1>3, <1>4 DEF Finished

LEMMA CreateThreadAdvances ==
    ASSUME NEW c \in CacheType, NEW v \in Nat, Sound(c, v), c.known
    PROVE  Advances(c, CreateThread(c), v) /\ CreateThread(c).build.pc = "start"
<1> DEFINE b == [pc |-> "start", got |-> NONE]
<1>1. b \in BuildType /\ b.pc = "start"
    BY DEF BuildType, Unfinished, NONE
<1>2. CreateThread(c) = [c EXCEPT !.build = b] /\ c.root \in Nat
    BY DEF CreateThread, CacheType, Version, NONE
<1> HIDE DEF b
<1> QED
    BY <1>1, <1>2 DEF Advances, Sound, CacheType

LEMMA UpdateAdvances ==
    ASSUME NEW c \in CacheType, NEW v \in Nat, Sound(c, v), c.known
    PROVE  Advances(c, Update(c), v)
<1>1. Advances(c, c, v)
    BY DEF Advances, CacheType, Version, NONE
<1>2. c.build.pc \in {"none"} \cup Unfinished \cup Finished
    BY DEF CacheType, BuildType, Finished
<1>3. CASE IsValid(c) \/ c.age < c.mean \/ c.build.pc \in Unfinished
    BY <1>1, <1>3 DEF Update
<1>4. CASE ~(IsValid(c) \/ c.age < c.mean) /\ c.build.pc = "none"
  <2>1. Update(c) = CreateThread(c)
      BY <1>4 DEF Update, Unfinished
  <2> QED
      BY <2>1, CreateThreadAdvances
<1>5. CASE ~(IsValid(c) \/ c.age < c.mean) /\ c.build.pc \in Finished
  <2>1. Update(c) = Get(c)
      BY <1>5 DEF Update, Finished, Unfinished
  <2> QED
      BY <1>5, <2>1, GetAdvances
<1> QED
    BY <1>2, <1>3, <1>4, <1>5

\* A cache of a window that is asked for the first time.
LEMMA CreatedAdvances ==
    ASSUME NEW c \in CacheType, NEW v \in Nat, Sound(c, v), ~c.known
    PROVE  Advances(c, Created, v)
<1>1. NoBuild \in BuildType /\ NoBuild.pc = "none"
    BY DEF NoBuild, BuildType, NONE
<1>2. MaxAge \in Age /\ 0 \in Age
    BY CacheAssumption DEF Age
<1>3. NoCache \in CacheType /\ NoCache.root = NONE /\ NoCache.build = NoBuild
    BY <1>1, <1>2 DEF NoCache, CacheType
<1>4. Created \in CacheType /\ Created.root = NONE /\ Created.build = NoBuild /\ Created.known
    BY <1>3 DEF Created, CacheType
<1> QED
    BY <1>1, <1>4 DEF Advances, Sound, NONE

-----------------------------------------------------------------------------
(***************************************************************************)
(* One cache is replaced by one that advances: the caches stay sound and   *)
(* the view of the window moves as WindowView allows.                      *)
(***************************************************************************)
LEMMA OneCache ==
    ASSUME CacheInv, caching, NEW w \in Window, NEW d, Advances(cache[w], d, version[w]),
           cache' = [cache EXCEPT ![w] = d], UNCHANGED <<version, caching>>
    PROVE  /\ cache' \in [Window -> CacheType]
           /\ CachesSound'
           /\ View!Look(w)
<1>1. /\ cache \in [Window -> CacheType] /\ version \in [Window -> Version]
      /\ \A x \in Window : Sound(cache[x], version[x])
    BY DEF CacheInv, TypeOK, CachesSound
<1>2. d \in CacheType /\ Sound(d, version[w]) /\ cache[w].root <= d.root
    BY DEF Advances
<1>3. cache' \in [Window -> CacheType]
    BY <1>1, <1>2
<1>4. \A x \in Window : Sound(cache'[x], version'[x])
    BY <1>1, <1>2
<1>5. cache[w].root \in Nat /\ d.root \in Nat /\ version[w] \in Nat
    BY <1>1, <1>2 DEF CacheType, Version, NONE
<1>6. d.root \in cache[w].root..version[w]
    BY <1>2, <1>5 DEF Sound
<1>7. [x \in Window |-> cache'[x].root] = [[x \in Window |-> cache[x].root] EXCEPT ![w] = d.root]
    BY <1>1
<1> QED
    BY <1>3, <1>4, <1>6, <1>7 DEF CachesSound, View!Look

-----------------------------------------------------------------------------
(***************************************************************************)
(* The steps.  Each preserves the invariant and is a step of WindowView,   *)
(* or leaves the view as it is.                                            *)
(***************************************************************************)
Roots == [w \in Window |-> cache[w].root]
ViewStep == [View!Next]_<<version, Roots, caching>>

LEMMA Typing ==
    ASSUME CacheInv
    PROVE  /\ cache \in [Window -> CacheType] /\ version \in [Window -> Version]
           /\ job \in JobType /\ caching \in BOOLEAN
           /\ open \subseteq Window /\ active \in Window
           /\ \A w \in Window : Sound(cache[w], version[w])
BY DEF CacheInv, TypeOK, CachesSound

\* A step that leaves the caches, the contents and the option alone.
LEMMA NoCacheStep ==
    ASSUME CacheInv, UNCHANGED <<version, caching, cache>>
    PROVE  CachesSound' /\ ViewStep /\ cache' \in [Window -> CacheType]
<1>1. UNCHANGED <<version, Roots, caching>>
    BY DEF Roots
<1> QED
    BY <1>1 DEF CacheInv, TypeOK, CachesSound, ViewStep

\* Time passes: only ages grow.
LEMMA TickStep ==
    ASSUME CacheInv, Tick
    PROVE  CacheInv' /\ ViewStep
<1>1. \A w \in Window : /\ cache'[w] \in CacheType
                        /\ cache'[w].root = cache[w].root /\ cache'[w].build = cache[w].build
                        /\ cache'[w].known = cache[w].known
  <2>1. \A a \in Age : Older(a) \in Age
      BY CacheAssumption DEF Older, Age
  <2> SUFFICES ASSUME NEW w \in Window
               PROVE  /\ cache'[w] \in CacheType
                      /\ cache'[w].root = cache[w].root /\ cache'[w].build = cache[w].build
                      /\ cache'[w].known = cache[w].known
      OBVIOUS
  <2>2. cache'[w] = [cache[w] EXCEPT !.age = Older(@)]
      BY DEF Tick
  <2>3. cache[w] \in CacheType
      BY Typing
  <2> QED
      BY <2>1, <2>2, <2>3 DEF CacheType
<1>2. cache' \in [Window -> CacheType]
    BY <1>1 DEF Tick
<1>3. UNCHANGED <<open, version, active, caching, job>>
    BY DEF Tick
<1>4. still' \in [moved : BOOLEAN, age : 0..StayEnd + 1]
    BY CacheAssumption DEF Tick, CacheInv, TypeOK
<1>5. TypeOK'
    BY <1>2, <1>3, <1>4 DEF CacheInv, TypeOK
<1>6. CachesSound'
    BY <1>1, <1>3 DEF CacheInv, CachesSound, Sound
<1>7. JobSound'
    BY <1>1, <1>3, Typing DEF CacheInv, TypeOK, JobSound, WaitsForBuild, OwnBuildIsFresh
<1>8. Roots' = Roots
    BY <1>1 DEF Roots
<1> QED
    BY <1>3, <1>5, <1>6, <1>7, <1>8 DEF CacheInv, ViewStep

\* The content of a window changes: what has been read becomes older.
LEMMA ChangeStep ==
    ASSUME CacheInv, NEW w \in Window, Change(w)
    PROVE  CacheInv' /\ ViewStep
<1>1. UNCHANGED <<open, active, still, caching, cache, job>>
    BY DEF Change
<1>2. version' \in [Window -> Version] /\ \A x \in Window : version[x] <= version'[x]
    BY Typing, CacheAssumption DEF Change, Version
<1>3. TypeOK'
    BY <1>1, <1>2 DEF CacheInv, TypeOK
<1>4. \A x \in Window : Sound(cache[x], version'[x])
  <2> SUFFICES ASSUME NEW x \in Window PROVE Sound(cache[x], version'[x])
      OBVIOUS
  <2>1. /\ cache[x] \in CacheType /\ Sound(cache[x], version[x])
        /\ version[x] \in Nat /\ version'[x] \in Nat
      BY <1>2, Typing DEF Version
  <2>2. cache[x].root \in Nat /\ cache[x].build.got \in Nat
      BY <2>1 DEF CacheType, BuildType, Version, NONE
  <2> QED
      BY <1>2, <2>1, <2>2 DEF Sound
<1>5. CachesSound'
    BY <1>1, <1>4 DEF CacheInv, CachesSound
<1>6. JobSound'
  <2>1. job.asked \in Nat /\ (job.pc \in {"latest", "wait", "read"} => job.win \in Window)
      BY DEF CacheInv, TypeOK, JobType, Version, NONE
  <2>2. \A x \in Window : version[x] \in Nat /\ version'[x] \in Nat
      BY <1>2, Typing DEF Version
  <2> QED
      BY <1>1, <1>2, <2>1, <2>2 DEF CacheInv, JobSound, WaitsForBuild, OwnBuildIsFresh
<1>7. View!Change(w)
    BY <1>1 DEF Change, View!Change
<1> QED
    BY <1>3, <1>5, <1>6, <1>7 DEF CacheInv, ViewStep, View!Next

\* The foreground and the cursor.
LEMMA OutsideStep ==
    ASSUME CacheInv, Outside
    PROVE  CacheInv' /\ ViewStep
<1>1. CASE Tick
    BY <1>1, TickStep
<1>2. ASSUME NEW w \in open, Change(w) PROVE CacheInv' /\ ViewStep
    BY <1>2, ChangeStep, Typing
<1>3. CASE MoveCursor \/ \E w \in open : Activate(w)
  <2>1. UNCHANGED <<open, version, caching, cache, job>>
      BY <1>3 DEF MoveCursor, Activate
  <2>2. TypeOK'
      BY <1>3 DEF CacheInv, TypeOK, MoveCursor, Activate
  <2>3. JobSound'
      BY <2>1 DEF CacheInv, JobSound, WaitsForBuild, OwnBuildIsFresh
  <2> QED
      BY <2>1, <2>2, <2>3, NoCacheStep DEF CacheInv
<1> QED
    BY <1>1, <1>2, <1>3 DEF Outside

-----------------------------------------------------------------------------
\* A thread of a build moves the cache of its window forward, ...
LEMMA BuildAdvances ==
    ASSUME CacheInv, NEW w \in Window, BuildStep(w)
    PROVE  \E d : /\ Build(w, d) /\ Advances(cache[w], d, version[w])
                  /\ d.build.pc # "none"
                  /\ d.build.pc \in {"stamp", "ready"} =>
                        \/ d.build.got = version[w]
                        \/ cache[w].build.pc = "stamp" /\ d.build.got = cache[w].build.got
<1> DEFINE c == cache[w]
<1>1. c \in CacheType /\ Sound(c, version[w]) /\ version[w] \in Version
    BY Typing
<1>2. c.root \in Nat /\ c.build \in BuildType
    BY <1>1 DEF CacheType, Version, NONE
<1>3. c.build.pc # "none" => c.known
    BY <1>1 DEF Sound
<1>4. CASE BuildBegin(w)
  <2> DEFINE b == [c.build EXCEPT !.pc = "read"]
             d == [c EXCEPT !.build = b, !.age = 0]
  <2>1. c.build.pc = "start" /\ Build(w, d)
      BY <1>4 DEF BuildBegin
  <2>2. b \in BuildType /\ b.pc = "read"
      BY <1>2 DEF BuildType, Unfinished
  <2> HIDE DEF b
  <2>0. 0 \in Age
      BY CacheAssumption DEF Age
  <2>3. d \in CacheType /\ d.root = c.root /\ d.known = c.known /\ d.build = b
      BY <1>1, <2>0, <2>2 DEF CacheType
  <2> HIDE DEF d
  <2>5. /\ Advances(c, d, version[w]) /\ d.build.pc # "none"
        /\ d.build.pc \in {"stamp", "ready"} =>
              d.build.got = version[w] \/ (c.build.pc = "stamp" /\ d.build.got = c.build.got)
      BY <1>1, <1>2, <1>3, <2>1, <2>2, <2>3 DEF Advances, Sound
  <2> QED
      BY <2>1, <2>5
<1>5. CASE BuildRead(w) /\ Build(w, [c EXCEPT !.build = [pc |-> "stamp", got |-> version[w]]])
  <2> DEFINE b == [pc |-> "stamp", got |-> version[w]]
             d == [c EXCEPT !.build = b]
  <2>1. c.build.pc = "read" /\ Build(w, d)
      BY <1>5 DEF BuildRead
  <2>2. b \in BuildType /\ b.pc = "stamp" /\ b.got = version[w]
      BY <1>1 DEF BuildType, Unfinished
  <2> HIDE DEF b
  <2>3. d \in CacheType /\ d.root = c.root /\ d.known = c.known /\ d.build = b
      BY <1>1, <2>2 DEF CacheType
  <2>4. c.root <= version[w] /\ version[w] <= version[w] /\ c.root <= c.root
      BY <1>1, <1>2 DEF Sound, Version
  <2> HIDE DEF d
  <2>5. /\ Advances(c, d, version[w]) /\ d.build.pc # "none"
        /\ d.build.pc \in {"stamp", "ready"} =>
              d.build.got = version[w] \/ (c.build.pc = "stamp" /\ d.build.got = c.build.got)
      BY <1>3, <2>1, <2>2, <2>3, <2>4 DEF Advances, Sound
  <2> QED
      BY <2>1, <2>5
<1>6. CASE BuildRead(w) /\ Build(w, [c EXCEPT !.build.pc = "failed"])
  <2> DEFINE b == [c.build EXCEPT !.pc = "failed"]
             d == [c EXCEPT !.build = b]
  <2>1. c.build.pc = "read" /\ Build(w, d)
      BY <1>6 DEF BuildRead
  <2>2. b \in BuildType /\ b.pc = "failed"
      BY <1>2 DEF BuildType
  <2> HIDE DEF b
  <2>3. d \in CacheType /\ d.root = c.root /\ d.known = c.known /\ d.build = b
      BY <1>1, <2>2 DEF CacheType
  <2> HIDE DEF d
  <2>5. /\ Advances(c, d, version[w]) /\ d.build.pc # "none"
        /\ d.build.pc \in {"stamp", "ready"} =>
              d.build.got = version[w] \/ (c.build.pc = "stamp" /\ d.build.got = c.build.got)
      BY <1>1, <1>2, <1>3, <2>1, <2>2, <2>3 DEF Advances, Sound
  <2> QED
      BY <2>1, <2>5
<1>7. CASE BuildEnd(w)
  <2> DEFINE b == [c.build EXCEPT !.pc = "ready"]
             m == Mean(c)
             d == [c EXCEPT !.stamped = TRUE, !.mean = m, !.build = b]
  <2>1. c.build.pc = "stamp" /\ Build(w, d)
      BY <1>7 DEF BuildEnd
  <2>2. b \in BuildType /\ b.pc = "ready" /\ b.got = c.build.got
      BY <1>2 DEF BuildType, Finished
  <2>3. m \in Age
    <3>1. c.mean \in 0..MaxAge /\ c.age \in 0..MaxAge /\ MaxAge \in Nat
        BY <1>1, CacheAssumption DEF CacheType, Age
    <3>2. \A x, y \in 0..MaxAge : (x + y) \div 2 \in 0..MaxAge
        BY <3>1
    <3> QED
        BY <3>1, <3>2 DEF Mean, Age
  <2> HIDE DEF b, m
  <2>4. d \in CacheType /\ d.root = c.root /\ d.known = c.known /\ d.build = b
      BY <1>1, <2>2, <2>3 DEF CacheType
  <2> HIDE DEF d
  <2>5. /\ Advances(c, d, version[w]) /\ d.build.pc # "none"
        /\ d.build.pc \in {"stamp", "ready"} =>
              d.build.got = version[w] \/ (c.build.pc = "stamp" /\ d.build.got = c.build.got)
      BY <1>1, <1>2, <1>3, <2>1, <2>2, <2>4 DEF Advances, Sound
  <2> QED
      BY <2>1, <2>5
<1> QED
    BY <1>4, <1>5, <1>6, <1>7 DEF BuildStep, BuildRead

\* ... so that whoever waits for it goes on waiting for the same build, or for its result.
LEMMA BuilderStep ==
    ASSUME CacheInv, Builder
    PROVE  CacheInv' /\ ViewStep
<1> PICK w \in Window : BuildStep(w)
    BY DEF Builder
<1> PICK d : /\ Build(w, d) /\ Advances(cache[w], d, version[w]) /\ d.build.pc # "none"
             /\ d.build.pc \in {"stamp", "ready"} =>
                   \/ d.build.got = version[w]
                   \/ cache[w].build.pc = "stamp" /\ d.build.got = cache[w].build.got
    BY BuildAdvances
<1>1. cache' = [cache EXCEPT ![w] = d] /\ UNCHANGED <<open, version, active, still, caching, job>>
    BY DEF Build
<1>2. cache[w].build.pc # "none"
    BY DEF BuildStep, BuildBegin, BuildRead, BuildEnd
<1>3. caching
    BY <1>2 DEF CacheInv, CachesSound, Sound
<1>4. cache' \in [Window -> CacheType] /\ CachesSound' /\ View!Look(w)
    BY <1>1, <1>3, OneCache
<1>5. TypeOK'
    BY <1>1, <1>4 DEF CacheInv, TypeOK
<1>6. JobSound'
  <2>1. WaitsForBuild'
    <3> SUFFICES ASSUME job.pc = "wait"
                 PROVE  /\ cache'[job.win].known /\ cache'[job.win].build.pc # "none"
                        /\ job.own /\ cache'[job.win].build.pc \in {"stamp", "ready"} =>
                               cache'[job.win].build.got >= job.asked
        BY <1>1 DEF WaitsForBuild
    <3>1. job.win \in Window /\ job.asked <= version[job.win]
        BY DEF CacheInv, TypeOK, JobSound
    <3>2. job.asked \in Nat /\ version[job.win] \in Nat
        BY <3>1, Typing DEF JobType, Version, NONE
    <3>3. CASE job.win # w
        BY <1>1, <3>1, <3>3 DEF CacheInv, TypeOK, JobSound, WaitsForBuild
    <3>4. CASE job.win = w
      <4>1. cache'[w] = d /\ d.known
          BY <1>1, <3>4, Typing DEF Advances
      <4>2. job.own /\ d.build.pc \in {"stamp", "ready"} => d.build.got >= job.asked
          BY <3>1, <3>2, <3>4 DEF CacheInv, JobSound, WaitsForBuild
      <4> QED
          BY <3>4, <4>1, <4>2
    <3> QED
        BY <3>3, <3>4
  <2>2. job.pc = "latest" => cache'[job.win].known
      BY <1>1, Typing DEF CacheInv, TypeOK, JobSound, Advances
  <2> QED
      BY <1>1, <2>1, <2>2 DEF CacheInv, JobSound, OwnBuildIsFresh
<1> QED
    BY <1>4, <1>5, <1>6 DEF CacheInv, ViewStep, View!Next

\* A job that neither asks nor waits has nothing to keep.
LEMMA IdleJob ==
    ASSUME CacheInv, job' = NoJob
    PROVE  JobSound' /\ job' \in JobType
BY DEF JobSound, WaitsForBuild, OwnBuildIsFresh, NoJob, JobType

LEMMA ProcessStep ==
    ASSUME CacheInv, Process
    PROVE  CacheInv' /\ ViewStep
<1>1. UNCHANGED <<open, version, active, caching, job>> /\ caching /\ job.pc = "idle"
    BY DEF Process
<1>2. JobSound'
    BY <1>1 DEF JobSound, WaitsForBuild, OwnBuildIsFresh
<1>3. CASE still.moved
  <2>1. UNCHANGED cache /\ still' = [moved |-> FALSE, age |-> 0]
      BY <1>3 DEF Process
  <2>2. still' \in [moved : BOOLEAN, age : 0..StayEnd + 1]
      BY <2>1, CacheAssumption
  <2>3. TypeOK'
      BY <1>1, <2>1, <2>2 DEF CacheInv, TypeOK
  <2> QED
      BY <1>1, <1>2, <2>1, <2>3, NoCacheStep DEF CacheInv
<1>4. CASE ~still.moved
  <2> DEFINE c == cache[active]
             d == Update(IF c.known THEN c ELSE Created)
  <2>1. cache' = [cache EXCEPT ![active] = d] /\ UNCHANGED still
      BY <1>4 DEF Process
  <2>2. c \in CacheType /\ Sound(c, version[active]) /\ version[active] \in Nat
      BY Typing DEF Version
  <2>3. Advances(c, d, version[active])
    <3>1. CASE c.known
        BY <2>2, <3>1, UpdateAdvances
    <3>2. CASE ~c.known
      <4>1. Advances(c, Created, version[active])
          BY <2>2, <3>2, CreatedAdvances
      <4>2. Advances(Created, Update(Created), version[active])
          BY <2>2, <4>1, UpdateAdvances DEF Advances
      <4>3. c.root \in Nat /\ Created.root \in Nat /\ Update(Created).root \in Nat
          BY <2>2, <4>1, <4>2 DEF Advances, CacheType, Version, NONE
      <4> QED
          BY <3>2, <4>1, <4>2, <4>3 DEF Advances
    <3> QED
        BY <3>1, <3>2
  <2> HIDE DEF d
  <2> PICK w \in Window : w = active
      BY Typing
  <2>4. cache' \in [Window -> CacheType] /\ CachesSound' /\ View!Look(w)
      BY <1>1, <2>1, <2>3, OneCache
  <2>5. TypeOK'
      BY <1>1, <2>1, <2>4 DEF CacheInv, TypeOK
  <2> QED
      BY <1>2, <2>4, <2>5, Typing DEF CacheInv, ViewStep, View!Next
<1> QED
    BY <1>3, <1>4

-----------------------------------------------------------------------------
\* A request remembers what the window shows.
LEMMA RequestStep ==
    ASSUME CacheInv, NEW w \in Window, Request(w)
    PROVE  CacheInv' /\ ViewStep
<1>1. /\ UNCHANGED <<open, version, active, still, caching>>
      /\ job' = [pc |-> IF caching THEN "latest" ELSE "read", win |-> w,
                 asked |-> version[w], own |-> FALSE, got |-> NONE]
    BY DEF Request, NoJob
<1>2. job' \in JobType
    BY <1>1, Typing DEF JobType
<1>3. version[w] \in Nat /\ version[w] <= version[w]
    BY Typing DEF Version
<1>4. CASE caching /\ ~cache[w].known
  <2>1. cache' = [cache EXCEPT ![w] = Created]
      BY <1>4 DEF Request
  <2>2. Advances(cache[w], Created, version[w])
      BY <1>3, <1>4, CreatedAdvances, Typing
  <2>3. cache' \in [Window -> CacheType] /\ CachesSound' /\ View!Look(w)
      BY <1>1, <1>4, <2>1, <2>2, OneCache
  <2>4. TypeOK'
      BY <1>1, <1>2, <2>3 DEF CacheInv, TypeOK
  <2>5. cache'[w].known
      BY <2>1, <2>2, Typing DEF Advances
  <2>6. JobSound'
      BY <1>1, <1>3, <1>4, <2>5 DEF JobSound, WaitsForBuild, OwnBuildIsFresh
  <2> QED
      BY <2>3, <2>4, <2>6 DEF CacheInv, ViewStep, View!Next
<1>5. CASE ~(caching /\ ~cache[w].known)
  <2>1. cache' = cache
      BY <1>5 DEF Request
  <2>2. TypeOK'
      BY <1>1, <1>2, <2>1 DEF CacheInv, TypeOK
  <2>3. JobSound'
      BY <1>1, <1>3, <1>5, <2>1 DEF JobSound, WaitsForBuild, OwnBuildIsFresh
  <2> QED
      BY <1>1, <2>1, <2>2, <2>3, NoCacheStep DEF CacheInv
<1> QED
    BY <1>4, <1>5

\* A step of a request that replaces the cache of its window.
LEMMA RequestedCache ==
    ASSUME CacheInv, job.pc \in {"latest", "wait"}, NEW d,
           Advances(cache[job.win], d, version[job.win]),
           cache' = [cache EXCEPT ![job.win] = d], job' \in JobType,
           job'.win = job.win,
           UNCHANGED <<open, version, active, still, caching>>, JobSound'
    PROVE  CacheInv' /\ ViewStep
<1> PICK w \in Window : w = job.win
    BY DEF CacheInv, TypeOK
<1>1. caching
    BY DEF CacheInv, JobSound
<1>2. cache' \in [Window -> CacheType] /\ CachesSound' /\ View!Look(w)
    BY <1>1, OneCache
<1>3. TypeOK'
    BY <1>2 DEF CacheInv, TypeOK
<1> QED
    BY <1>2, <1>3 DEF CacheInv, ViewStep, View!Next

\* The elements of d are served, or the exception of its build is thrown.
LEMMA AnswerType ==
    ASSUME CacheInv, job.pc \in {"latest", "wait"}, NEW c \in CacheType,
           \/ job' = [job EXCEPT !.pc = "served", !.got = c.root]
           \/ job' = [job EXCEPT !.pc = "threw"]
    PROVE  /\ job' \in JobType /\ job'.win = job.win
           /\ (job'.pc = "served" => (job'.own => c.root >= job.asked)) => JobSound'
<1>1. c.root \in {NONE} \cup Version /\ job \in JobType
    BY Typing DEF CacheType
<1>2. job' \in JobType /\ job'.win = job.win
    BY <1>1 DEF JobType
<1>3. /\ job'.pc \in {"served", "threw"} /\ job'.asked = job.asked
      /\ job'.pc = "served" => job'.got = c.root
    BY <1>1 DEF JobType
<1> QED
    BY <1>2, <1>3 DEF JobSound, WaitsForBuild, OwnBuildIsFresh

\* The cache of the request in progress.
LEMMA RequestedType ==
    ASSUME CacheInv, job.pc \in {"latest", "wait"}
    PROVE  /\ job.win \in Window /\ job \in JobType /\ cache[job.win].known
           /\ cache[job.win] \in CacheType /\ Sound(cache[job.win], version[job.win])
           /\ version[job.win] \in Nat
           /\ job.pc = "latest" => ~job.own
BY Typing DEF CacheInv, TypeOK, JobSound, WaitsForBuild, Version

\* A finished build is fetched: its elements are served, or its exception is thrown.
LEMMA FetchStep ==
    ASSUME CacheInv, LatestFinished \/ Wait
    PROVE  CacheInv' /\ ViewStep
<1> DEFINE c == cache[job.win]
           d == Get(c)
<1>1. /\ job.pc \in {"latest", "wait"} /\ c.build.pc \in Finished
      /\ UNCHANGED <<open, version, active, still, caching>>
      /\ cache' = [cache EXCEPT ![job.win] = d]
      /\ \/ job' = [job EXCEPT !.pc = "served", !.got = d.root] /\ c.build.pc = "ready"
         \/ job' = [job EXCEPT !.pc = "threw"]
    BY DEF LatestFinished, Wait, Serve, Throw, Finished
<1>2. Advances(c, d, version[job.win]) /\ (c.build.pc = "ready" => d.root = c.build.got)
    BY <1>1, RequestedType, GetAdvances
<1>3. job'.pc = "served" => (job'.own => d.root >= job.asked)
  <2> SUFFICES ASSUME job'.pc = "served", job'.own
               PROVE  d.root >= job.asked
      OBVIOUS
  <2>1. job'.own = job.own /\ c.build.pc = "ready"
      BY <1>1, RequestedType DEF JobType
  <2>2. job.pc = "wait"
      BY <1>1, <2>1, RequestedType
  <2> QED
      BY <1>2, <2>1, <2>2 DEF CacheInv, JobSound, WaitsForBuild
<1> HIDE DEF d
<1>4. job' \in JobType /\ job'.win = job.win /\ JobSound'
    BY <1>1, <1>2, <1>3, AnswerType DEF Advances
<1> QED
    BY <1>1, <1>2, <1>4, RequestedCache

\* A valid cache is served as it is.
LEMMA ValidStep ==
    ASSUME CacheInv, LatestValid
    PROVE  CacheInv' /\ ViewStep
<1> DEFINE c == cache[job.win]
<1>1. /\ job.pc = "latest" /\ UNCHANGED <<open, version, active, still, caching>>
      /\ cache' = [cache EXCEPT ![job.win] = c]
      /\ job' = [job EXCEPT !.pc = "served", !.got = c.root]
    BY DEF LatestValid, Serve
<1>2. Advances(c, c, version[job.win])
    BY <1>1, RequestedType DEF Advances, CacheType, Version, NONE
<1>3. ~job'.own
    BY <1>1, RequestedType DEF JobType
<1>4. job' \in JobType /\ job'.win = job.win /\ JobSound'
    BY <1>1, <1>3, RequestedType, AnswerType
<1> QED
    BY <1>1, <1>2, <1>4, RequestedCache

\* A request that begins to wait has a build to wait for; if it is its own, what the
\* build will read is not older than the request.
LEMMA WaitStep ==
    ASSUME CacheInv, LatestWait
    PROVE  CacheInv' /\ ViewStep
<1> DEFINE c == cache[job.win]
<1>1. job.pc = "latest" /\ UNCHANGED <<open, version, active, still, caching>>
    BY DEF LatestWait
<1>2. caching /\ job.asked <= version[job.win]
    BY <1>1 DEF CacheInv, JobSound
<1>3. CASE /\ c.build.pc = "none"
           /\ cache' = [cache EXCEPT ![job.win] = CreateThread(c)]
           /\ job' = [job EXCEPT !.pc = "wait", !.own = TRUE]
  <2> DEFINE d == CreateThread(c)
  <2>1. Advances(c, d, version[job.win]) /\ d.build.pc = "start"
      BY <1>1, RequestedType, CreateThreadAdvances
  <2> HIDE DEF d
  <2>2. /\ job' \in JobType /\ job'.win = job.win /\ job'.pc = "wait" /\ job'.asked = job.asked
      BY <1>1, <1>3, RequestedType DEF JobType
  <2>3. cache'[job.win] = d /\ d.known
      BY <1>1, <1>3, <2>1, Typing, RequestedType DEF d, Advances
  <2>4. JobSound'
      BY <1>1, <1>2, <2>1, <2>2, <2>3 DEF JobSound, WaitsForBuild, OwnBuildIsFresh
  <2> QED
      BY <1>1, <1>3, <2>1, <2>2, <2>4, RequestedCache DEF d
<1>4. CASE c.build.pc \in Unfinished /\ job' = [job EXCEPT !.pc = "wait"] /\ UNCHANGED cache
  <2>1. /\ job' \in JobType /\ job'.win = job.win /\ job'.pc = "wait"
        /\ job'.asked = job.asked /\ ~job'.own
      BY <1>1, <1>4, RequestedType DEF JobType
  <2>2. TypeOK'
      BY <1>1, <1>4, <2>1, RequestedType DEF CacheInv, TypeOK
  <2>3. JobSound'
      BY <1>1, <1>2, <1>4, <2>1, RequestedType
      DEF JobSound, WaitsForBuild, OwnBuildIsFresh, Unfinished
  <2> QED
      BY <1>1, <1>4, <2>2, <2>3, NoCacheStep DEF CacheInv
<1> QED
    BY <1>3, <1>4 DEF LatestWait

\* The elements are read without a cache: they are what the window shows.
LEMMA ReadStep ==
    ASSUME CacheInv, Read
    PROVE  CacheInv' /\ ViewStep
<1>1. job.pc = "read" /\ UNCHANGED <<open, version, active, still, caching, cache>>
    BY DEF Read
<1>2. job.win \in Window /\ job.asked <= version[job.win] /\ job.asked \in Nat
    BY <1>1, Typing DEF CacheInv, TypeOK, JobSound, JobType, Version, NONE
<1>3. version[job.win] \in Version /\ version[job.win] \in Nat
    BY <1>2, Typing DEF Version
<1>4. /\ job' \in JobType /\ job'.pc \in {"served", "threw"} /\ job'.asked = job.asked
      /\ job'.pc = "served" => job'.got = version[job.win]
    BY <1>3, Typing DEF Read, JobType
<1>5. TypeOK'
    BY <1>1, <1>4 DEF CacheInv, TypeOK
<1>6. JobSound'
    BY <1>2, <1>3, <1>4 DEF JobSound, WaitsForBuild, OwnBuildIsFresh
<1> QED
    BY <1>1, <1>5, <1>6, NoCacheStep DEF CacheInv

\* Caching ends with everything forgotten, and begins with nothing.
LEMMA SwitchStep ==
    ASSUME CacheInv, Clear \/ Enable
    PROVE  CacheInv' /\ ViewStep
<1>1. UNCHANGED <<open, version, active, still>> /\ caching' = ~caching
    BY DEF Clear, Enable, CacheInv, JobSound
<1>2. CASE Clear
  <2>1. cache' = [w \in Window |-> NoCache] /\ job' = NoJob /\ ~caching'
      BY <1>2 DEF Clear
  <2>2. NoBuild \in BuildType /\ NoBuild.pc = "none"
      BY DEF NoBuild, BuildType, NONE
  <2>3. MaxAge \in Age /\ 0 \in Age
      BY CacheAssumption DEF Age
  <2>4. /\ NoCache \in CacheType /\ NoCache.root = NONE /\ NoCache.build = NoBuild
        /\ ~NoCache.known
      BY <2>2, <2>3 DEF NoCache, CacheType
  <2>5. TypeOK' /\ JobSound'
      BY <1>1, <2>1, <2>4, IdleJob, Typing DEF CacheInv, TypeOK, NoJob
  <2>6. CachesSound'
      BY <1>1, <2>1, <2>2, <2>4, Typing DEF CachesSound, Sound, Version, NONE
  <2>7. Roots' = [w \in Window |-> 0]
      BY <2>1, <2>4 DEF Roots, NONE
  <2> QED
      BY <1>1, <2>5, <2>6, <2>7 DEF CacheInv, ViewStep, View!Next, View!Switch, Roots
<1>3. CASE Enable
  <2>1. UNCHANGED <<cache, job>> /\ ~caching /\ job.pc = "idle" /\ caching'
      BY <1>3 DEF Enable
  <2>2. TypeOK'
      BY <1>1, <2>1 DEF CacheInv, TypeOK
  <2>3. CachesSound' /\ JobSound'
      BY <1>1, <2>1 DEF CacheInv, CachesSound, JobSound, WaitsForBuild, OwnBuildIsFresh
  <2>4. Roots' = [w \in Window |-> 0]
      BY <2>1 DEF Roots, CacheInv, CachesSound, Sound, NONE
  <2> QED
      BY <1>1, <2>2, <2>3, <2>4 DEF CacheInv, ViewStep, View!Next, View!Switch, Roots
<1> QED
    BY <1>2, <1>3

LEMMA OtherStep ==
    ASSUME CacheInv, Release \/ Disable
    PROVE  CacheInv' /\ ViewStep
<1>1. UNCHANGED <<open, version, active, still, caching, cache>>
    BY DEF Release, Disable
<1>2. job' \in JobType /\ job'.pc \in {"idle", "clear"} /\ (job'.pc = "clear" => caching)
  <2>1. NoJob \in JobType /\ NoJob.pc = "idle"
      BY DEF NoJob, JobType
  <2>2. CASE Release
      BY <2>1, <2>2 DEF Release
  <2>3. CASE Disable
      BY <2>1, <2>3 DEF Disable, JobType
  <2> QED
      BY <2>2, <2>3
<1>3. TypeOK'
    BY <1>1, <1>2 DEF CacheInv, TypeOK
<1>4. JobSound'
    BY <1>1, <1>2 DEF JobSound, WaitsForBuild, OwnBuildIsFresh
<1> QED
    BY <1>1, <1>3, <1>4, NoCacheStep DEF CacheInv

-----------------------------------------------------------------------------
LEMMA CacheInvInit == Init => CacheInv /\ View!Init
<1> SUFFICES ASSUME Init PROVE CacheInv /\ View!Init
    OBVIOUS
<1>1. NoBuild \in BuildType /\ NoBuild.pc = "none" /\ MaxAge \in Age /\ 0 \in Age
    BY CacheAssumption DEF NoBuild, BuildType, NONE, Age
<1>2. /\ NoCache \in CacheType /\ NoCache.root = NONE /\ NoCache.build = NoBuild
      /\ ~NoCache.known
    BY <1>1 DEF NoCache, CacheType
<1>3. NoJob \in JobType /\ NoJob.pc = "idle"
    BY DEF NoJob, JobType
<1>4. version \in [Window -> Version] /\ \A w \in Window : version[w] = 1
    BY CacheAssumption DEF Init, Version
<1>5. open \subseteq Window /\ active \in open
    BY CacheAssumption DEF Init, Window
<1>6. still \in [moved : BOOLEAN, age : 0..StayEnd + 1]
    BY CacheAssumption DEF Init
<1>7. caching \in BOOLEAN
    BY DEF Init
<1>8. cache = [w \in Window |-> NoCache] /\ job = NoJob
    BY DEF Init
<1>9. TypeOK
    BY <1>2, <1>3, <1>4, <1>5, <1>6, <1>7, <1>8 DEF TypeOK
<1>10. CachesSound
    BY <1>1, <1>2, <1>4, <1>8 DEF CachesSound, Sound, NONE
<1>11. JobSound
    BY <1>3, <1>8 DEF JobSound, WaitsForBuild, OwnBuildIsFresh
<1>12. View!Init
    BY <1>2, <1>7, <1>8 DEF Init, View!Init, NONE
<1> QED
    BY <1>9, <1>10, <1>11, <1>12 DEF CacheInv

LEMMA CacheStep ==
    ASSUME CacheInv, [Next]_cacheVars
    PROVE  CacheInv' /\ ViewStep
<1>1. CASE Outside
    BY <1>1, OutsideStep
<1>2. CASE Builder
    BY <1>2, BuilderStep
<1>3. CASE Process
    BY <1>3, ProcessStep
<1>4. CASE Clear \/ Enable
    BY <1>4, SwitchStep
<1>5. CASE Release \/ Disable
    BY <1>5, OtherStep
<1>6. CASE LatestFinished \/ Wait
    BY <1>6, FetchStep
<1>7. CASE LatestValid
    BY <1>7, ValidStep
<1>8. CASE LatestWait
    BY <1>8, WaitStep
<1>9. CASE Read
    BY <1>9, ReadStep
<1>10. ASSUME NEW w \in open, Request(w) PROVE CacheInv' /\ ViewStep
    BY <1>10, RequestStep, Typing
<1>11. CASE UNCHANGED cacheVars
  <2>1. UNCHANGED <<open, version, active, still, caching, cache, job>>
      BY <1>11 DEF cacheVars
  <2>2. TypeOK' /\ JobSound'
      BY <2>1 DEF CacheInv, TypeOK, JobSound, WaitsForBuild, OwnBuildIsFresh
  <2> QED
      BY <2>1, <2>2, NoCacheStep DEF CacheInv
<1> QED
    BY <1>1, <1>2, <1>3, <1>4, <1>5, <1>6, <1>7, <1>8, <1>9, <1>10, <1>11
    DEF Next, Latest, Option

LEMMA CacheInvariant == Spec => []CacheInv
<1>1. Init => CacheInv
    BY CacheInvInit
<1>2. CacheInv /\ [Next]_cacheVars => CacheInv'
    BY CacheStep
<1> QED
    BY <1>1, <1>2, PTL DEF Spec

\* The state of UICache, of its threads and of the request in progress is well typed.
THEOREM CacheTypeCorrect == Spec => []TypeOK
<1>1. CacheInv => TypeOK
    BY DEF CacheInv
<1> QED
    BY <1>1, CacheInvariant, PTL

\* UICache::latest: elements of a build that the request has started are no older than
\* the request, whichever threads of other windows end meanwhile.
THEOREM OwnBuildsAreFresh == Spec => []OwnBuildIsFresh
<1>1. CacheInv => OwnBuildIsFresh
    BY DEF CacheInv, JobSound
<1> QED
    BY <1>1, CacheInvariant, PTL

\* ft_.wait() is called on a future with a state only: there is a thread that will end
\* the waiting.
THEOREM WaitsAreForBuilds == Spec => []WaitsForBuild
<1>1. CacheInv => WaitsForBuild
    BY DEF CacheInv, JobSound
<1> QED
    BY <1>1, CacheInvariant, PTL

\* UICache implements WindowView: the elements that are kept of a window never go back to
\* older ones, and are forgotten with the option only.
THEOREM CacheImplementsView == Spec => ForwardOnly
<1>1. Init => View!Init
    BY CacheInvInit
<1>2. CacheInv /\ [Next]_cacheVars => [View!Next]_<<version, Roots, caching>>
    BY CacheStep DEF ViewStep
<1> QED
    BY <1>1, <1>2, CacheInvariant, PTL DEF Spec, ForwardOnly, View!Spec, Roots

-----------------------------------------------------------------------------
(***************************************************************************)
(* EasyClick and the cache.                                                *)
(***************************************************************************)
\* The function that got the elements ends and may move the cursor: the caches stay
\* as they are.
LEMMA CursorStep ==
    ASSUME CacheInv, UNCHANGED <<open, version, active, caching, cache>>,
           job' \in {job, NoJob}, NEW m \in BOOLEAN, still' = [still EXCEPT !.moved = m]
    PROVE  CacheInv' /\ ViewStep
<1>1. still' \in [moved : BOOLEAN, age : 0..StayEnd + 1]
    BY DEF CacheInv, TypeOK
<1>2. JobSound' /\ job' \in JobType
  <2>1. CASE job' = job
      BY <2>1, Typing DEF CacheInv, JobSound, WaitsForBuild, OwnBuildIsFresh
  <2>2. CASE job' = NoJob
      BY <2>2, IdleJob
  <2> QED
      BY <2>1, <2>2
<1>3. job'.pc \in {"latest", "wait", "read"} => job'.win \in Window
    BY DEF CacheInv, TypeOK, NoJob
<1>4. TypeOK'
    BY <1>1, <1>2, <1>3 DEF CacheInv, TypeOK
<1> QED
    BY <1>2, <1>4, NoCacheStep DEF CacheInv

\* What EasyClickAll still has to scan are windows; an order of all windows has a first one.
ScanType ==
    /\ scan = [fn |-> scan.fn, todo |-> scan.todo, frame |-> scan.frame, elems |-> scan.elems,
               points |-> scan.points]
    /\ scan.todo \in Seq(Window)

LEMMA NoScanType == scan' = NoScan => ScanType'
BY DEF ScanType, NoScan

LEMMA AllWindows ==
    ASSUME CacheInv, NEW todo \in SetToSeqs(open)
    PROVE  Head(todo) \in Window /\ Tail(todo) \in Seq(Window)
<1>1. open \subseteq Window /\ active \in open /\ Windows \in Nat
    BY CacheAssumption DEF CacheInv, TypeOK
<1>2. IsFiniteSet(Window)
    BY <1>1, FS_Interval, 1 \in Int, Windows \in Int DEF Window
<1>3. IsFiniteSet(open)
    BY <1>1, <1>2, FS_Subset
<1>4. Cardinality(open) \in Nat /\ Cardinality(open) # 0
    BY <1>1, <1>3, FS_CardinalityType, FS_EmptySet
<1>5. todo \in [1..Cardinality(open) -> open]
    BY DEF SetToSeqs
<1>6. todo \in Seq(Window) /\ todo # <<>>
    BY <1>1, <1>4, <1>5
<1> QED
    BY <1>6

LEMMA LookStep ==
    ASSUME CacheInv, NEW w \in Window, NEW todo \in Seq(Window),
           NEW fn, NEW elems, NEW points, Look(w, todo, fn, elems, points)
    PROVE  CacheInv' /\ ViewStep /\ ScanType'
<1>1. /\ Request(w)
      /\ scan' = [fn |-> fn, todo |-> todo, frame |-> Frame(w), elems |-> elems,
                  points |-> points]
    BY DEF Look
<1>2. ScanType'
    BY <1>1 DEF ScanType
<1> QED
    BY <1>1, <1>2, RequestStep

LEMMA EasyStep ==
    ASSUME CacheInv, ScanType, [EasyNext]_vars
    PROVE  CacheInv' /\ ViewStep /\ ScanType'
<1> DEFINE Goal == CacheInv' /\ ViewStep /\ ScanType'
<1>1. ASSUME [Next]_cacheVars, scan' = scan \/ scan' = NoScan PROVE Goal
  <2>1. CASE scan' = scan
      BY <1>1, <2>1, CacheStep DEF ScanType
  <2>2. CASE scan' = NoScan
      BY <1>1, <2>2, CacheStep, NoScanType
  <2> QED
      BY <1>1, <2>1, <2>2
<1>2. CASE Cache
    BY <1>1, <1>2 DEF Cache, easyVars, Next, Option
<1>3. ASSUME NEW fn \in Function, Start(fn) PROVE Goal
  <2>1. CASE fn = "easyclick_all"
    <3> PICK todo \in SetToSeqs(open) : Look(Head(todo), Tail(todo), fn, <<>>, {})
        BY <1>3, <2>1 DEF Start
    <3> QED
        BY AllWindows, LookStep
  <2>2. CASE fn # "easyclick_all"
    <3>1. Head(<<active>>) = active /\ Tail(<<active>>) = <<>>
        OBVIOUS
    <3>2. PICK todo \in {<<active>>} : Look(Head(todo), Tail(todo), fn, <<>>, {})
        BY <1>3, <2>2 DEF Start
    <3>3. Look(active, <<>>, fn, <<>>, {})
        BY <3>1, <3>2
    <3> PICK w \in Window : w = active
        BY Typing
    <3>4. Look(w, <<>>, fn, <<>>, {}) /\ <<>> \in Seq(Window)
        BY <3>3
    <3> QED
        BY <3>4, LookStep
  <2> QED
      BY <2>1, <2>2
<1>4. CASE NextWindow
  <2>0. Head(scan.todo) \in Window /\ Tail(scan.todo) \in Seq(Window)
      BY <1>4 DEF NextWindow, ScanType
  <2> PICK w \in Window : w = Head(scan.todo)
      BY <2>0
  <2> PICK todo \in Seq(Window) : todo = Tail(scan.todo)
      BY <2>0
  <2>1. Look(w, todo, scan.fn, scan.elems, scan.points)
      BY <1>4 DEF NextWindow
  <2> QED
      BY <2>1, LookStep
<1>5. CASE Collect
  <2>1. CacheInv' /\ ViewStep
      BY <1>5, OtherStep DEF Collect
  <2>2. CASE scan' = NoScan
      BY <2>1, <2>2, NoScanType
  <2> DEFINE elems == scan.elems \o FoundAt
             points == Points(elems)
  <2>3. CASE scan' = [scan EXCEPT !.elems = elems, !.points = points]
    <3> HIDE DEF elems, points
    <3>1. scan' = [fn |-> scan.fn, todo |-> scan.todo, frame |-> scan.frame,
                   elems |-> elems, points |-> points]
        BY <2>3 DEF ScanType
    <3>2. ScanType'
        BY <3>1 DEF ScanType
    <3> QED
        BY <2>1, <3>2
  <2>4. scan' = NoScan \/ scan' = [scan EXCEPT !.elems = elems, !.points = points]
      BY <1>5 DEF Collect
  <2> QED
      BY <2>2, <2>3, <2>4
<1>6. CASE Fail
    BY <1>1, <1>6 DEF Fail, Next
<1>7. CASE FocusArea
  <2>1. /\ UNCHANGED <<open, version, active, caching, cache>> /\ job' = NoJob /\ scan' = NoScan
        /\ still' = [still EXCEPT !.moved = @ \/ at' # at]
      BY <1>7 DEF FocusArea
  <2> DEFINE m == still.moved \/ at' # at
  <2>2. still' = [still EXCEPT !.moved = m] /\ m \in BOOLEAN
      BY <2>1
  <2> HIDE DEF m
  <2>3. CacheInv' /\ ViewStep
      BY <2>1, <2>2, CursorStep
  <2> QED
      BY <2>1, <2>3, NoScanType
<1>8. ASSUME NEW keys \in Typed, TypeChar(keys) PROVE Goal
  <2>1. /\ UNCHANGED <<open, version, active, caching, cache, job, scan>>
        /\ still' = [still EXCEPT !.moved = @ \/ at' # at]
      BY <1>8 DEF TypeChar
  <2> DEFINE m == still.moved \/ at' # at
  <2>2. still' = [still EXCEPT !.moved = m] /\ m \in BOOLEAN
      BY <2>1
  <2> QED
      BY <2>1, <2>2, CursorStep DEF ScanType
<1>9. CASE GridMove \/ Abort \/ \E keys \in Typed : TypeEnd(keys) \/ TypeBack(keys)
    BY <1>1, <1>9 DEF GridMove, Abort, TypeEnd, TypeBack
<1>10. CASE UNCHANGED vars
    BY <1>1, <1>10 DEF vars, easyVars
<1> QED
    BY <1>2, <1>3, <1>4, <1>5, <1>6, <1>7, <1>8, <1>9, <1>10 DEF EasyNext, Work, Match

LEMMA EasyInvariant == EasySpec => [](CacheInv /\ ScanType)
<1>1. EasyInit => CacheInv /\ ScanType
    BY CacheInvInit DEF EasyInit, ScanType, NoScan
<1>2. CacheInv /\ ScanType /\ [EasyNext]_vars => CacheInv' /\ ScanType'
    BY EasyStep
<1> QED
    BY <1>1, <1>2, PTL DEF EasySpec

\* With EasyClick, FocusTextArea and GridMove at work: elements of a build that the
\* request has started are no older than the request.
THEOREM EasyOwnBuildsAreFresh == EasySpec => []OwnBuildIsFresh
<1>1. CacheInv => OwnBuildIsFresh
    BY DEF CacheInv, JobSound
<1> QED
    BY <1>1, EasyInvariant, PTL

\* With EasyClick, FocusTextArea and GridMove at work: the elements that are kept of a
\* window never go back to older ones.
THEOREM EasyImplementsView == EasySpec => ForwardOnly
<1>1. EasyInit => View!Init
    BY CacheInvInit DEF EasyInit
<1>2. CacheInv /\ ScanType /\ [EasyNext]_vars => [View!Next]_<<version, Roots, caching>>
    BY EasyStep DEF ViewStep
<1> QED
    BY <1>1, <1>2, EasyInvariant, PTL DEF EasySpec, ForwardOnly, View!Spec, Roots

-----------------------------------------------------------------------------
(***************************************************************************)
(* assign_identifier_hints writes numbers to the base of the number of     *)
(* keys: hints of the same length, of which no two are the same.           *)
(***************************************************************************)
K == Len(HintKeys)

LEMMA Keys == K \in Nat \ {0} /\ K >= 2
BY HintAssumption, PixelAssumption DEF K

LEMMA Quotient ==
    ASSUME NEW k \in Nat \ {0}, NEW x \in Nat
    PROVE  /\ x \div k \in Nat /\ x % k \in 0..k - 1
           /\ k >= 2 /\ x > 0 => x \div k < x
OBVIOUS

LEMMA Division ==
    ASSUME NEW k \in Nat \ {0}, NEW x \in Nat, NEW y \in Nat
    PROVE  /\ x \div k = y \div k /\ x % k = y % k => x = y
           /\ x <= y => x \div k <= y \div k
OBVIOUS

LEMMA Rests ==
    ASSUME NEW num \in Nat
    PROVE  /\ Rest(num) \in [Nat -> Nat]
           /\ Rest(num)[0] = num
           /\ \A j \in Nat : Rest(num)[j + 1] = Rest(num)[j] \div K
<1> DEFINE F == [x \in Nat |-> x \div K]
<1>1. F \in [Nat -> Nat] /\ \A x \in Nat : F[x] = x \div K
  BY Keys, Quotient
<1> HIDE DEF F
<1>2. PICK g : Iterates(g, Nat, F, num)
  BY <1>1, Iteration
<1>3. g = [j \in Nat |-> IF j = 0 THEN num ELSE g[j - 1] \div K]
  <2>1. ASSUME NEW j \in Nat PROVE g[j] = IF j = 0 THEN num ELSE g[j - 1] \div K
    <3>1. j # 0 => j - 1 \in Nat /\ (j - 1) + 1 = j
      OBVIOUS
    <3> QED
      BY <1>1, <1>2, <3>1 DEF Iterates
  <2>2. g = [j \in Nat |-> g[j]]
    BY <1>2 DEF Iterates
  <2> QED
    BY <2>1, <2>2
<1>4. Rest(num) = [j \in Nat |-> IF j = 0 THEN num ELSE Rest(num)[j - 1] \div K]
  BY <1>3 DEF Rest, K
<1>5. Rest(num)[0] = num /\ \A j \in Nat : Rest(num)[j + 1] = Rest(num)[j] \div K
  BY <1>4
<1>6. \A j \in Nat : Rest(num)[j] \in Nat
  <2> DEFINE T == {j \in Nat : Rest(num)[j] \in Nat}
  <2>1. 0 \in T
    BY <1>5
  <2>2. \A n \in Nat : n \in T => n + 1 \in T
    <3> SUFFICES ASSUME NEW n \in Nat, Rest(num)[n] \in Nat PROVE Rest(num)[n + 1] \in Nat
      OBVIOUS
    <3> DEFINE x == Rest(num)[n]
    <3>1. x \in Nat /\ Rest(num)[n + 1] = x \div K
      BY <1>5
    <3> HIDE DEF x
    <3> QED
      BY <3>1, Quotient, Keys
  <2> HIDE DEF T
  <2>3. Nat \subseteq T
    BY <2>1, <2>2, Induction
  <2> QED
    BY <2>3 DEF T
<1> QED
  BY <1>4, <1>5, <1>6

\* A smaller number is used up no later.
LEMMA RestsGrow ==
    ASSUME NEW n \in Nat, NEW m \in Nat, n <= m
    PROVE  \A j \in Nat : Rest(n)[j] <= Rest(m)[j]
<1> DEFINE T == {j \in Nat : Rest(n)[j] <= Rest(m)[j]}
<1>1. 0 \in T
  BY Rests
<1>2. ASSUME NEW j \in Nat, j \in T PROVE j + 1 \in T
  <2> DEFINE x == Rest(n)[j]
             y == Rest(m)[j]
  <2>1. x \in Nat /\ y \in Nat /\ x <= y
    BY <1>2, Rests
  <2> HIDE DEF x, y
  <2>2. x \div K <= y \div K
    BY <2>1, Division, Keys
  <2> USE DEF x, y
  <2> QED
    BY <2>2, Rests
<1> HIDE DEF T
<1>3. Nat \subseteq T
  BY <1>1, <1>2, Induction
<1> QED
  BY <1>3 DEF T

\* What is used up stays so, and each digit takes at least one.
LEMMA RestsEnd ==
    ASSUME NEW n \in Nat
    PROVE  /\ \A j \in Nat : Rest(n)[j] = 0 => Rest(n)[j + 1] = 0
           /\ \A j \in Nat : Rest(n)[j] = 0 \/ Rest(n)[j] + j <= n
<1>0. /\ Rest(n) \in [Nat -> Nat] /\ Rest(n)[0] = n
      /\ \A j \in Nat : Rest(n)[j + 1] = Rest(n)[j] \div K
  BY Rests
<1>1. ASSUME NEW j \in Nat PROVE Rest(n)[j] = 0 => Rest(n)[j + 1] = 0
  <2>1. 0 \div K = 0
    BY Keys
  <2> QED
    BY <1>0, <2>1
<1> DEFINE T == {j \in Nat : Rest(n)[j] = 0 \/ Rest(n)[j] + j <= n}
<1>2. 0 \in T
  BY <1>0
<1>3. ASSUME NEW j \in Nat, j \in T PROVE j + 1 \in T
  <2> DEFINE x == Rest(n)[j]
  <2>1. x \in Nat /\ Rest(n)[j + 1] \in Nat /\ Rest(n)[j + 1] = x \div K
    BY <1>0
  <2> HIDE DEF x
  <2>2. x > 0 => x \div K < x
    BY <2>1, Quotient, Keys
  <2> USE DEF x
  <2> QED
    BY <1>1, <1>3, <2>1, <2>2
<1> HIDE DEF T
<1>4. Nat \subseteq T
  BY <1>2, <1>3, Induction
<1> QED
  BY <1>1, <1>4 DEF T

\* The length of the hints is enough for all of the numbers.
LEMMA Enough ==
    ASSUME NEW count \in Nat \ {0}
    PROVE  /\ HintLength(count) \in Nat \ {0}
           /\ \A n \in 0..count - 1 : Rest(n)[HintLength(count)] = 0
<1> DEFINE last == count - 1
           Used == {j \in 1..count : Rest(last)[j] > 0}
           L == Cardinality(Used) + 1
<1>1. HintLength(count) = L /\ last \in Nat
  BY DEF HintLength
<1>2. IsFiniteSet(1..count) /\ Cardinality(1..count) = count
  BY FS_Interval
<1>3. IsFiniteSet(Used) /\ Cardinality(Used) \in Nat
  BY <1>2, FS_Subset, FS_CardinalityType
<1>4. Rest(last)[L] = 0
  <2> SUFFICES ASSUME Rest(last)[L] # 0 PROVE FALSE
    OBVIOUS
  <2>1. L \in Nat /\ L >= 1
    BY <1>3
  <2>2. Rest(last)[L] + L <= last
    BY <1>1, <2>1, RestsEnd
  <2>3. Rest(last)[L] \in Nat
    BY <1>1, <2>1, Rests
  <2>4. L \in 1..count
    BY <2>1, <2>2, <2>3
  <2> DEFINE T == {j \in Nat : L - j >= 0 => Rest(last)[L - j] > 0}
  <2>5. \A j \in 0..L : Rest(last)[L - j] > 0
    <3>1. 0 \in T
      BY <2>1, <2>3
    <3>2. ASSUME NEW j \in Nat, j \in T PROVE j + 1 \in T
      <4> SUFFICES ASSUME L - (j + 1) >= 0 PROVE Rest(last)[L - (j + 1)] > 0
        OBVIOUS
      <4> DEFINE i == L - (j + 1)
      <4>1. i \in Nat /\ i + 1 = L - j
        BY <2>1
      <4>2. Rest(last)[i + 1] > 0
        BY <3>2, <4>1
      <4>3. Rest(last)[i] # 0
        BY <1>1, <4>1, <4>2, RestsEnd
      <4>4. Rest(last)[i] \in Nat
        BY <1>1, <4>1, Rests
      <4> QED
        BY <4>3, <4>4
    <3> HIDE DEF T
    <3>3. Nat \subseteq T
      BY <3>1, <3>2, Induction
    <3> QED
      BY <2>1, <3>3 DEF T
  <2>6. 1..L \subseteq Used
    <3> SUFFICES ASSUME NEW i \in 1..L PROVE i \in Used
      OBVIOUS
    <3>1. L - i \in 0..L /\ L - (L - i) = i
      BY <2>1
    <3>2. Rest(last)[i] > 0
      BY <2>5, <3>1
    <3> QED
      BY <2>4, <3>2
  <2>7. Cardinality(1..L) <= Cardinality(Used)
    BY <1>3, <2>6, FS_Subset
  <2>8. Cardinality(1..L) = L
    BY <2>1, FS_Interval
  <2> QED
    BY <1>3, <2>7, <2>8
<1> HIDE DEF L
<1>5. L \in Nat \ {0}
  BY <1>3 DEF L
<1>6. ASSUME NEW n \in 0..count - 1 PROVE Rest(n)[L] = 0
  <2>1. Rest(n)[L] <= Rest(last)[L]
    BY <1>1, <1>5, RestsGrow
  <2>2. Rest(n)[L] \in Nat
    BY <1>5, Rests
  <2> QED
    BY <1>4, <2>1, <2>2
<1> QED
  BY <1>1, <1>5, <1>6

\* Two numbers that have the same digits are the same.
LEMMA DigitsTell ==
    ASSUME NEW n \in Nat, NEW m \in Nat, NEW L \in Nat,
           Rest(n)[L] = 0, Rest(m)[L] = 0,
           \A j \in 0..L - 1 : Rest(n)[j] % K = Rest(m)[j] % K
    PROVE  n = m
<1> DEFINE T == {j \in Nat : Rest(n)[j] = Rest(m)[j]}
<1>1. L \in T
  OBVIOUS
<1>2. PICK j \in T : \A i \in T : j <= i
  BY <1>1, Least
<1>3. j <= L /\ j \in Nat /\ Rest(n)[j] = Rest(m)[j]
  BY <1>1, <1>2
<1>4. CASE j = 0
  BY <1>3, <1>4, Rests
<1>5. CASE j # 0
  <2> DEFINE i == j - 1
             x == Rest(n)[i]
             y == Rest(m)[i]
  <2>1. i \in Nat /\ i + 1 = j /\ i \in 0..L - 1
    BY <1>3, <1>5
  <2>2. x \in Nat /\ y \in Nat /\ x \div K = y \div K /\ x % K = y % K
    <3>1. Rest(n)[i + 1] = x \div K /\ Rest(m)[i + 1] = y \div K /\ x \in Nat /\ y \in Nat
      BY <2>1, Rests
    <3>2. Rest(n)[i + 1] = Rest(m)[i + 1]
      BY <1>3, <2>1
    <3>3. x % K = y % K
      BY <2>1
    <3> QED
      BY <3>1, <3>2, <3>3
  <2> HIDE DEF x, y
  <2>3. x = y
    BY <2>2, Division, Keys
  <2> USE DEF x, y
  <2>4. i \in T
    BY <2>1, <2>3
  <2>5. j <= i
    BY <1>2, <2>4
  <2> QED
    BY <2>1, <2>5
<1> QED
  BY <1>4, <1>5

\* Hints are codes of one length; no two of them are the same.
GoodCodes(codes, N, L) ==
    /\ N \in Nat \ {0} /\ L \in Nat \ {0}
    /\ codes \in [1..N -> [1..L -> Char]]
    /\ \A i, j \in 1..N : codes[i] = codes[j] => i = j

LEMMA Assigned ==
    ASSUME NEW count \in Nat \ {0}
    PROVE  GoodCodes(AssignHints(count), count, HintLength(count))
<1> DEFINE L == HintLength(count)
<1>1. L \in Nat \ {0} /\ \A n \in 0..count - 1 : Rest(n)[L] = 0
  BY Enough
<1> HIDE DEF L
<1>2. ASSUME NEW n \in Nat, NEW j \in Nat
      PROVE  Digit(n, j) \in 0..K - 1 /\ Digit(n, j) + 1 \in DOMAIN HintKeys
  <2> DEFINE x == Rest(n)[j]
  <2>1. x \in Nat /\ Digit(n, j) = x % K
    BY Rests DEF Digit, K
  <2> HIDE DEF x
  <2>2. Digit(n, j) \in 0..K - 1 /\ K \in Nat
    BY <2>1, Quotient, Keys
  <2>3. DOMAIN HintKeys = 1..K
    BY PixelAssumption DEF K
  <2> QED
    BY <2>2, <2>3
<1>3. ASSUME NEW n \in Nat PROVE Hint(n, L) \in [1..L -> Char]
  <2>1. \A j \in 1..L : HintKeys[Digit(n, L - j) + 1] \in Char
    <3> SUFFICES ASSUME NEW j \in 1..L PROVE HintKeys[Digit(n, L - j) + 1] \in Char
      OBVIOUS
    <3>1. L - j \in Nat
      BY <1>1
    <3>2. Digit(n, L - j) + 1 \in DOMAIN HintKeys
      BY <1>2, <3>1
    <3> QED
      BY <3>2, PixelAssumption
  <2> QED
    BY <2>1 DEF Hint
<1>4. ASSUME NEW n \in 0..count - 1, NEW m \in 0..count - 1, Hint(n, L) = Hint(m, L) PROVE n = m
  <2>1. ASSUME NEW j \in 0..L - 1 PROVE Digit(n, j) = Digit(m, j)
    <3> DEFINE i == L - j
    <3>1. i \in 1..L /\ L - i = j /\ j \in Nat /\ n \in Nat /\ m \in Nat
      BY <1>1
    <3>2. Hint(n, L)[i] = HintKeys[Digit(n, j) + 1] /\ Hint(m, L)[i] = HintKeys[Digit(m, j) + 1]
      BY <3>1 DEF Hint
    <3>3. Digit(n, j) + 1 \in DOMAIN HintKeys /\ Digit(m, j) + 1 \in DOMAIN HintKeys
      BY <1>2, <3>1
    <3>4. Digit(n, j) + 1 = Digit(m, j) + 1
      BY <1>4, <3>2, <3>3, HintAssumption
    <3>5. Digit(n, j) \in Int /\ Digit(m, j) \in Int
      <4>1. Digit(n, j) \in 0..K - 1 /\ Digit(m, j) \in 0..K - 1
        BY <1>2, <3>1
      <4> QED
        BY <4>1, Keys
    <3> QED
      BY <3>4, <3>5
  <2>2. n \in Nat /\ m \in Nat /\ Rest(n)[L] = 0 /\ Rest(m)[L] = 0
    BY <1>1
  <2>3. \A j \in 0..L - 1 : Rest(n)[j] % K = Rest(m)[j] % K
    BY <2>1 DEF Digit, K
  <2> QED
    BY <1>1, <2>2, <2>3, DigitsTell
<1>5. /\ DOMAIN AssignHints(count) = 1..count
      /\ \A i \in 1..count : AssignHints(count)[i] = Hint(i - 1, L) /\ i - 1 \in 0..count - 1
  BY DEF AssignHints, L
<1>6. \A i \in 1..count : AssignHints(count)[i] \in [1..L -> Char]
  BY <1>3, <1>5
<1>7. ASSUME NEW i \in 1..count, NEW j \in 1..count, AssignHints(count)[i] = AssignHints(count)[j]
      PROVE  i = j
  <2>1. i - 1 = j - 1
    BY <1>4, <1>5, <1>7
  <2> QED
    BY <2>1
<1>8. AssignHints(count) \in [1..count -> [1..L -> Char]]
  <2>1. AssignHints(count) = [i \in 1..count |-> AssignHints(count)[i]]
    BY <1>5 DEF AssignHints
  <2> QED
    BY <1>6, <2>1
<1> QED
  BY <1>1, <1>7, <1>8 DEF GoodCodes, L

Joined(a, b) == a \o b
Words(n) == [1..n -> Char]

\* GridMove joins the hint of a monitor and that of a cell.
LEMMA GridCoded ==
    LET monitor == AssignHints(Len(Monitors))
        cell    == AssignHints(GridCells)
        Mi(i)   == (i - 1) \div GridCells + 1
        Ci(i)   == (i - 1) % GridCells
        all     == 1..Len(Monitors) * GridCells
    IN  GoodCodes([i \in all |-> monitor[Mi(i)] \o cell[Ci(i) + 1]], Len(Monitors) * GridCells,
                  HintLength(Len(Monitors)) + HintLength(GridCells))
<1> DEFINE monitor == AssignHints(Len(Monitors))
           cell    == AssignHints(GridCells)
           M1(i)   == (i - 1) \div GridCells + 1
           C1(i)   == (i - 1) % GridCells
           N == Len(Monitors)
           LM == HintLength(N)
           LC == HintLength(GridCells)
           all == 1..N * GridCells
           codes == [i \in all |-> monitor[M1(i)] \o cell[C1(i) + 1]]
<1>1. N \in Nat \ {0} /\ GridCells \in Nat \ {0}
  <2>1. N \in Nat \ {0}
    BY PixelAssumption
  <2>2. GridSize[1] \in Nat \ {0} /\ GridSize[2] \in Nat \ {0}
    BY PixelAssumption
  <2>3. \A x, y \in Nat \ {0} : x * y \in Nat \ {0}
    OBVIOUS
  <2> QED
    BY <2>1, <2>2, <2>3 DEF GridCells
<1>2. /\ GoodCodes(monitor, N, LM) /\ \A i \in 1..N : monitor[i] \in [1..LM -> Char]
      /\ GoodCodes(cell, GridCells, LC) /\ \A i \in 1..GridCells : cell[i] \in [1..LC -> Char]
  <2>1. GoodCodes(monitor, N, LM) /\ GoodCodes(cell, GridCells, LC)
    BY <1>1, Assigned
  <2> HIDE DEF monitor, cell, N, LM, LC
  <2> QED
    BY <2>1 DEF GoodCodes
<1>3. LM \in Nat \ {0} /\ LC \in Nat \ {0}
  BY <1>1, Enough
<1>4. /\ \A i, j \in 1..N : monitor[i] = monitor[j] => i = j
      /\ \A i, j \in 1..GridCells : cell[i] = cell[j] => i = j
  BY <1>2 DEF GoodCodes
<1> HIDE DEF monitor, cell, N, LM, LC
<1>5. ASSUME NEW i \in all PROVE M1(i) \in 1..N /\ C1(i) + 1 \in 1..GridCells
  <2>1. \A g, n \in Nat \ {0} : \A x \in Nat : x < n * g => x \div g < n
    OBVIOUS
  <2>2. i - 1 \in Nat /\ i - 1 < N * GridCells
    BY <1>1
  <2>3. (i - 1) \div GridCells < N
    BY <1>1, <2>1, <2>2
  <2>4. (i - 1) \div GridCells \in Nat /\ (i - 1) % GridCells \in 0..GridCells - 1
    BY <1>1, <2>2, Quotient
  <2> QED
    BY <1>1, <2>3, <2>4
<1>6. ASSUME NEW i \in all, NEW j \in all, M1(i) = M1(j), C1(i) = C1(j) PROVE i = j
  <2>1. i - 1 \in Nat /\ j - 1 \in Nat
    BY <1>1
  <2>2. (i - 1) \div GridCells = (j - 1) \div GridCells
    <3>1. (i - 1) \div GridCells \in Nat /\ (j - 1) \div GridCells \in Nat
      BY <1>1, <2>1, Quotient
    <3> QED
      BY <1>6, <3>1
  <2>3. i - 1 = j - 1
    BY <1>1, <1>6, <2>1, <2>2, Division
  <2> QED
    BY <2>3
<1>7. ASSUME NEW a \in [1..LM -> Char], NEW b \in [1..LC -> Char]
      PROVE  /\ a \o b \in [1..LM + LC -> Char]
             /\ \A k \in 1..LM : (a \o b)[k] = a[k]
             /\ \A k \in 1..LC : (a \o b)[LM + k] = b[k]
  <2>1. /\ a \in Seq(Char) /\ Len(a) = LM /\ b \in Seq(Char) /\ Len(b) = LC
        /\ LM \in Nat /\ LC \in Nat
    BY <1>3
  <2>2. /\ a \o b \in Seq(Char) /\ Len(a \o b) = LM + LC
        /\ \A k \in 1..LM + LC : (a \o b)[k] = IF k <= LM THEN a[k] ELSE b[k - LM]
    BY <2>1
  <2>3. a \o b \in [1..LM + LC -> Char]
    BY <2>2, LenProperties
  <2>4. \A k \in 1..LM : k \in 1..LM + LC /\ k <= LM
    BY <2>1
  <2>5. \A k \in 1..LC : LM + k \in 1..LM + LC /\ ~(LM + k <= LM) /\ (LM + k) - LM = k
    BY <2>1
  <2> QED
    BY <2>2, <2>3, <2>4, <2>5
<1>8. \A a, c \in Words(LM) : \A b, d \in Words(LC) : Joined(a, b) = Joined(c, d) => a = c /\ b = d
  <2> SUFFICES ASSUME NEW a \in [1..LM -> Char], NEW c \in [1..LM -> Char],
                      NEW b \in [1..LC -> Char], NEW d \in [1..LC -> Char], a \o b = c \o d
               PROVE  a = c /\ b = d
    BY Zenon DEF Joined, Words
  <2>0. /\ \A k \in 1..LM : (a \o b)[k] = a[k] /\ (c \o d)[k] = c[k]
        /\ \A k \in 1..LC : (a \o b)[LM + k] = b[k] /\ (c \o d)[LM + k] = d[k]
    BY <1>7
  <2>1. \A k \in 1..LM : a[k] = c[k]
    BY <2>0
  <2>2. \A k \in 1..LC : b[k] = d[k]
    BY <2>0
  <2>3. /\ a = [k \in 1..LM |-> a[k]] /\ c = [k \in 1..LM |-> c[k]]
        /\ b = [k \in 1..LC |-> b[k]] /\ d = [k \in 1..LC |-> d[k]]
    OBVIOUS
  <2> QED
    BY <2>1, <2>2, <2>3
<1>9. \A i \in all : codes[i] \in [1..LM + LC -> Char]
  BY <1>2, <1>5, <1>7
<1>10. ASSUME NEW i \in all, NEW j \in all, codes[i] = codes[j] PROVE i = j
  <2>1. M1(i) \in 1..N /\ C1(i) + 1 \in 1..GridCells /\ M1(j) \in 1..N /\ C1(j) + 1 \in 1..GridCells
    BY <1>5
  <2>2. monitor[M1(i)] = monitor[M1(j)] /\ cell[C1(i) + 1] = cell[C1(j) + 1]
    <3>1. /\ monitor[M1(i)] \in Words(LM) /\ monitor[M1(j)] \in Words(LM)
          /\ cell[C1(i) + 1] \in Words(LC) /\ cell[C1(j) + 1] \in Words(LC)
      BY <1>2, <2>1 DEF Words
    <3>2. Joined(monitor[M1(i)], cell[C1(i) + 1]) = Joined(monitor[M1(j)], cell[C1(j) + 1])
      BY <1>10 DEF Joined
    <3> HIDE DEF M1, C1
    <3> QED
      BY <1>8, <3>1, <3>2
  <2>3. M1(i) = M1(j) /\ C1(i) + 1 = C1(j) + 1
    BY <1>4, <2>1, <2>2
  <2>4. C1(i) \in Int /\ C1(j) \in Int
    BY <1>1
  <2> QED
    BY <1>6, <2>3, <2>4
<1>11. LM + LC \in Nat \ {0}
  BY <1>3
<1>12. codes \in [1..N * GridCells -> [1..LM + LC -> Char]] /\ N * GridCells \in Nat \ {0}
  <2>1. codes = [i \in all |-> codes[i]]
    OBVIOUS
  <2>2. \A x, y \in Nat \ {0} : x * y \in Nat \ {0}
    OBVIOUS
  <2>3. N * GridCells \in Nat \ {0}
    BY <1>1, <2>2
  <2> HIDE DEF codes
  <2> QED
    BY <1>9, <2>1, <2>3
<1>13. GoodCodes(codes, N * GridCells, LM + LC)
  <2> HIDE DEF codes
  <2> QED
    BY <1>10, <1>11, <1>12 DEF GoodCodes
<1> QED
  BY <1>13 DEF monitor, cell, N, LM, LC

-----------------------------------------------------------------------------
(***************************************************************************)
(* CmdMatcher with the code of a hint for its command: after any units the *)
(* matcher tells whether the code begins with them.                        *)
(***************************************************************************)
Unit == SUBSET Char

Begins(typed, code, k) == \A j \in 1..k : typed[j] = {code[j]}

StateAt(typed, code, L, k) ==
    IF ~Begins(typed, code, k) THEN "REJECTED" ELSE IF k = L THEN "ACCEPTED" ELSE "MATCHING"
HeadAt(typed, code, L, k) == IF Begins(typed, code, k) THEN k - 1 ELSE L

\* The matcher of a code of length L after these units.
After(typed, code, L) ==
    [cmd    |-> [j \in DOMAIN code |-> [keys |-> {code[j]}]],
     states |-> [k \in 1..Len(typed) |-> StateAt(typed, code, L, k)],
     heads  |-> [k \in 1..Len(typed) |-> HeadAt(typed, code, L, k)]]

\* A unit of keys matches a key of the code if it is that key alone.
LEMMA UnitMatching ==
    ASSUME NEW keys \in Unit, NEW key \in Char
    PROVE  M!UnitMatches(keys, {key}) <=> keys = {key}
<1>1. DOMAIN <<>> = {}
  OBVIOUS
<1>2. ASSUME NEW i \in Char, NEW w \in Char PROVE M!KeyMatches(i, w) <=> w = i
  BY <1>1, Zenon DEF M!KeyMatches, M!ToRep, M!IsUnreal
<1> QED
  BY <1>2 DEF M!UnitMatches, Unit

\* A sequence that is described element by element gets one more, and loses it again.
LEMMA Extend ==
    ASSUME NEW S, NEW n \in Nat, NEW f \in [1..n + 1 -> S], NEW g \in [1..n -> S],
           \A k \in 1..n : g[k] = f[k]
    PROVE  Append(g, f[n + 1]) = f /\ SubSeq(f, 1, n) = g
<1>1. g \in Seq(S) /\ f \in Seq(S) /\ Len(g) = n /\ Len(f) = n + 1 /\ f[n + 1] \in S
  OBVIOUS
<1>2. Append(g, f[n + 1]) \in Seq(S) /\ Len(Append(g, f[n + 1])) = n + 1
  BY <1>1
<1>3. \A k \in 1..n + 1 : Append(g, f[n + 1])[k] = f[k]
  BY <1>1
<1>4. Append(g, f[n + 1]) = f
  <2> DEFINE h == Append(g, f[n + 1])
  <2>1. h \in [1..n + 1 -> S]
    BY <1>2, LenProperties
  <2>2. \A k \in 1..n + 1 : h[k] = f[k]
    BY <1>3
  <2> HIDE DEF h
  <2>3. h = [k \in 1..n + 1 |-> h[k]] /\ f = [k \in 1..n + 1 |-> f[k]]
    BY <2>1
  <2>4. h = f
    BY <2>2, <2>3
  <2> QED
    BY <2>4 DEF h
<1>5. SubSeq(f, 1, n) = g
  <2> DEFINE h == SubSeq(f, 1, n)
  <2>0. \A k \in 1..n : f[k] \in S
    BY <1>1
  <2>1. h \in Seq(S) /\ Len(h) = n /\ \A k \in 1..n : h[k] = f[k]
    BY <2>0, SubSeqProperties
  <2> HIDE DEF h
  <2>2. h = [k \in 1..n |-> h[k]] /\ g = [k \in 1..n |-> g[k]]
    BY <2>1, LenProperties
  <2>3. h = g
    BY <2>1, <2>2
  <2> QED
    BY <2>3 DEF h
<1> QED
  BY <1>4, <1>5

\* What was typed before is what it was.
LEMMA SameBefore ==
    ASSUME NEW typed \in Seq(Unit), NEW keys \in Unit, NEW code, NEW L,
           NEW k \in 1..Len(typed)
    PROVE  /\ StateAt(Append(typed, keys), code, L, k) = StateAt(typed, code, L, k)
           /\ HeadAt(Append(typed, keys), code, L, k) = HeadAt(typed, code, L, k)
<1>1. \A j \in 1..k : j \in 1..Len(typed) /\ Append(typed, keys)[j] = typed[j]
  OBVIOUS
<1>2. Begins(Append(typed, keys), code, k) <=> Begins(typed, code, k)
  BY <1>1 DEF Begins
<1> QED
  BY <1>2 DEF StateAt, HeadAt

Mt(c, s, h) == [cmd |-> c, states |-> s, heads |-> h]

\* The states and the heads of a matcher, as they come and go.
LEMMA Pushed ==
    ASSUME NEW c, NEW s, NEW h, NEW x, NEW y
    PROVE  M!Push(Mt(c, s, h), x, y) = Mt(c, Append(s, x), Append(h, y))
<1> DEFINE u == Append(s, x)
           v == Append(h, y)
<1>2. Mt(c, s, h).states = s /\ Mt(c, s, h).heads = h
  BY DEF Mt
<1>3. M!Push(Mt(c, s, h), x, y) = [[Mt(c, s, h) EXCEPT !.states = u] EXCEPT !.heads = v]
  BY <1>2, Zenon DEF M!Push
<1> HIDE DEF u, v
<1>4. [Mt(c, s, h) EXCEPT !.states = u] = Mt(c, u, h)
  BY DEF Mt
<1>5. [Mt(c, u, h) EXCEPT !.heads = v] = Mt(c, u, v)
  BY DEF Mt
<1>6. M!Push(Mt(c, s, h), x, y) = Mt(c, u, v)
  BY <1>3, <1>4, <1>5, Zenon
<1> QED
  BY <1>6 DEF u, v

LEMMA TakenBack ==
    ASSUME NEW c, NEW s, NEW h, s # <<>>
    PROVE  M!BackwardState(Mt(c, s, h)) = Mt(c, SubSeq(s, 1, Len(s) - 1), SubSeq(h, 1, Len(h) - 1))
BY DEF M!BackwardState, Mt

StateName == {"REJECTED", "ACCEPTED", "MATCHING"}

LEMMA Pushing ==
    ASSUME NEW typed \in Seq(Unit), NEW keys \in Unit, NEW L \in Nat, NEW code,
           Len(typed) < L
    PROVE  LET n == Len(typed)
               t == Append(typed, keys)
               mt == After(typed, code, L)
           IN  /\ M!Push(mt, StateAt(t, code, L, n + 1), HeadAt(t, code, L, n + 1))
                    = After(t, code, L)
               /\ M!BackwardState(After(t, code, L)) = mt
<1> DEFINE n == Len(typed)
           t == Append(typed, keys)
           s == [k \in 1..n |-> StateAt(typed, code, L, k)]
           h == [k \in 1..n |-> HeadAt(typed, code, L, k)]
           s1 == [k \in 1..n + 1 |-> StateAt(t, code, L, k)]
           h1 == [k \in 1..n + 1 |-> HeadAt(t, code, L, k)]
<1>1. n \in Nat /\ Len(t) = n + 1
  OBVIOUS
<1>2. \A k \in 1..n : s[k] = s1[k] /\ h[k] = h1[k]
  BY <1>1, SameBefore
<1>3. s \in [1..n -> StateName] /\ s1 \in [1..n + 1 -> StateName]
  BY DEF StateAt, StateName
<1>4. h \in [1..n -> Nat] /\ h1 \in [1..n + 1 -> Nat]
  BY <1>1 DEF HeadAt
<1>5. s1[n + 1] = StateAt(t, code, L, n + 1) /\ h1[n + 1] = HeadAt(t, code, L, n + 1)
  BY <1>1
<1> DEFINE c == [j \in DOMAIN code |-> [keys |-> {code[j]}]]
<1>6. After(typed, code, L) = Mt(c, s, h) /\ After(t, code, L) = Mt(c, s1, h1)
  BY <1>1 DEF After, Mt
<1> HIDE DEF c, n, t, s, h, s1, h1
<1>7. /\ Append(s, s1[n + 1]) = s1 /\ SubSeq(s1, 1, n) = s
      /\ Append(h, h1[n + 1]) = h1 /\ SubSeq(h1, 1, n) = h
  BY <1>1, <1>2, <1>3, <1>4, Extend
<1>8. Len(s1) = n + 1 /\ Len(h1) = n + 1 /\ s1 # <<>> /\ (n + 1) - 1 = n
  BY <1>1, <1>3, <1>4
<1>9. M!Push(Mt(c, s, h), s1[n + 1], h1[n + 1]) = Mt(c, Append(s, s1[n + 1]), Append(h, h1[n + 1]))
  <2> DEFINE x == s1[n + 1]
             y == h1[n + 1]
  <2> HIDE DEF x, y
  <2>1. M!Push(Mt(c, s, h), x, y) = Mt(c, Append(s, x), Append(h, y))
    BY Pushed
  <2> QED
    BY <2>1 DEF x, y
<1>10. M!Push(After(typed, code, L), s1[n + 1], h1[n + 1]) = After(t, code, L)
  BY <1>6, <1>7, <1>9, Zenon
<1>11. M!BackwardState(Mt(c, s1, h1)) =
           Mt(c, SubSeq(s1, 1, Len(s1) - 1), SubSeq(h1, 1, Len(h1) - 1))
  BY <1>8, TakenBack
<1>12. Len(s1) - 1 = n /\ Len(h1) - 1 = n
  BY <1>8
<1>13. M!BackwardState(After(t, code, L)) = After(typed, code, L)
  BY <1>6, <1>7, <1>11, <1>12, Zenon
<1> QED
  BY <1>5, <1>10, <1>13 DEF n, t

\* What the next unit does to a matcher.
LEMMA Updating ==
    ASSUME NEW typed \in Seq(Unit), NEW keys \in Unit, NEW L \in Nat,
           NEW code \in [1..L -> Char], Len(typed) < L
    PROVE  M!UpdateState(After(typed, code, L), keys) = After(Append(typed, keys), code, L)
<1> DEFINE n == Len(typed)
           t == Append(typed, keys)
           mt == After(typed, code, L)
           want == {code[n + 1]}
<1>1. n \in Nat /\ n + 1 \in 1..L /\ Len(t) = n + 1 /\ t[n + 1] = keys
  OBVIOUS
<1>2. \A j \in 1..n : t[j] = typed[j]
  OBVIOUS
<1>3. Begins(t, code, n + 1) <=> Begins(typed, code, n) /\ keys = want
  <2>1. 1..n + 1 = (1..n) \cup {n + 1}
    BY <1>1
  <2> QED
    BY <1>1, <1>2, <2>1 DEF Begins
<1>4. /\ M!Push(mt, StateAt(t, code, L, n + 1), HeadAt(t, code, L, n + 1)) = After(t, code, L)
  BY Pushing
<1>5. Len(mt.cmd) = L /\ mt.cmd[n + 1].keys = want
  BY <1>1 DEF After
<1>6. /\ mt.states = <<>> <=> n = 0
      /\ mt.heads = <<>> <=> n = 0
      /\ n # 0 => /\ M!Top(mt.states) = StateAt(typed, code, L, n)
                  /\ M!Top(mt.heads) = HeadAt(typed, code, L, n)
  <2>1. Len(mt.states) = n /\ Len(mt.heads) = n
    BY <1>1 DEF After
  <2>2. n # 0 => n \in 1..n
    BY <1>1
  <2>3. n = 0 => mt.states = <<>> /\ mt.heads = <<>>
    BY <1>1 DEF After
  <2>4. mt.states = <<>> \/ mt.heads = <<>> => n = 0
    BY <2>1
  <2>5. n # 0 => /\ M!Top(mt.states) = StateAt(typed, code, L, n)
                 /\ M!Top(mt.heads) = HeadAt(typed, code, L, n)
    BY <2>1, <2>2 DEF After, M!Top
  <2> QED
    BY <2>3, <2>4, <2>5
<1>7. code[n + 1] \in Char /\ (M!UnitMatches(keys, want) <=> keys = want)
  BY <1>1, UnitMatching
<1>8. "<any>" \notin want /\ "<num>" \notin want
  BY <1>7, HintAssumption
<1> SUFFICES M!UpdateState(mt, keys) = After(t, code, L)
  OBVIOUS
<1> HIDE DEF mt, t, n, want
<1>9. CASE n = 0 \/ Begins(typed, code, n)
  <2>1. M!UpdateState(mt, keys) = M!UpdateMatching(mt, keys)
    <3>1. n # 0 => M!Top(mt.states) = "MATCHING"
      BY <1>1, <1>6, <1>9 DEF StateAt, n
    <3>2. (IF mt.states = <<>> THEN "MATCHING" ELSE M!Top(mt.states)) = "MATCHING"
      BY <1>6, <3>1
    <3> QED
      BY <3>2, Zenon DEF M!UpdateState
  <2>2. (IF mt.heads = <<>> THEN 0 ELSE M!Top(mt.heads) + 1) = n
    <3>1. CASE n = 0
      BY <1>6, <3>1
    <3>2. CASE n # 0
      BY <1>1, <1>6, <1>9, <3>2 DEF HeadAt
    <3> QED
      BY <3>1, <3>2
  <2>3. M!LastHead(mt) = L - 1 /\ ~(n > L - 1) /\ n <= L - 1
    BY <1>1, <1>5 DEF M!LastHead
  <2>4. M!UpdateMatching(mt, keys) =
            IF keys = want
            THEN M!Push(mt, IF n = L - 1 THEN "ACCEPTED" ELSE "MATCHING", n)
            ELSE M!Reject(mt)
    BY <1>5, <1>7, <1>8, <2>2, <2>3, Zenon DEF M!UpdateMatching
  <2>5. n = L - 1 <=> n + 1 = L
    BY <1>1
  <2>6. CASE keys = want
    <3>1. Begins(t, code, n + 1)
      BY <1>3, <1>9, <1>1, <2>6 DEF Begins
    <3>2. HeadAt(t, code, L, n + 1) = n
      BY <1>1, <3>1 DEF HeadAt
    <3>3. StateAt(t, code, L, n + 1) = IF n = L - 1 THEN "ACCEPTED" ELSE "MATCHING"
      BY <2>5, <3>1 DEF StateAt
    <3> QED
      BY <1>4, <2>1, <2>4, <2>6, <3>2, <3>3, Zenon
  <2>7. CASE keys # want
    <3>1. ~Begins(t, code, n + 1)
      BY <1>3, <2>7
    <3>2. HeadAt(t, code, L, n + 1) = L /\ StateAt(t, code, L, n + 1) = "REJECTED"
      BY <3>1 DEF HeadAt, StateAt
    <3> QED
      BY <1>4, <1>5, <2>1, <2>4, <2>7, <3>2, Zenon DEF M!Reject
  <2> QED
    BY <2>6, <2>7
<1>10. CASE n # 0 /\ ~Begins(typed, code, n)
  <2>1. (IF mt.states = <<>> THEN "MATCHING" ELSE M!Top(mt.states)) = "REJECTED"
    BY <1>6, <1>10 DEF StateAt
  <2>2. M!UpdateState(mt, keys) = M!Reject(mt)
    BY <2>1, Zenon DEF M!UpdateState
  <2>3. HeadAt(t, code, L, n + 1) = L /\ StateAt(t, code, L, n + 1) = "REJECTED"
    BY <1>3, <1>10 DEF HeadAt, StateAt
  <2> QED
    BY <1>4, <1>5, <2>2, <2>3, Zenon DEF M!Reject
<1> QED
  BY <1>9, <1>10 DEF n

\* The code of a hint as the units that type it.
Singles(code) == [j \in DOMAIN code |-> {code[j]}]

\* What the matcher says of the units is so.
LEMMA Verdict ==
    ASSUME NEW typed \in Seq(Unit), NEW L \in Nat \ {0}, NEW code \in [1..L -> Char],
           Len(typed) <= L
    PROVE  LET mt == After(typed, code, L)
           IN  /\ M!IsAccepted(mt) <=> typed = Singles(code)
               /\ M!IsRejected(mt) <=> ~Begins(typed, code, Len(typed))
               /\ Len(mt.states) = Len(typed) /\ (mt.states = <<>> <=> typed = <<>>)
<1> DEFINE n == Len(typed)
           mt == After(typed, code, L)
<1>1. n \in Nat /\ (n # 0 => n \in 1..n) /\ (typed = <<>> <=> n = 0)
  OBVIOUS
<1>2. Len(mt.states) = n /\ \A k \in 1..n : mt.states[k] = StateAt(typed, code, L, k)
  BY <1>1 DEF After
<1>3. mt.states = <<>> <=> n = 0
  <2>1. n = 0 => mt.states = <<>>
    BY <1>1 DEF After
  <2> QED
    BY <1>2, <2>1
<1>4. n # 0 => M!Top(mt.states) = StateAt(typed, code, L, n)
  BY <1>1, <1>2 DEF M!Top
<1>5. Begins(typed, code, n) /\ n = L <=> typed = Singles(code)
  <2>1. ASSUME typed = Singles(code) PROVE Begins(typed, code, n) /\ n = L
    BY <2>1 DEF Singles, Begins
  <2>2. ASSUME Begins(typed, code, n), n = L PROVE typed = Singles(code)
    <3>1. typed = [j \in 1..L |-> typed[j]]
      BY <2>2, LenProperties
    <3>2. \A j \in 1..L : typed[j] = {code[j]}
      BY <2>2 DEF Begins
    <3>3. Singles(code) = [j \in 1..L |-> {code[j]}]
      BY DEF Singles
    <3> QED
      BY <3>1, <3>2, <3>3
  <2> QED
    BY <2>1, <2>2
<1>6. n = 0 => Begins(typed, code, n)
  BY DEF Begins
<1> HIDE DEF mt, n
<1>7. M!IsAccepted(mt) <=> typed = Singles(code)
  <2>1. CASE n = 0
    BY <1>3, <1>5, <2>1 DEF M!IsAccepted
  <2>2. CASE n # 0
    BY <1>3, <1>4, <1>5, <2>2 DEF M!IsAccepted, StateAt
  <2> QED
    BY <2>1, <2>2
<1>8. M!IsRejected(mt) <=> ~Begins(typed, code, n)
  <2>1. CASE n = 0
    BY <1>3, <1>6, <2>1 DEF M!IsRejected
  <2>2. CASE n # 0
    BY <1>3, <1>4, <2>2 DEF M!IsRejected, StateAt
  <2> QED
    BY <2>1, <2>2
<1> QED
  BY <1>1, <1>2, <1>3, <1>7, <1>8 DEF mt, n

LEMMA TypedPrefix ==
    ASSUME NEW typed \in Seq(Unit), NEW L \in Nat \ {0}, NEW code \in [1..L -> Char],
           Len(typed) <= L
    PROVE  IsPrefix(typed, Singles(code)) <=> Begins(typed, code, Len(typed))
<1> DEFINE n == Len(typed)
           a == SubSeq(typed, 1, n)
           b == SubSeq(Singles(code), 1, n)
<1>1. /\ n \in Nat /\ Len(Singles(code)) = L
      /\ \A j \in 1..n : j \in 1..L /\ Singles(code)[j] = {code[j]}
  BY DEF Singles
<1>2. \A j \in 1..n : typed[j] \in Unit /\ Singles(code)[j] \in Unit
  BY <1>1, ElementOfSeq DEF Unit
<1>3. /\ a \in Seq(Unit) /\ Len(a) = n /\ \A j \in 1..n : a[j] = typed[j]
      /\ b \in Seq(Unit) /\ Len(b) = n /\ \A j \in 1..n : b[j] = {code[j]}
  <2>1. \A s : (\A i \in 1..n : s[i] \in Unit) =>
           /\ SubSeq(s, 1, n) \in Seq(Unit) /\ Len(SubSeq(s, 1, n)) = n
           /\ \A i \in 1..n : SubSeq(s, 1, n)[i] = s[i]
    <3> SUFFICES ASSUME NEW s, \A i \in 1..n : s[i] \in Unit
                 PROVE  /\ SubSeq(s, 1, n) \in Seq(Unit) /\ Len(SubSeq(s, 1, n)) = n
                        /\ \A i \in 1..n : SubSeq(s, 1, n)[i] = s[i]
      OBVIOUS
    <3>1. /\ SubSeq(s, 1, n) \in Seq(Unit) /\ Len(SubSeq(s, 1, n)) = IF 1 <= n THEN n - 1 + 1 ELSE 0
          /\ \A i \in 1..n - 1 + 1 : SubSeq(s, 1, n)[i] = s[1 + i - 1]
      BY <1>1, SubSeqProperties
    <3> QED
      BY <1>1, <3>1
  <2> QED
    BY <1>1, <1>2, <2>1
<1>4. a = [j \in 1..n |-> typed[j]] /\ b = [j \in 1..n |-> {code[j]}]
  <2>1. a = [j \in 1..n |-> a[j]] /\ b = [j \in 1..n |-> b[j]]
    BY <1>3, LenProperties
  <2> HIDE DEF a, b
  <2> QED
    BY <1>3, <2>1
<1> HIDE DEF a, b, n
<1>5. a = b <=> Begins(typed, code, n)
  BY <1>3, <1>4 DEF Begins
<1>6. IsPrefix(typed, Singles(code)) <=> a = b
  <2>1. Len(typed) <= Len(Singles(code))
    BY <1>1
  <2> QED
    BY <2>1, Zenon DEF IsPrefix, a, b, n
<1> QED
  BY <1>5, <1>6 DEF n

\* Codes of one length that are not the same: none begins the other.
LEMMA NoPrefix ==
    ASSUME NEW L \in Nat, NEW c \in [1..L -> Char], NEW d \in [1..L -> Char], IsPrefix(c, d)
    PROVE  c = d
<1>1. c \in Seq(Char) /\ d \in Seq(Char) /\ Len(c) = L /\ Len(d) = L
  OBVIOUS
<1>2. SubSeq(c, 1, L) = c /\ SubSeq(d, 1, L) = d
  BY <1>1
<1> QED
  BY <1>1, <1>2 DEF IsPrefix

-----------------------------------------------------------------------------
(***************************************************************************)
(* The session: every hint is in the state that the typed units bring it   *)
(* to, none is complete, and some are still matching.                      *)
(***************************************************************************)
HintAt(p, code, typed, L) == [pos |-> p, code |-> code, mt |-> After(typed, code, L)]
StartAt(typed, code) == IF Begins(typed, code, Len(typed)) THEN Len(typed) ELSE NPOS

HintsAt(pos, codes, N, typed, L) == [i \in 1..N |-> HintAt(pos[i], codes[i], typed, L)]
StartsAt(codes, N, typed) == [i \in 1..N |-> StartAt(typed, codes[i])]
SessionAt(fn, hints, start, typed) ==
    [open |-> TRUE, fn |-> fn, hints |-> hints, start |-> start, typed |-> typed]

Opened(s, fn, pos, codes, N, typed, L) ==
    /\ GoodCodes(codes, N, L) /\ typed \in Seq(Unit) /\ Len(typed) < L
    /\ s = SessionAt(fn, HintsAt(pos, codes, N, typed, L), StartsAt(codes, N, typed), typed)

SessionInv ==
    \/ session = NoSession
    \/ \E fn, pos, codes, N, typed, L : Opened(session, fn, pos, codes, N, typed, L)

\* start_matching begins with nothing typed.
LEMMA Opening ==
    ASSUME NEW fn, NEW points, NEW codes, NEW N, NEW L, GoodCodes(codes, N, L), DOMAIN points = 1..N
    PROVE  Opened(Matching(fn, points, codes), fn, points, codes, N, <<>>, L)
<1>1. <<>> \in Seq(Unit) /\ Len(<<>>) = 0 /\ 0 < L /\ L \in Nat /\ 1..0 = {}
  BY DEF GoodCodes
<1>2. ASSUME NEW i \in 1..N
      PROVE  Matcher(codes[i]) = After(<<>>, codes[i], L) /\ StartAt(<<>>, codes[i]) = 0
  <2>1. /\ [k \in 1..0 |-> StateAt(<<>>, codes[i], L, k)] = <<>>
        /\ [k \in 1..0 |-> HeadAt(<<>>, codes[i], L, k)] = <<>>
    OBVIOUS
  <2>2. Begins(<<>>, codes[i], 0)
    BY DEF Begins
  <2> QED
    BY <1>1, <2>1, <2>2 DEF Matcher, M!Fresh, After, StartAt
<1>3. [i \in DOMAIN points |-> [pos |-> points[i], code |-> codes[i], mt |-> Matcher(codes[i])]]
        = HintsAt(points, codes, N, <<>>, L)
  BY <1>2 DEF HintsAt, HintAt
<1>4. [i \in DOMAIN points |-> 0] = StartsAt(codes, N, <<>>)
  BY <1>2 DEF StartsAt
<1>5. Matching(fn, points, codes) =
          SessionAt(fn, HintsAt(points, codes, N, <<>>, L), StartsAt(codes, N, <<>>), <<>>)
  BY <1>3, <1>4 DEF Matching, SessionAt
<1> QED
  BY <1>1, <1>5 DEF Opened

\* What can be read of an open session.
LEMMA Reading ==
    ASSUME NEW s, NEW fn, NEW pos, NEW codes, NEW N, NEW typed, NEW L,
           Opened(s, fn, pos, codes, N, typed, L)
    PROVE  /\ s.open /\ s.typed = typed /\ DOMAIN s.hints = 1..N /\ Len(s.hints) = N
           /\ N \in Nat \ {0} /\ L \in Nat \ {0}
           /\ s.hints = HintsAt(pos, codes, N, typed, L) /\ s.start = StartsAt(codes, N, typed)
           /\ \A i \in 1..N : /\ s.hints[i] = HintAt(pos[i], codes[i], typed, L)
                              /\ s.hints[i].pos = pos[i] /\ s.hints[i].code = codes[i]
                              /\ s.hints[i].mt = After(typed, codes[i], L)
                              /\ codes[i] \in [1..L -> Char]
                              /\ s.start[i] = StartAt(typed, codes[i])
<1>1. /\ s.open /\ s.typed = typed /\ s.hints = HintsAt(pos, codes, N, typed, L)
      /\ s.start = StartsAt(codes, N, typed)
  BY DEF Opened, SessionAt
<1>2. N \in Nat \ {0} /\ L \in Nat \ {0} /\ \A i \in 1..N : codes[i] \in [1..L -> Char]
  BY DEF Opened, GoodCodes
<1>3. /\ DOMAIN s.hints = 1..N /\ Len(s.hints) = N
      /\ \A i \in 1..N : /\ s.hints[i] = HintAt(pos[i], codes[i], typed, L)
                         /\ s.start[i] = StartAt(typed, codes[i])
  BY <1>1, <1>2 DEF HintsAt, StartsAt
<1> QED
  BY <1>1, <1>2, <1>3 DEF HintAt

Moved(s, codes, t, L) == [i \in DOMAIN s.hints |-> [s.hints[i] EXCEPT !.mt = After(t, codes[i], L)]]
Redrawn(hints) == [i \in DOMAIN hints |-> SetStart(hints, i)]

\* The hints that have been brought to other units, and what is drawn of them.
LEMMA Moving ==
    ASSUME NEW s, NEW fn, NEW pos, NEW codes, NEW N, NEW typed, NEW L, NEW t \in Seq(Unit),
           Opened(s, fn, pos, codes, N, typed, L), Len(t) <= L
    PROVE  LET hints == HintsAt(pos, codes, N, t, L)
           IN  /\ \A i \in 1..N : [s.hints[i] EXCEPT !.mt = After(t, codes[i], L)] = hints[i]
               /\ Redrawn(hints) = StartsAt(codes, N, t)
               /\ Moved(s, codes, t, L) = hints
<1> DEFINE hints == HintsAt(pos, codes, N, t, L)
<1>1. ASSUME NEW i \in 1..N PROVE [s.hints[i] EXCEPT !.mt = After(t, codes[i], L)] = hints[i]
  <2> DEFINE a == After(typed, codes[i], L)
             b == After(t, codes[i], L)
             p == pos[i]
             c == codes[i]
  <2>1. s.hints[i] = [pos |-> p, code |-> c, mt |-> a]
    BY Reading DEF HintAt
  <2>2. hints[i] = [pos |-> p, code |-> c, mt |-> b]
    BY DEF HintsAt, HintAt
  <2> HIDE DEF a, b, p, c, hints
  <2>3. [s.hints[i] EXCEPT !.mt = b] = hints[i]
    BY <2>1, <2>2
  <2> QED
    BY <2>3 DEF b, c
<1>2. ASSUME NEW i \in 1..N PROVE SetStart(hints, i) = StartAt(t, codes[i])
  <2>1. hints[i].mt = After(t, codes[i], L)
    BY DEF HintsAt, HintAt
  <2>2. codes[i] \in [1..L -> Char] /\ L \in Nat \ {0}
    BY Reading
  <2>3. /\ M!IsRejected(After(t, codes[i], L)) <=> ~Begins(t, codes[i], Len(t))
        /\ Len(After(t, codes[i], L).states) = Len(t)
    BY <2>2, Verdict
  <2> HIDE DEF hints
  <2> QED
    BY <2>1, <2>3 DEF SetStart, StartAt
<1>3. DOMAIN hints = 1..N /\ DOMAIN s.hints = 1..N
  <2>1. DOMAIN s.hints = 1..N
    BY Reading
  <2> QED
    BY <2>1 DEF HintsAt
<1>4. Redrawn(hints) = StartsAt(codes, N, t)
  <2> HIDE DEF hints
  <2> QED
    BY <1>2, <1>3 DEF StartsAt, Redrawn
<1>5. Moved(s, codes, t, L) = hints
  <2>1. hints = [i \in 1..N |-> hints[i]]
    BY DEF HintsAt
  <2> HIDE DEF hints
  <2> QED
    BY <1>1, <1>3, <2>1 DEF Moved
<1> QED
  BY <1>1, <1>4, <1>5

\* What is left of a sequence without its last element.
LEMMA Fronts ==
    ASSUME NEW S, NEW s \in Seq(S), s # <<>>
    PROVE  /\ Front(s) \in Seq(S) /\ Len(Front(s)) = Len(s) - 1
           /\ s = Append(Front(s), s[Len(s)]) /\ s[Len(s)] \in S
<1> DEFINE n == Len(s) - 1
           g == SubSeq(s, 1, n)
<1>1. n \in Nat /\ Len(s) = n + 1 /\ s \in [1..n + 1 -> S] /\ s[n + 1] \in S
  BY LenProperties
<1>2. g \in Seq(S) /\ Len(g) = n /\ \A k \in 1..n : g[k] = s[k]
  <2> HIDE DEF n
  <2>1. \A i \in 1..n : s[i] \in S
    BY <1>1
  <2> QED
    BY <1>1, <2>1, SubSeqProperties
<1> HIDE DEF g, n
<1>3. g \in [1..n -> S]
  BY <1>2, LenProperties
<1>4. Append(g, s[n + 1]) = s
  BY <1>1, <1>2, <1>3, Extend
<1> QED
  BY <1>1, <1>2, <1>4 DEF Front, g, n

\* A backspace takes back one unit, for every hint.
LEMMA BackStep ==
    ASSUME NEW keys, NEW fn, NEW pos, NEW codes, NEW N, NEW typed, NEW L,
           Opened(session, fn, pos, codes, N, typed, L), TypeBack(keys)
    PROVE  Opened(session', fn, pos, codes, N, Front(typed), L)
<1> DEFINE f == Front(typed)
           back == [i \in DOMAIN session.hints |->
                       [session.hints[i] EXCEPT !.mt = M!BackwardState(@)]]
           start == [i \in DOMAIN back |-> SetStart(back, i)]
<1>1. /\ session.typed = typed /\ DOMAIN session.hints = 1..N /\ N \in Nat \ {0} /\ L \in Nat \ {0}
      /\ \A i \in 1..N : /\ codes[i] \in [1..L -> Char]
                         /\ session.hints[i].mt = After(typed, codes[i], L)
  BY Reading
<1>2. typed \in Seq(Unit) /\ Len(typed) < L /\ GoodCodes(codes, N, L)
  BY DEF Opened
<1>3. typed # <<>>
  <2>1. session.hints[1].mt.states # <<>> /\ 1 \in 1..N
    BY <1>1 DEF TypeBack
  <2>2. After(typed, codes[1], L).states = <<>> <=> typed = <<>>
    BY <1>1, <1>2, <2>1, Verdict
  <2> QED
    BY <1>1, <2>1, <2>2
<1>4. f \in Seq(Unit) /\ Len(f) < L /\ Len(f) <= L
  BY <1>1, <1>2, <1>3, Fronts
<1>5. typed = Append(f, typed[Len(typed)]) /\ typed[Len(typed)] \in Unit
  BY <1>2, <1>3, Fronts
<1>6. ASSUME NEW i \in 1..N PROVE M!BackwardState(session.hints[i].mt) = After(f, codes[i], L)
  <2> DEFINE last == typed[Len(typed)]
  <2>1. typed = Append(f, last) /\ last \in Unit /\ L \in Nat
    BY <1>1, <1>5
  <2> HIDE DEF f, last
  <2>2. M!BackwardState(After(Append(f, last), codes[i], L)) = After(f, codes[i], L)
    BY <1>4, <2>1, Pushing
  <2> QED
    BY <1>1, <2>1, <2>2
<1>7. back = Moved(session, codes, f, L) /\ start = Redrawn(back)
  BY <1>1, <1>6 DEF Moved, Redrawn
<1>10. session' = [session EXCEPT !.hints = back, !.typed = f, !.start = start]
  BY <1>1 DEF TypeBack
<1> HIDE DEF f, back, start
<1>8. back = HintsAt(pos, codes, N, f, L)
  BY <1>4, <1>7, Moving
<1>9. start = StartsAt(codes, N, f)
  BY <1>4, <1>7, <1>8, Moving
<1>11. session = SessionAt(fn, HintsAt(pos, codes, N, typed, L), StartsAt(codes, N, typed), typed)
  BY DEF Opened
<1>12. session' = SessionAt(fn, back, start, f)
  BY <1>10, <1>11 DEF SessionAt
<1> QED
  BY <1>2, <1>4, <1>8, <1>9, <1>12 DEF Opened, f

\* A code that is complete ends the session where its target is.
Leads(pos, codes, N, t) ==
    /\ (\E i \in 1..N : Singles(codes[i]) = t) => session' = NoSession
    /\ \A i \in 1..N : Singles(codes[i]) = t => at' = pos[i]
    /\ (\A i \in 1..N : Singles(codes[i]) # t) => at' = at

\* A unit of characters: either it completes one code, or the session goes on while a
\* code still begins with what was typed.
LEMMA CharStep ==
    ASSUME NEW keys, NEW fn, NEW pos, NEW codes, NEW N, NEW typed, NEW L,
           Opened(session, fn, pos, codes, N, typed, L), TypeChar(keys)
    PROVE  LET t == Append(typed, keys \cap Char)
           IN  /\ session' = NoSession \/ Opened(session', fn, pos, codes, N, t, L)
               /\ Leads(pos, codes, N, t)
<1> DEFINE u == keys \cap Char
           t == Append(typed, u)
           updated == [i \in DOMAIN session.hints |->
                          [session.hints[i] EXCEPT !.mt = M!UpdateState(@, u)]]
           reached == Reached(updated)
           last    == IF reached = {} THEN Len(updated) ELSE Min(reached)
           before  == {i \in 1..last : i \notin reached}
           hints   == [i \in DOMAIN updated |-> IF i <= last THEN updated[i] ELSE session.hints[i]]
           start   == [i \in DOMAIN hints |->
                          IF i \in before THEN SetStart(hints, i) ELSE session.start[i]]
<1>1. /\ session.typed = typed /\ DOMAIN session.hints = 1..N /\ N \in Nat \ {0} /\ L \in Nat \ {0}
      /\ \A i \in 1..N : /\ codes[i] \in [1..L -> Char]
                         /\ session.hints[i].mt = After(typed, codes[i], L)
  BY Reading
<1>2. typed \in Seq(Unit) /\ Len(typed) < L /\ GoodCodes(codes, N, L)
  BY DEF Opened
<1>3. u \in Unit
  BY DEF Unit
<1>4. t \in Seq(Unit) /\ Len(t) = Len(typed) + 1 /\ Len(t) <= L /\ Len(t) \in Nat
  BY <1>1, <1>2, <1>3
<1>5. /\ IF \A i \in before : M!IsRejected(updated[i].mt) THEN session' = NoSession
         ELSE session' = [session EXCEPT !.hints = hints, !.typed = t, !.start = start]
      /\ at' = IF reached = {} THEN at ELSE updated[last].pos
  <2>1. /\ session' = IF \A i \in before : M!IsRejected(updated[i].mt) THEN NoSession
                      ELSE [session EXCEPT !.hints = hints, !.typed = Append(@, u),
                               !.start = [i \in DOMAIN hints |->
                                   IF i \in before THEN SetStart(hints, i) ELSE @[i]]]
        /\ at' = IF reached = {} THEN at ELSE updated[last].pos
    BY Zenon DEF TypeChar
  <2> QED
    BY <1>1, <2>1, Zenon
<1>6. \A i \in 1..N : M!UpdateState(session.hints[i].mt, u) = After(t, codes[i], L)
  <2> SUFFICES ASSUME NEW i \in 1..N
               PROVE  M!UpdateState(session.hints[i].mt, u) = After(t, codes[i], L)
    OBVIOUS
  <2>1. codes[i] \in [1..L -> Char] /\ L \in Nat
    BY <1>1
  <2> HIDE DEF u
  <2>2. M!UpdateState(After(typed, codes[i], L), u) = After(t, codes[i], L)
    BY <1>2, <1>3, <2>1, Updating
  <2> QED
    BY <1>1, <2>2
<1>7. updated = Moved(session, codes, t, L)
  BY <1>1, <1>6 DEF Moved
<1>8. updated = HintsAt(pos, codes, N, t, L)
  <2> HIDE DEF t, updated
  <2> QED
    BY <1>4, <1>7, Moving
<1>9. /\ DOMAIN updated = 1..N /\ Len(updated) = N
      /\ \A i \in 1..N : updated[i].mt = After(t, codes[i], L) /\ updated[i].pos = pos[i]
  <2> HIDE DEF t, updated
  <2> QED
    BY <1>1, <1>8 DEF HintsAt, HintAt
<1>10. \A i \in 1..N : /\ M!IsAccepted(updated[i].mt) <=> t = Singles(codes[i])
                       /\ M!IsRejected(updated[i].mt) <=> ~Begins(t, codes[i], Len(t))
  <2> SUFFICES ASSUME NEW i \in 1..N
               PROVE  /\ M!IsAccepted(updated[i].mt) <=> t = Singles(codes[i])
                      /\ M!IsRejected(updated[i].mt) <=> ~Begins(t, codes[i], Len(t))
    OBVIOUS
  <2>1. codes[i] \in [1..L -> Char] /\ updated[i].mt = After(t, codes[i], L)
    BY <1>1, <1>9
  <2> HIDE DEF t, updated
  <2> QED
    BY <1>1, <1>4, <2>1, Verdict
<1>11. reached = {i \in 1..N : t = Singles(codes[i])}
  <2> HIDE DEF t, updated
  <2> QED
    BY <1>9, <1>10 DEF Reached
<1>12. \A i \in 1..N : Begins(t, codes[i], L) /\ Len(t) = L => t = Singles(codes[i])
  <2> SUFFICES ASSUME NEW i \in 1..N, Begins(t, codes[i], L), Len(t) = L PROVE t = Singles(codes[i])
    OBVIOUS
  <2>1. Singles(codes[i]) = [j \in 1..L |-> {codes[i][j]}]
    BY <1>1 DEF Singles
  <2> HIDE DEF t
  <2>2. t = [j \in 1..L |-> t[j]]
    BY <1>4, LenProperties
  <2> QED
    BY <2>1, <2>2 DEF Begins
<1> HIDE DEF t, u, updated, reached
<1>13. CASE reached = {}
  <2>1. last = N /\ before = 1..N /\ at' = at
    BY <1>5, <1>9, <1>13
  <2>2. hints = updated /\ start = Redrawn(updated)
    <3>1. updated = [i \in 1..N |-> updated[i]]
      BY <1>8 DEF HintsAt
    <3>2. hints = updated
      BY <1>1, <1>9, <2>1, <3>1
    <3> QED
      BY <1>9, <2>1, <3>2 DEF Redrawn
  <2>3. start = StartsAt(codes, N, t)
    BY SMTT(30), <1>4, <1>8, <2>2, Moving
  <2>4. ASSUME session' # NoSession PROVE Opened(session', fn, pos, codes, N, t, L)
    <3>1. session' = [session EXCEPT !.hints = hints, !.typed = t, !.start = start]
      BY <1>5, <2>4
    <3>2. PICK i \in 1..N : Begins(t, codes[i], Len(t))
      BY <1>5, <1>10, <2>1, <2>4
    <3>3. Len(t) < L
      BY <1>1, <1>4, <1>11, <1>12, <1>13, <3>2
    <3>4. session = SessionAt(fn, HintsAt(pos, codes, N, typed, L), StartsAt(codes, N, typed),
                              typed)
      BY DEF Opened
    <3> HIDE DEF hints, start
    <3>5. session' = SessionAt(fn, hints, start, t)
      BY <3>1, <3>4 DEF SessionAt
    <3> QED
      BY <1>2, <1>4, <1>8, <2>2, <2>3, <3>3, <3>5 DEF Opened
  <2> QED
    BY <1>11, <1>13, <2>1, <2>4 DEF t, u, Leads
<1>14. CASE reached # {}
  <2>1. PICK m \in 1..N : t = Singles(codes[m])
    BY <1>11, <1>14
  <2>2. \A i \in 1..N : t = Singles(codes[i]) => i = m
    <3> SUFFICES ASSUME NEW i \in 1..N, t = Singles(codes[i]) PROVE i = m
      OBVIOUS
    <3>1. \A k \in 1..L : {codes[i][k]} = {codes[m][k]}
      BY <1>1, <2>1 DEF Singles
    <3>2. codes[i] = [k \in 1..L |-> codes[i][k]] /\ codes[m] = [k \in 1..L |-> codes[m][k]]
      BY <1>1
    <3>3. \A k \in 1..L : codes[i][k] = codes[m][k]
      BY <3>1
    <3>4. codes[i] = codes[m]
      BY <3>2, <3>3
    <3> QED
      BY <1>2, <3>4 DEF GoodCodes
  <2>3. reached = {m}
    BY <1>11, <2>1, <2>2
  <2>4. last = m
    BY <2>3 DEF Min
  <2>5. Len(t) = L
    BY <1>1, <2>1 DEF Singles
  <2>6. \A i \in before : M!IsRejected(updated[i].mt)
    <3> SUFFICES ASSUME NEW i \in before PROVE M!IsRejected(updated[i].mt)
      OBVIOUS
    <3>1. i \in 1..N /\ i # m
      BY <1>1, <2>1, <2>3, <2>4
    <3> QED
      BY <1>10, <1>12, <2>2, <2>5, <3>1
  <2>7. session' = NoSession /\ at' = pos[m]
    BY <1>5, <1>9, <1>14, <2>4, <2>6
  <2> QED
    BY <2>1, <2>2, <2>7 DEF t, u, Leads
<1> QED
  BY <1>13, <1>14 DEF t, u

-----------------------------------------------------------------------------
(***************************************************************************)
(* What a scan has found is finite, so that it can be numbered.            *)
(***************************************************************************)
Served == job.pc \in {"served", "threw"} => job.win \in Window

ScanInv == IsFiniteSet(scan.points) /\ IsFiniteSet(scan.frame)

LEMMA ServedStep ==
    ASSUME CacheInv, Served, [Next]_cacheVars
    PROVE  Served'
<1>1. job \in JobType /\ (job.pc \in {"latest", "wait", "read"} => job.win \in Window)
  BY DEF CacheInv, TypeOK
<1>2. /\ NoJob.pc = "idle"
      /\ NoJob = [pc |-> "idle", win |-> NONE, asked |-> NONE, own |-> FALSE, got |-> NONE]
  BY DEF NoJob
<1>3. CASE Outside \/ Builder \/ Process \/ Enable \/ UNCHANGED cacheVars
  <2>1. job' = job
    BY <1>3 DEF Outside, Tick, MoveCursor, Change, Activate, Builder, BuildStep, BuildBegin,
                BuildRead, BuildEnd, Build, Process, Enable, cacheVars
  <2> QED
    BY <2>1 DEF Served
<1>4. CASE Clear \/ Release
  <2>1. job' = NoJob
    BY <1>4 DEF Clear, Release
  <2> QED
    BY <1>2, <2>1 DEF Served
<1>5. CASE Disable \/ \E w \in open : Request(w)
  <2>1. job'.pc \notin {"served", "threw"}
    BY <1>2, <1>5 DEF Disable, Request
  <2> QED
    BY <2>1 DEF Served
<1>6. CASE Latest
  <2>1. job.pc \in {"latest", "wait", "read"}
    BY <1>6 DEF Latest, LatestValid, LatestFinished, LatestWait, Wait, Read
  <2>2. job'.win = job.win
    BY <1>1, <1>6
    DEF Latest, LatestValid, LatestFinished, LatestWait, Wait, Read, Serve, Throw, JobType
  <2> QED
    BY <1>1, <2>1, <2>2 DEF Served
<1> QED
  BY <1>3, <1>4, <1>5, <1>6 DEF Next, Option

LEMMA FrameFinite ==
    ASSUME CacheInv, NEW w \in Window
    PROVE  IsFiniteSet(Frame(w))
<1>1. version[w] \in Version
  BY Typing
<1> QED
  BY <1>1, PixelAssumption DEF Frame

LEMMA PointsFinite ==
    ASSUME CacheInv, Served, ScanInv, Collect, NEW elems
    PROVE  IsFiniteSet(Points(elems))
<1>1. IsFiniteSet(Centers[job.win])
  BY PixelAssumption DEF Collect, Served
<1>2. IsFiniteSet(InFrame(elems))
  <2>1. InFrame(elems) \subseteq scan.frame
    BY DEF InFrame
  <2> QED
    BY <2>1, FS_Subset DEF ScanInv
<1>3. IsFiniteSet(scan.points \cup InFrame(elems))
  BY <1>2, FS_Union DEF ScanInv
<1> QED
  BY <1>1, <1>3, FS_Union DEF Points

\* The functions ask for windows, and collect finitely many points.
LEMMA WorkStep ==
    ASSUME CacheInv, ScanType, Served, ScanInv, Work
    PROVE  Served' /\ ScanInv'
<1>1. NoJob.pc = "idle" /\ IsFiniteSet(NoScan.points) /\ IsFiniteSet(NoScan.frame)
  BY FS_EmptySet DEF NoJob, NoScan
<1>2. ASSUME NEW w \in Window, NEW todo, NEW fn, NEW elems, NEW points, IsFiniteSet(points),
             Look(w, todo, fn, elems, points)
      PROVE  Served' /\ ScanInv'
  <2>1. /\ job'.pc \notin {"served", "threw"}
        /\ scan' = [fn |-> fn, todo |-> todo, frame |-> Frame(w), elems |-> elems,
                    points |-> points]
    BY <1>2 DEF Look, Request, NoJob
  <2>2. IsFiniteSet(Frame(w))
    BY FrameFinite
  <2> HIDE DEF Frame
  <2> QED
    BY <1>2, <2>1, <2>2 DEF Served, ScanInv
<1>3. ASSUME NEW fn \in Function, Start(fn) PROVE Served' /\ ScanInv'
  <2>1. PICK todo : /\ todo \in IF fn = "easyclick_all" THEN SetToSeqs(open) ELSE {<<active>>}
                    /\ Look(Head(todo), Tail(todo), fn, <<>>, {})
    BY <1>3, Zenon DEF Start
  <2>2. Head(todo) \in Window
    <3>1. CASE fn = "easyclick_all"
      BY <2>1, <3>1, AllWindows
    <3>2. CASE fn # "easyclick_all"
      <4>1. todo = <<active>> /\ active \in Window
        BY <2>1, <3>2, Typing
      <4> QED
        BY <4>1
    <3> QED
      BY <3>1, <3>2
  <2> QED
    BY <1>2, <2>1, <2>2, FS_EmptySet
<1>4. CASE NextWindow
  <2>1. Head(scan.todo) \in Window
    BY <1>4 DEF NextWindow, ScanType
  <2>2. /\ Look(Head(scan.todo), Tail(scan.todo), scan.fn, scan.elems, scan.points)
        /\ IsFiniteSet(scan.points)
    BY <1>4 DEF NextWindow, ScanInv
  <2> QED
    BY <1>2, <2>1, <2>2
<1>5. CASE Collect
  <2> DEFINE elems == scan.elems \o FoundAt
             points == Points(elems)
  <2>1. job' = NoJob /\ (scan' = NoScan \/ scan' = [scan EXCEPT !.elems = elems, !.points = points])
    BY <1>5 DEF Collect, Release
  <2>2. IsFiniteSet(points)
    BY <1>5, PointsFinite
  <2> HIDE DEF elems, points
  <2>3. CASE scan' = NoScan
    BY <1>1, <2>1, <2>3 DEF Served, ScanInv
  <2>4. CASE scan' = [scan EXCEPT !.elems = elems, !.points = points]
    <3>1. scan' = [fn |-> scan.fn, todo |-> scan.todo, frame |-> scan.frame,
                   elems |-> elems, points |-> points]
      BY <2>4 DEF ScanType
    <3> QED
      BY <1>1, <2>1, <2>2, <3>1 DEF Served, ScanInv
  <2> QED
    BY <2>1, <2>3, <2>4
<1>6. CASE Fail \/ FocusArea
  <2>1. job' = NoJob /\ scan' = NoScan
    BY <1>6 DEF Fail, Release, FocusArea
  <2> QED
    BY <1>1, <2>1 DEF Served, ScanInv
<1>7. CASE GridMove
  <2>1. job' = job /\ scan' = scan
    BY <1>7 DEF GridMove, cacheVars
  <2> QED
    BY <2>1 DEF Served, ScanInv
<1> QED
  BY <1>3, <1>4, <1>5, <1>6, <1>7 DEF Work

-----------------------------------------------------------------------------
\* The functions open sessions with one hint for each point.
LEMMA CollectOpens ==
    ASSUME CacheInv, Served, ScanInv, SessionInv, Collect
    PROVE  SessionInv'
<1> DEFINE points == Points(scan.elems \o FoundAt)
           count  == Cardinality(points)
<1>1. session' = session \/
          (points # {} /\ session' = Matching(scan.fn, Sorted(points), AssignHints(count)))
  BY DEF Collect
<1>2. CASE session' = session
  BY <1>2 DEF SessionInv
<1>3. CASE points # {} /\ session' = Matching(scan.fn, Sorted(points), AssignHints(count))
  <2>1. IsFiniteSet(points)
    BY PointsFinite
  <2> HIDE DEF points
  <2>2. count \in Nat \ {0}
    BY <1>3, <2>1, FS_CardinalityType, FS_EmptySet
  <2>3. DOMAIN Sorted(points) = 1..count
    BY DEF Sorted
  <2> HIDE DEF count
  <2>4. GoodCodes(AssignHints(count), count, HintLength(count))
    BY <2>2, Assigned
  <2>5. Opened(session', scan.fn, Sorted(points), AssignHints(count), count, <<>>,
               HintLength(count))
    BY <1>3, <2>3, <2>4, Opening
  <2> QED
    BY <2>5 DEF SessionInv
<1> QED
  BY <1>1, <1>2, <1>3

LEMMA GridOpens ==
    ASSUME GridMove
    PROVE  SessionInv'
<1> DEFINE monitor == AssignHints(Len(Monitors))
           cell    == AssignHints(GridCells)
           Mi(i)   == (i - 1) \div GridCells + 1
           Ci(i)   == (i - 1) % GridCells
           N       == Len(Monitors) * GridCells
           L       == HintLength(Len(Monitors)) + HintLength(GridCells)
           codes   == [i \in 1..N |-> monitor[Mi(i)] \o cell[Ci(i) + 1]]
           points  == [i \in 1..N |-> GridPoint(Mi(i), Ci(i))]
<1>1. session' = Matching("gridmove", points, codes)
  BY DEF GridMove, GridSession
<1>2. GoodCodes(codes, N, L)
  BY GridCoded
<1>3. DOMAIN points = 1..N
  OBVIOUS
<1> HIDE DEF codes, points, N, L
<1>4. Opened(session', "gridmove", points, codes, N, <<>>, L)
  BY <1>1, <1>2, <1>3, Opening
<1> QED
  BY <1>4 DEF SessionInv

LEMMA MatchStep ==
    ASSUME SessionInv, Match
    PROVE  SessionInv'
<1>1. CASE Abort \/ \E keys \in Typed : TypeEnd(keys)
  BY <1>1 DEF Abort, TypeEnd, SessionInv
<1>2. ASSUME NEW keys, TypeBack(keys) \/ TypeChar(keys) PROVE SessionInv'
  <2>0. session.open
    BY <1>2, Zenon DEF TypeBack, TypeChar
  <2>1. session # NoSession
    BY <2>0 DEF NoSession
  <2>2. PICK fn, pos, codes, N, typed, L : Opened(session, fn, pos, codes, N, typed, L)
    BY <2>1 DEF SessionInv
  <2>3. CASE TypeBack(keys)
    BY <2>2, <2>3, BackStep DEF SessionInv
  <2>4. CASE TypeChar(keys)
    <3>1. \/ session' = NoSession
          \/ Opened(session', fn, pos, codes, N, Append(typed, keys \cap Char), L)
      BY <2>2, <2>4, CharStep, Zenon
    <3> QED
      BY <3>1 DEF SessionInv
  <2> QED
    BY <1>2, <2>3, <2>4
<1> QED
  BY <1>1, <1>2 DEF Match

HintInv == Served /\ ScanInv /\ SessionInv

LEMMA HintStep ==
    ASSUME CacheInv, ScanType, HintInv, [EasyNext]_vars
    PROVE  HintInv'
<1>1. CASE Cache
  <2>1. UNCHANGED <<scan, session>> /\ [Next]_cacheVars
    BY <1>1 DEF Cache, easyVars, Next, Option
  <2>2. Served'
    BY <2>1, ServedStep DEF HintInv
  <2> QED
    BY <2>1, <2>2 DEF HintInv, ScanInv, SessionInv
<1>2. CASE Work
  <2>1. Served' /\ ScanInv'
    BY <1>2, WorkStep DEF HintInv
  <2>2. SessionInv'
    <3>1. CASE Collect
      BY <3>1, CollectOpens DEF HintInv
    <3>2. CASE GridMove
      BY <3>2, GridOpens
    <3>3. CASE NextWindow \/ Fail \/ FocusArea \/ \E fn \in Function : Start(fn)
      <4>1. session' = session
        BY <3>3 DEF NextWindow, Fail, FocusArea, Start, Look
      <4> QED
        BY <4>1 DEF HintInv, SessionInv
    <3> QED
      BY <1>2, <3>1, <3>2, <3>3 DEF Work
  <2> QED
    BY <2>1, <2>2 DEF HintInv
<1>3. CASE Match
  <2>1. UNCHANGED <<job, scan>>
    BY <1>3 DEF Match, Abort, TypeEnd, TypeBack, TypeChar, cacheVars
  <2>2. SessionInv'
    BY <1>3, MatchStep DEF HintInv
  <2> QED
    BY <2>1, <2>2 DEF HintInv, Served, ScanInv
<1>4. CASE UNCHANGED vars
  BY <1>4 DEF vars, cacheVars, easyVars, HintInv, Served, ScanInv, SessionInv
<1> QED
  BY <1>1, <1>2, <1>3, <1>4 DEF EasyNext

LEMMA HintInvariant == EasySpec => [](CacheInv /\ ScanType /\ HintInv)
<1>1. EasyInit => HintInv
  BY FS_EmptySet DEF EasyInit, Init, NoJob, NoScan, HintInv, Served, ScanInv, SessionInv
<1>2. CacheInv /\ ScanType /\ HintInv /\ [EasyNext]_vars => HintInv'
  BY HintStep
<1> QED
  BY <1>1, <1>2, EasyInvariant, PTL DEF EasySpec

LEMMA CodeSingles ==
    ASSUME NEW fn, NEW pos, NEW codes, NEW N, NEW typed, NEW L,
           Opened(session, fn, pos, codes, N, typed, L)
    PROVE  \A i \in 1..N : Code(i) = Singles(codes[i])
BY Reading DEF Code, Hints, Singles

\* assign_identifier_hints and GridMove::assign_hints, with logarithms that are exact: for
\* any keys, targets, monitors and cells no hint begins another, and after any keys and
\* backspaces the hints that are drawn are those that begin with what was typed.
THEOREM HintsAreUnambiguous == EasySpec => []HintsUnambiguous
<1>1. SessionInv => HintsUnambiguous
  <2> SUFFICES ASSUME SessionInv, session.open PROVE HintsUnambiguous
    BY DEF HintsUnambiguous
  <2>1. session # NoSession
    BY DEF NoSession
  <2>2. PICK fn, pos, codes, N, typed, L : Opened(session, fn, pos, codes, N, typed, L)
    BY <2>1 DEF SessionInv
  <2>3. /\ DOMAIN Hints = 1..N /\ session.typed = typed /\ L \in Nat \ {0}
        /\ \A i \in 1..N : /\ Hints[i].code = codes[i] /\ codes[i] \in [1..L -> Char]
                           /\ session.start[i] = StartAt(typed, codes[i])
    BY <2>2, Reading DEF Hints
  <2>4. typed \in Seq(Unit) /\ Len(typed) < L /\ Len(typed) \in Nat /\ GoodCodes(codes, N, L)
    BY <2>2 DEF Opened
  <2>5. ASSUME NEW i \in DOMAIN Hints, NEW j \in DOMAIN Hints, i # j
        PROVE  ~IsPrefix(Hints[i].code, Hints[j].code)
    <3>1. codes[i] # codes[j]
      BY <2>3, <2>4, <2>5 DEF GoodCodes
    <3>2. codes[i] \in [1..L -> Char] /\ codes[j] \in [1..L -> Char] /\ L \in Nat
      BY <2>3
    <3>3. ~IsPrefix(codes[i], codes[j])
      BY <3>1, <3>2, NoPrefix
    <3> QED
      BY <2>3, <3>3
  <2>6. ASSUME NEW i \in DOMAIN Hints
        PROVE  session.start[i] =
                   IF IsPrefix(session.typed, Code(i)) THEN Len(session.typed) ELSE NPOS
    <3>1. /\ i \in 1..N /\ Code(i) = Singles(codes[i])
          /\ codes[i] \in [1..L -> Char] /\ Len(typed) <= L
      BY <2>2, <2>3, <2>4, CodeSingles
    <3>2. IsPrefix(typed, Singles(codes[i])) <=> Begins(typed, codes[i], Len(typed))
      BY <2>3, <2>4, <3>1, TypedPrefix
    <3> QED
      BY <2>3, <3>1, <3>2 DEF StartAt
  <2> QED
    BY <2>5, <2>6 DEF HintsUnambiguous
<1> QED
  BY <1>1, HintInvariant, PTL DEF HintInv

\* Hinter::start_matching: for any hints and any units the cursor goes to a target exactly
\* when the whole code of that target has been typed, and the session is over then.
THEOREM HintsLeadThere == EasySpec => HintLeadsThere
<1> DEFINE Goes(keys) ==
        LET typed == Append(session.typed, keys \cap Char)
        IN  IF \E i \in DOMAIN Hints : Code(i) = typed
            THEN /\ \A i \in DOMAIN Hints : Code(i) = typed => at' = Hints[i].pos
                 /\ ~session'.open
            ELSE at' = at
<1>1. ASSUME SessionInv, NEW keys \in Typed, TypeChar(keys) PROVE Goes(keys)
  <2>0. session.open
    BY <1>1, Zenon DEF TypeChar
  <2>1. session # NoSession
    BY <2>0 DEF NoSession
  <2>2. PICK fn, pos, codes, N, typed, L : Opened(session, fn, pos, codes, N, typed, L)
    BY <1>1, <2>1 DEF SessionInv
  <2> DEFINE t == Append(typed, keys \cap Char)
  <2>3. /\ DOMAIN Hints = 1..N /\ session.typed = typed
        /\ \A i \in 1..N : Hints[i].pos = pos[i] /\ Code(i) = Singles(codes[i])
    BY <2>2, Reading, CodeSingles DEF Hints
  <2>4. Leads(pos, codes, N, t)
    BY <1>1, <2>2, CharStep, Zenon
  <2> HIDE DEF t
  <2>5. IF \E i \in DOMAIN Hints : Code(i) = t
        THEN /\ \A i \in DOMAIN Hints : Code(i) = t => at' = Hints[i].pos
             /\ ~session'.open
        ELSE at' = at
    BY <2>3, <2>4 DEF NoSession, Leads
  <2> QED
    BY <2>3, <2>5 DEF t
<1> HIDE DEF Goes
<1>2. SessionInv /\ [EasyNext]_vars => [\A keys \in Typed : TypeChar(keys) => Goes(keys)]_vars
  BY <1>1
<1> USE DEF Goes
<1> QED
  BY <1>2, HintInvariant, PTL DEF EasySpec, HintInv, HintLeadsThere
=============================================================================
