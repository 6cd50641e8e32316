------------------------------ MODULE UICache ------------------------------
(***************************************************************************)
(* UICache and AsyncUIACacheBuilder (opt/uicache, opt/uiacachebuild): the  *)
(* elements of the foreground window are read by a thread of their own     *)
(* while the cursor rests, and handed to EasyClick when it asks for them.  *)
(*                                                                         *)
(* Time is relative: what the code computes from begin_, end_ and now is   *)
(* kept as the age of the last build, which stops at MaxAge.               *)
(***************************************************************************)
EXTENDS Naturals, FiniteSets

CONSTANTS
    Windows,     \* how many windows there are at most
    MaxVersion,  \* bound: how often the content of a window changes, plus one
    Lifetime,    \* uiacachebuild_lifetime
    StayBegin,   \* uiacachebuild_staybegin
    StayEnd,     \* uiacachebuild_stayend
    MaxAge,      \* bound: from this age on time makes no difference
    MaxCached    \* bound: with more windows open the option stays disabled

ASSUME CacheAssumption ==
    /\ Windows \in Nat \ {0}
    /\ MaxVersion \in Nat \ {0} /\ MaxAge \in Nat
    /\ Lifetime \in 1..MaxAge /\ StayBegin \in Nat /\ StayEnd \in Nat
    /\ StayBegin <= StayEnd

VARIABLES
    open,     \* the windows on the screen (external)
    version,  \* the content of each window, counted (external)
    active,   \* the foreground window (external)
    still,    \* keeptime, as an age, and whether the cursor has moved since prepos
    caching,  \* flag_ of the option
    cache,    \* caches_: the cache of each window
    job       \* what the worker is asking for

cacheVars == <<open, version, active, still, caching, cache, job>>

Window == 1..Windows
NONE == 0          \* no content
Version == 1..MaxVersion
Age == 0..MaxAge

\* The thread of ft_: it has been created ("start"), has stamped the begin
\* ("read"), has the elements ("stamp"), or is done; "none" is a future without state.
NoBuild == [pc |-> "none", got |-> NONE]
Unfinished == {"start", "read", "stamp"}
Finished   == {"ready", "failed"}
BuildType ==
    [pc : {"none", "failed"} \cup Unfinished \cup Finished, got : {NONE} \cup Version]

\* A cache: root_ (NONE for the element without properties it starts with),
\* begin_, whether end_ is set, mean_ and ft_.
NoCache   == [known |-> FALSE, root |-> NONE, age |-> MaxAge, stamped |-> FALSE, mean |-> 0,
              build |-> NoBuild]
Created   == [NoCache EXCEPT !.known = TRUE]
CacheType ==
    [known : BOOLEAN, root : {NONE} \cup Version, age : Age, stamped : BOOLEAN, mean : Age,
     build : BuildType]

\* asked is the content the window had when the worker asked, own is set when the
\* request had to create the thread.
NoJob   == [pc |-> "idle", win |-> NONE, asked |-> NONE, own |-> FALSE, got |-> NONE]
JobType ==
    [pc : {"idle", "latest", "wait", "read", "served", "threw", "clear"},
     win : {NONE} \cup Window, asked : {NONE} \cup Version, own : BOOLEAN,
     got : {NONE} \cup Version]

Init ==
    /\ version = [w \in Window |-> 1]
    /\ open \in {1..n : n \in Window} /\ active \in open
    /\ still = [moved |-> FALSE, age |-> 0]
    /\ caching = (Cardinality(open) <= MaxCached)
    /\ cache = [w \in Window |-> NoCache]
    /\ job = NoJob

-----------------------------------------------------------------------------
(***************************************************************************)
(* UICache.                                                                *)
(***************************************************************************)
IsValid(c) == c.stamped /\ c.age < Lifetime

CreateThread(c) == [c EXCEPT !.build = [pc |-> "start", got |-> NONE]]

\* ft_.get() of a finished build: the future gives its elements up, or throws.
\* (Bug: a failed build makes the cache start anew.)
Get_Anew(c) == [c EXCEPT !.root = c.build.got, !.build = NoBuild]
Get(c) == [c EXCEPT !.root = IF c.build.pc = "ready" THEN c.build.got ELSE @, !.build = NoBuild]

\* UICache::update
Update(c) ==
    IF IsValid(c) \/ c.age < c.mean \/ c.build.pc \in Unfinished THEN c
    ELSE IF c.build.pc = "none" THEN CreateThread(c) ELSE Get(c)

-----------------------------------------------------------------------------
(***************************************************************************)
(* The outside: time, the windows, the cursor.                             *)
(***************************************************************************)
Older(a) == IF a < MaxAge THEN a + 1 ELSE a

Tick ==
    /\ cache' = [w \in Window |-> [cache[w] EXCEPT !.age = Older(@)]]
    /\ still' = [still EXCEPT !.age = IF @ <= StayEnd THEN @ + 1 ELSE @]
    /\ UNCHANGED <<open, version, active, caching, job>>

Change(w) ==
    /\ version[w] < MaxVersion
    /\ version' = [version EXCEPT ![w] = @ + 1]
    /\ UNCHANGED <<open, active, still, caching, cache, job>>

Activate(w) ==
    /\ active' = w
    /\ UNCHANGED <<open, version, still, caching, cache, job>>

MoveCursor ==
    /\ still' = [still EXCEPT !.moved = TRUE]
    /\ UNCHANGED <<open, version, active, caching, cache, job>>

-----------------------------------------------------------------------------
(***************************************************************************)
(* The thread of a build.  update_element may fail; the exception is kept  *)
(* in the future and nothing is stamped.                                   *)
(***************************************************************************)
Build(w, c) == cache' = [cache EXCEPT ![w] = c] /\ UNCHANGED <<open, version, active, still, caching, job>>

BuildBegin(w) ==
    /\ cache[w].build.pc = "start"
    /\ Build(w, [cache[w] EXCEPT !.build.pc = "read", !.age = 0])

BuildRead(w) ==
    /\ cache[w].build.pc = "read"
    /\ \/ Build(w, [cache[w] EXCEPT !.build = [pc |-> "stamp", got |-> version[w]]])
       \/ Build(w, [cache[w] EXCEPT !.build.pc = "failed"])

\* stamp_end and update_average
Mean(c) == IF c.mean = 0 THEN c.age ELSE (c.mean + c.age) \div 2

BuildEnd(w) ==
    /\ cache[w].build.pc = "stamp"
    /\ Build(w, [cache[w] EXCEPT !.stamped = TRUE, !.mean = Mean(cache[w]), !.build.pc = "ready"])

BuildStep(w) == BuildBegin(w) \/ BuildRead(w) \/ BuildEnd(w)

-----------------------------------------------------------------------------
(***************************************************************************)
(* The worker.                                                             *)
(***************************************************************************)
\* AsyncUIACacheBuilder::do_process in a mode that blocks, with no key pressed:
\* Background calls it again and again while the worker is in no function.
Process ==
    /\ caching /\ job.pc = "idle"
    /\ IF still.moved
       THEN still' = [moved |-> FALSE, age |-> 0] /\ UNCHANGED cache
       ELSE /\ still.age \in StayBegin..StayEnd
            /\ cache' = [cache EXCEPT ![active] = Update(IF @.known THEN @ ELSE Created)]
            /\ UNCHANGED still
    /\ UNCHANGED <<open, version, active, caching, job>>

\* A function asks for the elements of a window: get_root_element, or with the
\* option disabled UIWalker::scan, which reads them itself.
Request(w) ==
    /\ job.pc = "idle"
    /\ job' = [NoJob EXCEPT !.pc = IF caching THEN "latest" ELSE "read",
                            !.win = w, !.asked = version[w]]
    /\ cache' = IF caching /\ ~cache[w].known THEN [cache EXCEPT ![w] = Created] ELSE cache
    /\ UNCHANGED <<open, version, active, still, caching>>

Serve(w, c) ==
    /\ cache' = [cache EXCEPT ![w] = c]
    /\ job' = [job EXCEPT !.pc = "served", !.got = c.root]

Throw(w) ==
    /\ cache' = [cache EXCEPT ![w] = Get(@)]
    /\ job' = [job EXCEPT !.pc = "threw"]

\* UICache::latest
LatestValid ==
    LET w == job.win
    IN  /\ job.pc = "latest" /\ IsValid(cache[w])
        /\ Serve(w, cache[w])
        /\ UNCHANGED <<open, version, active, still, caching>>

LatestFinished ==
    LET w == job.win
    IN  /\ job.pc = "latest" /\ ~IsValid(cache[w])
        /\ \/ cache[w].build.pc = "ready" /\ Serve(w, Get(cache[w]))
           \/ cache[w].build.pc = "failed" /\ Throw(w)
        /\ UNCHANGED <<open, version, active, still, caching>>

\* (Bug: no thread is created.)
LatestWait_NoThread ==
    /\ job.pc = "latest" /\ ~IsValid(cache[job.win])
    /\ cache[job.win].build.pc \in {"none"} \cup Unfinished
    /\ job' = [job EXCEPT !.pc = "wait"]
    /\ UNCHANGED <<open, version, active, still, caching, cache>>

LatestWait ==
    LET w == job.win
    IN  /\ job.pc = "latest" /\ ~IsValid(cache[w])
        /\ \/ /\ cache[w].build.pc = "none"
              /\ cache' = [cache EXCEPT ![w] = CreateThread(@)]
              /\ job' = [job EXCEPT !.pc = "wait", !.own = TRUE]
           \/ /\ cache[w].build.pc \in Unfinished
              /\ job' = [job EXCEPT !.pc = "wait"]
              /\ UNCHANGED cache
        /\ UNCHANGED <<open, version, active, still, caching>>

\* ft_.wait and ft_.get
\* (Bug: the cache is returned without the result of the build.)
Wait_Root ==
    LET w == job.win
    IN  /\ job.pc = "wait"
        /\ \/ cache[w].build.pc = "ready" /\ Serve(w, cache[w])
           \/ cache[w].build.pc = "failed" /\ Throw(w)
        /\ UNCHANGED <<open, version, active, still, caching>>

Wait ==
    LET w == job.win
    IN  /\ job.pc = "wait"
        /\ \/ cache[w].build.pc = "ready" /\ Serve(w, Get(cache[w]))
           \/ cache[w].build.pc = "failed" /\ Throw(w)
        /\ UNCHANGED <<open, version, active, still, caching>>

\* update_element on the worker
Read ==
    /\ job.pc = "read"
    /\ \/ job' = [job EXCEPT !.pc = "served", !.got = version[job.win], !.own = TRUE]
       \/ job' = [job EXCEPT !.pc = "threw"]
    /\ UNCHANGED <<open, version, active, still, caching, cache>>

\* The function goes on without the elements, or ends.
Release ==
    /\ job.pc \in {"served", "threw"}
    /\ job' = NoJob
    /\ UNCHANGED <<open, version, active, still, caching, cache>>

\* set nouiacachebuild: do_disable destroys the caches, and the destructor of a
\* future waits for its thread; set uiacachebuild.
Disable ==
    /\ caching /\ job.pc = "idle"
    /\ job' = [NoJob EXCEPT !.pc = "clear"]
    /\ UNCHANGED <<open, version, active, still, caching, cache>>

Clear ==
    /\ job.pc = "clear"
    /\ \A w \in Window : cache[w].build.pc \notin Unfinished
    /\ cache' = [w \in Window |-> NoCache]
    /\ caching' = FALSE
    /\ job' = NoJob
    /\ UNCHANGED <<open, version, active, still>>

Enable ==
    /\ ~caching /\ job.pc = "idle" /\ Cardinality(open) <= MaxCached
    /\ caching' = TRUE
    /\ UNCHANGED <<open, version, active, still, cache, job>>

-----------------------------------------------------------------------------
Outside == Tick \/ MoveCursor \/ \E w \in open : Change(w) \/ Activate(w)
Latest  == LatestValid \/ LatestFinished \/ LatestWait \/ Wait \/ Read
Builder == \E w \in Window : BuildStep(w)
Option  == Process \/ Disable \/ Clear \/ Enable

Next == Outside \/ Builder \/ Option \/ Latest \/ Release \/ \E w \in open : Request(w)

Spec == Init /\ [][Next]_cacheVars

-----------------------------------------------------------------------------
TypeOK ==
    /\ open \subseteq Window /\ active \in open /\ version \in [Window -> Version]
    /\ still \in [moved : BOOLEAN, age : 0..StayEnd + 1] /\ caching \in BOOLEAN
    /\ cache \in [Window -> CacheType] /\ job \in JobType
    /\ job.pc \in {"latest", "wait", "read"} => job.win \in Window

View == INSTANCE WindowView WITH view <- [w \in Window |-> cache[w].root]
\* UICache keeps the promise of WindowView: whatever the order of builds, failures,
\* fetches and requests, the elements of a window never go back to older ones.
ForwardOnly == View!Spec

\* A request that starts the build itself is answered with elements that are no
\* older than the request (UICache::latest creates the thread, waits and fetches).
OwnBuildIsFresh == job.pc = "served" /\ job.own => job.got >= job.asked
=============================================================================
