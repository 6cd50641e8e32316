----------------------------- MODULE WindowView -----------------------------
(***************************************************************************)
(* What EasyClick may expect of the elements it is given for a window,     *)
(* whoever keeps them and however they are refreshed: the view of a window *)
(* is a content the window really had, it never goes back to an older one, *)
(* and it is forgotten for all windows together, when caching ends.        *)
(***************************************************************************)
EXTENDS Naturals

CONSTANTS Window, MaxVersion

VARIABLES
    version,    \* the content of each window, counted
    view,       \* the content that is shown of each window; 0 when there is none
    caching     \* views are kept

Init == version = [w \in Window |-> 1] /\ view = [w \in Window |-> 0] /\ caching \in BOOLEAN

Change(w) ==
    /\ version[w] < MaxVersion
    /\ version' = [version EXCEPT ![w] = @ + 1]
    /\ UNCHANGED <<view, caching>>

Look(w) ==
    /\ caching
    /\ \E v \in view[w]..version[w] : view' = [view EXCEPT ![w] = v]
    /\ UNCHANGED <<version, caching>>

Switch ==
    /\ caching' = ~caching /\ view' = [w \in Window |-> 0]
    /\ UNCHANGED version

Next == Switch \/ \E w \in Window : Change(w) \/ Look(w)

Spec == Init /\ [][Next]_<<version, view, caching>>
=============================================================================
