------------------------------ MODULE MCDesktop ------------------------------
(***************************************************************************)
(* Instances of Desktop: two monitors side by side, the first with the     *)
(* taskbar, of odd and even sides.                                         *)
(***************************************************************************)
EXTENDS Desktop

B(left, top, right, bottom) == [x |-> <<left, right>>, y |-> <<top, bottom>>]

mcRect == ("m1" :> B(0, 0, 7, 7)) @@ ("m2" :> B(7, 0, 12, 6))
mcWork == [mcRect EXCEPT !["m1"] = B(0, 0, 7, 6)]
mcCombined == B(0, 0, 12, 7)
mcLayouts == {
    ("a" :> B(0, 0, 4, 3)) @@ ("b" :> B(3, 3, 7, 6)) @@ ("c" :> B(1, 1, 3, 2)) @@ ("d" :> B(8, 1, 10, 4)),
    ("a" :> B(7, 0, 12, 6)) @@ ("b" :> B(2, 2, 6, 4)) @@ ("c" :> B(4, 0, 7, 2)) @@ ("d" :> B(2, 2, 6, 4)),
    ("a" :> B(0, 0, 7, 6)) @@ ("b" :> B(3, 0, 4, 6)) @@ ("c" :> B(0, 2, 3, 4)) @@ ("d" :> B(9, 0, 12, 6)),
    ("a" :> B(10, 3, 14, 8)) @@ ("b" :> B(0, 0, 3, 6)) @@ ("c" :> B(3, 0, 7, 6)) @@ ("d" :> B(12, 0, 16, 3))}
mcPlaces == {B(5, 4, 9, 6)}
mcMemory == [w \in {"a", "c", "d"} |-> 2] @@ ("b" :> 3)
=============================================================================
