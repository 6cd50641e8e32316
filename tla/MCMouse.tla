------------------------------ MODULE MCMouse ------------------------------
(* Instances of Mouse for TLC. *)
EXTENDS Mouse, TLC

h == {"h"}
k == {"k"}
hk == {"h", "k"}

\* h moves to the left and k both to the left and up; others change the mode.
MovingKeys ==
    [gui_normal |-> (h :> <<"left">>) @@ (k :> <<"left", "up">>) @@ (hk :> <<"to_gui_visual">>),
     gui_visual |-> (h :> <<"left">>) @@ (k :> <<"to_gui_normal">>) @@ (hk :> <<"click_left">>),
     edi_normal |-> <<>>, insert |-> <<>>, resident |-> <<>>]

\* No directions, but every way into GUI Visual and out of it; in the first as in
\* big.vindrc, where to_resident leaves it.
BigKeys ==
    [gui_normal |-> (h :> <<"to_gui_visual">>) @@ (k :> <<"click_left">>) @@ (hk :> <<"to_insert">>),
     gui_visual |-> (h :> <<"to_gui_normal">>) @@ (k :> <<"to_resident">>) @@ (hk :> <<"click_left">>),
     edi_normal |-> (h :> <<"to_gui_normal">>) @@ (k :> <<"click_left">>) @@ (hk :> <<"to_edi_normal">>),
     insert     |-> (h :> <<"to_gui_normal">>) @@ (k :> <<"to_edi_normal">>),
     resident   |-> (h :> <<"to_gui_normal">>) @@ (k :> <<"to_gui_visual">>) @@ (hk :> <<"click_left">>)]
ClickKeys ==
    [BigKeys EXCEPT
        !.gui_visual = (h :> <<"to_insert">>) @@ (k :> <<"click_mid", "to_gui_visual">>)
                       @@ (hk :> <<"click_left">>)]
ModeKeys ==
    [BigKeys EXCEPT
        !.gui_visual = (h :> <<"to_edi_normal">>) @@ (k :> <<"click_right">>)
                       @@ (hk :> <<"to_gui_normal">>)]

mcBindings == {MovingKeys, BigKeys, ClickKeys, ModeKeys}
=============================================================================
