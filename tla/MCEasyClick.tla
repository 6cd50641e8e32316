---------------------------- MODULE MCEasyClick ----------------------------
(***************************************************************************)
(* Instances of EasyClick for TLC: windows with a handful of elements that *)
(* change, two hint keys, two monitors.                                    *)
(***************************************************************************)
EXTENDS EasyClick

mcElem == {"root", "panel", "ok", "text", "gray", "hidden"}

\* A panel that can have the focus itself holds a button and a text field; a
\* disabled panel hides another button.
Kids(panel) ==
    [e \in mcElem |-> CASE e = "root"  -> <<"panel", "gray">> \o (IF panel = <<>> THEN <<"text", "ok">> ELSE <<>>)
                        [] e = "panel" -> panel
                        [] e = "gray"  -> <<"hidden">>
                        [] OTHER -> <<>>]
Pos(ok) == [e \in mcElem |-> CASE e = "root"   -> <<50, 10>>
                               [] e = "panel"  -> IF ok = <<10, 10>> THEN <<10, 30>> ELSE <<30, 10>>
                               [] e = "ok"     -> ok
                               [] e = "text"   -> <<30, 10>>
                               [] e = "gray"   -> <<10, 30>>
                               [] e = "hidden" -> <<10, 32>>]
Window1(panel, ok, editable) ==
    [root |-> "root", kids |-> Kids(panel), enabled |-> mcElem \ {"gray"},
     target |-> {"panel", "ok", "text", "hidden"}, editable |-> editable,
     focused |-> {}, pos |-> Pos(ok), frame |-> {10, 30, 50} \X {10, 30, 32}]
\* A window of which nothing but the text field can have the focus.
Window2 ==
    [Window1(<<"ok", "text">>, <<70, 10>>, {"ok", "text"}) EXCEPT
        !.target = {"text"}, !.focused = {"text"}, !.frame = {<<30, 10>>, <<70, 10>>}]

\* The first window loses its panel: a button moves out of the frame, where the
\* second window is.
mcTree ==
    [w \in Window |-> [v \in Version |->
        IF w = 2 THEN Window2
        ELSE IF v = 1 THEN Window1(<<"ok", "text">>, <<10, 10>>, {"text", "ok"})
        ELSE Window1(<<>>, <<70, 10>>, {"text"})]]
mcCenters  == [w \in Window |-> {<<50, 10>>}]
mcMonitors == <<<<0, 0, 40, 20>>, <<40, 0, 40, 20>>>>
mcHintKeys == <<"a", "s">>
mcOrigin   == <<30, 10>>
mcGridSize == <<2, 1>>
mcChar  == {"a", "s", "x"}
mcTyped == {{"a"}, {"s"}, {"lshift", "s"}, {"a", "s"}, {"lshift"}, {"esc"}, {"bkspace"}}
=============================================================================
