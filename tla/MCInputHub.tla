----------------------------- MODULE MCInputHub -----------------------------
(***************************************************************************)
(* Instances of InputHub: a keyboard with four letters, two digits and the *)
(* left Shift key, and a few maps.                                         *)
(***************************************************************************)
EXTENDS InputHub

mcRep        == "lshift" :> "shift"
mcDigitValue == ("0" :> 0) @@ ("2" :> 2)
mcChar       == {"g", "x", "y", "z", "0", "2"}

k(c) == [keys |-> {c}, kind |-> "key", name |-> ""]
F(n) == [keys |-> {}, kind |-> "function", name |-> n]
X(c) == [keys |-> {c}, kind |-> "external", name |-> c]
S(c) == [keys |-> {"shift", c}, kind |-> "key", name |-> ""]
AnyU == [keys |-> {OPTIONAL}, kind |-> "key", name |-> ""]
NumU == [keys |-> {OPTNUMBER}, kind |-> "key", name |-> ""]

Line(c, trigger, target) == [command |-> c, trigger |-> trigger, target |-> target]
Map(trigger, target) == [trigger |-> trigger, target |-> target]

\* nnoremap gg <top>, <s-g> <bottom>, x <cut>, as in the default bindings.
mcDefaults ==
    <<Map(<<k("g"), k("g")>>, <<F("top")>>), Map(<<S("g")>>, <<F("bottom")>>),
      Map(<<k("x")>>, <<F("cut")>>)>>

mcRawUnits == {{}, {"g"}, {"x"}, {"y"}, {"2"}, {"0"}, {"lshift"}, {"lshift", "g"}, {"g", "2"}}

mcLines ==
    {Line("map", <<k("y")>>, <<k("z")>>), Line("map", <<k("z")>>, <<k("y")>>),
     Line("map", <<k("z")>>, <<k("x"), k("g"), k("g")>>),
     Line("map", <<k("x")>>, <<F("paste")>>),
     Line("noremap", <<k("y")>>, <<k("x")>>), Line("unmap", <<k("x")>>, <<>>),
     Line("mapclear", <<>>, <<>>)}

mcRequests == {<<k("x"), F("top"), k("g")>>}
mcAutoCmds == {<<k("g"), F("cut")>>}

\* For the crashes: a map with <num> inside its trigger, and maps that lead to each
\* other in circles of one, two and three.
mcNumberDefaults ==
    <<Map(<<k("g"), NumU, k("x")>>, <<F("goto")>>), Map(<<k("x")>>, <<F("cut")>>)>>

mcNumberUnits == {{}, {"g"}, {"x"}, {"z"}, {"2"}, {"lshift"}}

mcLoopLines ==
    {Line("map", <<k("x")>>, <<k("y")>>), Line("map", <<k("y")>>, <<k("z")>>),
     Line("map", <<k("z")>>, <<k("x"), k("y")>>), Line("map", <<k("z")>>, <<k("z")>>),
     Line("noremap", <<k("y")>>, <<k("x")>>), Line("noremap", <<k("z")>>, <<k("y")>>),
     Line("unmap", <<k("y")>>, <<>>)}
=============================================================================
