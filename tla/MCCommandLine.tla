---------------------------- MODULE MCCommandLine ----------------------------
(***************************************************************************)
(* Instances of CommandLine: the commands s (source) and sc (comclear and  *)
(* to_insert), a file with an error and a file with an unsuitable value,   *)
(* a file with a number out of range, and an application with a child and, *)
(* later, a grandchild.                                                    *)
(***************************************************************************)
EXTENDS CommandLine

k(c) == [keys |-> {c}, kind |-> "key", name |-> ""]
F(n) == [keys |-> {}, kind |-> "function", name |-> n]

mcChar == {"s", "c", "d", "space"}
mcDigitValue == [k_ \in {} |-> 0]
mcRep == "lshift" :> "shift"
mcKeys == {k(c) : c \in {"s", "c", "d", "space", "lshift", "esc", "bkspace", "up", "down", "tab", "enter"}}
mcUnicode == [c \in {"s", "c", "d"} |-> c] @@ ("space" :> " ")
mcTypable == {"s", "s ", "s c", "s d", "s s"}
mcSeparator == <<k("space"), k(OPTIONAL)>>

mcParse ==
    ("s" :> <<k("s")>>) @@ ("sc" :> <<k("s"), k("c")>>)
    @@ ("<source>" :> <<F("source")>>) @@ ("<to_insert>" :> <<F("to_insert")>>)
    @@ ("<comclear><to_insert>" :> <<F("comclear"), F("to_insert")>>) @@ ("d<to_insert>" :> <<k("d"), F("to_insert")>>)
    @@ ("d" :> <<k("d")>>)

mcSplit == [w \in {} |-> <<>>]
mcTier == "huge" :> "tier"
mcFiles ==
    ("tier" :> <<<<"command", "s", "<source>">>>>)
    @@ ("rc" :> <<<<"set", "cmd_fadeout", "=", "1">>, <<"command", "sc", "<comclear><to_insert>">>,
                  <<"autocmd", "appenter", "Deep", "<to_insert>">>,
                  <<"autocmd", "appleave", "app", "d">>,
                  <<"autocmd", "gnleave", "app", "d<to_insert>">>>>)
    @@ ("d" :> <<<<"set", "novcmdline">>, <<"delcommand", "sc">>, <<"autocmd!", "gnleave">>, <<"nonsense">>,
                 <<"command", "d", "<source>">>>>)
    @@ ("c" :> <<<<"source", "d">>, <<"set", "vcmdline", "=", "text">>>>)
    @@ ("s" :> <<<<"set">>, <<"set", "cmd_fadeout", "=", "9999999999">>>>)

mcEvent == {"appenter", "appleave", "ienter", "ileave", "gnenter", "gnleave", "center", "cleave"}
mcLower == [p \in {"deep", "Deep", "app"} |-> IF p = "Deep" THEN "deep" ELSE p]
mcRegex == ("deep" :> {"deep"}) @@ ("Deep" :> {}) @@ ("app" :> {"app"})
mcPath == (1 :> "/shell") @@ (2 :> "/app") @@ (3 :> "/child") @@ (4 :> "/deep")
mcFileName == ("/shell" :> "shell") @@ ("/app" :> "app") @@ ("/child" :> "child") @@ ("/deep" :> "deep")

mcProcs == <<[pid |-> 1, parent |-> 0], [pid |-> 2, parent |-> 1], [pid |-> 3, parent |-> 2],
             [pid |-> 4, parent |-> 3]>>
mcSettings == "vcmdline" :> [type |-> "bool", text |-> "1"]
=============================================================================
