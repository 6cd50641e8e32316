----------------------------- MODULE MCLifecycle -----------------------------
(***************************************************************************)
(* Instances of win-vind, any of which may become the server: p1 without a *)
(* request, p2 with a command of two characters that opens a session,      *)
(* EasyClick or one without hints, and p3 with a command of one, which may *)
(* or may not be well formed.                                              *)
(***************************************************************************)
EXTENDS Lifecycle

CONSTANTS p1, p2, p3

Session == <<"a", "b">>
Move    == <<"c">>

mcArg    == (p1 :> <<>>) @@ (p2 :> Session) @@ (p3 :> Move)
mcEffect == Session :> {"hints", "session"}
=============================================================================
