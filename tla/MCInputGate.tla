----------------------------- MODULE MCInputGate -----------------------------
(***************************************************************************)
(* Instances of InputGate for TLC: a small keyboard with the generic Ctrl  *)
(* code, a lock key, a letter and the left Ctrl key.                       *)
(***************************************************************************)
EXTENDS InputGate

\* The numbers keep the order of the virtual-key codes.
CTRL == 1
CAPS == 2
A    == 3
LCTRL == 4
LALT == 5

mcRepOf  == [k \in Key |-> IF k = LCTRL THEN CTRL ELSE 0]
mcPhysOf == [c \in Code |-> IF c \in Key THEN c ELSE LCTRL]

NoHotkeys   == [m \in Modes |-> [c \in Code |-> {}]]
NoIdentity  == [m \in Modes |-> {}]
HotkeyTo(ms, t) == [m \in Modes |-> [c \in Code |-> IF c = CAPS /\ m \in ms THEN {t} ELSE {}]]
\* map <capslock> <lctrl> in every mode, and docs/index.md: imap <capslock> {<ctrl>}.
CapsToLCtrl     == HotkeyTo(Modes, LCTRL)
ImapCapsToCtrl  == HotkeyTo({"INSERT"}, CTRL)
IdentityA       == [m \in Modes |-> {A}]

\* The default bindings: ToGUINormal from Insert, the others from GUI Normal.
DefaultBound ==
    {<<"to_normal", "INSERT">>, <<"to_normal", "GUI_VISUAL">>, <<"to_normal", "COMMAND">>,
     <<"to_normal", "GUI_NORMAL">>, <<"to_passing", "GUI_NORMAL">>, <<"to_passing", "COMMAND">>,
     <<"to_visual", "GUI_NORMAL">>, <<"pushup", "GUI_NORMAL">>,
     <<"command", "GUI_NORMAL">>, <<"switch", "GUI_NORMAL">>, <<"loop", "GUI_NORMAL">>}
ModeBound ==
    {<<"to_normal", "INSERT">>, <<"to_passing", "GUI_NORMAL">>}
InsertPushup == ModeBound \cup {<<"pushup", "INSERT">>, <<"pushup", "GUI_NORMAL">>}
MapPushup == ModeBound \cup {<<"pushup", "GUI_NORMAL">>, <<"map", "GUI_NORMAL">>}
\* With failures: the sessions and a visual mode, which ToInstantGUINormal of
\* tiny.vindrc reaches from Insert.
FaultBound ==
    InsertPushup \cup {<<"instant", "INSERT">>, <<"switch", "GUI_NORMAL">>,
                     <<"to_visual", "GUI_NORMAL">>, <<"to_normal", "GUI_VISUAL">>}
OneRemap == {[hotkey |-> [c \in Code |-> IF c = CAPS THEN {LCTRL} ELSE {}], identity |-> {}]}
CopyMacro == {{LCTRL, A}}
LetterMacro == {{A}}
=============================================================================
