----------------------------- MODULE MCMacInput -----------------------------
(***************************************************************************)
(* A small desktop for MacInput: both Shift keys, which share a flag,      *)
(* Return, the letter whose key code is 0, and a key without a code.  One  *)
(* finger is native, two make a right click, three a change of space.      *)
(***************************************************************************)
EXTENDS MacInput

MCKeys == {"LeftShift", "RightShift", "A", "Return", "PlayPause"}
MCModifierKeys == {"LeftShift"}
MCFlagOf == [k \in {"LeftShift", "RightShift"} |-> "LeftShift"]
MCSwipeChords == {[mods |-> {"LeftShift"}, keys |-> <<"Return">>]}
MCChords == MCSwipeChords
            \cup {[mods |-> {}, keys |-> <<"A", "PlayPause">>]}
MCTexts == {<<>>, <<"char", "newline">>}
MCFaultSets == {{"scroll"}, {"press"}, {"release", "last"}}
=============================================================================
