---------------------------- MODULE MCLinuxInput ----------------------------
(***************************************************************************)
(* A small desktop for LinuxInput: one modifier, one letter and Return, a  *)
(* keymap that has all three and one that has the letter where the other   *)
(* has Return, and no Return.  One finger and three are fewer and more     *)
(* contacts than a pinch has.  Behaviours in which nothing goes wrong are  *)
(* among those of both fault sets.                                         *)
(***************************************************************************)
EXTENDS LinuxInput

MCKeys == {"LeftControl", "A", "Return"}
MCModifierKeys == {"LeftControl"}
MCChords == {[mods |-> {"LeftControl"}, keys |-> <<"A", "Return">>],
             [mods |-> {"LeftControl"}, keys |-> <<"LeftControl">>]}
MCTexts == {<<"char", "newline">>}
MCKeymaps ==
  LET Keymap(c, a, r) ==
        [k \in MCKeys |-> CASE k = "LeftControl" -> c
                            [] k = "A" -> a
                            [] k = "Return" -> r]
  IN {Keymap(37, 38, 36), Keymap(37, 36, 0)}
MCFaultSets == {{"begin", "move", "lift"}, {"keymap"}}
=============================================================================
