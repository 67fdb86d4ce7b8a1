--------------------------- MODULE MCWindowsInput ---------------------------
(***************************************************************************)
(* A small desktop for WindowsInput: one modifier, one letter, Return, and *)
(* a key without a virtual key.  One finger is fewer contacts than a      *)
(* pinch has, three make a shell swipe.                                    *)
(* Each fault set makes a different path out of a call possible.           *)
(***************************************************************************)
EXTENDS WindowsInput

MCKeys == {"LeftControl", "A", "Return", "Eject"}
MCModifierKeys == {"LeftControl"}
MCShellChords == {[mods |-> {"LeftControl"}, keys |-> <<"A">>]}
MCChords == MCShellChords
            \cup {[mods |-> {}, keys |-> <<"A", "Eject">>]}
MCTexts == {<<"char", "newline">>}
MCOnlyReleases == {{"release"}}
MCFaultSets == {{"press", "begin", "move", "lift"}, {"press", "release"},
                {"last"}, {"batch"}}
=============================================================================
