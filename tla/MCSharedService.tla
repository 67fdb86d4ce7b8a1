-------------------------- MODULE MCSharedService ---------------------------
(***************************************************************************)
(* Two clients with a bridge, one of them perhaps with the token of the    *)
(* past, one peer without a bridge, and the shapes of message that matter  *)
(* to what the clients do to each other.                                   *)
(***************************************************************************)
EXTENDS SharedService

Shape(form, id, meta, does) ==
  [form |-> form, id |-> id, meta |-> meta, does |-> does]
MCShapes == {Shape("call", TRUE, "none", "hold"),
             Shape("call", FALSE, "none", "release")}
MCMoreShapes == {Shape("call", TRUE, "incomplete", "hold"),
                 Shape("garbled", FALSE, "none", "none"),
                 Shape("notification", TRUE, "none", "none")}
MCQuota == [alice |-> 2, bob |-> 1]
MCOneEach == [alice |-> 1, bob |-> 1]
=============================================================================
