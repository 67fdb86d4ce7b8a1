--------------------------- MODULE MCStdioServer ----------------------------
(* One client and the shapes of message that take different paths. *)
EXTENDS StdioServer

MCShapes ==
  LET Shape(form, id, meta, does) ==
        [form |-> form, id |-> id, meta |-> meta, does |-> does]
  IN {Shape("garbled", FALSE, "none", "none"),
      Shape("no_method", TRUE, "none", "none"),
      Shape("initialize", TRUE, "none", "none"),
      Shape("notification", TRUE, "none", "none"),
      Shape("answered", FALSE, "none", "none"),
      Shape("unknown", FALSE, "none", "none"),
      Shape("call", TRUE, "none", "hold"),
      Shape("call", FALSE, "incomplete", "hold"),
      Shape("call", TRUE, "incomplete", "act"),
      Shape("call", TRUE, "modern", "release"),
      Shape("call", TRUE, "modern", "fail"),
      Shape("call", FALSE, "none", "fail"),
      Shape("call", TRUE, "modern", "disabled")}
=============================================================================
