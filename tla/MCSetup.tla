------------------------------ MODULE MCSetup ------------------------------
(***************************************************************************)
(* Three clients: one that takes a url and a token, one that needs the     *)
(* bridge, and one that keeps TOML.  A Mac without a service, one that has *)
(* the service, one that has it but has lost the token, one with that of   *)
(* an older release, whose binary is gone and whose server launchd does    *)
(* not know, and a machine that is not a Mac.                              *)
(***************************************************************************)
EXTENDS Setup

Disk(claude, copilot, codex, config, token, plist) ==
  [p \in {"claude", "copilot", "codex", "config", "token", "plist"} |->
     CASE p = "claude" -> claude [] p = "copilot" -> copilot
       [] p = "codex" -> codex [] p = "config" -> config
       [] p = "token" -> token [] p = "plist" -> plist]
Plain == ClientFile(TRUE, NoEntry)
Served(how, token) == ClientFile(TRUE, Entry(how, 2, token, "new"))
Server(binary, port, own) ==
  [port |-> port, token |-> "t1", binary |-> binary, own |-> own,
   grants |-> FALSE]

Clean == [shared |-> TRUE, present |-> {"new"}, job |-> NoJob, servers |-> {},
          disk |-> Disk(Plain, Absent, Plain, Absent, Absent, Absent)]
Installed1 ==
  [shared |-> TRUE, present |-> {"old", "new"}, job |-> Plist("t1", "old"),
   servers |-> {Server("old", 2, TRUE)},
   disk |-> Disk(Served("http", "t1"), Served("bridge", NoToken),
                 Served("http", NoToken),
                 Config(2, "t1"), Token("t1"), Plist("t1", "old"))]
Forgotten ==
  [Installed1 EXCEPT !.disk["config"] = Config(2, NoToken),
                     !.disk["token"] = Absent]
Legacy ==
  [shared |-> TRUE, present |-> {"new"}, job |-> Plist("t1", "old"),
   servers |-> {Server("old", 1, FALSE)},
   disk |-> Disk(Cut, Odd, Plain, Absent, Token("t1"), Plist("t1", "old"))]
Desktop ==
  [shared |-> FALSE, present |-> {"new"}, job |-> NoJob, servers |-> {},
   disk |-> Disk(Plain, Cut, Plain, Absent, Absent, Absent)]
MCOrder == <<"claude", "copilot", "codex">>
MCMachines == {Clean, Installed1, Forgotten, Legacy, Desktop}

Ask(mode) ==
  [mode |-> mode, named |-> {}, terminal |-> TRUE, port |-> 0,
   token |-> NoToken, command |-> "new", explicit |-> FALSE,
   permissions |-> FALSE]
Naming(clients) == [Ask("setup") EXCEPT !.named = clients]
MCAsks ==
  [mac \in BOOLEAN |->
     {Ask("setup"), [Ask("setup") EXCEPT !.terminal = FALSE],
      Naming({"claude", "copilot", "codex"})}
     \cup (IF mac
           THEN {[Naming({"claude"}) EXCEPT !.port = 3, !.explicit = TRUE],
                 [Naming({"copilot"}) EXCEPT !.token = "t2",
                                             !.permissions = TRUE],
                 Ask("restart"), Ask("status"),
                 [Ask("restart") EXCEPT !.token = "t2"],
                 Ask("stop")}
           ELSE {Ask("restart"), Ask("stop")})]
=============================================================================
