------------------------------- MODULE Setup -------------------------------
(***************************************************************************)
(* `setup` (src/mcp/setup.cpp), the files it writes and the shared service *)
(* it installs: run_setup with --client, --port, --auth-token, --restart,  *)
(* --stop and --status, install_agent, uninstall_agent, agent_token, and   *)
(* load_server_config and save_server_config of config.cpp.                *)
(*                                                                         *)
(* The state outlives a run of setup: files, the job launchd has loaded    *)
(* and the server that runs.  Every write takes the file's content away    *)
(* before it puts the new one, and setup may be killed between any two     *)
(* steps, so that the next run begins with whatever the last one left.     *)
(***************************************************************************)
EXTENDS Integers, Sequences, FiniteSets

CONSTANTS
  Order,        \* the clients, in the order of client_targets
  Http, Toml,   \* those that take a url and a token; that keep TOML
  Machines,     \* what is there before: records of files, job and server
  Asks,         \* [BOOLEAN -> the command lines], with and without launchd
  DefaultPort,
  Fresh,        \* the tokens openssl can come up with
  MaxRuns, MaxFaults

NoToken == "no token"
Clients == {Order[i] : i \in DOMAIN Order}
Paths == Clients \cup {"config", "token", "plist"}

ASSUME SetupAssumption ==
  /\ Order \in Seq(STRING)
  /\ Clients \cap {"config", "token", "plist"} = {}
  /\ MaxRuns \in Nat /\ MaxFaults \in Nat
  /\ \A m \in Machines : m.shared \in BOOLEAN /\ DOMAIN m.disk = Paths
  /\ \A mac \in BOOLEAN : \A ask \in Asks[mac] :
       /\ ask.mode \in {"setup", "restart", "stop", "status"}
       /\ ask.named \subseteq Clients

\* install_agent writes a plist only where there is launchd, and with a token.
ASSUME ServiceAssumption ==
  /\ NoToken \notin Fresh
  /\ \A m \in Machines :
       /\ m.disk["plist"].form = "text" => m.disk["plist"].token # NoToken
       /\ ~m.shared => m.disk["plist"].form = "absent"

\* A TOML file is not parsed: that it can be read at first is the user's part.
ASSUME FilesAssumption ==
  \A m \in Machines, c \in Toml \cap Clients : m.disk[c].form # "cut"

VARIABLES
  shared,   \* macOS: one service for all clients
  disk,     \* the file at each path
  present,  \* the binaries that are installed
  job,      \* what launchd has loaded: the content of the plist, or NoJob
  servers,  \* the processes that listen
  granted,  \* the user has granted the permissions
  pc, run,  \* the setup that runs
  runs, faults,
  \* To compare with:
  had,      \* the clients whose file has had servers of the user's in it
  harmed,   \* the files in which a write was cut short
  held      \* what was connected when this run began

files == <<disk, had, harmed>>
system == <<job, servers>>
fixed == <<shared, present, runs, held>>
vars == <<shared, disk, present, job, servers, granted, pc, run, runs, faults,
          had, harmed, held>>

-----------------------------------------------------------------------------
(***************************************************************************)
(* Files.  "cut" is what cannot be parsed, and "odd" a JSON text that is   *)
(* not an object.                                                          *)
(***************************************************************************)
Absent == [form |-> "absent"]
Emptied == [form |-> "empty"]
Cut == [form |-> "cut"]
Odd == [form |-> "odd"]
Config(port, token) == [form |-> "text", port |-> port, token |-> token]
Token(token) == [form |-> "text", token |-> token]
Plist(token, binary) == [form |-> "text", token |-> token, binary |-> binary]
ClientFile(others, entry) ==
  [form |-> "text", others |-> others, entry |-> entry]

NoEntry == [how |-> "none"]
Entry(how, port, token, command) ==
  [how |-> how, port |-> port, token |-> token, command |-> command]

Reads(path) == disk[path].form = "text"
Blank(text) == text.form \in {"absent", "empty"}
StoredToken == IF Reads("token") THEN disk["token"].token ELSE NoToken
Installed == ~Blank(disk["plist"])

\* The user's own servers are in the file, or what cannot be parsed.
Holds(text) == text = Cut \/ (text.form = "text" /\ text.others)

NoJob == [form |-> "none"]

\* What belongs into a file (write_file and its callers), and to launchd.
\* Only to a url in JSON is the token added.
WellFormed(path, text) ==
  /\ path \in Clients => \/ text.form \in {"absent", "empty", "cut", "odd"}
                         \/ /\ text = ClientFile(text.others, text.entry)
                            /\ \/ path \in Http \ Toml \/ text.entry = NoEntry
                               \/ text.entry.token = NoToken
  /\ path = "config" /\ text.form = "text" => text = Config(text.port, text.token)
  /\ path = "plist" /\ text.form = "text" => text = Plist(text.token, text.binary)
IsJob(j) == j = NoJob \/ j = Plist(j.token, j.binary)
OneByPort(processes) == \A p, q \in processes : p.port = q.port => p = q

\* Only one process can listen on a port, before the first run as after it.
ASSUME MachinesAssumption ==
  \A m \in Machines : /\ \A path \in Paths : WellFormed(path, m.disk[path])
                      /\ IsJob(m.job) /\ OneByPort(m.servers)

\* port_answers: a server that takes this token.
Answers(port, token) ==
  \E p \in servers : p.port = port /\ p.token = token
\* agent_status: the port of the configuration that the plist names, which
\* may have been cut short before the name or behind it; the token of the file.
SavedPort == IF Reads("config") THEN disk["config"].port ELSE DefaultPort
StatusPorts == IF Reads("plist") THEN {SavedPort} ELSE {SavedPort, DefaultPort}
Running(port) == Installed /\ Answers(port, StoredToken)

-----------------------------------------------------------------------------
NoWrite == [path |-> "", text |-> Absent, good |-> "", bad |-> ""]
NoRun == [ask |-> [mode |-> "none"], port |-> 0, token |-> NoToken,
          command |-> "", chosen |-> {}, next |-> 1, text |-> Absent,
          failed |-> FALSE, kept |-> {}, deceived |-> FALSE, ignored |-> {},
          back |-> "", out |-> NoWrite, code |-> 0]

Reaches(c, port, token) ==
  /\ Reads(c) /\ disk[c].entry.how \in {"http", "bridge"}
  /\ disk[c].entry.port = port
  /\ token = IF disk[c].entry.token # NoToken THEN disk[c].entry.token
             ELSE StoredToken

\* The port and the token of the service as configuration and token file
\* name it, which a run without options adopts, and the clients that agree.
Legible(text) == text.form \in {"absent", "text"}
SavedToken == IF Reads("config") /\ disk["config"].token # NoToken
              THEN disk["config"].token ELSE StoredToken
Agrees(c) == Reaches(c, SavedPort, SavedToken)
InPlist == Reads("plist") /\ disk["plist"].token = SavedToken
NoneHeld == [clients |-> {}, served |-> FALSE]
Connected ==
  IF Legible(disk["config"]) /\ SavedToken # NoToken
  THEN [clients |-> {c \in Clients : Agrees(c)}, served |-> InPlist]
  ELSE NoneHeld

Init ==
  /\ \E m \in Machines :
       /\ shared = m.shared /\ disk = m.disk /\ present = m.present
       /\ job = m.job /\ servers = m.servers
  /\ granted = FALSE
  /\ pc = "idle" /\ run = NoRun /\ runs = 0 /\ faults = 0
  /\ had = {c \in Clients : Holds(disk[c])}
  /\ harmed = {} /\ held = NoneHeld

-----------------------------------------------------------------------------
Goes(to) == pc' = to /\ UNCHANGED <<files, system, granted, fixed, faults>>
Stays == UNCHANGED run
Does(what) == run' = what

Fault == faults < MaxFaults /\ faults' = faults + 1
Exit(code) == Goes("done") /\ Does([run EXCEPT !.code = code])
Writes(path, text, good, bad) ==
  /\ Goes("open")
  /\ Does([run EXCEPT !.out = [path |-> path, text |-> text,
                               good |-> good, bad |-> bad]])

\* write_file and save_server_config: the file is opened, which empties it,
\* and then filled.  Whether a full disk is noticed depends on the buffer.
Open ==
  /\ pc = "open"
  /\ \/ /\ disk' = [disk EXCEPT ![run.out.path] = Emptied]
        /\ pc' = "fill"
     \/ pc' = run.out.bad /\ UNCHANGED disk
  /\ UNCHANGED <<run, system, granted, fixed, faults, had, harmed>>
Fill ==
  /\ pc = "fill"
  /\ disk' = [disk EXCEPT ![run.out.path] = run.out.text]
  /\ pc' = run.out.good
  /\ UNCHANGED <<run, system, granted, fixed, faults, had, harmed>>
FillFails ==
  /\ pc = "fill" /\ faults < MaxFaults
  /\ \E left \in {Emptied, Cut} :
       disk' = [disk EXCEPT ![run.out.path] = left]
  /\ \/ pc' = run.out.bad /\ UNCHANGED run
     \/ pc' = run.out.good /\ run' = [run EXCEPT !.deceived = TRUE]
  /\ harmed' = harmed \cup {run.out.path}
  /\ faults' = faults + 1
  /\ UNCHANGED <<system, granted, fixed, had>>

\* agent_token, when there is none: openssl, and the file.
Unused == {t \in Fresh : t # StoredToken /\ \A p \in servers : p.token # t}
Generates(good, bad) ==
  \E t \in Unused :
    /\ Goes("open")
    /\ Does([run EXCEPT !.token = t,
                        !.out = [path |-> "token", text |-> Token(t),
                                 good |-> good, bad |-> bad]])

-----------------------------------------------------------------------------
(***************************************************************************)
(* run_setup                                                               *)
(***************************************************************************)
FirstStep(mode) == CASE mode = "setup" -> "pick"
                     [] mode = "restart" -> "installed"
                     [] mode = "stop" -> "stop"
                     [] mode = "status" -> "status"

Begin ==
  /\ pc = "idle" /\ runs < MaxRuns
  /\ \E ask \in Asks[shared] :
       /\ run' = [NoRun EXCEPT !.ask = ask, !.command = ask.command]
       /\ pc' = FirstStep(ask.mode)
       /\ held' = IF shared /\ ask.port = 0 /\ ask.token = NoToken
                  THEN Connected ELSE NoneHeld
  /\ runs' = runs + 1
  /\ UNCHANGED <<shared, files, present, system, granted, faults>>

\* Wherever agent_status is asked it wants the token of a service that is
\* installed, and makes one where there is none.
Asking == {"status", "stop", "installed", "keep", "permit", "report"}
Provides ==
  /\ pc \in Asking
  /\ Installed /\ StoredToken = NoToken
  /\ \E t \in Unused : Writes("token", Token(t), pc, pc)

Status ==
  /\ pc = "status"
  /\ \E port \in StatusPorts : Exit(IF Running(port) THEN 0 ELSE 1)

\* pick_clients: each client is ticked or not, and Escape leaves none.  The
\* end of the input confirms what is ticked.
Selections == SUBSET Clients

\* The clients that are named, picked, or none without a terminal.
Pick ==
  /\ pc = "pick"
  /\ \/ run.ask.named # {} /\ Goes("load")
        /\ Does([run EXCEPT !.chosen = run.ask.named])
     \/ run.ask.named = {} /\ run.ask.terminal
        /\ \E picked \in Selections :
             Goes("load") /\ Does([run EXCEPT !.chosen = picked])
     \/ run.ask.named = {} /\ ~run.ask.terminal /\ Goes("load") /\ Stays

InstalledFirst ==
  /\ pc = "installed"
  /\ \/ Installed /\ Goes("load") /\ Stays
     \/ ~Installed /\ Exit(1)

\* setup_config: what is on disk, or the defaults, and the options on top.
\* Mutant of Load: the options on top of the defaults.
LoadDefaults ==
  /\ pc = "load"
  /\ Does([run EXCEPT
       !.port = IF run.ask.port # 0 THEN run.ask.port ELSE DefaultPort,
       !.token = run.ask.token])
  /\ Goes(IF shared THEN "secret" ELSE "save")

Load ==
  /\ pc = "load"
  /\ \/ /\ Legible(disk["config"])
        /\ LET saved == IF Reads("config") THEN disk["config"]
                        ELSE Config(DefaultPort, NoToken)
           IN Does([run EXCEPT
                !.port = IF run.ask.port # 0 THEN run.ask.port ELSE saved.port,
                !.token = IF run.ask.token # NoToken THEN run.ask.token
                          ELSE saved.token])
        /\ Goes(IF shared THEN "secret" ELSE "save")
     \/ ~Legible(disk["config"]) /\ Exit(1)

Secret ==
  /\ pc = "secret"
  /\ \/ run.token # NoToken /\ Goes("save") /\ Stays
     \/ /\ run.token = NoToken /\ StoredToken # NoToken
        /\ Goes("save") /\ Does([run EXCEPT !.token = StoredToken])
     \/ run.token = NoToken /\ StoredToken = NoToken
        /\ Generates("save", "untold")
\* setup gives up without a token; --restart leaves it to install_agent.
NoSecret ==
  /\ pc = "untold"
  /\ Goes(IF run.ask.mode = "restart" THEN "save" ELSE "fail")
  /\ Does([run EXCEPT !.token = NoToken])

Save ==
  /\ pc = "save"
  /\ Writes("config", Config(run.port, run.token),
            IF run.ask.mode = "restart" THEN "store" ELSE "saved", "fail")

\* Nothing selected is not now.
Saved ==
  /\ pc = "saved"
  /\ \/ run.chosen = {} /\ Exit(0)
     \/ /\ run.chosen # {}
        /\ Goes(IF shared THEN "keep" ELSE "client") /\ Stays

\* The service keeps its binary, as long as that is there.
Keep ==
  /\ pc = "keep"
  /\ Does([run EXCEPT !.command =
        IF /\ Reads("plist") /\ disk["plist"].binary \in present
           /\ ~run.ask.explicit
        THEN disk["plist"].binary ELSE @])
  /\ Goes("store")

-----------------------------------------------------------------------------
\* Mutant of Store: a token that is there is left there.
StoreOnce ==
  /\ pc = "store"
  /\ IF StoredToken = NoToken
     THEN Writes("token", Token(run.token), "plist", "fail")
     ELSE Goes("plist") /\ Stays

(***************************************************************************)
(* install_agent: the token, the plist, the old job, whoever else listens  *)
(* on the port, the new job, and its first answer.                         *)
(***************************************************************************)
Store ==
  /\ pc = "store"
  /\ \/ run.token = NoToken /\ Generates("store", "fail")
     \/ run.token # NoToken /\ StoredToken # run.token
        /\ Writes("token", Token(run.token), "plist", "fail")
     \/ run.token # NoToken /\ StoredToken = run.token
        /\ Goes("plist") /\ Stays
WritePlist ==
  /\ pc = "plist"
  /\ Writes("plist", Plist(run.token, run.command), "bootout", "fail")
\* What became of launchctl bootout, lsof, kill and remove nobody asks.
Ignored(what) ==
  /\ Fault
  /\ Does([run EXCEPT !.ignored = @ \cup {what}])
Bootout ==
  /\ pc = "bootout"
  /\ \/ /\ job' = NoJob /\ servers' = {p \in servers : ~p.own}
        /\ UNCHANGED <<run, faults>>
     \/ Ignored("bootout") /\ UNCHANGED system
  /\ pc' = "clear"
  /\ UNCHANGED <<files, granted, fixed>>
\* stop_agent_listener
Clear ==
  /\ pc = "clear"
  /\ \/ /\ servers' = {p \in servers : p.port # run.port}
        /\ UNCHANGED <<run, faults>>
     \/ Ignored("listener") /\ UNCHANGED servers
  /\ pc' = "bootstrap"
  /\ UNCHANGED <<files, job, granted, fixed>>
Bootstrap ==
  /\ pc = "bootstrap"
  /\ \/ /\ job = NoJob /\ Reads("plist")
        /\ job' = disk["plist"] /\ pc' = "poll"
     \/ pc' = "fail" /\ UNCHANGED job
  /\ UNCHANGED <<files, run, servers, granted, fixed, faults>>
\* Twenty times a quarter of a second, which may be too short.
Poll ==
  /\ pc = "poll"
  /\ \/ /\ Answers(run.port, run.token)
        /\ CASE run.ask.mode = "restart" -> Exit(0)
             [] run.back = "report" -> Goes("report") /\ Stays
             [] OTHER -> Goes("client") /\ Stays
     \/ ~Answers(run.port, run.token) /\ Goes("fail") /\ Stays
\* Of the reload after the permissions, only the report tells.
Fail ==
  /\ pc = "fail"
  /\ IF run.back = "report" THEN Goes("report") /\ Stays ELSE Exit(1)

-----------------------------------------------------------------------------
(***************************************************************************)
(* configure_client, _http and _bridge: the file is read as a whole and    *)
(* written as a whole, with our entry replaced.  TOML is not parsed: an    *)
(* entry is appended, or left alone if there is one.                       *)
(***************************************************************************)
Client == Order[run.next]
Ours(c) ==
  IF ~shared THEN Entry("command", 0, NoToken, run.ask.command)
  ELSE IF c \in Http THEN Entry("http", run.port, IF c \in Toml THEN NoToken
                                          ELSE run.token, "")
  ELSE Entry("bridge", run.port, NoToken, run.ask.command)

Edited(text, c) ==
  IF text = Cut /\ c \in Toml THEN Cut
  ELSE ClientFile(text.form = "text" /\ text.others, Ours(c))
\* Mutant of Editable: what cannot be parsed counts as nothing.
EditableAlways(text, c) == TRUE

Editable(text, c) == text.form # "cut" \/ c \in Toml
HasHeader(text, c) ==
  c \in Toml /\ text.form = "text" /\ text.entry # NoEntry

NextClient ==
  /\ pc = "client" /\ run.next <= Len(Order)
  /\ \/ /\ Client \notin run.chosen
        /\ Goes("client") /\ Does([run EXCEPT !.next = @ + 1])
     \/ /\ Client \in run.chosen
        /\ Goes("edit") /\ Does([run EXCEPT !.text = disk[Client]])
Edit ==
  /\ pc = "edit"
  /\ \/ ~Editable(run.text, Client) /\ Goes("missed") /\ Stays
     \/ /\ HasHeader(run.text, Client)
        /\ Goes("wrote")
        /\ Does([run EXCEPT !.kept = @ \cup {Client}])
     \/ /\ Editable(run.text, Client) /\ ~HasHeader(run.text, Client)
        /\ Writes(Client, Edited(run.text, Client), "wrote", "missed")
Wrote ==
  /\ pc \in {"wrote", "missed"}
  /\ Goes("client")
  /\ Does([run EXCEPT !.next = @ + 1, !.text = Absent,
                      !.failed = @ \/ pc = "missed"])
Written ==
  /\ pc = "client" /\ run.next > Len(Order)
  /\ \/ shared /\ run.ask.permissions /\ Goes("permit") /\ Stays
     \/ ~(shared /\ run.ask.permissions) /\ Exit(IF run.failed THEN 1 ELSE 0)

\* guide_permissions, and the reload after it.
Permit ==
  /\ pc = "permit"
  /\ granted' \in {granted, TRUE}
  /\ pc' = "store" /\ run' = [run EXCEPT !.back = "report"]
  /\ UNCHANGED <<files, system, fixed, faults>>
Report ==
  /\ pc = "report"
  /\ \E port \in StatusPorts :
       LET all == /\ Installed
                  /\ \E p \in servers : /\ p.port = port
                                        /\ p.token = StoredToken /\ p.grants
       IN Exit(IF all /\ ~run.failed THEN 0 ELSE 1)

-----------------------------------------------------------------------------
(***************************************************************************)
(* --stop                                                                  *)
(***************************************************************************)
\* The port at which there was something to stop is kept in the frame.
Stop ==
  /\ pc = "stop"
  /\ \E port \in StatusPorts :
       \/ ~Running(port) /\ UNCHANGED <<servers, run, faults>>
       \/ /\ Running(port)
          /\ servers' = {p \in servers : p.port # port}
          /\ Does([run EXCEPT !.port = port])
          /\ UNCHANGED faults
       \/ Running(port) /\ Ignored("listener") /\ UNCHANGED servers
  /\ pc' = IF shared THEN "unload" ELSE "fail"
  /\ UNCHANGED <<files, job, granted, fixed>>
\* Mutant of Unload: the server is ended, but launchd keeps the job.
UnloadKeepsJob ==
  /\ pc = "unload"
  /\ servers' = {p \in servers : ~p.own}
  /\ pc' = "remove"
  /\ UNCHANGED <<files, run, job, granted, fixed, faults>>

\* uninstall_agent, which reports success whatever came of its two steps.
Unload ==
  /\ pc = "unload"
  /\ \/ /\ job' = NoJob /\ servers' = {p \in servers : ~p.own}
        /\ UNCHANGED <<run, faults>>
     \/ Ignored("bootout") /\ UNCHANGED system
  /\ pc' = "remove"
  /\ UNCHANGED <<files, granted, fixed>>
Remove ==
  /\ pc = "remove"
  /\ \/ disk' = [disk EXCEPT !["plist"] = Absent] /\ UNCHANGED <<run, faults>>
     \/ Ignored("remove") /\ UNCHANGED disk
  /\ pc' = "done"
  /\ UNCHANGED <<system, granted, fixed, had, harmed>>

Return ==
  /\ pc = "done"
  /\ pc' = "idle" /\ run' = NoRun
  /\ UNCHANGED <<files, system, granted, fixed, faults>>

-----------------------------------------------------------------------------
(***************************************************************************)
(* launchd, main() of the server, and what goes wrong.                     *)
(***************************************************************************)
\* The server reads its configuration anew at each start, and takes the
\* token of its environment before the one that is saved.
Launch ==
  /\ job # NoJob /\ job.binary \in present
  /\ \A p \in servers : ~p.own
  /\ Legible(disk["config"])
  /\ \A p \in servers : p.port # SavedPort
  /\ servers' = servers \cup
       {[port |-> SavedPort, token |-> job.token, binary |-> job.binary,
         own |-> TRUE, grants |-> granted]}
  /\ UNCHANGED <<files, run, pc, job, granted, fixed, faults>>

Dies ==
  /\ Fault
  /\ \E p \in servers : servers' = servers \ {p}
  /\ UNCHANGED <<files, run, pc, job, granted, fixed>>
Killed ==
  /\ Fault /\ pc \notin {"idle", "done"}
  /\ harmed' = IF pc = "fill" THEN harmed \cup {run.out.path} ELSE harmed
  /\ pc' = "idle" /\ run' = NoRun
  /\ UNCHANGED <<disk, had, system, granted, fixed>>
LogIn ==
  /\ Fault /\ pc = "idle"
  /\ servers' = {}
  /\ job' = IF shared /\ Reads("plist") THEN disk["plist"] ELSE NoJob
  /\ UNCHANGED <<files, run, pc, granted, fixed>>

SetupSteps ==
  \/ Provides \/ Status \/ Pick \/ InstalledFirst \/ Load \/ Secret
  \/ NoSecret \/ Save \/ Saved
  \/ Keep \/ Store \/ WritePlist \/ Bootout \/ Clear \/ Bootstrap \/ Poll
  \/ Fail \/ NextClient \/ Edit \/ Wrote \/ Written \/ Permit \/ Report
  \/ Stop \/ Unload \/ Remove \/ Open \/ Fill \/ FillFails \/ Return
Next == Begin \/ SetupSteps \/ Launch \/ Dies \/ Killed \/ LogIn
Spec == Init /\ [][Next]_vars

-----------------------------------------------------------------------------
\* Every file holds what belongs into it (write_file and its callers).
TypeOK ==
  /\ \A path \in Paths : WellFormed(path, disk[path])
  /\ IsJob(job) /\ OneByPort(servers)
  /\ run.next \in 1 .. Len(Order) + 1
  /\ runs \in 0 .. MaxRuns /\ faults \in 0 .. MaxFaults

(***************************************************************************)
(* When setup says that it is done, the clients it was asked for reach the *)
(* service: their entries, the configuration and the token file agree, and *)
(* who listens on the port takes the token.  The job is loaded and agrees  *)
(* with them, and it is its server that listens, unless the old server     *)
(* could not be stopped: if it takes the same token it answers in place of *)
(* the new one, and setup calls that done.  This holds from whatever state *)
(* earlier runs, killed at any point, have left (run_setup).               *)
(* Except for a TOML file that has had an entry before, or was damaged,    *)
(* which is left as it is, and for a full disk that went unnoticed or that *)
(* the reload after the permissions met, which nobody tells the user of.   *)
(***************************************************************************)
Finished(mode) == pc = "done" /\ run.code = 0 /\ run.ask.mode = mode
Listening(port) == {p \in servers : p.port = port}
DoneMeansConnected ==
  Finished("setup") /\ shared /\ run.chosen # {} /\ ~run.deceived =>
    /\ StoredToken = run.token
    /\ disk["config"] = Config(run.port, run.token)
    /\ \A c \in run.chosen \ (run.kept \cup (Toml \cap harmed)) :
         Reaches(c, run.port, run.token)
    /\ \A p \in Listening(run.port) : p.token = run.token
    /\ "listener" \notin run.ignored =>
         /\ job # NoJob /\ job.token = run.token
         /\ "plist" \notin harmed => job = disk["plist"]
         /\ \A p \in Listening(run.port) : p.own /\ p.binary = job.binary

(***************************************************************************)
(* The servers a user has entered into a client's file stay in it, also in *)
(* one that cannot be parsed, unless a write to that very file was cut     *)
(* short (configure_client and its two variants).                          *)
(***************************************************************************)
OthersServersSurvive ==
  pc \notin {"fill"} =>
    \A c \in had \ harmed : Holds(disk[c])

(***************************************************************************)
(* Running setup again, without a port and a token, keeps every client     *)
(* whose entry agrees with the configuration and the token file, whichever *)
(* are chosen and wherever the run ends: they go on agreeing, and so does  *)
(* a plist that agreed before.  A file that is being written is excepted   *)
(* until it is whole again.  Nothing is promised to a client of a service  *)
(* that these two files do not name, although it is connected while that   *)
(* runs: when the only copy of the token was in a token file that is lost, *)
(* or a run with --auth-token was killed before it stored its token, the   *)
(* next run moves the service to another token (setup_config, agent_token) *)
(***************************************************************************)
AgainKeepsClients ==
  pc # "fill" /\ Legible(disk["config"]) =>
    /\ \A c \in held.clients \ harmed : Agrees(c)
    /\ held.served /\ Reads("plist") => InPlist

(***************************************************************************)
(* What was stopped stays stopped, although launchd restarts what is       *)
(* killed: after --stop there is no job and no server of the job's, no     *)
(* server of an older release where one answered, and no plist that would  *)
(* bring it back at the next login (uninstall_agent, stop_agent_listener). *)
(* Except for the commands whose failure --stop does not notice: it then   *)
(* says "shared service stopped and removed" of one that is not, but a     *)
(* plist whose job could not be unloaded is gone all the same.             *)
(***************************************************************************)
StopIsStop ==
  Finished("stop") =>
    /\ "bootout" \notin run.ignored =>
         /\ job = NoJob /\ \A p \in servers : ~p.own
         /\ run.port # 0 /\ "listener" \notin run.ignored =>
              Listening(run.port) = {}
    /\ "remove" \notin run.ignored => Blank(disk["plist"])
=============================================================================
