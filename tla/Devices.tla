------------------------------- MODULE Devices -------------------------------
(***************************************************************************)
(* The device tool (src/actions/actions_device.cpp and src/devices): every *)
(* call lists what there is, opens a session with the one it names, and    *)
(* goes through the ways of doing the operation until one works: commands  *)
(* of adb, idb or simctl, and the mouse and keyboard of the host on the    *)
(* window that shows the device.                                           *)
(*                                                                         *)
(* The devices, the windows and the tools installed belong to the user,    *)
(* who changes them between any two steps of a call.  The numbers of the   *)
(* viewport are left out: a place is where a window may lie, and input     *)
(* aimed at a place reaches what is in front there when it comes.          *)
(***************************************************************************)
EXTENDS Integers, SequencesExt

CONSTANTS
  Catalog,      \* the devices that tools know, in the order tools list them
  Windows,      \* [window ids -> title, app, family, auxiliary, model, shows]
  Score(_, _),  \* fuzzy_score(needle, haystack)
  Machines,     \* where the server may start: tools, backends, order, shown
  Requests,     \* the calls: op, arg (an id or a name), transport
  MaxChanges    \* how often the user changes something

Ids == {Catalog[i].id : i \in DOMAIN Catalog}
Known == [id \in Ids |-> CHOOSE d \in Range(Catalog) : d.id = id]
Tools == {"simctl", "adb", "idb"}
NoWindow == "none"
Places == DOMAIN Windows   \* as many as there are windows
NoPlace == "none"

ASSUME ScoreAssumption ==
  \A w \in DOMAIN Windows, d \in Range(Catalog) :
    Score(d.name, Windows[w].title) \in 0 .. 100
ASSUME IdsAssumption ==
  /\ Ids \cap DOMAIN Windows = {} /\ NoWindow \notin DOMAIN Windows
  /\ \A i, j \in DOMAIN Catalog : Catalog[i].id = Catalog[j].id => i = j

VARIABLES
  \* The user's.
  tools,     \* installed
  backends,  \* of the host, that could be made: "input", "windows", "screen"
  running,   \* the devices that are booted or online
  order,     \* the windows, as the system lists them
  shown,     \* the windows that are on screen
  at,        \* the place of each window, perhaps over or under another
  changes,
  \* The server's.
  which,     \* what it found of each tool: "unknown", "yes" or "no"
  pc, request,
  session,   \* info of the device, kind, active_, use_idb_
  todo,      \* the ways still to try, each a sequence of steps
  viewport,  \* the place that locate found
  answer,
  \* What the call has really done.
  touched,   \* the input that arrived: where, by what, how many strokes of it
  doubt,     \* a command reported failure after it had done its work
  unclear    \* another window passes for the device's, or lies over it, or
             \* the user has changed something since

user == <<tools, backends, running, order, shown, at, changes>>
truth == <<touched, doubt, unclear>>
callVars == <<pc, request, session, todo, viewport, answer, truth>>
vars == <<user, which, callVars>>

NoSession == [info |-> [id |-> "none", name |-> "none", platform |-> "none",
                        booted |-> FALSE, window |-> NoWindow],
              kind |-> "none", active |-> "none", idb |-> FALSE]
NoRequest == [op |-> "none", arg |-> "none", transport |-> "none"]

-----------------------------------------------------------------------------
(***************************************************************************)
(* Discovery.                                                              *)
(***************************************************************************)
\* The devices that a tool lists.
Info(d) == [id |-> d.id, name |-> d.name, platform |-> d.platform,
            booted |-> d.id \in running, window |-> NoWindow]
ListedBy(tool) ==
  LET ds == SelectSeq(Catalog, LAMBDA d : d.tool = tool)
  IN [i \in DOMAIN ds |-> Info(ds[i])]

\* Which windows show a device, and what it is called.
Sort(w) ==
  CASE w.app = "Simulator" ->
         IF w.family /\ ~w.auxiliary THEN "simulator" ELSE "none"
    [] w.app = "iPhone Mirroring" -> "mirroring"
    [] w.app \in {"qemu-system-aarch64", "qemu-system-x86_64.exe"} -> "emulator"
    [] w.app = "scrcpy" -> "scrcpy"
    [] OTHER -> "none"
Discovered(id) ==
  LET w == Windows[id]
  IN [id |-> id, window |-> id, booted |-> TRUE,
      name |-> IF Sort(w) = "mirroring" THEN "iPhone Mirroring" ELSE w.model,
      platform |-> IF Sort(w) \in {"emulator", "scrcpy"} THEN "android"
                   ELSE "ios"]
OnScreen ==
  LET ids == SelectSeq(order, LAMBDA id : Sort(Windows[id]) # "none")
  IN IF "windows" \in backends THEN [i \in DOMAIN ids |-> Discovered(ids[i])]
     ELSE <<>>

\* Mutant of AddUnlessListed: the names the other way round.
AddUnlessListedSwapped(out, d) ==
  IF \E i \in DOMAIN out : out[i].booted /\ Score(out[i].name, d.name) >= 90
  THEN out ELSE Append(out, d)

\* One entry for a device found both ways.  The list grows as it goes.
AddUnlessListed(out, d) ==
  IF \E i \in DOMAIN out : out[i].booted /\ Score(d.name, out[i].name) >= 90
  THEN out ELSE Append(out, d)
Listed(ios, droid) == FoldLeft(AddUnlessListed, ios \o droid, OnScreen)

\* A tool that fails counts as one that lists nothing.
Lists(tool, found) ==
  IF found[tool] = "yes" THEN {ListedBy(tool), <<>>} ELSE {<<>>}

\* The id if there is one, else the first of the best names.
FirstBest(points) ==
  LET top == Max({0} \cup Range(points))
  IN Min({Len(points) + 1}
         \cup {i \in DOMAIN points : top > 0 /\ points[i] = top})
Match(list, arg) ==
  LET exact == {i \in DOMAIN list : list[i].id = arg}
      best == FirstBest([i \in DOMAIN list |-> Score(arg, list[i].name)])
  IN CASE exact # {} -> Min(exact)
       [] exact = {} /\ best \in DOMAIN list
            /\ Score(arg, list[best].name) >= 60 -> best
       [] OTHER -> 0

(***************************************************************************)
(* which() and simctl_available() remember what they found for good; a     *)
(* look that fails, or takes too long, is remembered as a tool that is not *)
(* there.                                                                  *)
(***************************************************************************)
Looked(asked) ==
  {f \in [Tools -> {"unknown", "yes", "no"}] :
     \A t \in Tools :
       IF t \in asked /\ which[t] = "unknown"
       THEN f[t] = "no" \/ (f[t] = "yes" /\ t \in tools)
       ELSE f[t] = which[t]}

-----------------------------------------------------------------------------
(***************************************************************************)
(* locate: the window of the device, as far as titles tell.                *)
(***************************************************************************)
WindowScore(info, id) ==
  LET w == Windows[id]
  IN Max({Score(info.name, w.title),
          IF info.platform = "android" THEN Score("Android Emulator", w.app)
          ELSE Score("Simulator", w.app) \div 2})
\* A window known by its id ends the search with the score so far.
Located(info) ==
  LET own == {i \in DOMAIN order : order[i] = info.window}
      scanned == IF own = {} THEN Len(order) ELSE Min(own) - 1
      first == FirstBest([i \in 1 .. scanned |->
                          WindowScore(info, order[i])])
      top == IF first > scanned THEN 0 ELSE WindowScore(info, order[first])
      best == IF own # {} THEN Min(own) ELSE first
  IN IF "windows" \notin backends \/ top < 50 \/ order[best] \notin shown
     THEN NoPlace
     ELSE at[order[best]]

\* What a device really is: its own id, or what the window shows.
DeviceOf(id) == IF id \in DOMAIN Windows THEN Windows[id].shows ELSE id
Target == IF request.arg \in Ids \cup DOMAIN Windows THEN DeviceOf(request.arg)
          ELSE DeviceOf(session.info.id)
OwnWindows(info) ==
  {w \in DOMAIN Windows : Windows[w].shows = DeviceOf(info.id)}
\* Some other window scores no less than the device's own, if that is open;
\* not for a device that is known by the id of its window.
LooksAlike(info) ==
  /\ info.window = NoWindow
  /\ \A w \in OwnWindows(info) \cap Range(order) :
       \E v \in Range(order) \ OwnWindows(info) :
         WindowScore(info, v) >= Max({1, WindowScore(info, w)})

\* The windows on screen, and those at a place, the one in front first.
InView == SelectSeq(order, LAMBDA w : w \in shown)
Over(place) == SelectSeq(InView, LAMBDA w : at[w] = place)
\* The window of the device is at that place, under another's.
Covered(info, place) ==
  \E w \in OwnWindows(info) \cap Range(Over(place)) : Head(Over(place)) # w

-----------------------------------------------------------------------------
(***************************************************************************)
(* The ways to do an operation.  "press" is a gesture of one finger that   *)
(* adb can express, "pinch" one that it cannot; "launch" stands for shell, *)
(* install, launch, terminate and open_url, "type" for a text of two lines.*)
(* "dump" is a command of adb as well, one whose failure is ignored.       *)
(***************************************************************************)
Reading == {"screenshot", "tree", "info"}
Hosted == <<<<"host">>>>
AndroidWays(op, active) ==
  CASE op = "info" -> <<<<>>>>
    [] op \in {"stroke", "pinch"} -> Hosted
    [] op \in {"home", "launch"} -> <<<<"adb">>>>
    [] op = "tree" -> <<<<"adb">>, <<"dump", "adb">>>>
    [] op \in {"tap", "double_tap", "drag", "press", "type", "screenshot"} ->
         CASE active = "onscreen" -> Hosted
           [] active # "onscreen" /\ op = "double_tap" -> <<<<"adb", "adb">>>>
           [] active # "onscreen" /\ op = "drag" -> <<<<"adb">>, <<"adb">>>>
           [] active # "onscreen" /\ op = "type" ->
                <<<<"adb", "adb", "adb">>>>
           [] OTHER -> <<<<"adb">>>>
WithTool(tool, has) == IF has THEN <<<<tool>>>> ELSE <<>>
IosWays(op, active, idb, simctl) ==
  CASE op = "info" -> <<<<>>>>
    [] op \in {"tap", "double_tap", "drag"} ->
         WithTool("idb", idb /\ active = "bridge") \o Hosted
    [] op \in {"stroke", "pinch", "press"} -> Hosted
    [] op = "type" -> WithTool("idb", idb) \o Hosted
    [] op \in {"home", "screenshot"} -> WithTool("simctl", simctl) \o Hosted
    [] op = "launch" -> WithTool("simctl", simctl)
    [] op = "tree" -> WithTool("idb", idb)
MirroredWays(op) ==
  CASE op = "info" -> <<<<>>>>
    [] op \in {"home", "launch", "tree"} -> <<>>
    [] OTHER -> Hosted
Ways(s, op, found) ==
  CASE s.kind = "android" -> AndroidWays(op, s.active)
    [] s.kind = "ios" -> IosWays(op, s.active, s.idb, found["simctl"] = "yes")
    [] s.kind = "mirrored" -> MirroredWays(op)

\* Mutant of Refreshes: force_onscreen leaves active_ as it is.
RefreshesOnscreen(s) ==
  s.active = "onscreen" \/ (s.kind = "ios" /\ ~s.idb)

\* force_onscreen before the gestures adb has no word for; an iOS session
\* with idb takes itself to be on the bridge and locates nothing.
Refreshes(s) == s.kind = "ios" => s.active = "onscreen" \/ ~s.idb

\* How many strokes of the input one step brings.
Strokes(op) == CASE op = "double_tap" -> 2 [] op = "type" -> 3 [] OTHER -> 1
Brings(by, op) ==
  IF by = "adb" \/ (by = "idb" /\ op = "double_tap") THEN 1 ELSE Strokes(op)
Touch(to, by) == [to |-> to, by |-> by, strokes |-> Brings(by, request.op)]

-----------------------------------------------------------------------------
Return(a) == pc' = "answered" /\ answer' = a
GoOn(ways) ==
  /\ todo' = ways
  /\ \/ ways = <<>> /\ Return("failed")
     \/ ways # <<>> /\ Head(ways) = <<>> /\ Return("ok")
     \/ /\ ways # <<>> /\ Head(ways) # <<>>
        /\ pc' = "run" /\ UNCHANGED answer
\* Mutant of StepDone: no return after the first way that works.
StepDoneGoesOn ==
  GoOn(IF Tail(Head(todo)) = <<>> /\ Tail(todo) # <<>> THEN Tail(todo)
       ELSE <<Tail(Head(todo))>> \o Tail(todo))
StepDone == GoOn(<<Tail(Head(todo))>> \o Tail(todo))
StepFailed == GoOn(Tail(todo))

Call(r) ==
  /\ pc = "idle"
  /\ pc' = "open" /\ request' = r
  /\ UNCHANGED <<user, which, session, todo, viewport, answer, truth>>
\* The session goes with the call.
Ended ==
  /\ pc' = "idle" /\ request' = NoRequest /\ answer' = "none"
  /\ session' = NoSession /\ todo' = <<>> /\ viewport' = NoPlace
  /\ touched' = <<>> /\ doubt' = FALSE /\ unclear' = FALSE
Reply ==
  /\ pc = "answered"
  /\ Ended
  /\ UNCHANGED <<user, which>>

\* The session that open() makes of an entry, or why it makes none.
Session(info, transport, idb) ==
  CASE info.window # NoWindow ->
         [info |-> info, kind |-> "mirrored", active |-> "onscreen",
          idb |-> FALSE]
    [] info.window = NoWindow /\ info.platform = "android" ->
         [info |-> info, kind |-> "android", idb |-> FALSE,
          active |-> IF transport = "onscreen" THEN "onscreen" ELSE "bridge"]
    [] OTHER ->
         [info |-> info, kind |-> "ios", idb |-> idb,
          active |-> IF transport = "auto" THEN "bridge" ELSE transport]
Refused(info, transport) ==
  /\ info.window = NoWindow /\ ~info.booted
  /\ info.platform = "ios" => transport # "bridge"

\* list(false), which looks for simctl and adb, and for idb if simctl lists
\* anything, and open.
Open ==
  /\ pc = "open"
  /\ \E found \in Looked({"simctl", "adb"}) :
     \E ios \in Lists("simctl", found), droid \in Lists("adb", found) :
     \E all \in (IF ios = <<>> THEN {found}
                 ELSE {f \in Looked(Tools) : \A t \in Tools \ {"idb"} :
                                               f[t] = found[t]}) :
       LET list == Listed(ios, droid)
           i == Match(list, request.arg)
       IN /\ which' = all
          /\ \/ /\ i = 0 /\ Return("not_found")
                /\ UNCHANGED <<session, todo>>
             \/ /\ i # 0 /\ Refused(list[i], request.transport)
                /\ Return("offline") /\ UNCHANGED <<session, todo>>
             \/ /\ i # 0 /\ ~Refused(list[i], request.transport)
                /\ session' = Session(list[i], request.transport,
                                      all["idb"] = "yes")
                /\ GoOn(Ways(session', request.op, all))
  /\ UNCHANGED <<user, request, viewport, truth>>

\* exec of a command of adb, idb or simctl: it works, or it fails, or times
\* out, before or after it has done its work.
Command ==
  /\ pc = "run" /\ Head(Head(todo)) # "host"
  /\ LET by == Head(Head(todo))
         works == session.info.id \in running
     IN \E acted \in {FALSE, works}, succeeds \in {FALSE, works} :
          /\ succeeds => acted
          /\ touched' = IF acted /\ request.op \notin Reading
                        THEN Append(touched, Touch(DeviceOf(session.info.id), by))
                        ELSE touched
          /\ doubt' = (doubt \/ (acted /\ ~succeeds))
          /\ IF succeeds \/ by = "dump" THEN StepDone ELSE StepFailed
  /\ UNCHANGED <<user, which, request, session, viewport, unclear>>

\* refresh, before every use of the host's input.
Aim ==
  /\ pc = "run" /\ Head(Head(todo)) = "host"
  /\ \/ /\ Refreshes(session)
        /\ LET place == Located(session.info)
           IN /\ viewport' = place
              /\ \/ place = NoPlace /\ Return("no_window")
                 \/ place # NoPlace /\ pc' = "drive" /\ UNCHANGED answer
     \/ /\ ~Refreshes(session)
        /\ pc' = "drive" /\ UNCHANGED <<viewport, answer>>
  /\ unclear' = (LooksAlike(session.info) \/ Covered(session.info, viewport'))
  /\ UNCHANGED <<user, which, request, session, todo, touched, doubt>>

\* Where input of the host arrives: the pointer's in the window that is in
\* front at the place aimed at, which nobody raises, the keyboard's in the
\* one that is in front of all.
Arrives ==
  LET under == IF request.op \in {"type", "home"} THEN InView
               ELSE Over(viewport)
  IN IF under = <<>> THEN "desktop" ELSE Windows[Head(under)].shows

Needs == IF request.op = "screenshot" THEN "screen" ELSE "input"
Drive ==
  /\ pc = "drive"
  /\ \/ /\ Needs \in backends
        /\ \E acted, succeeds \in BOOLEAN :
             /\ succeeds => acted
             /\ touched' = IF acted /\ request.op \notin Reading
                           THEN Append(touched, Touch(Arrives, "host"))
                           ELSE touched
             /\ doubt' = (doubt \/ (acted /\ ~succeeds))
             /\ IF succeeds THEN StepDone ELSE StepFailed
     \/ /\ Needs \notin backends /\ request.op # "home"
        /\ StepFailed /\ UNCHANGED <<touched, doubt>>
     \* press_button uses the input backend without asking if there is one.
     \/ /\ Needs \notin backends /\ request.op = "home"
        /\ pc' = "crashed" /\ UNCHANGED <<todo, answer, touched, doubt>>
  /\ UNCHANGED <<user, which, request, session, viewport, unclear>>

\* The client starts the server anew.
Restart ==
  /\ pc = "crashed"
  /\ Ended
  /\ which' = [t \in Tools |-> "unknown"]
  /\ UNCHANGED user

\* mode = "list" asks for every tool; "boot" and "shutdown" are simctl's.
ListDevices ==
  /\ pc = "idle"
  /\ which' \in Looked(Tools)
  /\ UNCHANGED <<user, callVars>>
BootOrShutdown(id) ==
  /\ pc = "idle"
  /\ \E found \in Looked({"simctl"}) :
       /\ which' = found
       /\ \/ UNCHANGED running
          \/ /\ found["simctl"] = "yes" /\ Known[id].tool = "simctl"
             /\ running' \in {running \cup {id}, running \ {id}}
  /\ UNCHANGED <<tools, backends, order, shown, at, changes, callVars>>

-----------------------------------------------------------------------------
(***************************************************************************)
(* The user, and the devices themselves.                                   *)
(***************************************************************************)
Changed ==
  /\ changes < MaxChanges /\ changes' = changes + 1
  /\ unclear' = (unclear \/ pc = "drive")
  /\ UNCHANGED <<backends, which, pc, request, session, todo, viewport, answer,
                 touched, doubt>>
Move(w) ==
  /\ Changed
  /\ w \in Range(order)
  /\ \E place \in Places \ {at[w]} : at' = [at EXCEPT ![w] = place]
  /\ UNCHANGED <<tools, running, order, shown>>
Raise(w) ==
  /\ Changed
  /\ "windows" \in backends
  /\ order' = <<w>> \o SelectSeq(order, LAMBDA v : v # w)
  /\ shown' = shown \cup {w}
  /\ UNCHANGED <<tools, running, at>>
Minimise(w) ==
  /\ Changed
  /\ w \in shown /\ shown' = shown \ {w}
  /\ UNCHANGED <<tools, running, order, at>>
Install(t) ==
  /\ Changed
  /\ t \notin tools
  /\ tools' = tools \cup {t}
  /\ UNCHANGED <<running, order, shown, at>>
Stop(id) ==
  /\ Changed
  /\ id \in running
  /\ running' = running \ {id}
  /\ UNCHANGED <<tools, order, shown, at>>

Init ==
  /\ \E m \in Machines :
       /\ tools = m.tools /\ backends = m.backends /\ running = m.running
       /\ order = m.order /\ shown = m.shown
  /\ at = [w \in DOMAIN Windows |-> w] /\ changes = 0
  /\ which = [t \in Tools |-> "unknown"]
  /\ pc = "idle" /\ answer = "none"
  /\ request = NoRequest
  /\ session = NoSession /\ todo = <<>> /\ viewport = NoPlace
  /\ touched = <<>> /\ doubt = FALSE /\ unclear = FALSE

Next ==
  \/ \E r \in Requests : Call(r)
  \/ Open \/ Command \/ Aim \/ Drive \/ Reply \/ Restart
  \/ ListDevices
  \/ \E id \in Ids : BootOrShutdown(id) \/ Stop(id)
  \/ \E w \in DOMAIN Windows : Move(w) \/ Raise(w) \/ Minimise(w)
  \/ \E t \in Tools : Install(t)

Spec == Init /\ [][Next]_vars

-----------------------------------------------------------------------------
TypeOK ==
  /\ tools \subseteq Tools /\ backends \subseteq {"input", "windows", "screen"}
  /\ running \subseteq Ids /\ shown \subseteq DOMAIN Windows
  /\ order \in Seq(DOMAIN Windows) /\ at \in [DOMAIN Windows -> Places]
  /\ changes \in 0 .. MaxChanges
  /\ which \in [Tools -> {"unknown", "yes", "no"}]
  /\ pc \in {"idle", "open", "run", "drive", "answered", "crashed"}
  /\ request \in Requests \cup {NoRequest}
  /\ todo \in Seq(Seq({"adb", "dump", "idb", "simctl", "host"}))
  /\ viewport \in Places \cup {NoPlace}
  /\ answer \in {"none", "ok", "failed", "not_found", "offline", "no_window"}
  /\ \A i \in DOMAIN touched : touched[i].by \in {"adb", "idb", "simctl", "host"}
  /\ {doubt, unclear} \subseteq BOOLEAN

(***************************************************************************)
(* What a client of the tool relies on.                                    *)
(***************************************************************************)
\* What a call puts in reaches the device the call names, by whichever way
\* and wherever its window has gone since the last call: actions_device.cpp
\* opens a session for each call and each use of the host locates the window
\* anew.  Not so for host input of an iOS session with idb, which is never
\* located, for what the host types, which goes to the window in front, and
\* where another window passes for the device's, or covers it (the code never
\* raises a window: "visible and unoccluded" is for the user to see to,
\* docs/devices.md:31), or the user changed something meanwhile.
InputReachesItsDevice ==
  pc = "answered" =>
    \A i \in DOMAIN touched :
      \/ touched[i].to = Target
      \/ /\ touched[i].by = "host"
         /\ \/ unclear
            \/ session.kind = "ios" /\ session.idb /\ session.active = "bridge"
            \/ request.op \in {"type", "home"}

\* A call that is answered with ok has brought its input once, with nothing
\* left over from a way that was tried before, and one that is answered with
\* an error has not brought all of it; unless a command failed after it had
\* done its work, and but for a double tap by idb, which is a single one
\* (device_ios.cpp, device_android.cpp).
StrokesAreCounted ==
  LET total == FoldLeft(LAMBDA n, t : n + t.strokes, 0, touched)
      asked == Strokes(request.op)
  IN pc = "answered" /\ request.op \notin Reading /\ ~doubt =>
       \/ answer = "ok" /\ total = asked
       \/ answer # "ok" /\ total < asked
       \/ answer = "ok" /\ request.op = "double_tap" /\ touched[1].by = "idb"

\* "A simulator found both ways appears once" (device_manager.cpp:558),
\* whichever tools fail: a booted simulator with a window is one entry of the
\* list; it is missing only when simctl is and the list has a device whose
\* name begins like its own.
ListedOnce ==
  pc = "open" =>
    \A ios \in {ListedBy("simctl"), <<>>}, droid \in {ListedBy("adb"), <<>>} :
      LET list == Listed(ios, droid)
          entries(d) == {i \in DOMAIN list : DeviceOf(list[i].id) = d}
      IN \A w \in Range(OnScreen) :
           Sort(Windows[w.id]) = "simulator" /\ DeviceOf(w.id) \in running =>
             \/ Cardinality(entries(DeviceOf(w.id))) = 1
             \/ /\ ios = <<>> /\ entries(DeviceOf(w.id)) = {}
                /\ \E i \in DOMAIN list : Score(w.name, list[i].name) >= 90

\* Onscreen "works for anything visible, including iPhone Mirroring and
\* scrcpy" (docs/devices.md:7): a call does not fail for want of a window
\* while a window of the device is on screen.
VisibleDeviceIsFound ==
  [][pc = "run" /\ answer' = "no_window" =>
       OwnWindows(session.info) \cap Range(order) \cap shown = {}]_vars
=============================================================================
