------------------------------ MODULE MCDevices ------------------------------
(***************************************************************************)
(* Two simulators of which one's name begins the other's, an emulator, a   *)
(* phone on adb that scrcpy mirrors, and a phone that only iPhone          *)
(* Mirroring shows.  The points are those fuzzy_score gives these names.   *)
(***************************************************************************)
EXTENDS Devices

Device(id, name, platform, tool) ==
  [id |-> id, name |-> name, platform |-> platform, tool |-> tool]
MCCatalog ==
  <<Device("udid-15", "iPhone 15", "ios", "simctl"),
    Device("udid-pro", "iPhone 15 Pro", "ios", "simctl"),
    Device("emulator-5554", "Pixel 8 API 34", "android", "adb"),
    Device("serial-8", "Pixel 8", "android", "adb")>>

Window(app, title, model, shows) ==
  [app |-> app, title |-> title, model |-> model, shows |-> shows,
   family |-> app = "Simulator", auxiliary |-> title = "Apple TV Remote"]
MCWindows ==
  [w \in {"w15", "wPro", "wRemote", "wEmulator", "wPhone", "wMirroring"} |->
     CASE w = "w15" -> Window("Simulator", "iPhone 15 - 18.0", "iPhone 15",
                              "udid-15")
       [] w = "wPro" -> Window("Simulator", "iPhone 15 Pro - 18.0",
                               "iPhone 15 Pro", "udid-pro")
       [] w = "wRemote" -> Window("Simulator", "Apple TV Remote",
                                  "Apple TV Remote", "remote")
       [] w = "wEmulator" -> Window("qemu-system-aarch64",
                                    "Android Emulator - Pixel_8_API_34:5554",
                                    "Android Emulator", "emulator-5554")
       [] w = "wPhone" -> Window("scrcpy", "Pixel 8", "Pixel 8", "serial-8")
       [] w = "wMirroring" -> Window("iPhone Mirroring", "iPhone Mirroring",
                                     "iPhone Mirroring", "phone")]

Begins ==
  {<<"iPhone 15", "iPhone 15 Pro">>, <<"iPhone 15", "iPhone 15 - 18.0">>,
   <<"iPhone 15", "iPhone 15 Pro - 18.0">>,
   <<"iPhone 15 Pro", "iPhone 15 Pro - 18.0">>,
   <<"Pixel 8", "Pixel 8 API 34">>,
   <<"Android Emulator", "Android Emulator - Pixel_8_API_34:5554">>}
MCScore(needle, hay) ==
  CASE needle = hay -> 100
    [] <<needle, hay>> \in Begins -> 95
    [] OTHER -> 0

Machine(installed, made, up, windows) ==
  [tools |-> installed, backends |-> made, running |-> up, order |-> windows,
   shown |-> Range(windows)]
Everything == {"input", "windows", "screen"}
MCMachines ==
  {Machine({"simctl", "idb"}, Everything, {"udid-15", "udid-pro"},
           <<"wRemote", "w15", "wPro">>),
   Machine({"simctl"}, Everything \ {"input"}, {"udid-pro"},
           <<"wMirroring", "wPro">>),
   Machine({}, Everything, {"udid-15", "udid-pro"},
           <<"wPro", "w15", "wMirroring">>),
   Machine({"adb"}, Everything, {"emulator-5554", "serial-8"},
           <<"wEmulator", "wPhone">>),
   Machine({"adb"}, {}, {"serial-8"}, <<>>)}

\* "bridge" means no more than "auto" to Android and to a mirrored phone.
Operations ==
  {"tap", "double_tap", "drag", "press", "pinch", "stroke", "type", "home",
   "screenshot", "launch", "tree", "info"}
MCRequests ==
  [op : Operations, arg : {"udid-pro", "iPhone 15"},
   transport : {"auto", "bridge", "onscreen"}]
  \cup [op : Operations, arg : {"serial-8", "emulator-5554"},
        transport : {"auto", "onscreen"}]
  \cup [op : Operations, arg : {"wMirroring"}, transport : {"auto"}]
=============================================================================
