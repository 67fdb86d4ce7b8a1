# A TLA+ model of computer-control

`computer-control` lets an MCP client drive a desktop: it moves the pointer,
presses keys and buttons, makes touch gestures, reads the screen and runs
commands. This directory holds a TLA+ model of the parts of it that keep state
across calls or across processes, TLC configurations that check them on small
instances, and proofs that TLAPS checks.

Four themes run through the model. The first is the promise the README of the
program makes under "Safety": *every held button, key and touch contact is
released on shutdown, including on the error path*. Who presses something, which
ledger knows of it, what happens when an event is refused half-way, and what is
left when a process dies, is hard to get right and hard to test. The second is
that a call hits what its client saw: a pixel of an image, a label of a tree,
on displays that come and go and scale differently. The third is `setup`, which
rewrites files of others and replaces a running service, and may be killed
between any two of its steps. The fourth is the device tool, which tries one way
after another to reach a phone, the last of them blindly through a window.

## The system

| Component | Where | State | Operations | What makes it correct |
|---|---|---|---|---|
| Input backend × 3 | `src/platform/*/input_*.cpp`, `include/cc/input.hpp` | `held_keys_`, `held_buttons_`, `contacts_down_`, `held_modifiers_` (macOS), the keymap it edits (X11) | click, button down/up, scroll, drag and stroke, key down/up, chords, text, gestures, `release_all` | nothing stays down that the client did not ask for; every ledger entry is true; modifiers are down when they should be |
| Server | `src/mcp/server.cpp`, `protocol.cpp` | `legacy_session_`, the lazily created `session_` | `handle_message`, `classify_request`, `handle_tools_call` | one reply per request, none per notification, true replies |
| stdio transport | `src/mcp/transport.cpp` | the pipes | `read`, `write`, the loop of `Server::run` | order, end of input releases everything |
| HTTP transport | `src/mcp/transport.cpp` | `client_`, `replied_`, the backlog of the listener | `read`, `parse`, `respond` | one response per connection, one connection at a time |
| Bridge | `src/mcp/bridge.cpp` | its `legacy_session`, one message | one HTTP request per line of stdin | a line for every request, never a second run of a call |
| Session | `src/core/session.cpp` | the backends, created on first use | getters, `resolve`, `release_all` | an error is retried, not cached; coordinates land on a display |
| Display graph | `src/core/display.cpp`, `src/platform/*/display_*.cpp` | displays, the transform of the last capture | `refresh`, `convert`, `containing` | a point that was seen in an image is carried to where it was |
| Screen backends × 3 | `src/platform/*/screen_*` | none of their own; they publish the transform | `capture` of all, a display, a window, a region | the transform is that of the image handed over |
| Dispatcher | `src/actions/actions.cpp` | the label cache | `run`, `run_batch`, `resolve_target`, `wait_for`, `find`, `snapshot` | a label means the element the client saw; waits and searches end and overlook nothing |
| Child processes | `src/devices/device_manager.cpp`, `src/platform/{windows,macos}/system_*` | pipes, deadline, the cache of `which` | `exec` (POSIX, Windows), `run_shell` | all output, a true exit code, bounded time, nothing left running |
| Setup and configuration | `src/mcp/setup.cpp`, `config.cpp` | client files, plist, token and configuration files | `run_setup`, `install_agent`, `configure_client*`, `save_server_config` | the user's files survive; clients and service agree on address and token |
| Device tool | `src/actions/actions_device.cpp`, `src/devices` | the caches of `which` and `simctl_available`; a session per call | list, open, tap … tree, boot, shutdown | input reaches the device named, once, by whichever way |
| Windows, accessibility, codecs | `src/platform`, `src/core` | next to none | queries and conversions | unit tests |

They interact like this. An MCP client either starts its own server and talks to
it over two pipes, or starts a bridge that forwards each line as one HTTP
request to a shared server, which on macOS launchd keeps alive and which setup
kills and restarts. The server is single-threaded: one message, one tool call,
one call of a backend at a time. A backend sends events to the desktop one by
one; any of them may fail and the user may act between two of them. All clients
of a shared server share one session and so one ledger.

Behaviours that are hard: events that fail in the middle of a call; the user
changing the keymap between the press and the release of a key; left and right
keys that share a flag; a client that hangs up during its call; a server killed
during a call; answers cut off; stalled peers on a server that serves one at a
time; stale labels, stale image transforms and stale tokens; monitors of
different scales, and monitors unplugged between a capture and a click; content
that scrolls while it is searched; children that fill a pipe or outlive it;
files rewritten in place; a supervisor that restarts what setup kills; commands
that fail after they have done their work, and windows that look like another's. `PROJECT.json` lists these
hazards at their lines, with the properties that cover them.

## Modules

| Module | Models | Composed of |
|---|---|---|
| `InputBackend` | what the three input backends share: desktop, ledgers, the frame of the call in progress, the contacts of a gesture | |
| `LinuxInput` | XTest and uinput: keymap lookups at each event, the borrowed keycode of `type_text`, touch frames that fail part-way | extends `InputBackend` |
| `WindowsInput` | `SendInput` and `InjectTouchInput`: any event may be refused, modifier guards that bypass the ledger | extends `InputBackend` |
| `MacInput` | CGEvents: flags instead of modifier keys, events that cannot be created, phased scrolls | extends `InputBackend` |
| `LinuxInputProofs` | theorems about `LinuxInput` | extends `LinuxInput` |
| `WindowsInputProofs` | theorems about `WindowsInput` | extends `WindowsInput` |
| `MacInputProofs` | theorems about `MacInput` | extends `MacInput` |
| `Server` | `handle_message` down to `actions::run` | |
| `StdioServer` | one client, two pipes, the loop of `run()` | extends `Server` |
| `StdioProofs` | theorems about `StdioServer` | extends `StdioServer` |
| `SharedService` | bridges, HTTP connections, the shared server, its death and restart | extends `Server`, instantiates `RequestReply` |
| `SharedServiceProofs` | theorems about `SharedService` | extends `SharedService` |
| `RequestReply` | the abstract specification: what clients of a shared server are promised | |
| `ChildProcess` | one run of another program: `exec` on POSIX and on Windows, `run_shell` on Windows and on macOS (on Linux it is `exec`) | |
| `ChildProcessProofs` | theorems about `ChildProcess` | extends `ChildProcess` |
| `Displays` | the display graph: enumeration on the three systems, order, spaces and conversions, as operators on integers | |
| `Targets` | what a call can point at: captures and their transform, trees and their labels, `resolve_target` | extends `Displays` |
| `Dispatcher` | `run`, `run_batch`, the tools that take a target, `wait_for`, `find`; the user who plugs and scrolls | extends `Targets` |
| `DispatcherProofs` | theorems about `Dispatcher` | extends `Dispatcher` |
| `Setup` | `run_setup`, the files it writes, the agent, launchd, kills and full disks | |
| `SetupProofs` | theorems about `Setup` | extends `Setup` |
| `Devices` | the device tool: discovery, sessions and their ways, `locate`, the host's input on a window; the user who moves windows and stops devices | |
| `MC*` | constants for TLC | |

How state and actions correspond to the code is in the `map` of `PROJECT.json`,
definition by definition. Some conventions:

- **A call is a frame.** `call` is the activation record of the backend function
  in progress: the point reached (`pc`), its modifiers and what its
  `ModifierGuard` has pressed, the chord and the position in it, the rounds
  left. One action is one event sent, because between two events anything may
  happen to the desktop. Calls that act by one event (`key_down`, `key_up`) are
  one action.
- **The desktop is what was pressed and not released**: keycodes on X11 (that is
  what a keymap change separates from keys), keys elsewhere, buttons, slots of
  the touchscreen. `asked` is the only history variable of these modules: what
  the client has asked to be held and has not let go of.
- **`faults` is chosen at the start** and says which kinds of event may fail in
  a behaviour, each time or never. A set therefore contains the behaviours of
  its subsets, and a property can say which failures it tolerates:
  `Delivered({"release"})` is "no release is ever refused".
- **In the input backends coordinates, motion and time are left out.** A path is
  a step that succeeds or fails; a sleep is the gap between two steps. What a
  coordinate means is the business of `Displays` and `Targets`.
- **A message is a shape**: what form it has, whether it has an id, what version
  its metadata declares and what its tool does. JSON itself is left out, but for
  text that is not JSON.
- **Operators called `...Unchecked`, `...Forgets` and the like** with a comment
  "Mutant of" are deliberate mistakes. The specifications do not use them: they
  are the mutations under which each property has been seen to fail.

`InputBackend`'s `Start` and what builds its argument (`Pointing`, `Chording`,
`Touching`, `Typing`) are the calls as the dispatcher passes them on;
`Layout` is `motion::finger_layout`, in which a pinch has two contacts whatever
`fingers` says: the backends record `fingers`, and lift the contacts.

In `SharedService` a connection is a record of what each end can know of it.
`Die` is every way the process dies at once, from whatever point it has reached,
with the last response perhaps cut off; it is also what `stop_agent_listener`
does to it. A bridge connects, sends, waits; it never sends a message twice.

In `ChildProcess` the program that is run is a sequence of steps from a set of
sequences: write a bufferful to either pipe, read one, close its ends, leave a
process in the background that inherits them, hang. `caller` is fixed at the
start and says which of the four functions runs it. What a pipe carries is
counted, since a pipe delivers in order; `holders` is who has its far end open,
so that its reader sees the end only when the last of them is gone. The
timeout can only be found where the code looks at the clock. `run_shell` is
modelled with its error output captured, which its callers ask for.

`Displays` computes with integers where the code has doubles: the sizes and
scales of a desktop divide (`DesktopsAssumption`), what the properties say is
said of the points for which every quotient is whole, and the one place where the
code rounds, the size of a downscaled image, is modelled with its rounding
(`Rounded`). `Enumerated` is what each system reports: pixels on Linux, divided
by one factor; pixels on Windows, each monitor divided by its own; points on
macOS, whose pixels the code lays out anew from left to right (`MacDisplays`) by
a cursor that runs along the row (`Cursors`). `SortedBy` is `std::sort`; where the
code's order leaves two in either order, the model takes them by their ids.

In `Targets` the desktop, the window's content and where it is scrolled to
belong to the user; `displays`, `image` and `cache` to the program. `frame` and
`named` are history variables: where the pixels of the last capture really were
(a place in the units of the system, how many pixels beyond it the frame begins,
how many pixels make a unit), and which item each label was given to. `Dispatcher`
runs a plan, the steps of a call, through the handlers; a handler that loops or
that reads twice is several steps, so that the user may act in between. Its
`lost` says that a capture was made whose image no reply carried as it was taken,
`poll.held` for how long what is waited for has been there. A device tool's
screenshot is a step too (`DeviceShot`), since it may be a capture of a region of
the host: the graph takes the region's transform, and is not told when the image
is made smaller afterwards (`Resized`); the image a device sends over the bridge
leaves the graph alone, and drops that of an earlier step of the batch. A scroll
of `find` is eight clicks at the pointer and takes the content any distance, none
included (`Scrolled`); `search.leapt` notes that one went further than what was in
view.

In `Setup` a file is absent, empty, cut (it cannot be parsed), odd (JSON, but
not an object) or a text, of which only what setup reads and writes is kept: for
a client whether servers of the user's are in it, and our entry. `Open` empties
a file and `Fill` fills it; `FillFails` leaves it empty or cut, and whether that
is noticed depends on the buffer, since `write_file` looks at the stream before
it is closed. Nobody asks what became of `launchctl bootout`, of the `lsof` and
`kill` behind `stop_agent_listener` and of the removal of the plist: each may fail
and the run goes on (`Ignored`, which notes in `run.ignored` what was left
undone). `held` is the history variable for running setup again: the clients whose
entry agrees with the configuration and the token file when a run begins, and
whether the plist does. `Killed` ends setup anywhere; `Launch` is launchd, which starts
the server of a loaded job whenever none runs; `LogIn` is a new session. The
machines of `MCSetup` are those setup finds: nothing installed, a service, a
service whose token file is gone, one of an older release, another system. In
`SharedService` setup is seen from the other side, as the death and restart of
the server.

In `Devices` an operation is a sequence of *ways*, each a sequence of steps:
`<<<<"idb">>, <<"host">>>>` is idb first and the mouse of the host if that
fails, `<<<<"adb", "adb", "adb">>>>` three commands of which each has to work;
"dump" is a command of adb whose failure is ignored, as before the file of an
element tree is read.
`Ways` builds it from the operation and the session, `StepDone` and
`StepFailed` are the `return ok()` and the falling through of the code. Before a
step of the host `Aim` is `refresh`, which looks for the window by title
(`Located`); the input arrives at whatever is at that place when it comes
(`Arrives`). Windows at one place lie over one another (`Over`), and the one in
front gets the pointer's input: the code clicks pixels and raises no window. The
user moves windows, also over others, raises and hides them, installs tools and
stops devices between any two steps. `Score` is a constant, `fuzzy_score`: the instance gives the
points that function gives its names. `touched`, `doubt` and `unclear` are
history variables: what has really arrived where, whether a command failed after
it had done its work, and whether the device's window could not be told from
another by its title, or lay under one. A crash
by the null input backend is a step (`Drive`), and the client starts the server
anew.

## What the runs show

| Run | Bounds | Shows |
|---|---|---|
| `linux_input` | 1 modifier, a letter, Return; 2 keymaps, one without Return; 2 repeats, 2 frames; 1 and 3 fingers | see below |
| `windows_input` | the same and a key without a virtual key; 4 fault sets | |
| `mac_input` | both Shift keys, a letter, Return, a key without a code; 2 buttons; 3 fault sets | |
| `stdio_server` | 3 messages of 13 shapes | |
| `shared_service` | 2 clients (2 and 1 messages), one stranger, one client with a stale token, 2 shapes | |
| `shared_answers` | 2 clients with 1 message each of 3 shapes, one stranger | liveness |
| `child_process` | all programs of at most 3 steps, each with 0, 1 and 3 bufferfuls of input; pipes of capacity 2 | see below |
| `dispatcher` | 3 systems with 2 or 3 desktops each of at most 2 monitors, with equal and with mixed scales, with a gap and with negative coordinates; content of 5 items of which 2 show; 2 calls from 10 to 17 plans; 1 change by the user; labels that live 3 ticks | see below |
| `setup` | 5 machines, 3 clients (url, bridge, TOML), 9 command lines; 2 runs, 2 faults | see below |
| `devices` | 5 machines with different tools, backends and windows; 4 devices, of which two pairs have names that begin alike, 6 windows; 12 operations; 1 change by the user | see below |

The bounds are small because nothing in the code counts further: a chord of two
keys has a first, a last and a "one is down, the next fails"; two rounds have a
"not the last" and a "last"; two keymaps are enough to move a key and to lose
one; 1 and 3 fingers are fewer and more than the two contacts of a pinch; three
messages let one come before and one after the interesting one, in every state
of the server they can produce. A capacity of 2 with programs of 3 steps and an
input of 3 makes every pipe overflow, and lets a program end with more than one
read's worth in its pipe. Two calls, of which one may be a batch of three steps,
let a capture or a tree be replaced before it is used, and one change falls
between any two of their steps; two monitors are enough for an order, a gap and
a mixture of scales; five items of which two show take two scrolls to the end, and let a scroll leap
over one.
Two runs of setup are one that leaves something behind and one that finds it,
and two faults let the first be killed and the second meet a full disk. A call of the device tool
looks at the world twice, when it lists and when it locates: one change falls
before, between and after.

For the input backends:

- `ShutdownLeavesNothingDown`: after the last `release_all` nothing is down.
  Each backend has this under the conditions its code needs, stated in the
  property: on Linux no keymap change while something is held, and no touch
  frame that fails; on Windows and macOS releases that get through.
- `OnlyAskedForStaysDown`: between calls only what the client asked for is down,
  on every path out of every call, presses failing anywhere.
- `ModifiersSpanThePress` (Linux), `ModifiersAroundEachEvent` (Windows): when a
  button event is sent the modifiers of the call are down.
- `ChordKeysAreInTheLedger` (Windows): a key that is down is in the ledger,
  whatever was refused. `NoPhantomModifier` (macOS): a held flag has a held key.
- `LetsGoOnlyOfWhatItNames`: a call releases nothing but what its arguments
  name, so that what a client holds survives other calls.
- `SpareIsHandedBack` (Linux): the keycode `type_text` borrows is given back,
  unless Return is not on the keymap; that early return is a defect of the code
  the property states as its only exception. `PhasedScrollIsClosed` (macOS).
- `CallsReturn`: every call comes back.

For the server: `EndReleasesEverything`, `RepliesAreTrue` (a
result means the call ran exactly once, an error of the protocol that it did not
run, a result with `isError` that it did not run or failed in its one run: a tool
that throws is caught by `actions::run` and answered with one),
`RequestsAreAnswered` and `ServerEnds` over pipes; for the shared service
`OneResponsePerConnection`, `RunAtMostOnce`, `KeepsThePromise` (it implements
`RequestReply`), `OnlyDeathOrphans` (only the death of the process leaves
something down that no `release_all` knows of) and `RequestsAreAnswered`.

For child processes: `ResultIsComplete` (what comes back without a timeout is
all that was written, the data behind a hang-up included; the code's exceptions
are a failed `poll` and a macOS reader given up on after two seconds),
`ReportsAreTrue` (exit code 0 only of a program that exited with it, and no call
returns leaving its program running), `DeadlineEndsTheCall` (a call that finds its timeout run
out returns, also where SIGTERM is ignored) and `OutputNeverDeadlocks` (a
program that ends by itself ends the call however it divides its output). The
last two state their exceptions, and each of these is a hang the code has: more
input than the pipe holds, more error output than the pipe holds in `exec` on
Windows, background processes on the pipes of `run_shell` on Windows.

For targets, waits and searches:

- `ImagePointsLandWhereTheyWereSeen`: a point of the last image, passed back in
  image space, arrives where that pixel was seen, on every system: the frame's
  source, the crop, the downscale and the factor of the display are all undone.
  It speaks of every pixel of the image for which no quotient has a remainder.
  The truth it is compared with, `frame`, is in the units of the system and not
  computed by the program's conversions. Four exceptions are stated in it: a
  desktop that has changed since; displays that claim the same logical points,
  which Windows with mixed scales can produce; the capture of a window on
  Linux and macOS, whose source is not where the window is; and an image that is
  not as wide for its height as what it shows, as a narrow one that was shrunk.
- `LabelsNameTheLastTree`: a label that is accepted is one of the last tree, and
  hits the item it named as long as the content has not moved.
- `ImageSpaceIsTheHandedImage`: between calls image space is that of the last
  image of the host's screen a reply carried, also after a batch of several
  captures or one that failed. Except after a capture whose image nobody got as it
  was taken: a format that cannot be encoded, a batch that ends in a step without
  an action, or a device's screenshot by way of the host that was made smaller
  (`src/actions/actions_device.cpp:288`). An image a device sends over the bridge
  has no part in image space, which goes on to mean the image before.
- `NothingIsOverlookedForLong`: while `wait_for` runs, what it waits for has not
  been there for longer than a nap and two polls.
- `TheEndIsTheEnd`: when `find` reports the bottom it has looked at every item
  from where it began. For applications that keep up with the scrolling
  (`SettlesInTime`); for others TLC shows the page it has missed. And for searches
  none of whose scrolls went further than what was in view: the eight clicks are
  fixed (`src/actions/actions.cpp:1951-1956`), whatever the size of the region
  under the pointer, and without this exception TLC shows the item leapt over. A
  scroll that moves nothing, because the pointer is elsewhere, is a case of the
  model: `find` then says that it makes no progress, which is not the end. There is
  one scrollable region, the largest, which is the one whose position `find` reads.
- `CallsReturn`: waits and searches end.

For setup:

- `DoneMeansConnected`: when setup ends with 0 the chosen clients reach the
  service: their entries, the configuration and the token file agree, and who
  listens on the port takes the token, whatever an earlier run, killed anywhere,
  has left. The plist and the loaded job agree with them and it is the job's
  server that listens, unless `stop_agent_listener` did nothing
  (`src/mcp/setup.cpp:579`): an old server with the same token then answers the
  poll in place of the new one. Excepted are TOML files that had an entry or were
  damaged, and a full disk nobody was told of.
- `OthersServersSurvive`: what the user has in a client's file stays there
  unless a write to that very file was cut short.
- `AgainKeepsClients`: running setup again without a port and a token keeps the
  clients whose entry agrees with the configuration and the token file in
  agreement with them, and the plist too, wherever the run ends. It promises
  nothing to clients of a service that these two files do not name: with the token
  file lost and no token in the configuration, or after a first run with
  `--auth-token` that was killed before it stored its token, the next run moves
  the service to another token, and who was connected with the old one no longer is.
- `StopIsStop`: after `--stop` nothing is left that launchd would start: no job, no
  server of the job's, no old server where one answered, no plist; but for what
  a command has left behind whose failure `--stop` ignores.

For devices:

- `InputReachesItsDevice`: what a call puts in reaches the device it names, by
  whichever way, wherever its window has gone since the call before. Four
  exceptions, each a thing the code does: titles that cannot be told apart, or a
  window that moves after it was located; a window that lies under another's,
  which `docs/devices.md:31` leaves to the user ("visible and unoccluded"); typing and the home key, which go to
  the window in front; and host input of an iOS session with idb, which takes
  itself to be on the bridge and never locates (`device_ios.cpp:140`), so that
  after a failed `idb` the raw device point is clicked on the desktop.
- `StrokesAreCounted`: a call answered with ok has brought its input once and
  one answered with an error not all of it, whichever ways failed before.
  Excepted are commands that fail after they have done their work, and a double
  tap by idb, which is a single one.
- `ListedOnce`: a booted simulator with a window is one entry of the list, also
  when simctl or adb fails to list.

`TypeOK` is defined in every module with variables; it and `RepliesInOrder` are
proved where there are proofs and no part of the runs.

### Disagreements between the code and what it says of itself

Two runs end in a counterexample on purpose; `PROJECT.json` quotes the lines.

- `stdio_notifications`: a known method without an id gets a reply, with a null
  id.
- `devices_visible`: a device known only by its window, as through iPhone
  Mirroring, is not found: `locate` stops at the window whose id it knows with
  the score it has so far.

Others are exceptions in the properties, or have come up on the way:

- A client that closes both pipes during its call has the server killed by
  SIGPIPE at the write of the reply, before `release_all`, although
  `src/mcp/server.cpp:472` says "never leave the desktop with a held button
  because the client hung up". `EndReleasesEverything` speaks of loops that end.
- `setup --restart` installs the service with the binary it was run from,
  although "an installed service keeps the binary it was installed with unless
  told otherwise" (`src/mcp/setup.cpp:1392`).
- `press_button("home")` of an iOS session uses the input backend without asking
  whether there is one (`src/devices/device_ios.cpp:223`).
- A tool that was not found once, or not in time, is not looked for again
  (`src/devices/device_manager.cpp:326`).
- On Windows the button of a click is in no ledger: refuse its release and it
  stays down past shutdown (`README.md:145`).
- On Windows the modifiers of a stroke, "held for the duration of the action"
  (`src/actions/actions.cpp:516`), are held around each button event.
- A program that is gone before `exec` writes its input kills the server by
  SIGPIPE; the comment at `src/devices/device_manager.cpp:272` says the signal
  is dealt with by the return value.
- Labels do not survive scrolling, though `src/mcp/tools.cpp:48` says so: a
  label is resolved to the bounds of its tree.
- `docs/coordinate-spaces.md:36-38` promises that image coordinates convert back
  exactly for each frame; for the capture of a window this holds on Windows.
- The sides of a shrunk image are rounded each by itself, to no less than a
  pixel, but one scale is recorded for both (`src/core/image.cpp:476`): in a frame
  of 16 by 1 shrunk to 8 by 1 a height is halved that was not.
- `setup` leaves a TOML entry that exists as it is, though `src/mcp/main.cpp:265`
  says it rewrites its own entry.
- "pixels of the most recent capture the caller was handed"
  (`include/cc/types.hpp:28`) is not so of what the device tool hands over: an
  image that came over the bridge leaves image space at the one before, and one of
  the host's screen that was made smaller (`src/actions/actions_device.cpp:288`)
  leaves it at the full size.
- `setup --stop` says "shared service stopped and removed"
  (`src/mcp/setup.cpp:1183`) also when unloading the job or removing the plist
  has failed.
- Without a terminal setup says "nothing was changed" (`src/mcp/setup.cpp:1283`)
  and then saves the configuration and, on macOS, makes a token. The end of the
  input in its picker confirms what is ticked.

## Fairness

The input modules assume weak fairness of the steps of a call in progress: the
thread that serves the call runs. `StdioServer` assumes it of the loop and of
nothing the client does. `SharedService` assumes it of each bridge, of the
server and of launchd's restart, and of one thing the code does not provide:
that a stranger with a half-sent request leaves at some time. The server has no
timeout on a connection, so without this conjunct one such peer blocks every
client for ever. `ChildProcess` assumes it of the program, the readers and the
caller, which are processes and threads; not of the timeout, of a failing
`poll` or of the end of a background process. Its runs do not check for
deadlock, because a call that has returned stops, and so does one that hangs as
described above. `Dispatcher` assumes weak fairness of the program's own steps
and of the clock, in one conjunct: the one thread runs, time goes by, and an
application that was told to scroll scrolls. `Setup` assumes nothing.

## What is proved

`LinuxInputProofs` proves for `LinuxInput`, for all keys, keymaps, chords,
texts, bounds and fault sets that satisfy the named assumptions:

- `TypeCorrect`: `Spec => []TypeOK`;
- `ReleasedOnShutdown`: `Spec => []ShutdownLeavesNothingDown`;
- `NothingElseStaysDown`: `Spec => []OnlyAskedForStaysDown`;
- `ModifiersAreHeldThroughout`: `Spec => []ModifiersSpanThePress`;
- `OthersAreLeftAlone`: `Spec => LetsGoOnlyOfWhatItNames`;
- `SpareComesBack`: `Spec => SpareIsHandedBack`.

Neither of the two accounts of what is down is inductive: in the middle of a call much is down that
nobody asked to be held. The invariant `Inv` (theorem `InvHolds`) accounts for
every key, button and contact that is down by one of three claims: the ledger
has it *and* the client asked for it; the guard of the call has it; or the point
the call has reached says so (`"release"`: the button; `"key_up"`: the current
key; in `hold_chord` the keys before the position). The proof has a lemma per
group of actions, each showing that an event moves its key, button or slot from
one claim to another or lets go of it. When the call is over only the first
claim is left, which gives `OnlyAskedForStaysDown`, and `release_all` empties
that.

The other three have small invariants of their own. `GuardInv`: the guard has
nothing but what the call names, and around an event of a button a modifier is
still to be pressed or is down; the first half also gives
`LetsGoOnlyOfWhatItNames`. `TypingInv`: behind every character that is
to be typed with the spare keycode, and behind the keycode being bound, the rest
of the text has its restoration, whatever returns come between.

`WindowsInputProofs` proves for `WindowsInput`, for all keys, chords, bounds and
sets of refused events:

- `TypeCorrect`: `Spec => []TypeOK`;
- `ReleasedOnShutdown`: `Spec => []ShutdownLeavesNothingDown`;
- `NothingElseStaysDown`: `Spec => []OnlyAskedForStaysDown`;
- `LedgerKnowsChordKeys`: `Spec => []ChordKeysAreInTheLedger`;
- `EventsCarryTheirModifiers`: `Spec => []ModifiersAroundEachEvent`.

The account has more debtors than on Linux, because a `ModifierGuard` presses
past the ledger and every event may be refused: modifiers are owed by the guard
alone, the button of a click by the point the call has reached. So each part of
`Inv` (theorem `InvHolds`) is kept under the releases it relies on, and under
nothing about presses: that the ledger and the guard know of every key (the first
part of `KeysInv`) needs the releases of calls, those of `release_all` and the batch
of `type_text`; that the ledger has only what is asked for or being pressed (the
second) needs the releases of calls alone. `PointsInv`, proved along with the types, says which calls
can wait for a guard to let go and that a chord waits only for the release of a
key it has sent. `GuardInv` has the modifiers of a button's event down or still
to come.

`MacInputProofs` proves for `MacInput`, for all keys, chords, bounds and events
that cannot be created:

- `TypeCorrect`: `Spec => []TypeOK`;
- `ReleasedOnShutdown`: `Spec => []ShutdownLeavesNothingDown`;
- `NothingElseStaysDown`: `Spec => []OnlyAskedForStaysDown`;
- `FlagsHaveKeys`: `Spec => []NoPhantomModifier`;
- `ScrollsAreClosed`: `Spec => []PhasedScrollIsClosed`.

Here the ledger is simple and the account is not: what chords and clicks press is
in no ledger, so that only the point the call has reached owes its release
(`Pressing`, `InHand`). A hold that cannot press its next key returns with the
others down, which is why the keys' account relies on presses too, as the property
does. `ScrollInv`: a scroll that has begun is in the hands of the call that ends
it, and its changes do not run out before.

`StdioProofs` proves for `StdioServer`, for any shapes and any number of
messages, whenever the client closes its pipe or hangs up:

- `StdioTypeCorrect`: `Spec => []TypeOK`;
- `NothingIsLeftHeld`: `Spec => []EndReleasesEverything`;
- `RepliesKeepTheOrder`: `Spec => []RepliesInOrder`;
- `NoReplyLies`: `Spec => []RepliesAreTrue`.

`Accounted` says that the ledger of the one session has all that is down, and
that there is a session when it has something. `Queued` counts: the messages read
are the first of those sent, and the last of them is in hand until its reply is
written; with it `Ordered` keeps every reply behind those of earlier messages.
`Truthful` adds what a reply that is not written yet says, and that no message
which is not handled yet has been run, so that what a reply says of a run stays
true.

`SharedServiceProofs` proves for `SharedService`, for any number of clients, of
messages and of peers without a bridge, whichever processes die when:

- `ServiceTypeCorrect`: `Spec => []TypeOK`;
- `OneAnswer`: `Spec => []OneResponsePerConnection`;
- `OnlyDeath`: `Spec => OnlyDeathOrphans`;
- `NoCallTwice`: `Spec => []RunAtMostOnce`;
- `PromiseKept`: `Spec => KeepsThePromise`, the safety part of `RequestReply`.

`ConnInv` says who has which connection: those in the backlog are open, each
there once, and so is the one being served, which is in the backlog no more; a
bridge that is about to connect has none. So a response always finds a connection
without one, and closes it. `CallInv` adds why no call is run twice: messages are
numbered, a bridge takes them in that order and holds one at a time (`Numbered`),
and one that it is about to post, or that is on a connection the server has not
handled, has not been run (`Held`). A bridge that asked again after a lost answer
would break `Held`, and does so in the mutant of `BridgeReceive`.

`PromiseKept` is a refinement: what a client sees (the requests taken from it, its
replies, what has been run, who is gone) changes as `RequestReply` allows it.
`InitImplements` maps the initial states, `StepImplements` each step to a step of
`RequestReply` or to a stutter, with a lemma per group of actions. Most steps are
stutters; those that are not are the client's own, the run of a call, the bridge's
answer and its end. A bridge answers with what is on its connection, so the
invariant `PromiseInv` says of every response on a connection, and of the one the
server is about to write, that it is true of the message the bridge has in hand
(`Mediates`, `ReplyIsRight`). Its type invariant rests on `ConnInv` and
`PromiseInv` too: that the numbers a bridge writes are those of messages sent
follows from how messages are queued (`NumbersInPipe`).

`ChildProcessProofs` proves for `ChildProcess`, for programs of any length, any
inputs and pipes of any capacity:

- `ChildTypeCorrect`: `Spec => []TypeOK`, which bounds what is in a pipe;
- `NoOutputIsLost`: `Spec => []ResultIsComplete`;
- `ReportsAreOfEndedPrograms`: `Spec => []ReportsAreTrue`.

These speak of calls that have returned, so the invariant (`ChildInvHolds`)
carries what makes them true up to there. `ClosedAtEnd` is the heart of it:
without a timeout or a failed `poll`, a pipe the caller has closed is one whose
every writer is gone and which was empty at that time, and as nobody can write
to it any more it stays so. `Places` says what each point of each caller has
behind it (in `reap` both pipes are closed), `Troubles` where a timeout or a
failed `poll` can have been noted, `Fates` how the child can have ended at each
point: a SIGPIPE needs a closed pipe with a writer, which `ClosedAtEnd` reduces
to the troubles.

`SetupProofs` proves for `Setup`, for any clients, machines and command lines and
any number of runs and faults:

- `SetupTypeCorrect`: `Spec => []TypeOK`;
- `UsersServersSurvive`: `Spec => []OthersServersSurvive`;
- `StoppedStaysStopped`: `Spec => []StopIsStop`;
- `AgainConnected`: `Spec => []AgainKeepsClients`;
- `DoneIsConnected`: `Spec => []DoneMeansConnected`.

The first needs to know what is in hand between reading a file and writing it:
`Guarded` says that what `Edit` holds is what is in the file, that what is about
to be written to a file with servers of the user's has them, and that the one
file that may be without them is the one that is open. Every step either leaves
the files alone (`QuietKeeps`), is somebody else's (`OthersKeep`), begins a
write (`WritesKeep`) or is one of five that write or cut short a write. For the
second, `Stopping` says where a run of `--stop` can be and what it has behind it
there, each part but for the command that failed without notice: that where a
server answered only the job's own is left (`OnlyOwn`), that the job is gone
(`Unloaded`), and its plist (`Removed`). Once the job is unloaded nothing in `Next`
loads another before the run has ended.

The third is about one port and one token, those that configuration and token
file named when the run began. `Same(P, T)` says that they still do (`OnDisk`: the
configuration, whichever of the two copies of the token counts, the clients that
are kept, the plist), that what the run has read and adopted does, and that what
it is writing does (`InHand`, with `OutOf` for the write under way); `AgainInv`
that there are such a port and token as long as something is to be kept.
`Settled` names the points at which the run has chosen its port and token.

The last needs to know what a run has behind it at every point, and that nothing
later undoes it. `Known` says so step by step: the configuration is saved
(`ConfigSet`), the token stored (`TokenSet`), the plist written and, if the old
listener was cleared away (`Cleared`), its job loaded and listening (`JobSet`, the
restart after the permissions included), who listens taking the token in any case
(`Taken`), the clients up to the present one written (`Reached`), and all of it at the end
(`Ended`). One write at a time is under way, and it changes one file: `WritesOn`,
`EditGood` and `OtherFiles` say which of these facts it can make, and `KnownAtClients`,
`KnownService` and `KnownOthers` that it unmakes none. `CutByUs` is the part about
TOML files, which setup edits without parsing them: one that cannot be read was
cut short by a failed write of setup's.

Type correctness of `Setup` says more than kinds: that no two servers listen on one
port, though launchd starts one when a job is loaded and again when the last one
dies, and that what a kill leaves of a file is still of the shape its readers expect
(`RemainsFit`). `MachinesAssumption` asks this of the machine setup comes to.

`DispatcherProofs` proves for `Dispatcher`, for any systems, desktops, contents,
calls and intervals, and whatever the bounds on their number are:

- `DispatcherTypeCorrect`: `Spec => []TypeOK`;
- `PointsLandWhereSeen`: `Spec => []ImagePointsLandWhereTheyWereSeen`;
- `LabelsAreTrue`: `Spec => []LabelsNameTheLastTree`;
- `ImageSpaceIsKept`: `Spec => []ImageSpaceIsTheHandedImage`;
- `WaitsOverlookLittle`: `Spec => []NothingIsOverlookedForLong`;
- `TheEndIsReached`: `SettlesInTime => (Spec => []TheEndIsTheEnd)`.

Each has an invariant of its own, because each is true for a reason of its own.
`LabelInv`: every label stands for an item that was in view when the tree was
read, and for the point it was at; items have different points, so a click there
hits that item and no other. `ImageInv`: inside a call, image space is that of
the image the call is about to return, if it has one, and else that of the last
one returned, unless an image was lost. `WaitInv`: what is waited
for is there only since the last poll that missed it, and what a poll has left
plus the nap after it is bounded. `SearchInv`: `find` has seen every item from
where it began to where the content is, and those in view but for what the last
scroll brought up; a scroll that does not leap leaves no item between.

`PointsLandWhereSeen` is in three parts. The first is about the operators of
`Displays`: that a finite set can be put in a strict total order (`CanBeSorted`, by
counting what precedes each element), so that `Ordered` has every display of the
desktop and no other (`GraphOfADesktop`); that the cursor of macOS gives no pixel to
two displays (`RowIsApart`); and that a whole pixel of a display is carried to a
point of it and back (`ThereAndBack`). Induction is over sets of numbers
(`AllNaturals`, from the well-foundedness of `<`), which needs no operator as a
parameter. The second is `ViewInv`, what is known between any two steps: the graph
is that of some desktop, though perhaps no longer this one; the transform has one
scale, that of the widths; and `IsFrame`, that the last frame began where `frame`
says, on macOS within a display that the graph had for a monitor of that desktop.
The third is `PointsLand`: under `ViewInv` a pixel in the proportion of the image is
carried to the place in what was captured that it shows (`PlaceIsPhysical`), which is
on the display that shows it and, as displays are `Apart`, on no other, in pixels or
in points. That captures keep `ViewInv` needs the types of all they compute
(`CapturedTyped`), that a crop lies within its display (`CroppedIsWithin`), and
`CallInv`: the step that runs is one that a plan may have.

Type correctness rests on `CallInv` too, and on the labels being no more than there
are items (`LabelsAreFew`).

Assumptions: the named `ASSUME`s of `InputBackend`, `LinuxInput`, `Server`,
`SharedService`, `ChildProcess`, `Targets`, `Dispatcher` and `Setup` (the
constants are of the right kind; spare keycodes are not on a keymap in play; a
call has a tool; no peer has a bridge and none; a pipe holds something; items are
shown at points of their own; a desktop has finitely many monitors and at least one,
with ids of their own, in whole numbers that the scales divide
(`DesktopsAssumption`), and a call has steps, with options of the right kind
(`PlansAssumption`); a client's file is none of setup's own, and those
named on a command line are clients, which `src/mcp/setup.cpp:1253` checks; at
first a plist is only where there is launchd and names a token
(`ServiceAssumption`), and a client's TOML file can be read (`FilesAssumption`:
setup does not parse it, so this is the user's part)). TLC evaluates them in every
run that extends the modules.

Model-checked only: the three invariants of `Devices`, which all speak of the list
that discovery folds together from what the tools and the screen report
(`FoldLeft`, which takes an operator and so is opaque to the provers), and of the
best of its fuzzy scores, while `StrokesAreCounted` is such a fold itself; and all
liveness (`CallsReturn`, `RequestsAreAnswered`, `ServerEnds`,
`DeadlineEndsTheCall`, `OutputNeverDeadlocks` and so on), which TLAPS cannot prove.

## Not modelled

Timing and motion of the pointer; floating-point rounding, but for the size of a
downscaled image; the contents of results, images and JSON; the backends for
windows, accessibility, system and permissions, which hold next to no state: the
dispatcher's tools for windows, applications, menus, clipboard, shell, processes
and registry only pass a query on. Of the device tool, the arithmetic of the
viewport, orientation, the text of the command lines and the parsing of their
output are left out. The fuzzy matcher and the codecs are pure and unit-tested. Of the
dispatcher, a batch within a batch and the `scale` option of a capture are left
out; of setup, `--list` and `--doctor`, the settings other than port and token,
options that are refused before anything is done, and a client that writes its
own file between setup's read and setup's write, which no lock prevents.
A tool that throws is answered as `actions::run` does it; the input backends, which
do not throw, have no exceptions in their own modules. More
than one thread is not modelled because there is only one.

## Plan

In this order; each step is a module, its `MC` module, its runs and mutants.

1. *(done)* The input backends, the promise they make, and the proof for Linux.
2. *(done)* The server over pipes and as a shared service, with `RequestReply`,
   and proofs about both.
3. *(done)* `ChildProcess`: running other programs, with its proofs.
4. *(done)* `Displays` and `Targets`: what a coordinate or a label names when it
   is used.
5. *(done)* `Dispatcher`: `wait_for` against its deadline, the scrolling `find`,
   and `run_batch`, with four proofs.
6. *(done)* `Setup`: its files, its steps, kills and failed writes, with four
   proofs.
7. *(done)* `Devices`: the device tool, its ways and their fallbacks.
8. *(done)* The accounts of `WindowsInput` and `MacInput`, the remaining
   properties of `LinuxInput`, the refinement of `RequestReply`, and what setup
   promises when it ends or is run again.
9. *(done)* Type correctness of `SharedService`, `Setup` and `Dispatcher`; the
   conversions of `Displays` for sizes that divide, and with them
   `ImagePointsLandWhereTheyWereSeen`.
10. `Devices`: its list as a recursive function, and `InputReachesItsDevice` from
    what an entry of it can be.
