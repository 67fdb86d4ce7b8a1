----------------------------- MODULE Dispatcher -----------------------------
(***************************************************************************)
(* actions::run, run_batch and the two handlers that loop, wait_for and    *)
(* find (src/actions/actions.cpp), over the targets of module Targets.     *)
(*                                                                         *)
(* A call is a sequence of steps, run one after the other; a call of a     *)
(* single tool is a sequence of one.  Between any two steps, and during    *)
(* the naps of wait_for and the scrolls of find, the user may plug in a    *)
(* monitor and the content may move.                                       *)
(***************************************************************************)
EXTENDS Targets

CONSTANTS
  Plans,         \* [Platforms -> the calls that are made there]
  MaxCalls,      \* bound on the number of calls
  MaxChanges,    \* bound on what user and applications change
  Interval,      \* ticks wait_for sleeps between two polls
  PollTime,      \* ticks a poll takes at most
  SettlesInTime  \* a scroll is done when find looks again

ASSUME TimesAssumption ==
  /\ Interval \in Nat /\ PollTime \in Nat /\ LabelLife \in Nat
  /\ MaxCalls \in Nat /\ MaxChanges \in Nat

\* What the steps of a call are asked with, where the proofs need to know.
IsOptions(o) ==
  /\ o.from \in {"all", "display", "window", "region"}
  /\ o.index \in Nat /\ o.max \in Nat /\ o.space \in Spaces
  /\ \A side \in {"x", "y", "w", "h"} : o.region[side] \in Int
  /\ o.encodes \in BOOLEAN
IsStep(step) ==
  /\ step.does \in {"capture", "snapshot", "device"} => IsOptions(step.options)
  /\ step.does = "snapshot" => step.vision \in BOOLEAN
  /\ step.does = "device" => step.fits \in Nat
  /\ step.does = "wait" => step.ticks \in Nat
  /\ step.does = "wait_for" => step.timeout \in Nat
ASSUME PlansAssumption ==
  \A system \in Platforms : \A call \in Plans[system] :
    /\ call # <<>> /\ call \in Seq(Range(call))
    /\ \A i \in DOMAIN call : IsStep(call[i])

VARIABLES
  pc,       \* what runs: "idle", "step", "reply", or the part of a handler
  plan,     \* the steps of the call, one for a call outside a batch
  done,     \* the steps that have run: did they succeed
  shot,     \* the image of the host's screen that the reply would carry
  handed,   \* the last such image that a reply carried
  lost,     \* the transform belongs to a capture whose image nobody got
  poll,     \* wait_for
  search,   \* find
  calls, changes

callVars == <<pc, plan, done, shot, handed, lost, calls>>
vars == <<targetVars, callVars, poll, search, changes>>

Searching == {"look", "regions", "scroll", "missed"}
Waiting == {"test", "poll", "nap"}

Quiet == [left |-> 0, nap |-> 0, slow |-> 0, held |-> 0, blind |-> FALSE]
NoSearch == [scrolls |-> 0, last |-> 0, from |-> 0, seen |-> {},
             still |-> TRUE, leapt |-> FALSE, pending |-> FALSE,
             end |-> FALSE]

Step == plan[Len(done) + 1]
Doing(what) == pc = "step" /\ Step.does = what

Init ==
  /\ platform \in Platforms
  /\ desktop \in Desktops[platform]
  /\ top = 0
  /\ displays = Current
  /\ image = NoTransform /\ frame = NoFrame
  /\ cache = <<>> /\ age = 0 /\ named = [items |-> <<>>, top |-> 0]
  /\ pc = "idle" /\ plan = <<>> /\ done = <<>>
  /\ shot = NoTransform /\ handed = NoTransform
  /\ lost = FALSE
  /\ poll = Quiet /\ search = NoSearch /\ calls = 0 /\ changes = 0

-----------------------------------------------------------------------------
(***************************************************************************)
(* A call begins, its steps return, and the first that fails ends it.      *)
(***************************************************************************)
Ask ==
  /\ pc = "idle" /\ calls < MaxCalls
  /\ plan' \in Plans[platform]
  /\ pc' = "step"
  /\ calls' = calls + 1
  /\ UNCHANGED <<targetVars, done, shot, handed, lost, poll, search, changes>>

Onward(ok) ==
  IF ok /\ Len(done) + 1 < Len(plan) THEN "step" ELSE "reply"

\* Mutant of Returns: the first image of a batch is the one that is kept.
ReturnsFirst(ok, picture) ==
  /\ done' = Append(done, ok)
  /\ shot' = IF shot.valid THEN shot ELSE picture
  /\ pc' = Onward(ok)
  /\ UNCHANGED <<plan, handed, calls, changes>>

Returns(ok, picture) ==
  /\ done' = Append(done, ok)
  /\ shot' = IF picture.valid THEN picture ELSE shot
  /\ pc' = Onward(ok)
  /\ UNCHANGED <<plan, handed, calls, changes>>
Plainly(ok) == Returns(ok, NoTransform) /\ UNCHANGED lost

Goes(to) ==
  /\ pc' = to
  /\ UNCHANGED <<plan, done, shot, handed, lost, calls, changes>>

Reply ==
  /\ pc = "reply"
  /\ pc' = "idle"
  /\ handed' = IF shot.valid THEN shot ELSE handed
  /\ plan' = <<>> /\ done' = <<>> /\ shot' = NoTransform
  /\ UNCHANGED <<targetVars, lost, poll, search, calls, changes>>

\* An image that an earlier step of a batch took is dropped.
Drops(ok) ==
  /\ done' = Append(done, ok)
  /\ shot' = NoTransform
  /\ lost' = (lost \/ shot.valid)
  /\ UNCHANGED <<targetVars, plan, handed, poll, search, calls, changes>>

\* A step of a batch without an action ends it, image and all.
Nameless == Doing("nameless") /\ Drops(FALSE) /\ pc' = "reply"

-----------------------------------------------------------------------------
(***************************************************************************)
(* The handlers that run in one go.                                        *)
(***************************************************************************)
Atomic == UNCHANGED <<user, poll, search>>

ListDisplays ==
  /\ Doing("displays") /\ DisplaysListed /\ Plainly(TRUE) /\ Atomic

NoCapture ==
  /\ CaptureFails(Step.options)
  /\ UNCHANGED <<cache, named, age>>
  /\ Plainly(FALSE)
  /\ Atomic
\* The image is there but cannot be encoded in the format asked for.
Unencoded ==
  /\ CaptureDone(Step.options) /\ ~Step.options.encodes
  /\ UNCHANGED <<cache, named, age>>
  /\ lost' = TRUE
  /\ Returns(FALSE, NoTransform)
  /\ Atomic
Taken ==
  /\ CaptureDone(Step.options) /\ Step.options.encodes
  /\ UNCHANGED <<cache, named, age>>
  /\ lost' = FALSE
  /\ Atomic
Capture ==
  /\ Doing("capture")
  /\ NoCapture \/ Unencoded \/ (Taken /\ Returns(TRUE, image'))

\* The device tool's screenshot is the host's capture of a region, the
\* displays as they are, and may then be resized, of which the graph is told
\* nothing; or it is the device's own image, over the bridge, which takes the
\* place of the host's in a batch and leaves image space alone.
Resized(t, fits) ==
  LET longest == Max({t.w, t.h})
  IN IF fits = 0 \/ longest <= fits THEN t
     ELSE [t EXCEPT !.w = Max({1, (t.w * fits) \div longest}),
                    !.h = Max({1, (t.h * fits) \div longest})]
OfRegion ==
  /\ UNCHANGED <<displays, cache, named, age>>
  /\ CaptureDone(Step.options)
  /\ LET picture == Resized(image', Step.fits)
     IN \/ lost' = (picture # image') /\ Returns(TRUE, picture)
        \/ lost' = TRUE /\ Returns(FALSE, NoTransform)
  /\ Atomic
DeviceShot ==
  /\ Doing("device")
  /\ \/ Plainly(FALSE) /\ UNCHANGED program /\ Atomic
     \/ OfRegion
     \/ Drops(TRUE) /\ pc' = Onward(TRUE)

\* act_snapshot: the capture, unless vision is off, and then the tree.  When
\* there is a capture but no tree, the snapshot succeeds without one.
Snapshot ==
  /\ Doing("snapshot")
  /\ \/ ~Step.vision /\ Goes("tree") /\ UNCHANGED <<targetVars, poll, search>>
     \/ Step.vision /\ (NoCapture \/ Unencoded)
     \/ /\ Step.vision /\ Taken
        /\ pc' = "tree" /\ shot' = image'
        /\ UNCHANGED <<plan, done, handed, calls, changes>>
ReadTree ==
  /\ pc = "tree"
  /\ \/ TreeTaken /\ Plainly(TRUE)
     \/ TreeFails /\ Plainly(Step.vision)
  /\ UNCHANGED <<user, displays, image, frame, poll, search>>
Elements ==
  /\ Doing("elements")
  /\ \/ TreeTaken /\ Plainly(TRUE)
     \/ TreeFails /\ Plainly(FALSE)
  /\ UNCHANGED <<user, displays, image, frame, poll, search>>

\* Clicks, moves and the like: what they do once they have their point is
\* the business of the input backends, which may fail.
Point ==
  /\ Doing("click")
  /\ \/ Reachable(Step.target) /\ Plainly(TRUE)
     \/ Plainly(FALSE)
  /\ UNCHANGED <<targetVars, poll, search>>

\* How far a scroll brings it is the application's affair: not at all, where
\* the pointer is on something else, or past more than was in view.
Scrolled(t) == t .. LastTop
Scroll ==
  /\ Doing("scroll")
  /\ \/ top' \in Scrolled(top) /\ Plainly(TRUE)
     \/ UNCHANGED top /\ Plainly(FALSE)
  /\ UNCHANGED <<platform, desktop, program, poll, search>>

Aged(n) == age' = IF age + n > LabelLife THEN LabelLife + 1 ELSE age + n
Wait ==
  /\ Doing("wait") /\ Aged(Step.ticks) /\ Plainly(TRUE)
  /\ UNCHANGED <<user, displays, image, cache, frame, named, poll, search>>

-----------------------------------------------------------------------------
(***************************************************************************)
(* act_wait_for: the deadline is looked at before each poll, and a nap     *)
(* follows each poll that does not find what is waited for.  A tree that   *)
(* cannot be read counts as one that does not have it.  The poll takes     *)
(* time, and shows what was there at any moment of it: what is left of     *)
(* that time comes on top of the nap.                                      *)
(***************************************************************************)
WaitFor ==
  /\ Doing("wait_for")
  /\ poll' = [Quiet EXCEPT !.left = Step.timeout]
  /\ Goes("test")
  /\ UNCHANGED <<targetVars, search>>

WaitTest ==
  /\ pc = "test"
  /\ IF poll.left > 0
     THEN Goes("poll") /\ poll' = [poll EXCEPT !.slow = PollTime]
     ELSE Plainly(FALSE) /\ poll' = Quiet
  /\ UNCHANGED <<targetVars, search>>

Found == Step.item \in Visible
\* Mutant of WaitPoll: it sleeps for as long as is left.
WaitPollOnce ==
  /\ pc = "poll"
  /\ \/ /\ TreeReadable /\ Found
        /\ Plainly(TRUE) /\ poll' = Quiet
     \/ /\ Goes("nap")
        /\ poll' = [poll EXCEPT !.nap = poll.left + Interval]
  /\ UNCHANGED <<targetVars, search>>

WaitPoll ==
  /\ pc = "poll"
  /\ \/ /\ TreeReadable /\ Found
        /\ Plainly(TRUE) /\ poll' = Quiet
     \/ /\ TreeReadable => ~Found
        /\ Goes("nap")
        /\ poll' = [poll EXCEPT !.nap = Interval + poll.slow,
                                  !.blind = ~TreeReadable]
     \/ /\ Goes("nap")
        /\ poll' = [poll EXCEPT !.nap = Interval + poll.slow, !.blind = TRUE]
  /\ UNCHANGED <<targetVars, search>>

WaitOver ==
  /\ pc = "nap" /\ poll.nap = 0
  /\ Goes("test")
  /\ UNCHANGED <<targetVars, poll, search>>

\* Time goes by in a nap, and while the tree is read.
Tick ==
  /\ \/ /\ pc = "nap" /\ poll.nap > 0
        /\ poll' = [poll EXCEPT !.nap = @ - 1, !.left = Max({0, @ - 1}),
                                !.held = IF Found THEN @ + 1 ELSE 0]
     \/ /\ pc = "poll" /\ poll.slow > 0
        /\ poll' = [poll EXCEPT !.slow = @ - 1, !.left = Max({0, @ - 1}),
                                !.held = IF Found THEN @ + 1 ELSE 0]
  /\ Aged(1)
  /\ UNCHANGED <<user, displays, image, cache, frame, named, search, callVars,
                 changes>>

-----------------------------------------------------------------------------
(***************************************************************************)
(* act_find: look, and scroll by eight clicks wherever the pointer is,     *)
(* until the text turns up, the largest region is at its end, it no longer *)
(* moves, or max_scrolls is used up.  Without a pid no region is asked for.*)
(***************************************************************************)
Find ==
  /\ Doing("find")
  /\ search' = [NoSearch EXCEPT !.last = -2, !.from = top,
                                  !.pending = search.pending]
  /\ Goes("look")
  /\ UNCHANGED <<targetVars, poll>>

Ends == search' = [NoSearch EXCEPT !.pending = search.pending]
Look ==
  /\ pc = "look"
  /\ SettlesInTime => ~search.pending
  /\ \/ Plainly(FALSE) /\ Ends       \* the tree cannot be read
     \/ /\ TreeReadable
        /\ IF Found THEN Plainly(TRUE) /\ Ends
           ELSE /\ search' = [search EXCEPT !.seen = @ \cup Visible]
                /\ IF search.scrolls = Step.max THEN Goes("missed")
                   ELSE Goes("regions")
  /\ UNCHANGED <<targetVars, poll>>

\* -1 when there is no region to ask.
\* Mutant of Regions: within a page of the end it is at the end.
RegionsNearTheEnd ==
  /\ pc = "regions"
  /\ \E position \in IF Step.pid /\ CanRegions THEN {top, -1} ELSE {-1} :
       IF position >= 0 /\ (top + 1 >= LastTop \/ position = search.last)
       THEN /\ Goes("missed")
            /\ search' = [search EXCEPT !.end = (top + 1 >= LastTop)]
       ELSE /\ Goes("scroll")
            /\ search' = [search EXCEPT !.last = position]
  /\ UNCHANGED <<targetVars, poll>>

Regions ==
  /\ pc = "regions"
  /\ \E position \in IF Step.pid /\ CanRegions THEN {top, -1} ELSE {-1} :
       IF position >= 0 /\ (top = LastTop \/ position = search.last)
       THEN /\ Goes("missed")
            /\ search' = [search EXCEPT !.end = (top = LastTop)]
       ELSE /\ Goes("scroll")
            /\ search' = [search EXCEPT !.last = position]
  /\ UNCHANGED <<targetVars, poll>>

\* Mutant of FindScrolls: the scrolls are not counted.
FindScrollsUncounted ==
  /\ pc = "scroll"
  /\ \/ Plainly(FALSE) /\ Ends
     \/ /\ search' = [search EXCEPT !.pending = TRUE]
        /\ Goes("look")
  /\ UNCHANGED <<targetVars, poll>>

FindScrolls ==
  /\ pc = "scroll"
  /\ \/ Plainly(FALSE) /\ Ends
     \/ /\ search' = [search EXCEPT !.scrolls = @ + 1, !.pending = TRUE]
        /\ Goes("look")
  /\ UNCHANGED <<targetVars, poll>>

\* Not found is an answer like any other: the step succeeds.
Missed ==
  /\ pc = "missed"
  /\ Plainly(TRUE) /\ Ends
  /\ UNCHANGED <<targetVars, poll>>

\* What wait_for waits for may be gone when the content has moved.
Watched ==
  poll' = [poll EXCEPT !.held = IF pc \in Waiting /\ ~Found' THEN 0 ELSE @]

\* The application has caught up with the scroll.
Settle ==
  /\ search.pending
  /\ top' \in Scrolled(top)
  /\ search' = [search EXCEPT !.pending = FALSE,
                              !.leapt = @ \/ top' > top + Len(Slots)]
  /\ UNCHANGED <<platform, desktop, program, callVars, changes>>
  /\ Watched

-----------------------------------------------------------------------------
(***************************************************************************)
(* What others do.                                                         *)
(***************************************************************************)
Plug ==
  /\ changes < MaxChanges /\ changes' = changes + 1
  /\ desktop' \in Desktops[platform] \ {desktop}
  /\ UNCHANGED <<platform, top, program, callVars, poll, search>>

Move ==
  /\ changes < MaxChanges /\ changes' = changes + 1
  /\ top' \in (0 .. LastTop) \ {top}
  /\ search' = [search EXCEPT !.still = @ /\ pc \notin Searching]
  /\ UNCHANGED <<platform, desktop, program, callVars>>
  /\ Watched

\* The client takes its time.
Think ==
  /\ pc = "idle" /\ cache # <<>> /\ age <= LabelLife
  /\ Aged(1)
  /\ UNCHANGED <<user, displays, image, cache, frame, named, callVars, poll,
                 search, changes>>

Running ==
  \/ Nameless \/ ListDisplays \/ Capture \/ DeviceShot
  \/ Snapshot \/ ReadTree \/ Elements \/ Point \/ Scroll \/ Wait
  \/ WaitFor \/ WaitTest \/ WaitPoll \/ WaitOver \/ Tick
  \/ Find \/ Look \/ Regions \/ FindScrolls \/ Missed \/ Settle
  \/ Reply
Next == Ask \/ Running \/ Plug \/ Move \/ Think
Spec == Init /\ [][Next]_vars /\ WF_vars(Running)

-----------------------------------------------------------------------------
Handlers == {"tree"} \cup Waiting \cup Searching
\* Every variable has a value of its kind, and a handler that loops runs
\* only inside a step that has not returned (run, run_batch).
TypeOK ==
  /\ platform \in Platforms /\ desktop \in Desktops[platform]
  /\ top \in 0 .. LastTop
  /\ pc \in {"idle", "step", "reply"} \cup Handlers
  /\ pc \in {"step"} \cup Handlers => Len(done) < Len(plan)
  /\ done \in Seq(BOOLEAN) /\ Len(done) <= Len(plan)
  /\ DOMAIN cache \subseteq 0 .. Items
  /\ age \in 0 .. LabelLife + 1
  /\ poll.left \in Nat /\ poll.nap \in Nat
  /\ search.scrolls \in Nat /\ search.seen \subseteq 1 .. Items
  /\ lost \in BOOLEAN /\ calls \in 0 .. MaxCalls /\ changes \in 0 .. MaxChanges

(***************************************************************************)
(* A point of the last capture, passed back in image space, arrives at     *)
(* what was seen there: the source of the frame, the crop, the downscale   *)
(* and the display's own factor are all undone, on each platform and with  *)
(* several displays.  While the desktop is as it was captured, for pixels  *)
(* that show a monitor, provided that no two displays claim the same       *)
(* logical points (which Windows with mixed scales does not give), that    *)
(* the image is as wide for its height as what it shows (a narrow one that *)
(* was shrunk is not, for its sides are rounded and one scale is recorded  *)
(* for both) and, for the capture of a window, on Windows.                 *)
(***************************************************************************)
\* How far into what was captured a pixel of the image is.
Into(q) == [x |-> (q.x * image.source.w) \div image.w,
            y |-> (q.y * image.source.h) \div image.h]
Seen(q) == [x |-> frame.x + (frame.dx + Into(q).x) \div frame.step,
            y |-> frame.y + (frame.dy + Into(q).y) \div frame.step]
\* The pixels for which no quotient has a remainder.
Divides(d, q) ==
  LET p == [x |-> image.source.x + Into(q).x, y |-> image.source.y + Into(q).y]
  IN Covers(d.physical, p) =>
       /\ (p.x - d.physical.x) % (d.physical.w \div d.logical.w) = 0
       /\ (p.y - d.physical.y) % (d.physical.h \div d.logical.h) = 0
Whole(q) ==
  /\ (q.x * image.source.w) % image.w = 0 /\ (q.y * image.source.h) % image.h = 0
  /\ \A i \in DOMAIN displays : Divides(displays[i], q)
Samples == {At(x, y, "image") : x \in 0 .. image.w - 1, y \in 0 .. image.h - 1}
OnMonitor(p) == \E m \in desktop : Covers(m.rect, p)
Apart == \A i, j \in DOMAIN displays :
           i # j => ~Overlap(displays[i].logical, displays[j].logical)
Proportional == image.w * image.source.h = image.h * image.source.w
Known == /\ image.valid /\ Proportional
         /\ frame.desktop = desktop /\ displays = Current
         /\ frame.kind = "window" => platform = "windows"
ImagePointsLandWhereTheyWereSeen ==
  Known /\ Apart =>
    \A q \in Samples : Whole(q) /\ OnMonitor(Seen(q)) =>
      /\ Resolvable(displays, image, q)
      /\ LET p == Lands(Resolve(displays, image, q))
         IN p.x = Seen(q).x /\ p.y = Seen(q).y

(***************************************************************************)
(* A label that is accepted is a label of the last tree, and as long as    *)
(* the content has not moved a call by that label hits the item it named   *)
(* (resolve_target, assign_labels and the cache of act_snapshot and        *)
(* act_elements).                                                          *)
(***************************************************************************)
ByLabel(label) == [by |-> "label", label |-> label]
LabelsNameTheLastTree ==
  \A label \in 0 .. Items : Reachable(ByLabel(label)) =>
    /\ label \in DOMAIN named.items
    /\ named.top = top =>
         ItemsAt(ResolvedTarget(ByLabel(label))) = {named.items[label]}

(***************************************************************************)
(* Between calls, image space is that of the last image of the host's      *)
(* screen that a reply carried (do_capture, run_batch): of several         *)
(* captures in a batch it is the last that is handed over, also when a     *)
(* later step fails.  Except after a capture whose image was never         *)
(* returned as it was taken: the device tool returns one that it has made  *)
(* smaller without telling the graph (actions_device.cpp:288).  And what a *)
(* device sends of its own screen, over the bridge, is an image that image *)
(* space knows nothing of: it goes on to mean the one before.              *)
(***************************************************************************)
ImageSpaceIsTheHandedImage ==
  pc = "idle" /\ handed.valid /\ ~lost => image = handed

(***************************************************************************)
(* wait_for does not overlook a condition for longer than a nap and two    *)
(* polls, unless a tree could not be read: whenever it gives up, the        *)
(* condition has not held for so long.                                     *)
(***************************************************************************)
NothingIsOverlookedForLong ==
  pc \in Waiting /\ ~poll.blind =>
    poll.held <= Interval + 2 * PollTime

(***************************************************************************)
(* When find says that it has reached the end it has looked at every item  *)
(* there is from where it began, provided the application keeps up with    *)
(* the scrolling, nobody else scrolls, and none of its scrolls, each eight *)
(* clicks whatever is under the pointer, went further than what was in     *)
(* view: then it has overlooked what lay between (act_find).               *)
(***************************************************************************)
TheEndIsTheEnd ==
  pc = "missed" /\ search.end /\ search.still /\ ~search.leapt =>
    search.from + 1 .. Items \subseteq search.seen

\* Every call comes back, whatever is waited or searched for.
CallsReturn == pc # "idle" ~> pc = "idle"
=============================================================================
