------------------------------- MODULE Targets -------------------------------
(***************************************************************************)
(* What a call can point at: coordinates in one of the three spaces and    *)
(* the labels of the last tree (src/actions/actions.cpp, session.cpp and   *)
(* the three screen_<os> files).                                           *)
(*                                                                         *)
(* The desktop, the content of the window in front and where it is         *)
(* scrolled to belong to the user and the applications; displays, image    *)
(* and cache are the program's.  Each handler is an operator that relates  *)
(* the state before and after it and says what it gave back.               *)
(***************************************************************************)
EXTENDS Displays

CONSTANTS
  Platforms,      \* the systems to look at
  Desktops,       \* [Platforms -> sets of desktops]
  WindowAt,       \* where the window is, as the system counts
  Items,          \* how many items the window's content has
  Slots,          \* the logical points at which items are shown, in order
  Live,           \* the items that are interactive
  LabelLife       \* ticks after which labels are refused

\* Each item is shown at a point of its own.
ASSUME ContentAssumption ==
  /\ Items \in Nat /\ Len(Slots) \in 0 .. Items
  /\ \A i \in 1 .. Len(Slots) : Slots[i].space = "logical"
  /\ \A i, j \in 1 .. Len(Slots) : Slots[i] = Slots[j] => i = j

\* What a system reports of a monitor, in whole numbers that divide.
Positive == Nat \ {0}
Rects == [x : Int, y : Int, w : Positive, h : Positive]
Fits(r, scale) == r.w % scale = 0 /\ r.h % scale = 0
IsMonitor(m) == /\ m.id \in Int /\ m.primary \in BOOLEAN
                /\ m.rect \in Rects /\ m.scale \in Positive
ASSUME DesktopsAssumption ==
  /\ Platforms \subseteq {"linux", "windows", "macos"}
  /\ EnvironmentScale \in Positive /\ WindowAt \in Rects
  /\ \A system \in Platforms : \A d \in Desktops[system] :
       /\ IsFiniteSet(d) /\ d # {}
       /\ \A m, n \in d : m.id = n.id => m = n
       /\ \A m \in d : /\ IsMonitor(m)
                       /\ system = "linux" => Fits(m.rect, EnvironmentScale)
                       /\ system = "windows" => Fits(m.rect, m.scale)

VARIABLES
  platform, desktop,
  top,        \* how many items are scrolled out above
  displays,   \* DisplayGraph::displays_
  image,      \* DisplayGraph::image_
  cache,      \* label_cache().nodes: the point of each label
  age,        \* ticks since label_cache().taken
  \* What was really there, to compare with:
  frame,      \* where on the desktop the pixels of the last capture were
  named       \* the item each label of the last tree belongs to, and top

targetVars == <<platform, desktop, top, displays, image, cache, age, frame,
                named>>
program == <<displays, image, cache, age, frame, named>>
user == <<platform, desktop, top>>

-----------------------------------------------------------------------------
(***************************************************************************)
(* The content: the item in each slot.  Slot s shows item top + s.         *)
(***************************************************************************)
LastTop == Items - Len(Slots)
Visible == top + 1 .. top + Len(Slots)
PointOf(item) == Slots[item - top]

\* assign_labels: the interactive items in document order, counted from 0.
LabelOf(item) == Cardinality({i \in Visible \cap Live : i < item})
Labels == [item \in Visible \cap Live |-> LabelOf(item)]
Labelled(label) == CHOOSE i \in DOMAIN Labels : Labels[i] = label
NewCache ==
  [label \in Range(Labels) |-> PointOf(Labelled(label))]
NewNames ==
  [items |-> [label \in Range(Labels) |-> Labelled(label)], top |-> top]

\* Linux has no tree; macOS and Windows may fail to read one.
TreeReadable == platform # "linux"
CanRegions == platform = "macos"

-----------------------------------------------------------------------------
(***************************************************************************)
(* A capture.  Options: from is "all", "display", "window" or "region";    *)
(* region is a rectangle of in-space, absent unless from = "region"; max   *)
(* bounds the longer side, 0 for none; encodes is false for a format that  *)
(* encode does not know.                                                   *)
(***************************************************************************)
\* What a backend takes for the place of the window, in physical pixels.
WindowSource(ds) ==
  CASE platform = "linux" -> Rect(0, 0, WindowAt.w, WindowAt.h)
    [] platform = "windows" -> WindowAt
    [] platform = "macos" ->
         LET d == Containing(ds, At(WindowAt.x, WindowAt.y, "logical"))
             s == d.physical.w \div d.logical.w
         IN Rect(WindowAt.x * s, WindowAt.y * s, WindowAt.w * s, WindowAt.h * s)

\* What is captured; macOS has the primary display for the whole desktop.
SourceOf(o, ds) ==
  CASE o.from = "window" -> WindowSource(ds)
    [] o.from = "display" -> ds[o.index + 1].physical
    [] platform = "macos" /\ o.from \in {"all", "region"} ->
         Primary(ds).physical
    [] platform # "macos" /\ o.from = "region" ->
         ConvertRect(ds, image, o.region, o.space, "physical")
    [] platform # "macos" /\ o.from = "all" -> VirtualBounds(ds, "physical")

\* crop: the part of the region that is on the frame.
Cropped(source, r) ==
  LET x == Clamped(r.x, source.x, source.x + source.w)
      y == Clamped(r.y, source.y, source.y + source.h)
  IN Rect(x, y, Clamped(r.x + r.w, x, source.x + source.w) - x,
                Clamped(r.y + r.h, y, source.y + source.h) - y)
CapturedOf(o, ds) ==
  IF platform = "macos" /\ o.from = "region"
  THEN Cropped(SourceOf(o, ds),
               ConvertRect(ds, image, o.region, o.space, "physical"))
  ELSE SourceOf(o, ds)

\* resize to the longer side that is allowed, rounded to whole pixels.
Rounded(a, b) == (2 * a + b) \div (2 * b)
Longest(r) == Max({r.w, r.h})
Shrunk(source, max) ==
  IF max = 0 \/ Longest(source) <= max
  THEN Transform(source, 1, 1, source.w, source.h)
  ELSE LET w == Max({1, Rounded(source.w * max, Longest(source))})
           h == Max({1, Rounded(source.h * max, Longest(source))})
       IN Transform(source, w, source.w, w, h)

\* What a refresh finds when it succeeds.
Current == Ordered(Enumerated(platform, desktop))

(***************************************************************************)
(* The truth about a frame: a place of the desktop, in the units of the    *)
(* system, how many pixels beyond it the frame begins, and how many pixels *)
(* make a unit.  macOS captures another display in place of one that is no *)
(* longer there.                                                           *)
(***************************************************************************)
Frame(kind, taken, x, y, dx, dy, step) ==
  [kind |-> kind, desktop |-> taken, x |-> x, y |-> y, dx |-> dx, dy |-> dy,
   step |-> step]
StillThere(d) == \E m \in desktop : m.id = d.id
ShownBy(o, ds, t) ==
  LET d == IF o.from = "display" THEN ds[o.index + 1] ELSE Primary(ds)
      m == CHOOSE n \in desktop : StillThere(d) => n.id = d.id
      taken == IF ds = Current THEN desktop ELSE {}
  IN CASE o.from = "window" ->
            Frame(o.from, taken, WindowAt.x, WindowAt.y, 0, 0,
                  IF platform = "macos" THEN t.source.w \div WindowAt.w ELSE 1)
       [] platform = "macos" /\ o.from # "window" ->
            Frame(o.from, taken, m.rect.x, m.rect.y, t.source.x - d.physical.x,
                  t.source.y - d.physical.y, m.scale)
       [] OTHER -> Frame(o.from, taken, t.source.x, t.source.y, 0, 0, 1)
NoFrame == Frame("none", {}, 0, 0, 0, 0, 1)

\* The graph after the refresh each capture begins with, which may fail.
Refreshed == {Current, displays}

HasDisplay(o, ds) == o.from = "display" => o.index + 1 \in DOMAIN ds
\* do_capture.  The transform is published before the frame is encoded.
CaptureFails(o) ==
  /\ displays' \in Refreshed
  /\ UNCHANGED <<image, frame>>
CaptureDone(o) ==
  /\ displays' \in Refreshed
  /\ HasDisplay(o, displays')
  /\ LET source == CapturedOf(o, displays')
     IN /\ source.w > 0 /\ source.h > 0
        /\ image' = Shrunk(source, o.max)
        /\ frame' = ShownBy(o, displays', image')

\* act_snapshot and act_elements: the tree takes the place of the old one.
\* Mutant of TreeTaken: labels of the old tree that the new one has not.
TreeTakenOnTop ==
  /\ TreeReadable
  /\ cache' = NewCache @@ cache
  /\ named' = NewNames
  /\ age' = 0

TreeTaken ==
  /\ TreeReadable
  /\ cache' = NewCache
  /\ named' = NewNames
  /\ age' = 0
TreeFails == UNCHANGED <<cache, named, age>>

\* act_displays
DisplaysListed ==
  /\ displays' \in Refreshed
  /\ UNCHANGED <<image, frame, cache, named, age>>

-----------------------------------------------------------------------------
(***************************************************************************)
(* resolve_target: a label of the cache, unless it is too old, or a point. *)
(***************************************************************************)
HasLabel(label) ==
  /\ cache # <<>>
  /\ age <= LabelLife
  /\ label \in DOMAIN cache
Target(t) == IF t.by = "label" THEN cache[t.label] ELSE t.at
Reachable(t) ==
  /\ t.by = "label" => HasLabel(t.label)
  /\ Resolvable(displays, image, Target(t))
ResolvedTarget(t) == Resolve(displays, image, Target(t))

\* Where an event at a logical point arrives: the macOS backend posts
\* points, the others convert to pixels by the graph.
Lands(p) == IF platform = "macos" THEN p
            ELSE Convert(displays, image, p, "physical")

\* The item an event at this logical point hits.
ItemsAt(p) == {i \in Visible : PointOf(i) = p}
=============================================================================
