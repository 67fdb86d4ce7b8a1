------------------------------ MODULE Displays ------------------------------
(***************************************************************************)
(* The display graph and its three spaces: src/core/display.cpp and the    *)
(* three display_<os> files.  What the system has is a desktop, a set of   *)
(* monitors; what the program keeps of it is a sequence of displays, each  *)
(* with its bounds in points and in pixels.                                *)
(*                                                                         *)
(* The code computes with doubles.  Here every coordinate is an integer:   *)
(* sizes, scales and the points that are asked for are chosen such that    *)
(* all quotients are whole, so that nothing is decided by rounding.        *)
(***************************************************************************)
EXTENDS Integers, Sequences, FiniteSets, SequencesExt, FiniteSetsExt

CONSTANT EnvironmentScale  \* the one factor X11 toolkits agree on

Spaces == {"logical", "physical", "image"}
Rect(x, y, w, h) == [x |-> x, y |-> y, w |-> w, h |-> h]
At(x, y, space) == [x |-> x, y |-> y, space |-> space]

Covers(r, p) == /\ r.x <= p.x /\ p.x < r.x + r.w
                  /\ r.y <= p.y /\ p.y < r.y + r.h
Overlap(r, s) == /\ r.x < s.x + s.w /\ s.x < r.x + r.w
                 /\ r.y < s.y + s.h /\ s.y < r.y + r.h

\* What std::sort makes of a set.
SortedBy(S, Precedes(_, _)) ==
  CHOOSE s \in [1 .. Cardinality(S) -> S] :
    \A i, j \in DOMAIN s : i < j => Precedes(s[i], s[j])

-----------------------------------------------------------------------------
(***************************************************************************)
(* platform_enumerate_displays.  A monitor of the desktop has the          *)
(* rectangle the system reports: pixels on Linux and Windows, points on    *)
(* macOS; pixel counts on macOS come from the mode of the display.         *)
(***************************************************************************)
Display(m, logical, physical) ==
  [id |-> m.id, primary |-> m.primary,
   logical |-> logical, physical |-> physical]

InPoints(r, scale) ==
  Rect(r.x \div scale, r.y \div scale, r.w \div scale, r.h \div scale)

LinuxDisplays(desktop) ==
  {Display(m, InPoints(m.rect, EnvironmentScale), m.rect) : m \in desktop}

\* Each monitor by its own scale, its origin included.
WindowsDisplays(desktop) ==
  {Display(m, InPoints(m.rect, m.scale), m.rect) : m \in desktop}

\* Left to right, each display begins where the one before it ends.
LeftOf(m, n) ==
  \/ m.rect.x < n.rect.x
  \/ m.rect.x = n.rect.x /\ m.id < n.id
\* Mutant of MacDisplays: each display by its own scale, its origin included.
MacDisplaysInPlace(desktop) ==
  {Display(m, m.rect, Rect(m.rect.x * m.scale, m.rect.y * m.scale,
                           m.rect.w * m.scale, m.rect.h * m.scale))
     : m \in desktop}

Pixels(m) == m.rect.w * m.scale
\* Where the cursor stands when it comes to each monitor of the row.
Cursors(row) ==
  LET cursor[i \in DOMAIN row] ==
        IF i = 1 THEN 0 ELSE cursor[i - 1] + Pixels(row[i - 1])
  IN cursor
MacDisplays(desktop) ==
  LET row == SortedBy(desktop, LeftOf)
  IN {Display(row[i], row[i].rect,
              Rect(Cursors(row)[i], row[i].rect.y * row[i].scale,
                   Pixels(row[i]), row[i].rect.h * row[i].scale))
        : i \in DOMAIN row}

Enumerated(platform, desktop) ==
  CASE platform = "linux" -> LinuxDisplays(desktop)
    [] platform = "windows" -> WindowsDisplays(desktop)
    [] platform = "macos" -> MacDisplays(desktop)

-----------------------------------------------------------------------------
(***************************************************************************)
(* DisplayGraph: the order is part of the interface, the primary display   *)
(* first and the others from left to right and top to bottom.  Two at one  *)
(* place, which the sort leaves in either order, are by their ids here.    *)
(***************************************************************************)
Before(a, b) ==
  IF a.primary # b.primary THEN a.primary
  ELSE \/ a.logical.x < b.logical.x
       \/ a.logical.x = b.logical.x /\ a.logical.y < b.logical.y
       \/ /\ a.logical.x = b.logical.x /\ a.logical.y = b.logical.y
          /\ a.id < b.id
Ordered(found) == SortedBy(found, Before)

\* The first display that is marked as primary, or the first one.
Primary(ds) ==
  LET marked == {i \in DOMAIN ds : ds[i].primary}
  IN ds[IF marked = {} THEN 1 ELSE Min(marked)]

Bounds(d, space) == IF space = "physical" THEN d.physical ELSE d.logical

Clamped(v, low, high) == IF v < low THEN low ELSE IF v > high THEN high ELSE v
Square(n) == n * n
Distance(r, p) ==
  Square(p.x - Clamped(p.x, r.x, r.x + r.w))
    + Square(p.y - Clamped(p.y, r.y, r.y + r.h))

\* The display a point is on, or else the first of the nearest.
Containing(ds, p) ==
  LET on == {i \in DOMAIN ds : Covers(Bounds(ds[i], p.space), p)}
      far(i) == Distance(Bounds(ds[i], p.space), p)
      nearest == {i \in DOMAIN ds :
                    \A j \in DOMAIN ds : far(i) <= far(j)}
  IN ds[Min(IF on # {} THEN on ELSE nearest)]

VirtualBounds(ds, space) ==
  LET rects == {Bounds(ds[i], space) : i \in DOMAIN ds}
      left == Min({r.x : r \in rects})
      top == Min({r.y : r \in rects})
  IN Rect(left, top, Max({r.x + r.w : r \in rects}) - left,
                     Max({r.y + r.h : r \in rects}) - top)

-----------------------------------------------------------------------------
(***************************************************************************)
(* ImageTransform: the region of the physical desktop a frame came from,   *)
(* and num/den pixels of the image for each pixel of the desktop.          *)
(***************************************************************************)
Transform(source, num, den, w, h) ==
  [valid |-> TRUE, source |-> source, num |-> num, den |-> den,
   w |-> w, h |-> h]
NoTransform == [Transform(Rect(0, 0, 0, 0), 1, 1, 0, 0) EXCEPT !.valid = FALSE]

Carried(p, from, to, space) ==
  At(to.x + ((p.x - from.x) * to.w) \div from.w,
     to.y + ((p.y - from.y) * to.h) \div from.h, space)

ToPhysical(ds, image, p) ==
  CASE p.space = "physical" -> p
    [] p.space = "logical" ->
         LET d == Containing(ds, p)
         IN Carried(p, d.logical, d.physical, "physical")
    [] p.space = "image" ->
         At(image.source.x + (p.x * image.den) \div image.num,
            image.source.y + (p.y * image.den) \div image.num, "physical")

FromPhysical(ds, image, p, space) ==
  CASE space = "physical" -> p
    [] space = "logical" ->
         LET d == Containing(ds, p)
         IN Carried(p, d.physical, d.logical, "logical")
    [] space = "image" ->
         At(((p.x - image.source.x) * image.num) \div image.den,
            ((p.y - image.source.y) * image.num) \div image.den, "image")

\* Without a capture a point in image space stays what it is.
Convert(ds, image, p, space) ==
  IF p.space = space \/ (p.space = "image" /\ ~image.valid) THEN p
  ELSE IF space = "image" /\ ~image.valid
       THEN ToPhysical(ds, image, p)
       ELSE FromPhysical(ds, image, ToPhysical(ds, image, p), space)

ConvertRect(ds, image, r, from, to) ==
  LET tl == Convert(ds, image, At(r.x, r.y, from), to)
      br == Convert(ds, image, At(r.x + r.w, r.y + r.h, from), to)
  IN Rect(tl.x, tl.y, br.x - tl.x, br.y - tl.y)

\* Session::resolve: the logical point, unless it is more than Slack outside
\* the rectangle around all displays, or no capture gives it a meaning.
Slack == 2
Resolvable(ds, image, p) ==
  LET all == VirtualBounds(ds, "logical")
      at == Convert(ds, image, p, "logical")
  IN /\ p.space = "image" => image.valid
     /\ all.x - Slack <= at.x /\ at.x <= all.x + all.w + Slack
     /\ all.y - Slack <= at.y /\ at.y <= all.y + all.h + Slack
Resolve(ds, image, p) == Convert(ds, image, p, "logical")
=============================================================================
