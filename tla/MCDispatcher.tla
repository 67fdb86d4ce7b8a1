---------------------------- MODULE MCDispatcher ----------------------------
(***************************************************************************)
(* Small desktops of each system: one monitor, two that leave a gap beside *)
(* the lower one, two with different scales, one to the left of the first. *)
(* The content has five items, three of them interactive, two in view, so  *)
(* that a scroll can leap over one.                                        *)
(***************************************************************************)
EXTENDS Dispatcher

Monitor(id, x, y, w, h, scale) ==
  [id |-> id, primary |-> id = 1, rect |-> Rect(x, y, w, h), scale |-> scale]

MCDesktops ==
  [linux |-> {{Monitor(1, 0, 0, 16, 8, 1)},
              {Monitor(1, 0, 0, 16, 8, 1), Monitor(2, 16, 0, 16, 16, 1)}},
   windows |-> {{Monitor(1, 0, 0, 16, 8, 2), Monitor(2, 16, 0, 16, 8, 2)},
                {Monitor(1, 0, 0, 16, 8, 2), Monitor(2, 16, 0, 16, 8, 1)},
                {Monitor(1, 0, 0, 16, 8, 1), Monitor(2, 16, 0, 16, 8, 2)}},
   macos |-> {{Monitor(1, 0, 0, 8, 4, 2)},
              {Monitor(1, 0, 0, 8, 4, 2), Monitor(2, 8, 0, 8, 4, 1)},
              {Monitor(1, 0, 0, 8, 4, 2), Monitor(2, -8, 0, 8, 4, 1)}}]

MCWindow == Rect(4, 0, 8, 4)
MCSlots == <<At(2, 1, "logical"), At(2, 3, "logical")>>

\* Options of a capture.
Of(from, index, space, max, encodes) ==
  [from |-> from, index |-> index, region |-> Rect(2, 0, 4, 4),
   space |-> space, max |-> max, encodes |-> encodes]
All == Of("all", 0, "logical", 8, TRUE)
Second == Of("display", 1, "logical", 0, TRUE)
Window == Of("window", 0, "logical", 0, TRUE)
Part == Of("region", 0, "logical", 0, TRUE)
Zoom == Of("region", 0, "image", 0, TRUE)
Webp == Of("all", 0, "logical", 0, FALSE)

Do(what) == [does |-> what]
Shoot(o) == [does |-> "capture", options |-> o]
Look1(o, vision) == [does |-> "snapshot", options |-> o, vision |-> vision]
Click(t) == [does |-> "click", target |-> t]
OnImage(x, y) == [by |-> "at", at |-> At(x, y, "image")]
Until(item, ticks) == [does |-> "wait_for", item |-> item, timeout |-> ticks]
Seek(item, pid) == [does |-> "find", item |-> item, pid |-> pid, max |-> 2]
Phone(fits) == [does |-> "device", options |-> Part, fits |-> fits]

One(step) == <<step>>

Everywhere ==
  {One(Shoot(Second)), One(Shoot(Part)),
   <<Shoot(All), Click(OnImage(4, 2))>>,
   <<Shoot(All), Shoot(Zoom)>>,
   <<Shoot(All), Phone(2)>>, One(Phone(0)),
   <<Shoot(All), Shoot(Webp)>>}
WithTree ==
  {One(Look1(All, TRUE)), <<Do("elements"), Click(ByLabel(1))>>}
MCPlans ==
  [linux |-> Everywhere \cup {One(Shoot(Window)), One(Look1(All, TRUE)),
                              One(Until(4, 2))},
   windows |-> Everywhere \cup WithTree \cup {One(Shoot(Window)),
                              One(Until(4, 3))},
   macos |-> Everywhere \cup WithTree \cup
             {One(Look1(All, FALSE)), One(Look1(Webp, TRUE)),
              <<Do("displays"), Do("scroll")>>, <<Until(4, 3), Do("nameless")>>,
              One(Seek(5, TRUE)), One(Seek(6, TRUE)),
              <<[does |-> "wait", ticks |-> 2], Shoot(All),
                      Do("nameless")>>,
              One(Seek(4, FALSE))}]
=============================================================================
