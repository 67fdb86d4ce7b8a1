-------------------------- MODULE DispatcherProofs --------------------------
(***************************************************************************)
(* Proofs about Dispatcher: what image space and the labels mean between   *)
(* calls, where points of the image land, what wait_for may overlook and   *)
(* what find has looked at, for any systems, desktops, contents and calls, *)
(* and any number of each.                                                 *)
(***************************************************************************)
EXTENDS Dispatcher, FiniteSetTheorems, NaturalsInduction, TLAPS

LEMMA WaitingPlaces == Waiting = {"test", "poll", "nap"}
BY DEF Waiting
LEMMA SearchingPlaces == Searching = {"look", "regions", "scroll", "missed"}
BY DEF Searching

-----------------------------------------------------------------------------
(***************************************************************************)
(* Image space.  Inside a call it is that of the image the call is about   *)
(* to return, if it has one, and else that of the last one returned.       *)
(***************************************************************************)
ImageInv ==
  /\ ~lost => IF shot.valid THEN image = shot
             ELSE handed.valid => image = handed
  /\ pc = "idle" => ~shot.valid

LEMMA NoImage == ~NoTransform.valid
BY DEF NoTransform, Transform

\* A step that neither captures nor replies.
LEMMA ImageStays ==
  ASSUME ImageInv, UNCHANGED <<image, shot, handed, lost>>,
         pc' = "idle" => pc = "idle"
  PROVE  ImageInv'
BY DEF ImageInv

\* A step that returns without an image.
LEMMA PlainlyStays ==
  ASSUME ImageInv, NEW ok, Plainly(ok), UNCHANGED image
  PROVE  ImageInv'
BY ImageStays, NoImage DEF Plainly, Returns, Onward

LEMMA GoesStays ==
  ASSUME ImageInv, NEW to, Goes(to), to # "idle", UNCHANGED image
  PROVE  ImageInv'
BY ImageStays DEF Goes

\* What a capture publishes is the transform of an image.
LEMMA CaptureIsValid ==
  ASSUME NEW o, CaptureDone(o) PROVE image'.valid
<1>1. PICK source : image' = Shrunk(source, o.max)
  BY DEF CaptureDone
<1> QED BY <1>1 DEF Shrunk, Transform

\* Nor is it less of one for being made smaller.
LEMMA ResizedIsValid ==
  ASSUME NEW o, CaptureDone(o), NEW fits PROVE Resized(image', fits).valid
<1>1. PICK source : image' = Shrunk(source, o.max)
  BY DEF CaptureDone
<1>2. /\ image'.valid
      /\ DOMAIN image' = {"valid", "source", "num", "den", "w", "h"}
  BY <1>1 DEF Shrunk, Transform
<1> QED BY <1>2 DEF Resized

\* What an earlier step of the call took is dropped.
LEMMA DropsStays ==
  ASSUME ImageInv, NEW ok, Drops(ok), pc' # "idle" PROVE ImageInv'
<1>1. image' = image /\ handed' = handed /\ ~shot'.valid
  BY NoImage DEF Drops, targetVars
<1>2. ~lost' => ~lost /\ ~shot.valid
  BY Zenon DEF Drops
<1> QED BY <1>1, <1>2 DEF ImageInv

LEMMA ImageKept == ImageInv /\ [Next]_vars => ImageInv'
<1> SUFFICES ASSUME ImageInv, [Next]_vars PROVE ImageInv'
  OBVIOUS
<1>1. CASE Ask
  BY <1>1, ImageStays DEF Ask, targetVars
<1>2. CASE Nameless
  BY <1>2, DropsStays DEF Nameless
<1>3. CASE ListDisplays
  BY <1>3, PlainlyStays DEF ListDisplays, DisplaysListed
<1>4. ASSUME NoCapture PROVE ImageInv'
  BY <1>4, PlainlyStays DEF NoCapture, CaptureFails
<1>5. ASSUME Unencoded PROVE ImageInv'
  BY <1>5 DEF Unencoded, Returns, Onward, ImageInv
<1>6. CASE Capture
  <2>1. CASE Taken /\ Returns(TRUE, image')
    BY <2>1, CaptureIsValid DEF Taken, Returns, Onward, ImageInv
  <2> QED BY <1>4, <1>5, <1>6, <2>1 DEF Capture
<1>7. CASE Snapshot
  <2>1. CASE ~Step.vision /\ Goes("tree") /\ UNCHANGED targetVars
    BY <2>1, GoesStays DEF targetVars
  <2>2. CASE Taken /\ pc' = "tree" /\ shot' = image' /\ UNCHANGED handed
    BY <2>2, CaptureIsValid DEF Taken, ImageInv
  <2> QED BY <1>4, <1>5, <1>7, <2>1, <2>2 DEF Snapshot
<1>8. CASE ReadTree
  BY <1>8, PlainlyStays DEF ReadTree
<1>9. CASE Elements
  BY <1>9, PlainlyStays DEF Elements
<1>10. CASE Point
  BY <1>10, PlainlyStays DEF Point, targetVars
<1>11. CASE Scroll
  BY <1>11, PlainlyStays DEF Scroll, program
<1>12. CASE Wait
  BY <1>12, PlainlyStays DEF Wait
<1>13. CASE WaitFor \/ WaitTest \/ WaitPoll \/ WaitOver
  BY <1>13, PlainlyStays, GoesStays
     DEF WaitFor, WaitTest, WaitPoll, WaitOver, targetVars
<1>14. CASE Tick
  BY <1>14, ImageStays DEF Tick, callVars
<1>15. CASE Find \/ Look \/ Regions \/ FindScrolls \/ Missed
  BY <1>15, PlainlyStays, GoesStays
     DEF Find, Look, Regions, FindScrolls, Missed, targetVars
<1>16. CASE Settle \/ Move
  BY <1>16, ImageStays DEF Settle, Move, program, callVars
<1>17. CASE Reply
  BY <1>17, NoImage DEF Reply, ImageInv, targetVars
<1>18. CASE Plug \/ Think
  BY <1>18, ImageStays DEF Plug, Think, program, callVars
<1>19. CASE UNCHANGED vars
  BY <1>19, ImageStays DEF vars, targetVars, callVars
<1>20. CASE DeviceShot
  <2>1. CASE Plainly(FALSE) /\ UNCHANGED program
    BY <2>1, PlainlyStays DEF program
  <2>2. CASE OfRegion
    <3> DEFINE picture == Resized(image', Step.fits)
    <3>1. picture.valid
      BY <2>2, ResizedIsValid DEF OfRegion
    <3> HIDE DEF picture
    <3>2. CASE lost' = (picture # image') /\ Returns(TRUE, picture)
      <4>1. shot' = picture /\ pc' # "idle"
        BY <3>1, <3>2 DEF Returns, Onward
      <4>2. ~lost' => image' = picture
        BY <3>2, Zenon
      <4> QED BY <3>1, <4>1, <4>2 DEF ImageInv
    <3>3. CASE lost' = TRUE /\ Returns(FALSE, NoTransform)
      BY <3>3 DEF Returns, Onward, ImageInv
    <3> QED BY <2>2, <3>2, <3>3 DEF OfRegion, picture
  <2>3. CASE Drops(TRUE) /\ pc' = Onward(TRUE)
    BY <2>3, DropsStays DEF Onward
  <2> QED BY <1>20, <2>1, <2>2, <2>3 DEF DeviceShot
<1> QED BY
     <1>1, <1>2, <1>3, <1>6, <1>7, <1>8, <1>9, <1>10, <1>11, <1>12, <1>13,
     <1>14, <1>15, <1>16, <1>17, <1>18, <1>19, <1>20
     DEF Next, Running

(***************************************************************************)
(* Between calls image space is that of the last image of the host's       *)
(* screen that a reply carried, for any batches of captures, crops,        *)
(* screenshots of devices and failures, but for a capture whose image was  *)
(* never returned as it was taken: not at all, or made smaller by the      *)
(* device tool (do_capture, run_batch, act_device).                        *)
(***************************************************************************)
THEOREM ImageSpaceIsKept == Spec => []ImageSpaceIsTheHandedImage
<1>1. Init => ImageInv
  BY NoImage DEF Init, ImageInv
<1>2. ImageInv /\ [Next]_vars => ImageInv'
  BY ImageKept
<1>3. ImageInv => ImageSpaceIsTheHandedImage
  BY DEF ImageInv, ImageSpaceIsTheHandedImage
<1> QED BY <1>1, <1>2, <1>3, PTL DEF Spec

-----------------------------------------------------------------------------
(***************************************************************************)
(* Where the content is scrolled to stays on the content.                  *)
(***************************************************************************)
TopInv == top \in 0 .. LastTop

LEMMA SizesTyped == LastTop \in Nat /\ Len(Slots) \in Nat
BY ContentAssumption DEF LastTop

LEMMA TopKept == TopInv /\ [Next]_vars => TopInv'
<1> SUFFICES ASSUME TopInv, [Next]_vars PROVE TopInv'
  OBVIOUS
<1>1. Scrolled(top) \subseteq 0 .. LastTop
  BY SizesTyped DEF TopInv, Scrolled
<1>2. CASE UNCHANGED top
  BY <1>2 DEF TopInv, LastTop
<1>3. CASE Scroll \/ Settle \/ Move
  BY <1>1, <1>2, <1>3 DEF Scroll, Settle, Move, TopInv, LastTop
<1>4. CASE Ask \/ Nameless \/ ListDisplays \/ Capture \/ Snapshot \/ ReadTree
           \/ Elements \/ Point \/ Wait \/ DeviceShot
  BY <1>2, <1>4
     DEF Ask, Nameless, Drops, DeviceShot, OfRegion, ListDisplays,
         DisplaysListed, Capture, Snapshot, ReadTree, Elements, Point, Wait, Atomic, NoCapture, Unencoded, Taken, targetVars,
         user
<1>5. CASE WaitFor \/ WaitTest \/ WaitPoll \/ WaitOver \/ Tick
  BY <1>2, <1>5
     DEF WaitFor, WaitTest, WaitPoll, WaitOver, Tick, targetVars, user
<1>6. CASE Find \/ Look \/ Regions \/ FindScrolls \/ Missed \/ Reply \/ Plug \/ Think
  BY <1>2, <1>6
     DEF Find, Look, Regions, FindScrolls, Missed, Reply, Plug, Think,
         targetVars, user
<1>7. CASE UNCHANGED vars
  BY <1>2, <1>7 DEF vars, targetVars
<1> QED BY <1>3, <1>4, <1>5, <1>6, <1>7 DEF Next, Running

LEMMA TopStarts == Init => TopInv
BY SizesTyped DEF Init, TopInv

-----------------------------------------------------------------------------
(***************************************************************************)
(* Labels.  Each stands for an item that was in view when the tree was     *)
(* read, and for the point at which it was.                                *)
(***************************************************************************)
LabelInv ==
  /\ DOMAIN cache = DOMAIN named.items
  /\ \A label \in DOMAIN cache :
       /\ named.items[label] \in named.top + 1 .. named.top + Len(Slots)
       /\ cache[label] = Slots[named.items[label] - named.top]

LEMMA LabelsStay ==
  ASSUME LabelInv, UNCHANGED <<cache, named>> PROVE LabelInv'
BY DEF LabelInv

\* The item a label is given to is in view.
LEMMA LabelledIsVisible ==
  ASSUME NEW label \in Range(Labels) PROVE Labelled(label) \in Visible
<1>1. \E i \in DOMAIN Labels : Labels[i] = label
  BY DEF Range
<1>2. Labelled(label) \in DOMAIN Labels
  BY <1>1 DEF Labelled
<1> QED BY <1>2 DEF Labels

LEMMA TreesKeep ==
  ASSUME LabelInv, TreeTaken \/ TreeFails PROVE LabelInv'
<1>1. CASE TreeFails
  BY <1>1, LabelsStay DEF TreeFails
<1>2. CASE TreeTaken
  <2>1. cache' = NewCache /\ named' = NewNames
    BY <1>2 DEF TreeTaken
  <2>2. DOMAIN NewCache = Range(Labels) /\ DOMAIN NewNames.items = Range(Labels)
        /\ NewNames.top = top
    BY DEF NewCache, NewNames
  <2>3. ASSUME NEW label \in Range(Labels)
        PROVE  /\ NewNames.items[label] \in top + 1 .. top + Len(Slots)
               /\ NewCache[label] = Slots[NewNames.items[label] - top]
    <3>1. NewNames.items[label] = Labelled(label)
      BY DEF NewNames
    <3>2. NewCache[label] = Slots[Labelled(label) - top]
      BY DEF NewCache, PointOf
    <3> QED BY <3>1, <3>2, LabelledIsVisible DEF Visible
  <2> QED BY <2>1, <2>2, <2>3 DEF LabelInv
<1> QED BY <1>1, <1>2

LEMMA LabelsKept == LabelInv /\ [Next]_vars => LabelInv'
<1> SUFFICES ASSUME LabelInv, [Next]_vars PROVE LabelInv'
  OBVIOUS
<1>1. CASE ReadTree \/ Elements
  BY <1>1, TreesKeep DEF ReadTree, Elements
<1>2. CASE Ask \/ Nameless \/ ListDisplays \/ Capture \/ Snapshot \/ Point
           \/ Scroll \/ Wait \/ Reply \/ DeviceShot
  BY <1>2, LabelsStay
     DEF Ask, Nameless, Drops, DeviceShot, OfRegion, ListDisplays,
         DisplaysListed, Capture, Snapshot, Point,
         Scroll, Wait, Reply, NoCapture, Unencoded, Taken, targetVars, program
<1>3. CASE WaitFor \/ WaitTest \/ WaitPoll \/ WaitOver \/ Tick
  BY <1>3, LabelsStay
     DEF WaitFor, WaitTest, WaitPoll, WaitOver, Tick, targetVars
<1>4. CASE Find \/ Look \/ Regions \/ FindScrolls \/ Missed \/ Settle
  BY <1>4, LabelsStay
     DEF Find, Look, Regions, FindScrolls, Missed, Settle, targetVars, program
<1>5. CASE Plug \/ Move \/ Think \/ UNCHANGED vars
  BY <1>5, LabelsStay DEF Plug, Move, Think, vars, targetVars, program
<1> QED BY <1>1, <1>2, <1>3, <1>4, <1>5 DEF Next, Running

(***************************************************************************)
(* A label that is accepted is one of the last tree, and as long as the    *)
(* content stays where it was a call by it hits the item it named and no   *)
(* other, for any contents and any points at which items are shown         *)
(* (resolve_target, assign_labels, act_snapshot, act_elements).            *)
(***************************************************************************)
THEOREM LabelsAreTrue == Spec => []LabelsNameTheLastTree
<1>1. Init => LabelInv
  BY DEF Init, LabelInv
<1>2. LabelInv /\ TopInv => LabelsNameTheLastTree
  <2> SUFFICES ASSUME LabelInv, TopInv, NEW label \in 0 .. Items,
                      Reachable(ByLabel(label))
               PROVE  /\ label \in DOMAIN named.items
                      /\ named.top = top =>
                           ItemsAt(ResolvedTarget(ByLabel(label)))
                             = {named.items[label]}
    BY DEF LabelsNameTheLastTree
  <2> DEFINE item == named.items[label]
  <2>1. label \in DOMAIN cache
    BY DEF Reachable, HasLabel, ByLabel
  <2>2. label \in DOMAIN named.items
    BY <2>1 DEF LabelInv
  <2>3. ASSUME named.top = top
        PROVE  ItemsAt(ResolvedTarget(ByLabel(label))) = {item}
    <3>1. item \in Visible /\ cache[label] = PointOf(item)
      BY <2>1, <2>3 DEF LabelInv, Visible, PointOf
    <3>2. \A i \in Visible : i - top \in 1 .. Len(Slots)
      BY SizesTyped DEF TopInv, Visible
    <3>3. PointOf(item).space = "logical"
      BY <3>1, <3>2, ContentAssumption DEF PointOf
    <3>4. ResolvedTarget(ByLabel(label)) = PointOf(item)
      BY <3>1, <3>3
         DEF ResolvedTarget, Resolve, Convert, Target, ByLabel
    <3>5. ASSUME NEW i \in Visible, PointOf(i) = PointOf(item)
          PROVE  i = item
      <4>1. i - top = item - top
        BY <3>1, <3>2, <3>5, ContentAssumption DEF PointOf
      <4> QED BY <4>1, <3>1, SizesTyped DEF TopInv, Visible
    <3> QED BY <3>1, <3>4, <3>5 DEF ItemsAt
  <2> QED BY <2>2, <2>3
<1> QED BY <1>1, <1>2, TopStarts, TopKept, LabelsKept, PTL DEF Spec

-----------------------------------------------------------------------------
(***************************************************************************)
(* wait_for.  What is waited for has been there only since the last poll   *)
(* that missed it, and a nap lasts no longer than an interval and what the *)
(* poll has left.                                                          *)
(***************************************************************************)
Clock == /\ DOMAIN poll = {"left", "nap", "slow", "held", "blind"}
         /\ poll.nap \in Nat /\ poll.slow \in 0 .. PollTime
         /\ poll.held \in Nat
WaitInv ==
  /\ Clock
  /\ pc \in Waiting /\ poll.held > 0 => Found
  /\ ~poll.blind =>
       /\ pc = "test" => poll.held <= Interval + PollTime
       /\ pc = "poll" => poll.held + poll.slow <= Interval + 2 * PollTime
       /\ pc = "nap" => poll.held + poll.nap <= Interval + PollTime

LEMMA FoundStays ==
  ASSUME UNCHANGED <<plan, done, top>> PROVE Found' = Found
BY DEF Found, Step, Visible

\* A step outside wait_for.
LEMMA OutsideKeeps ==
  ASSUME WaitInv, UNCHANGED poll, pc' \notin Waiting PROVE WaitInv'
BY DEF WaitInv, Clock, Waiting

\* A step of others, inside or outside.
LEMMA WaitStays ==
  ASSUME WaitInv, UNCHANGED <<poll, pc, plan, done, top>> PROVE WaitInv'
BY FoundStays DEF WaitInv, Clock

\* A step that moves the content.
LEMMA WatchedKeeps ==
  ASSUME WaitInv, Watched, UNCHANGED pc PROVE WaitInv'
<1>1. CASE pc \in Waiting /\ ~Found'
  <2>1. poll' = [poll EXCEPT !.held = 0]
    BY <1>1 DEF Watched
  <2> QED BY <2>1, TimesAssumption DEF WaitInv, Clock
<1>2. CASE ~(pc \in Waiting /\ ~Found')
  <2>1. poll' = [poll EXCEPT !.held = @]
    BY <1>2 DEF Watched
  <2> QED BY <1>2, <2>1, TimesAssumption DEF WaitInv, Clock
<1> QED BY <1>1, <1>2

LEMMA QuietClock ==
  /\ DOMAIN Quiet = {"left", "nap", "slow", "held", "blind"}
  /\ Quiet.nap = 0 /\ Quiet.slow = 0 /\ Quiet.held = 0 /\ ~Quiet.blind
BY DEF Quiet

\* wait_for returns.
LEMMA ReturnKeeps ==
  ASSUME NEW ok, Plainly(ok), poll' = Quiet PROVE WaitInv'
BY QuietClock, TimesAssumption
   DEF Plainly, Returns, Onward, WaitInv, Clock, Waiting

LEMMA WaitStarts == Init => WaitInv
BY QuietClock, TimesAssumption, WaitingPlaces DEF Init, WaitInv, Clock

LEMMA WaitKept == WaitInv /\ [Next]_vars => WaitInv'
<1> SUFFICES ASSUME WaitInv, [Next]_vars PROVE WaitInv'
  OBVIOUS
<1> USE WaitingPlaces
<1>1. CASE Ask \/ Nameless \/ DeviceShot \/ Reply
  <2>1. UNCHANGED poll /\ pc' \in {"step", "reply", "idle"}
    BY <1>1
       DEF Ask, Nameless, Drops, DeviceShot, OfRegion, Plainly, Returns, Onward,
           Atomic, Reply
  <2> QED BY <2>1, OutsideKeeps
<1>2. CASE ListDisplays \/ Capture \/ Snapshot \/ ReadTree \/ Elements
           \/ Point \/ Scroll \/ Wait
  <2>1. ASSUME NEW ok, NEW picture, Returns(ok, picture)
        PROVE  pc' \in {"step", "reply"}
    BY <2>1 DEF Returns, Onward
  <2>2. pc' \in {"step", "reply", "tree"}
    <3>1. CASE Capture \/ Snapshot
      BY <2>1, <3>1
         DEF Capture, Snapshot, NoCapture, Unencoded, Plainly, Goes
    <3>2. CASE ListDisplays \/ ReadTree \/ Elements
      BY <2>1, <3>2 DEF ListDisplays, ReadTree, Elements, Plainly
    <3>3. CASE Point \/ Scroll \/ Wait
      BY <2>1, <3>3 DEF Point, Scroll, Wait, Plainly
    <3> QED BY <1>2, <3>1, <3>2, <3>3
  <2>3. UNCHANGED poll
    BY <1>2
       DEF ListDisplays, Capture, Snapshot, ReadTree, Elements, Point, Scroll,
           Wait, Atomic, NoCapture, Unencoded, Taken
  <2> QED BY <2>2, <2>3, OutsideKeeps
<1>3. CASE WaitFor
  <2>1. poll' = [Quiet EXCEPT !.left = Step.timeout] /\ pc' = "test"
    BY <1>3 DEF WaitFor, Goes
  <2> QED BY <2>1, QuietClock, TimesAssumption DEF WaitInv, Clock
<1>4. CASE WaitTest
  <2>1. CASE poll' = [poll EXCEPT !.slow = PollTime] /\ Goes("poll")
             /\ UNCHANGED targetVars
    <3>1. Found' = Found
      BY <2>1, FoundStays DEF Goes, targetVars
    <3> QED BY <1>4, <2>1, <3>1, TimesAssumption
            DEF WaitTest, Goes, WaitInv, Clock
  <2> QED BY <1>4, <2>1, ReturnKeeps DEF WaitTest
<1>5. CASE WaitPoll
  <2>1. CASE TreeReadable /\ Found /\ Plainly(TRUE) /\ poll' = Quiet
    BY <2>1, ReturnKeeps
  <2>2. CASE /\ TreeReadable => ~Found
             /\ Goes("nap")
             /\ poll' = [poll EXCEPT !.nap = Interval + poll.slow,
                                    !.blind = ~TreeReadable]
    <3>1. Found' = Found
      BY <1>5, <2>2, FoundStays DEF WaitPoll, Goes, targetVars
    <3>2. ~poll'.blind => poll.held = 0
      <4>1. CASE TreeReadable
        BY <1>5, <2>2, <4>1 DEF WaitPoll, WaitInv, Clock
      <4>2. CASE ~TreeReadable
        <5>1. poll'.blind = ~TreeReadable
          BY <2>2 DEF WaitInv, Clock
        <5> QED BY <4>2, <5>1
      <4> QED BY <4>1, <4>2
    <3>3. /\ DOMAIN poll' = DOMAIN poll /\ poll'.nap = Interval + poll.slow
          /\ poll'.slow = poll.slow /\ poll'.held = poll.held /\ pc' = "nap"
      BY <2>2 DEF Goes, WaitInv, Clock
    <3>4. /\ Clock' /\ pc' = "nap"
          /\ ~poll'.blind => poll'.held + poll'.nap <= Interval + PollTime
      BY <3>2, <3>3, TimesAssumption DEF WaitInv, Clock
    <3>5. poll'.held > 0 => Found'
      BY <1>5, <3>1, <3>3 DEF WaitPoll, WaitInv
    <3> QED BY <3>4, <3>5 DEF WaitInv
  <2>3. CASE /\ Goes("nap")
             /\ poll' = [poll EXCEPT !.nap = Interval + poll.slow,
                                    !.blind = TRUE]
    <3>1. Found' = Found
      BY <1>5, <2>3, FoundStays DEF WaitPoll, Goes, targetVars
    <3> QED BY <1>5, <2>3, <3>1, TimesAssumption
            DEF WaitPoll, Goes, WaitInv, Clock
  <2> QED BY <1>5, <2>1, <2>2, <2>3 DEF WaitPoll
<1>6. CASE WaitOver
  <2>1. Found' = Found
    BY <1>6, FoundStays DEF WaitOver, Goes, targetVars
  <2> QED BY <1>6, <2>1, TimesAssumption DEF WaitOver, Goes, WaitInv, Clock
<1>7. CASE Tick
  <2>1. Found' = Found /\ pc' = pc
    BY <1>7, FoundStays DEF Tick, user, callVars
  <2>2. CASE /\ pc = "nap" /\ poll.nap > 0
             /\ poll' = [poll EXCEPT !.nap = @ - 1, !.left = Max({0, @ - 1}),
                                    !.held = IF Found THEN @ + 1 ELSE 0]
    BY <2>1, <2>2, TimesAssumption DEF WaitInv, Clock
  <2>3. CASE /\ pc = "poll" /\ poll.slow > 0
             /\ poll' = [poll EXCEPT !.slow = @ - 1, !.left = Max({0, @ - 1}),
                                    !.held = IF Found THEN @ + 1 ELSE 0]
    BY <2>1, <2>3, TimesAssumption DEF WaitInv, Clock
  <2> QED BY <1>7, <2>2, <2>3 DEF Tick
<1>8. CASE Find \/ Look \/ Regions \/ FindScrolls \/ Missed
  BY <1>8, OutsideKeeps
     DEF Find, Look, Regions, FindScrolls, Missed, Plainly, Returns, Onward,
         Goes
<1>9. CASE Settle \/ Move
  BY <1>9, WatchedKeeps DEF Settle, Move, callVars
<1>10. CASE Plug \/ Think \/ UNCHANGED vars
  BY <1>10, WaitStays DEF Plug, Think, user, callVars, vars, targetVars
<1> QED BY <1>1, <1>2, <1>3, <1>4, <1>5, <1>6, <1>7, <1>8, <1>9, <1>10
        DEF Next, Running

(***************************************************************************)
(* While wait_for runs, what it waits for has not been there for longer    *)
(* than a nap and two polls, whatever the intervals are and however long   *)
(* it waits, unless a tree could not be read (act_wait_for).               *)
(***************************************************************************)
THEOREM WaitsOverlookLittle == Spec => []NothingIsOverlookedForLong
<1>1. Init => WaitInv
  BY WaitStarts
<1>2. WaitInv => NothingIsOverlookedForLong
  BY TimesAssumption, WaitingPlaces
     DEF WaitInv, Clock, NothingIsOverlookedForLong
<1> QED BY <1>1, <1>2, WaitKept, PTL DEF Spec

-----------------------------------------------------------------------------
(***************************************************************************)
(* find.  It has looked at all from where it began to where the content    *)
(* is, but for what the last scroll has brought up.                        *)
(***************************************************************************)
SearchFields ==
  {"scrolls", "last", "from", "seen", "still", "leapt", "pending", "end"}
SearchInv ==
  /\ DOMAIN search = SearchFields
  /\ search.pending => pc = "look"
  /\ search.end => pc \notin {"look", "regions", "scroll"}
  /\ pc \in Searching /\ search.still /\ ~search.leapt =>
       /\ search.from \in 0 .. top
       /\ search.from + 1 .. top \subseteq search.seen
       /\ pc # "look" \/ search.pending => Visible \subseteq search.seen
  /\ pc = "missed" /\ search.end /\ search.still => top = LastTop

\* A step outside find.
LEMMA BesideKeeps ==
  ASSUME SearchInv, UNCHANGED search, pc # "look", pc' \notin Searching
  PROVE  SearchInv'
BY DEF SearchInv, Searching

LEMMA SearchStays ==
  ASSUME SearchInv, UNCHANGED <<search, pc, top>> PROVE SearchInv'
BY DEF SearchInv, LastTop, Visible

\* find returns.
LEMMA EndKeeps ==
  ASSUME NEW ok, Plainly(ok), Ends, ~search.pending PROVE SearchInv'
<1>1. pc' \in {"step", "reply"}
  BY DEF Plainly, Returns, Onward
<1>2. /\ DOMAIN search' = SearchFields
      /\ ~search'.pending /\ ~search'.end
  BY DEF Ends, NoSearch, SearchFields
<1> QED BY <1>1, <1>2 DEF SearchInv, Searching

LEMMA SearchKept ==
  ASSUME SettlesInTime
  PROVE  SearchInv /\ TopInv /\ [Next]_vars => SearchInv'
<1> SUFFICES ASSUME SearchInv, TopInv, [Next]_vars PROVE SearchInv'
  OBVIOUS
<1> USE SearchingPlaces
<1>1. CASE Ask \/ Nameless \/ DeviceShot \/ Reply
  <2>1. UNCHANGED search /\ pc # "look" /\ pc' \in {"step", "reply", "idle"}
    BY <1>1
       DEF Ask, Nameless, Drops, DeviceShot, OfRegion, Plainly, Returns, Onward,
           Atomic, Reply, Doing
  <2> QED BY <2>1, BesideKeeps
<1>2. CASE ListDisplays \/ Capture \/ Snapshot \/ ReadTree \/ Elements
           \/ Point \/ Scroll \/ Wait
  <2>1. ASSUME NEW ok, NEW picture, Returns(ok, picture)
        PROVE  pc' \in {"step", "reply"}
    BY <2>1 DEF Returns, Onward
  <2>2. pc \in {"step", "tree"} /\ pc' \in {"step", "reply", "tree"}
    <3>1. CASE Capture \/ Snapshot
      BY <2>1, <3>1
         DEF Capture, Snapshot, NoCapture, Unencoded, Plainly, Goes, Doing
    <3>2. CASE ListDisplays \/ ReadTree \/ Elements
      BY <2>1, <3>2 DEF ListDisplays, ReadTree, Elements, Plainly, Doing
    <3>3. CASE Point \/ Scroll \/ Wait
      BY <2>1, <3>3 DEF Point, Scroll, Wait, Plainly, Doing
    <3> QED BY <1>2, <3>1, <3>2, <3>3
  <2>3. UNCHANGED search
    BY <1>2
       DEF ListDisplays, Capture, Snapshot, ReadTree, Elements, Point, Scroll,
           Wait, Atomic, NoCapture, Unencoded, Taken
  <2> QED BY <2>2, <2>3, BesideKeeps
<1>3. CASE WaitFor \/ WaitTest \/ WaitPoll \/ WaitOver
  <2>1. /\ UNCHANGED search /\ pc \in {"step", "test", "poll", "nap"}
        /\ pc' \in {"step", "reply", "test", "poll", "nap"}
    BY <1>3
       DEF WaitFor, WaitTest, WaitPoll, WaitOver, Plainly, Returns, Onward,
           Goes, Doing
  <2> QED BY <2>1, BesideKeeps
<1>4. CASE Tick \/ Plug \/ Think \/ UNCHANGED vars
  BY <1>4, SearchStays
     DEF Tick, Plug, Think, user, callVars, vars, targetVars
<1>5. CASE Find
  <2>1. /\ search' = [NoSearch EXCEPT !.last = -2, !.from = top,
                                      !.pending = search.pending]
        /\ pc = "step" /\ pc' = "look" /\ top' = top
    BY <1>5 DEF Find, Goes, Doing, targetVars
  <2>2. ~search.pending
    BY <2>1 DEF SearchInv
  <2>3. /\ DOMAIN search' = SearchFields
        /\ ~search'.pending /\ ~search'.end
        /\ search'.from = top
    BY <2>1, <2>2 DEF NoSearch, SearchFields
  <2>4. top + 1 .. top = {} /\ top \in 0 .. top
    BY SizesTyped DEF TopInv
  <2> QED BY <2>1, <2>3, <2>4 DEF SearchInv
<1>6. CASE Look
  <2>1. ~search.pending /\ pc = "look" /\ top' = top
    BY <1>6 DEF Look, targetVars
  <2>2. ASSUME search' = [search EXCEPT !.seen = @ \cup Visible],
               Goes("missed") \/ Goes("regions")
        PROVE  SearchInv'
    <3>1. /\ DOMAIN search' = DOMAIN search
          /\ search'.pending = search.pending /\ search'.end = search.end
          /\ search'.still = search.still /\ search'.leapt = search.leapt
          /\ search'.from = search.from
          /\ search'.seen = search.seen \cup Visible
      BY <2>2 DEF SearchInv, SearchFields
    <3>2. Visible' \subseteq search'.seen
      BY <2>1, <3>1 DEF Visible
    <3>3. pc' \in {"missed", "regions"}
      BY <2>2 DEF Goes
    <3> QED BY <2>1, <3>1, <3>2, <3>3 DEF SearchInv
  <2> QED BY <1>6, <2>1, <2>2, EndKeeps DEF Look
<1>7. CASE Regions
  <2>1. /\ pc = "regions" /\ top' = top /\ ~search.pending
        /\ ~search.end
    BY <1>7 DEF Regions, targetVars, SearchInv
  <2>2. ASSUME Goes("missed"), search' = [search EXCEPT !.end = (top = LastTop)]
        PROVE  SearchInv'
    <3>1. /\ DOMAIN search' = DOMAIN search
          /\ search'.pending = search.pending /\ search'.end = (top = LastTop)
          /\ search'.still = search.still /\ search'.leapt = search.leapt
          /\ search'.from = search.from /\ search'.seen = search.seen
      BY <2>2 DEF SearchInv, SearchFields
    <3> QED BY <2>1, <2>2, <3>1 DEF SearchInv, Goes, LastTop, Visible
  <2>3. ASSUME Goes("scroll"), NEW position,
               search' = [search EXCEPT !.last = position]
        PROVE  SearchInv'
    <3>1. /\ DOMAIN search' = DOMAIN search
          /\ search'.pending = search.pending /\ search'.end = search.end
          /\ search'.still = search.still /\ search'.leapt = search.leapt
          /\ search'.from = search.from /\ search'.seen = search.seen
      BY <2>3 DEF SearchInv, SearchFields
    <3> QED BY <2>1, <2>3, <3>1 DEF SearchInv, Goes, Visible
  <2> QED BY <1>7, <2>2, <2>3 DEF Regions
<1>8. CASE FindScrolls
  <2>1. pc = "scroll" /\ top' = top /\ ~search.pending /\ ~search.end
    BY <1>8 DEF FindScrolls, targetVars, SearchInv
  <2>2. ASSUME Goes("look"),
               search' = [search EXCEPT !.scrolls = @ + 1, !.pending = TRUE]
        PROVE  SearchInv'
    <3>1. /\ DOMAIN search' = DOMAIN search /\ search'.end = search.end
          /\ search'.still = search.still /\ search'.leapt = search.leapt
          /\ search'.from = search.from /\ search'.seen = search.seen
      BY <2>2 DEF SearchInv, SearchFields
    <3> QED BY <2>1, <2>2, <3>1 DEF SearchInv, Goes, Visible
  <2> QED BY <1>8, <2>1, <2>2, EndKeeps DEF FindScrolls
<1>9. CASE Missed
  <2>1. ~search.pending
    BY <1>9 DEF Missed, SearchInv
  <2> QED BY <1>9, <2>1, EndKeeps DEF Missed
<1>10. CASE Settle
  <2>1. pc = "look" /\ pc' = pc /\ search.pending /\ ~search.end
    BY <1>10 DEF Settle, SearchInv, callVars
  <2>2. /\ DOMAIN search' = DOMAIN search
        /\ ~search'.pending /\ search'.end = search.end
        /\ search'.still = search.still /\ search'.from = search.from
        /\ search'.seen = search.seen
        /\ search'.leapt = (search.leapt \/ top' > top + Len(Slots))
    BY <1>10 DEF Settle, SearchInv, SearchFields
  <2>3. top \in Nat /\ top' \in Nat /\ top <= top'
    BY <1>10, SizesTyped DEF Settle, Scrolled, TopInv
  <2>4. search.still /\ ~search'.leapt =>
          /\ search.from \in 0 .. top'
          /\ search.from + 1 .. top' \subseteq search.seen
    <3> SUFFICES ASSUME search.still, ~search'.leapt
                 PROVE  /\ search.from \in 0 .. top'
                        /\ search.from + 1 .. top' \subseteq search.seen
      OBVIOUS
    <3>1. ~search.leapt /\ ~(top' > top + Len(Slots))
      BY <2>2
    <3>2. /\ search.from \in 0 .. top
          /\ search.from + 1 .. top \subseteq search.seen
          /\ top + 1 .. top + Len(Slots) \subseteq search.seen
      BY <2>1, <3>1 DEF SearchInv, Visible
    <3> QED BY <2>3, <3>1, <3>2, SizesTyped
  <2> QED BY <2>1, <2>2, <2>4 DEF SearchInv
<1>11. CASE Move
  <2>1. /\ pc' = pc
        /\ search' = [search EXCEPT !.still = @ /\ pc \notin Searching]
    BY <1>11 DEF Move, callVars
  <2>2. /\ DOMAIN search' = DOMAIN search
        /\ search'.pending = search.pending /\ search'.end = search.end
    BY <2>1 DEF SearchInv, SearchFields
  <2>3. pc \in Searching => ~search'.still
    <3>1. search'.still = (search.still /\ pc \notin Searching)
      BY <2>1 DEF SearchInv, SearchFields
    <3> QED BY <3>1
  <2> QED BY <2>1, <2>2, <2>3 DEF SearchInv
<1> QED BY <1>1, <1>2, <1>3, <1>4, <1>5, <1>6, <1>7, <1>8, <1>9, <1>10, <1>11
        DEF Next, Running

(***************************************************************************)
(* When find says that it is at the end it has looked at every item from   *)
(* where it began, for contents and windows of any size and however far a  *)
(* scroll goes, up to what was in view: where one goes further, where the  *)
(* application is not done when find looks again, or where somebody else   *)
(* scrolls, it may have overlooked some (act_find).                        *)
(***************************************************************************)
THEOREM TheEndIsReached == SettlesInTime => (Spec => []TheEndIsTheEnd)
<1> SUFFICES ASSUME SettlesInTime PROVE Spec => []TheEndIsTheEnd
  OBVIOUS
<1>1. Init => SearchInv
  BY SearchingPlaces DEF Init, SearchInv, NoSearch, SearchFields
<1>2. SearchInv /\ TopInv /\ [Next]_vars => SearchInv'
  BY SearchKept
<1>3. SearchInv /\ TopInv => TheEndIsTheEnd
  <2> SUFFICES ASSUME SearchInv, TopInv, pc = "missed", search.end, search.still,
                      ~search.leapt
               PROVE  search.from + 1 .. Items \subseteq search.seen
    BY DEF TheEndIsTheEnd
  <2>1. /\ search.from \in 0 .. top /\ top + Len(Slots) = Items
        /\ search.from + 1 .. top \subseteq search.seen
        /\ top + 1 .. top + Len(Slots) \subseteq search.seen
    BY SearchingPlaces, ContentAssumption DEF SearchInv, LastTop, Visible
  <2> QED BY <2>1, SizesTyped, ContentAssumption DEF TopInv
<1> QED BY <1>1, <1>2, <1>3, TopStarts, TopKept, PTL DEF Spec
-----------------------------------------------------------------------------
(***************************************************************************)
(* Points of the image.  Every quotient the graph forms of a whole pixel   *)
(* is whole, so that a conversion there and back is exact; what follows    *)
(* says so of one coordinate first, and then of the displays.              *)
(***************************************************************************)
LEMMA ProductPositive ==
  ASSUME NEW a \in Positive, NEW b \in Positive PROVE a * b \in Positive
BY DEF Positive

LEMMA QuotientOfProduct ==
  ASSUME NEW a \in Int, NEW b \in Positive PROVE (a * b) \div b = a
BY DEF Positive

LEMMA WholeQuotient ==
  ASSUME NEW a \in Int, NEW b \in Positive, a % b = 0
  PROVE  a \div b \in Int /\ a = (a \div b) * b
BY DEF Positive

LEMMA PositiveQuotient ==
  ASSUME NEW a \in Positive, NEW b \in Positive, a % b = 0
  PROVE  a \div b \in Positive
<1>1. a = (a \div b) * b /\ a \div b \in Int
  BY WholeQuotient DEF Positive
<1>2. a \div b > 0
  BY <1>1 DEF Positive
<1> QED BY <1>1, <1>2 DEF Positive

\* One coordinate, from pixels to points and back.
LEMMA OneWay ==
  ASSUME NEW p \in Int, NEW w \in Positive, NEW s \in Positive, NEW v \in Int,
         p <= v, v < p + w * s, (v - p) % s = 0
  PROVE  /\ (v - p) \div s \in 0 .. w - 1
         /\ ((v - p) * w) \div (w * s) = (v - p) \div s
         /\ (((v - p) \div s) * (w * s)) \div w = v - p
<1> DEFINE k == (v - p) \div s
<1>1. k \in Int /\ v - p = k * s
  BY WholeQuotient
<1> HIDE DEF k
<1>2. k >= 0
  <2> SUFFICES ASSUME k <= -1 PROVE FALSE
    BY <1>1
  <2>1. k * s <= -1
    BY <1>1 DEF Positive
  <2> QED BY <1>1, <2>1
<1>3. k < w
  <2> SUFFICES ASSUME k >= w PROVE FALSE
    BY <1>1 DEF Positive
  <2>1. k * s >= w * s
    BY <1>1 DEF Positive
  <2> QED BY <1>1, <2>1, ProductPositive DEF Positive
<1>4. (v - p) * w = k * (w * s)
  BY <1>1 DEF Positive
<1>5. (k * (w * s)) \div (w * s) = k
  BY <1>1, ProductPositive, QuotientOfProduct
<1>6. k * (w * s) = (v - p) * w
  BY <1>4
<1>7. ((v - p) * w) \div w = v - p
  BY <1>1, QuotientOfProduct
<1>8. k \in 0 .. w - 1
  BY <1>1, <1>2, <1>3 DEF Positive
<1>9. (k * (w * s)) \div w = v - p
  BY <1>6, <1>7
<1>10. ((v - p) * w) \div (w * s) = k
  BY <1>4, <1>5
<1> QED BY <1>8, <1>9, <1>10 DEF k

LEMMA FactorIsWhole ==
  ASSUME NEW w \in Positive, NEW s \in Positive PROVE (w * s) \div w = s
<1>1. w * s = s * w
  BY DEF Positive
<1> QED BY <1>1, QuotientOfProduct DEF Positive

-----------------------------------------------------------------------------
(***************************************************************************)
(* A display, and its points in both spaces.                               *)
(***************************************************************************)
\* What the graph knows of a display: pixels are a whole number to the point.
IsDisplay(d) ==
  /\ d.id \in Int /\ d.primary \in BOOLEAN
  /\ d.logical \in Rects /\ d.physical \in Rects
  /\ \E s \in Positive : /\ d.physical.w = d.logical.w * s
                         /\ d.physical.h = d.logical.h * s

Even(d, p) == /\ (p.x - d.physical.x) % (d.physical.w \div d.logical.w) = 0
              /\ (p.y - d.physical.y) % (d.physical.h \div d.logical.h) = 0
PointAt(d, p) ==
  [x |-> d.logical.x + (p.x - d.physical.x) \div (d.physical.w \div d.logical.w),
   y |-> d.logical.y + (p.y - d.physical.y) \div (d.physical.h \div d.logical.h)]

\* A pixel of a display that is a whole point is carried to that point, and
\* back.
LEMMA ThereAndBack ==
  ASSUME NEW d, IsDisplay(d), NEW p, p.x \in Int, p.y \in Int,
         Covers(d.physical, p), Even(d, p)
  PROVE  /\ PointAt(d, p).x \in Int /\ PointAt(d, p).y \in Int
         /\ Covers(d.logical, PointAt(d, p))
         /\ Carried(p, d.physical, d.logical, "logical")
              = At(PointAt(d, p).x, PointAt(d, p).y, "logical")
         /\ \A q : q.x = PointAt(d, p).x /\ q.y = PointAt(d, p).y =>
              Carried(q, d.logical, d.physical, "physical")
                = At(p.x, p.y, "physical")
<1> DEFINE pw == d.physical
           lg == d.logical
<1>1. PICK s \in Positive : pw.w = lg.w * s /\ pw.h = lg.h * s
  BY DEF IsDisplay
<1>2. /\ lg.x \in Int /\ lg.y \in Int /\ lg.w \in Positive /\ lg.h \in Positive
      /\ pw.x \in Int /\ pw.y \in Int
  BY DEF IsDisplay, Rects
<1>3. pw.w \div lg.w = s /\ pw.h \div lg.h = s
  BY <1>1, <1>2, FactorIsWhole
<1> DEFINE kx == (p.x - pw.x) \div s
           ky == (p.y - pw.y) \div s
<1>4. /\ kx \in 0 .. lg.w - 1
      /\ ((p.x - pw.x) * lg.w) \div pw.w = kx
      /\ (kx * pw.w) \div lg.w = p.x - pw.x
  <2>1. /\ pw.x <= p.x /\ p.x < pw.x + lg.w * s /\ (p.x - pw.x) % s = 0
    BY <1>1, <1>3 DEF Covers, Even
  <2> QED BY <1>1, <1>2, <2>1, OneWay
<1>5. /\ ky \in 0 .. lg.h - 1
      /\ ((p.y - pw.y) * lg.h) \div pw.h = ky
      /\ (ky * pw.h) \div lg.h = p.y - pw.y
  <2>1. /\ pw.y <= p.y /\ p.y < pw.y + lg.h * s /\ (p.y - pw.y) % s = 0
    BY <1>1, <1>3 DEF Covers, Even
  <2> QED BY <1>1, <1>2, <2>1, OneWay
<1>6. PointAt(d, p).x = lg.x + kx /\ PointAt(d, p).y = lg.y + ky
  BY <1>3 DEF PointAt
<1> HIDE DEF kx, ky
<1>7. kx \in Int /\ ky \in Int
  BY <1>4, <1>5
<1>8. Covers(lg, PointAt(d, p))
  BY <1>2, <1>4, <1>5, <1>6 DEF Covers, Positive
<1>9. Carried(p, pw, lg, "logical")
        = At(PointAt(d, p).x, PointAt(d, p).y, "logical")
  BY <1>4, <1>5, <1>6 DEF Carried
<1>10. ASSUME NEW q, q.x = PointAt(d, p).x, q.y = PointAt(d, p).y
       PROVE  Carried(q, lg, pw, "physical") = At(p.x, p.y, "physical")
  <2>1. q.x - lg.x = kx /\ q.y - lg.y = ky
    BY <1>2, <1>6, <1>7, <1>10
  <2>2. pw.x + (p.x - pw.x) = p.x /\ pw.y + (p.y - pw.y) = p.y
    BY <1>2
  <2> QED BY <1>4, <1>5, <2>1, <2>2 DEF Carried
<1> QED BY <1>2, <1>6, <1>7, <1>8, <1>9, <1>10
LEMMA LeastNatural ==
  ASSUME NEW T \in SUBSET Nat, T # {} PROVE \E n \in T : \A m \in T : n <= m
<1>1. \E n \in T : \A m \in T : ~ (<<m, n>> \in OpToRel(<, Nat))
  BY WFMin, NatLessThanWellFounded, Zenon
<1>2. PICK n \in T : \A m \in T : ~ (<<m, n>> \in OpToRel(<, Nat))
  BY <1>1
<1>3. ASSUME NEW m \in T PROVE n <= m
  <2>1. ~(m < n)
    BY <1>2, Zenon DEF OpToRel
  <2> QED BY <2>1
<1> QED BY <1>3

\* Induction, for sets.
LEMMA AllNaturals ==
  ASSUME NEW T \in SUBSET Nat, 0 \in T, \A n \in T : n + 1 \in T
  PROVE  T = Nat
<1> SUFFICES ASSUME Nat \ T # {} PROVE FALSE
  OBVIOUS
<1>1. PICK n \in Nat \ T : \A m \in Nat \ T : n <= m
  BY LeastNatural
<1>2. n - 1 \in Nat /\ n - 1 \notin Nat \ T
  BY <1>1
<1>3. (n - 1) + 1 \in T
  BY <1>2
<1> QED BY <1>1, <1>3

\* The elements of a finite set can be put in the order of any strict total
\* order on them: each at the place that as many precede it as it says.
LEMMA CanBeSorted ==
  ASSUME NEW S, IsFiniteSet(S), NEW R,
         \A a \in S : <<a, a>> \notin R,
         \A a, b \in S : a # b => <<a, b>> \in R \/ <<b, a>> \in R,
         \A a, b, c \in S : <<a, b>> \in R /\ <<b, c>> \in R => <<a, c>> \in R
  PROVE  \E s \in [1 .. Cardinality(S) -> S] :
           \A i, j \in 1 .. Cardinality(S) : i < j => <<s[i], s[j]>> \in R
<1> DEFINE n == Cardinality(S)
           Under(d) == {e \in S : <<e, d>> \in R}
           rank == [d \in S |-> Cardinality(Under(d)) + 1]
<1>1. n \in Nat
  BY FS_CardinalityType
<1>2. ASSUME NEW d \in S
      PROVE  IsFiniteSet(Under(d)) /\ Cardinality(Under(d)) \in 0 .. n - 1
  <2>1. Under(d) \in SUBSET S /\ d \notin Under(d)
    OBVIOUS
  <2>2. /\ IsFiniteSet(Under(d)) /\ Cardinality(Under(d)) <= n
        /\ n = Cardinality(Under(d)) => S = Under(d)
    BY <2>1, FS_Subset
  <2>3. Cardinality(Under(d)) \in Nat
    BY <2>2, FS_CardinalityType
  <2> QED BY <1>1, <2>1, <2>2, <2>3
<1>3. ASSUME NEW a \in S, NEW b \in S, <<a, b>> \in R PROVE rank[a] < rank[b]
  <2>1. Under(a) \in SUBSET Under(b) /\ a \in Under(b) /\ a \notin Under(a)
    BY <1>3
  <2>2. /\ Cardinality(Under(a)) <= Cardinality(Under(b))
        /\ Cardinality(Under(b)) = Cardinality(Under(a)) => Under(b) = Under(a)
    BY <1>2, <2>1, FS_Subset
  <2>3. rank[a] = Cardinality(Under(a)) + 1 /\ rank[b] = Cardinality(Under(b)) + 1
    OBVIOUS
  <2> HIDE DEF rank, Under
  <2> QED BY <1>2, <2>1, <2>2, <2>3
<1>4. rank \in [S -> 1 .. n]
  <2>1. ASSUME NEW d \in S PROVE Cardinality(Under(d)) + 1 \in 1 .. n
    <3>1. Cardinality(Under(d)) \in 0 .. n - 1
      BY <1>2
    <3> HIDE DEF Under
    <3> QED BY <1>1, <3>1
  <2> QED BY <2>1
<1> HIDE DEF rank
<1>5. rank \in Injection(S, 1 .. n)
  <2>1. ASSUME NEW a \in S, NEW b \in S, a # b PROVE rank[a] # rank[b]
    <3>1. <<a, b>> \in R \/ <<b, a>> \in R
      BY <2>1
    <3>2. rank[a] < rank[b] \/ rank[b] < rank[a]
      BY <1>3, <3>1
    <3> HIDE DEF n
    <3> QED BY <1>1, <1>4, <3>2
  <2> QED BY <1>4, <2>1 DEF Injection, IsInjective
<1>6. rank \in Surjection(S, 1 .. n)
  <2>1. IsFiniteSet(1 .. n) /\ Cardinality(1 .. n) = n
    BY <1>1, FS_Interval
  <2> QED BY <1>5, <2>1, FS_Injection
<1>7. \A i \in 1 .. n : \E d \in S : rank[d] = i
  BY <1>6 DEF Surjection
<1> DEFINE s == [i \in 1 .. n |-> CHOOSE d \in S : rank[d] = i]
<1>8. \A i \in 1 .. n : s[i] \in S /\ rank[s[i]] = i
  BY <1>7
<1>9. s \in [1 .. n -> S]
  BY <1>8
<1> HIDE DEF s
<1>10. ASSUME NEW i \in 1 .. n, NEW j \in 1 .. n, i < j
       PROVE  <<s[i], s[j]>> \in R
  <2>1. s[i] \in S /\ s[j] \in S /\ rank[s[i]] = i /\ rank[s[j]] = j
    BY <1>8
  <2>2. s[i] # s[j] /\ ~(rank[s[j]] < rank[s[i]])
    BY <1>1, <1>10, <2>1
  <2> QED BY <1>3, <2>1, <2>2
<1> QED BY <1>9, <1>10

\* A sequence without repetition that is as long as a set is large has all
\* of the set.
LEMMA HasThemAll ==
  ASSUME NEW S, IsFiniteSet(S), NEW s \in [1 .. Cardinality(S) -> S],
         \A i, j \in 1 .. Cardinality(S) : i < j => s[i] # s[j]
  PROVE  \A d \in S : \E i \in 1 .. Cardinality(S) : s[i] = d
<1>1. Cardinality(S) \in Nat
  BY FS_CardinalityType
<1>2. IsFiniteSet(1 .. Cardinality(S)) /\ Cardinality(1 .. Cardinality(S)) = Cardinality(S)
  BY <1>1, FS_Interval
<1>3. ASSUME NEW i \in 1 .. Cardinality(S), NEW j \in 1 .. Cardinality(S), i # j
      PROVE  s[i] # s[j]
  BY <1>1, <1>3
<1>4. s \in Injection(1 .. Cardinality(S), S)
  BY <1>3 DEF Injection, IsInjective
<1>5. s \in Surjection(1 .. Cardinality(S), S)
  BY <1>2, <1>4, FS_Injection
<1> QED BY <1>5 DEF Surjection

-----------------------------------------------------------------------------
(***************************************************************************)
(* What the three systems report of a desktop. The displays of macOS are   *)
(* placed one after the other, by a cursor that is moved on by each.       *)
(***************************************************************************)
\* What DesktopsAssumption says of a desktop of a system.
GoodDesktop(system, d) ==
  /\ system \in {"linux", "windows", "macos"}
  /\ EnvironmentScale \in Positive
  /\ IsFiniteSet(d) /\ d # {}
  /\ \A m, n \in d : m.id = n.id => m = n
  /\ \A m \in d : /\ IsMonitor(m)
                  /\ system = "linux" => Fits(m.rect, EnvironmentScale)
                  /\ system = "windows" => Fits(m.rect, m.scale)

LEMMA DesktopsAreGood ==
  ASSUME NEW system \in Platforms, NEW d \in Desktops[system]
  PROVE  GoodDesktop(system, d)
BY DesktopsAssumption DEF GoodDesktop

\* A monitor in points by a scale that divides it.
LEMMA DividedIsDisplay ==
  ASSUME NEW m, IsMonitor(m), NEW s \in Positive, Fits(m.rect, s)
  PROVE  IsDisplay(Display(m, InPoints(m.rect, s), m.rect))
<1> DEFINE r == m.rect
           d == Display(m, InPoints(r, s), r)
<1>1. r \in Rects /\ r.x \in Int /\ r.y \in Int /\ r.w \in Positive /\ r.h \in Positive
  BY DEF IsMonitor, Rects
<1>2. r.w \div s \in Positive /\ r.h \div s \in Positive
  BY <1>1, PositiveQuotient DEF Fits
<1>3. r.x \div s \in Int /\ r.y \div s \in Int
  BY <1>1 DEF Positive
<1>4. d.logical = Rect(r.x \div s, r.y \div s, r.w \div s, r.h \div s)
      /\ d.physical = r /\ d.id = m.id /\ d.primary = m.primary
  BY DEF Display, InPoints
<1>5. r.w = (r.w \div s) * s /\ r.h = (r.h \div s) * s
  BY <1>1, WholeQuotient DEF Fits, Positive
<1>6. d.logical \in Rects /\ d.logical.w = r.w \div s /\ d.logical.h = r.h \div s
  BY <1>2, <1>3, <1>4 DEF Rect, Rects
<1>7. d.id \in Int /\ d.primary \in BOOLEAN
  BY <1>4, Zenon DEF IsMonitor
<1>8. d.physical.w = d.logical.w * s /\ d.physical.h = d.logical.h * s
  BY <1>4, <1>5, <1>6
<1>9. d.physical \in Rects
  BY <1>1, <1>4
<1> HIDE DEF d
<1>10. IsDisplay(d)
  BY <1>6, <1>7, <1>8, <1>9 DEF IsDisplay
<1> QED BY <1>10 DEF d

-----------------------------------------------------------------------------
\* From left to right is a strict total order of the monitors of a desktop.
LEMMA LeftOfIsAnOrder ==
  ASSUME NEW d, GoodDesktop("macos", d)
  PROVE  /\ \A a \in d : ~LeftOf(a, a)
         /\ \A a, b \in d : a # b => LeftOf(a, b) \/ LeftOf(b, a)
         /\ \A a, b, c \in d : LeftOf(a, b) /\ LeftOf(b, c) => LeftOf(a, c)
<1>1. \A m \in d : m.id \in Int /\ m.rect.x \in Int
  BY DEF GoodDesktop, IsMonitor, Rects
<1>2. ASSUME NEW a \in d PROVE ~LeftOf(a, a)
  BY <1>1 DEF LeftOf
<1>3. ASSUME NEW a \in d, NEW b \in d, a # b PROVE LeftOf(a, b) \/ LeftOf(b, a)
  <2>1. a.id # b.id
    BY <1>3 DEF GoodDesktop
  <2> QED BY <1>1, <2>1 DEF LeftOf
<1>4. ASSUME NEW a \in d, NEW b \in d, NEW c \in d, LeftOf(a, b), LeftOf(b, c)
      PROVE  LeftOf(a, c)
  BY <1>1, <1>4 DEF LeftOf
<1> QED BY <1>2, <1>3, <1>4

\* The monitors of a Mac in a row.
LEMMA MonitorsInARow ==
  ASSUME NEW d, GoodDesktop("macos", d), NEW row, row = SortedBy(d, LeftOf)
  PROVE  /\ Cardinality(d) \in Nat /\ row \in [1 .. Cardinality(d) -> d]
         /\ \A i, j \in 1 .. Cardinality(d) : i < j => row[i] # row[j]
         /\ \A m \in d : \E i \in 1 .. Cardinality(d) : row[i] = m
<1> DEFINE n == Cardinality(d)
           R == {p \in d \X d : LeftOf(p[1], p[2])}
<1>1. \A a, b \in d : <<a, b>> \in R <=> LeftOf(a, b)
  OBVIOUS
<1> HIDE DEF R
<1>2. /\ \A a \in d : <<a, a>> \notin R
      /\ \A a, b \in d : a # b => <<a, b>> \in R \/ <<b, a>> \in R
      /\ \A a, b, c \in d : <<a, b>> \in R /\ <<b, c>> \in R => <<a, c>> \in R
  BY <1>1, LeftOfIsAnOrder
<1>3. \E s \in [1 .. n -> d] : \A i, j \in 1 .. n : i < j => <<s[i], s[j]>> \in R
  BY <1>2, CanBeSorted DEF GoodDesktop
<1>4. \E s \in [1 .. n -> d] : \A i, j \in DOMAIN s : i < j => LeftOf(s[i], s[j])
  BY <1>1, <1>3
<1>5. row \in [1 .. n -> d] /\ \A i, j \in 1 .. n : i < j => LeftOf(row[i], row[j])
  BY <1>4 DEF SortedBy
<1>6. \A i, j \in 1 .. n : i < j => row[i] # row[j]
  BY <1>1, <1>2, <1>5
<1>7. n \in Nat
  BY FS_CardinalityType DEF GoodDesktop
<1> QED BY <1>5, <1>6, <1>7, HasThemAll DEF GoodDesktop

\* The cursor moves along the row.
LEMMA CursorMoves ==
  ASSUME NEW n \in Nat, NEW row, DOMAIN row = 1 .. n,
         \A i \in 1 .. n : Pixels(row[i]) \in Positive
  PROVE  /\ Cursors(row) \in [1 .. n -> Int]
         /\ \A i \in 1 .. n : Cursors(row)[i] =
              IF i = 1 THEN 0 ELSE Cursors(row)[i - 1] + Pixels(row[i - 1])
<1> DEFINE Next1(c, i) == IF i = 1 THEN 0 ELSE c[i - 1] + Pixels(row[i - 1])
           IsUpTo(c, k) == c \in [1 .. k -> Int] /\ \A i \in 1 .. k : c[i] = Next1(c, i)
           T == {k \in Nat : k <= n => \E c : IsUpTo(c, k)}
<1>1. 0 \in T
  <2>1. [i \in 1 .. 0 |-> 0] \in [1 .. 0 -> Int] /\ 1 .. 0 = {}
    OBVIOUS
  <2>2. IsUpTo([i \in 1 .. 0 |-> 0], 0)
    BY <2>1
  <2> QED BY <2>2
<1>2. ASSUME NEW k \in T PROVE k + 1 \in T
  <2> SUFFICES ASSUME k + 1 <= n PROVE \E c : IsUpTo(c, k + 1)
    <3> HIDE DEF IsUpTo
    <3>1. k + 1 \in Nat
      BY <1>2
    <3> QED BY <3>1
  <2>1. k \in Nat /\ k <= n
    BY <1>2
  <2>2. PICK c : IsUpTo(c, k)
    BY <1>2, <2>1
  <2> DEFINE e == [i \in 1 .. k + 1 |-> IF i = k + 1 THEN Next1(c, i) ELSE c[i]]
  <2>3. Next1(c, k + 1) \in Int
    <3>1. CASE k = 0
      BY <3>1
    <3>2. CASE k # 0
      <4>1. k \in 1 .. k /\ k \in 1 .. n
        BY <2>1, <3>2
      <4>2. c[k] \in Int /\ Pixels(row[k]) \in Int
        BY <2>2, <4>1 DEF Positive
      <4> QED BY <2>1, <4>2
    <3> QED BY <3>1, <3>2
  <2>4. \A i \in 1 .. k + 1 : i # k + 1 => i \in 1 .. k
    BY <2>1
  <2>5. e \in [1 .. k + 1 -> Int]
    BY <2>2, <2>3, <2>4
  <2>6. ASSUME NEW i \in 1 .. k + 1 PROVE e[i] = Next1(e, i)
    <3>1. i - 1 \in 1 .. k \/ i = 1
      BY <2>1
    <3>2. i - 1 \in 1 .. k => e[i - 1] = c[i - 1]
      BY <2>1
    <3>3. Next1(e, i) = Next1(c, i)
      <4> HIDE DEF e
      <4> QED BY <3>1, <3>2
    <3>4. e[i] = Next1(c, i)
      BY <2>2, <2>4
    <3> QED BY <3>3, <3>4
  <2>7. IsUpTo(e, k + 1)
    BY <2>5, <2>6
  <2> QED BY <2>7
<1>3. T = Nat
  <2>1. T \in SUBSET Nat
    OBVIOUS
  <2> HIDE DEF T
  <2> QED BY <1>1, <1>2, <2>1, AllNaturals
<1>4. PICK c : IsUpTo(c, n)
  BY <1>3
<1>5. c = [i \in DOMAIN row |-> IF i = 1 THEN 0 ELSE c[i - 1] + Pixels(row[i - 1])]
  BY <1>4
<1>6. LET f == Cursors(row)
      IN f = [i \in DOMAIN row |-> IF i = 1 THEN 0 ELSE f[i - 1] + Pixels(row[i - 1])]
  BY <1>5 DEF Cursors
<1> DEFINE f == Cursors(row)
<1>7. \A i \in 1 .. n : f[i] = Next1(f, i)
  BY <1>6
<1>8. DOMAIN f = 1 .. n /\ f = [i \in 1 .. n |-> f[i]]
  BY <1>6
<1> HIDE DEF f
<1> DEFINE U == {k \in Nat : k + 1 \in 1 .. n => f[k + 1] \in Int}
<1>9. 0 \in U
  BY <1>7
<1>10. ASSUME NEW k \in U PROVE k + 1 \in U
  <2> SUFFICES ASSUME k + 2 \in 1 .. n PROVE f[k + 2] \in Int
    BY <1>10
  <2>1. k \in Nat /\ k + 1 \in 1 .. n /\ k + 2 # 1 /\ (k + 2) - 1 = k + 1
    BY <1>10
  <2>2. f[k + 1] \in Int /\ Pixels(row[k + 1]) \in Int
    BY <1>10, <2>1 DEF Positive
  <2>3. f[k + 2] = f[k + 1] + Pixels(row[k + 1])
    BY <1>7, <2>1
  <2> QED BY <2>2, <2>3
<1>11. U = Nat
  <2>1. U \in SUBSET Nat
    OBVIOUS
  <2> HIDE DEF U
  <2> QED BY <1>9, <1>10, <2>1, AllNaturals
<1>12. ASSUME NEW i \in 1 .. n PROVE f[i] \in Int
  <2>1. i - 1 \in Nat /\ (i - 1) + 1 = i
    OBVIOUS
  <2>2. \A k \in Nat : k + 1 \in 1 .. n => f[k + 1] \in Int
    BY <1>11
  <2> QED BY <2>1, <2>2
<1>13. f \in [1 .. n -> Int]
  BY <1>8, <1>12
<1> QED BY <1>7, <1>13 DEF f

\* The displays of a row do not overlap.
LEMMA RowIsApart ==
  ASSUME NEW n \in Nat, NEW row, DOMAIN row = 1 .. n,
         \A i \in 1 .. n : Pixels(row[i]) \in Positive,
         NEW i \in 1 .. n, NEW j \in 1 .. n, i < j
  PROVE  Cursors(row)[i] + Pixels(row[i]) <= Cursors(row)[j]
<1> DEFINE f == Cursors(row)
<1>1. f \in [1 .. n -> Int]
      /\ \A k \in 1 .. n : f[k] = IF k = 1 THEN 0 ELSE f[k - 1] + Pixels(row[k - 1])
  BY CursorMoves
<1> HIDE DEF f
<1> DEFINE T == {k \in Nat : i + 1 + k \in 1 .. n => f[i] + Pixels(row[i]) <= f[i + 1 + k]}
<1>2. 0 \in T
  <2> SUFFICES ASSUME i + 1 \in 1 .. n PROVE f[i] + Pixels(row[i]) <= f[i + 1]
    <3>1. i + 1 + 0 = i + 1
      OBVIOUS
    <3> QED BY <3>1
  <2>1. f[i + 1] = f[i] + Pixels(row[i])
    <3>1. i + 1 # 1 /\ (i + 1) - 1 = i
      OBVIOUS
    <3> QED BY <1>1, <3>1
  <2>2. f[i] \in Int /\ Pixels(row[i]) \in Int
    BY <1>1 DEF Positive
  <2> QED BY <2>1, <2>2
<1>3. ASSUME NEW k \in T PROVE k + 1 \in T
  <2> SUFFICES ASSUME i + 1 + (k + 1) \in 1 .. n
               PROVE  f[i] + Pixels(row[i]) <= f[i + 1 + (k + 1)]
    BY <1>3
  <2> DEFINE l == i + 1 + k
  <2>1. k \in Nat /\ l \in 1 .. n /\ i + 1 + (k + 1) = l + 1 /\ l + 1 # 1
        /\ (l + 1) - 1 = l
    BY <1>3
  <2>2. f[i] + Pixels(row[i]) <= f[l]
    BY <1>3, <2>1
  <2> HIDE DEF l
  <2>3. f[l + 1] = f[l] + Pixels(row[l])
    BY <1>1, <2>1
  <2>4. f[l] \in Int /\ f[i] \in Int /\ Pixels(row[l]) \in Positive
        /\ Pixels(row[i]) \in Positive
    BY <1>1, <2>1
  <2>5. f[i] + Pixels(row[i]) <= f[l + 1]
    <3> DEFINE a == f[i] b == Pixels(row[i]) c == f[l] e == Pixels(row[l])
    <3>1. a \in Int /\ b \in Int /\ c \in Int /\ e \in Nat
      BY <2>4 DEF Positive
    <3>2. a + b <= c /\ f[l + 1] = c + e
      BY <2>2, <2>3
    <3> HIDE DEF a, b, c, e
    <3>3. a + b <= f[l + 1]
      BY <3>1, <3>2
    <3> QED BY <3>3 DEF a, b
  <2> QED BY <2>1, <2>5
<1>4. T = Nat
  <2>1. T \in SUBSET Nat
    OBVIOUS
  <2> HIDE DEF T
  <2> QED BY <1>2, <1>3, <2>1, AllNaturals
<1>5. j - (i + 1) \in Nat /\ i + 1 + (j - (i + 1)) = j
  OBVIOUS
<1>6. \A k \in Nat : i + 1 + k \in 1 .. n => f[i] + Pixels(row[i]) <= f[i + 1 + k]
  BY <1>4
<1>7. f[i] + Pixels(row[i]) <= f[j]
  BY <1>5, <1>6
<1> QED BY <1>7 DEF f

-----------------------------------------------------------------------------
\* A display the graph has of a monitor.
Shows(system, e, m) ==
  /\ IsDisplay(e) /\ e.id = m.id
  /\ system # "macos" => e.physical = m.rect
  /\ system = "macos" => /\ e.logical = m.rect
                         /\ e.physical.w = m.rect.w * m.scale
                         /\ e.physical.h = m.rect.h * m.scale
Beside(r, s) == r.x + r.w <= s.x \/ s.x + s.w <= r.x

\* What the systems report: one display of each monitor, and on macOS none
\* that has pixels of another.
LEMMA EachIsShown ==
  ASSUME NEW system, NEW d, GoodDesktop(system, d)
  PROVE  \E f \in Surjection(d, Enumerated(system, d)) :
           /\ \A m \in d : Shows(system, f[m], m)
           /\ system = "macos" => \A m, n \in d :
                m # n => Beside(f[m].physical, f[n].physical)
<1>1. CASE system = "linux"
  <2> DEFINE f == [m \in d |-> Display(m, InPoints(m.rect, EnvironmentScale), m.rect)]
  <2>1. Enumerated(system, d) = LinuxDisplays(d)
    BY <1>1 DEF Enumerated
  <2>2. f \in Surjection(d, Enumerated(system, d))
    BY <2>1 DEF LinuxDisplays, Surjection
  <2>3. ASSUME NEW m \in d PROVE Shows(system, f[m], m)
    <3>1. IsDisplay(f[m])
      BY <1>1, DividedIsDisplay DEF GoodDesktop
    <3>2. f[m].id = m.id /\ f[m].physical = m.rect
      BY DEF Display
    <3> QED BY <1>1, <3>1, <3>2 DEF Shows
  <2> QED BY <1>1, <2>2, <2>3
<1>2. CASE system = "windows"
  <2> DEFINE f == [m \in d |-> Display(m, InPoints(m.rect, m.scale), m.rect)]
  <2>1. Enumerated(system, d) = WindowsDisplays(d)
    BY <1>2 DEF Enumerated
  <2>2. f \in Surjection(d, Enumerated(system, d))
    BY <2>1 DEF WindowsDisplays, Surjection
  <2>3. ASSUME NEW m \in d PROVE Shows(system, f[m], m)
    <3>1. IsDisplay(f[m])
      BY <1>2, DividedIsDisplay DEF GoodDesktop, IsMonitor
    <3>2. f[m].id = m.id /\ f[m].physical = m.rect
      BY DEF Display
    <3> QED BY <1>2, <3>1, <3>2 DEF Shows
  <2> QED BY <1>2, <2>2, <2>3
<1>3. CASE system = "macos"
  <2> DEFINE row == SortedBy(d, LeftOf)
             n == Cardinality(d)
             place == Cursors(row)
             At1(i) == Display(row[i], row[i].rect,
                         Rect(place[i], row[i].rect.y * row[i].scale,
                              Pixels(row[i]), row[i].rect.h * row[i].scale))
  <2>1. Enumerated(system, d) = {At1(i) : i \in DOMAIN row}
    BY <1>3 DEF Enumerated, MacDisplays
  <2>2. /\ n \in Nat /\ row \in [1 .. n -> d]
        /\ \A i, j \in 1 .. n : i < j => row[i] # row[j]
        /\ \A m \in d : \E i \in 1 .. n : row[i] = m
    BY <1>3, MonitorsInARow
  <2> HIDE DEF row, n
  <2>3. ASSUME NEW m \in d
        PROVE  /\ m.id \in Int /\ m.primary \in BOOLEAN /\ m.rect \in Rects
               /\ m.scale \in Positive /\ m.rect.y \in Int
               /\ m.rect.w \in Positive /\ m.rect.h \in Positive
               /\ Pixels(m) \in Positive /\ m.rect.h * m.scale \in Positive
               /\ m.rect.y * m.scale \in Int
    <3>1. /\ m.id \in Int /\ m.primary \in BOOLEAN /\ m.rect \in Rects
          /\ m.scale \in Positive
      BY DEF GoodDesktop, IsMonitor
    <3>2. /\ m.rect.y \in Int /\ m.rect.w \in Positive /\ m.rect.h \in Positive
      BY <3>1 DEF Rects
    <3>3. m.rect.y * m.scale \in Int
      BY <3>1, <3>2 DEF Positive
    <3> QED BY <3>1, <3>2, <3>3, ProductPositive DEF Pixels
  <2>4. \A i \in 1 .. n : Pixels(row[i]) \in Positive
    BY <2>2, <2>3
  <2>5. DOMAIN row = 1 .. n
    BY <2>2
  <2>6. \A i \in 1 .. n : place[i] \in Int
    BY <2>2, <2>4, <2>5, CursorMoves
  <2>7. ASSUME NEW i \in 1 .. n, NEW j \in 1 .. n, i < j
        PROVE  place[i] + Pixels(row[i]) <= place[j]
    BY <2>2, <2>4, <2>5, <2>7, RowIsApart
  <2> HIDE DEF place
  <2>8. ASSUME NEW i \in 1 .. n
        PROVE  /\ At1(i).physical.x = place[i] /\ At1(i).physical.w = Pixels(row[i])
               /\ Shows(system, At1(i), row[i])
    <3> DEFINE e == At1(i) m == row[i]
    <3>1. m \in d
      BY <2>2
    <3>2. /\ e.id = m.id /\ e.primary = m.primary /\ e.logical = m.rect
          /\ e.physical = Rect(place[i], m.rect.y * m.scale, Pixels(m),
                               m.rect.h * m.scale)
      BY DEF Display
    <3>3. /\ e.physical.x = place[i] /\ e.physical.w = Pixels(m)
          /\ e.physical.h = m.rect.h * m.scale
      BY <3>2 DEF Rect
    <3>4. e.physical \in Rects
      BY <2>3, <2>6, <3>1, <3>2 DEF Rect, Rects
    <3> HIDE DEF e, m
    <3>5. /\ e.physical.w = e.logical.w * m.scale
          /\ e.physical.h = e.logical.h * m.scale
      BY <3>2, <3>3 DEF Pixels
    <3>6. e.id \in Int /\ e.primary \in BOOLEAN /\ e.logical \in Rects
      BY <2>3, <3>1, <3>2, Zenon
    <3>7. IsDisplay(e)
      BY <2>3, <3>1, <3>4, <3>5, <3>6 DEF IsDisplay
    <3>8. Shows(system, e, m)
      BY <1>3, <3>2, <3>3, <3>7 DEF Shows, Pixels
    <3> QED BY <3>3, <3>8 DEF e, m
  <2> HIDE DEF At1
  <2> DEFINE f == [m \in d |-> At1(CHOOSE i \in 1 .. n : row[i] = m)]
  <2>9. ASSUME NEW m \in d
        PROVE  \E i \in 1 .. n : row[i] = m /\ f[m] = At1(i)
    BY <2>2
  <2>10. ASSUME NEW i \in 1 .. n PROVE row[i] \in d /\ f[row[i]] = At1(i)
    <3>1. row[i] \in d
      BY <2>2
    <3>2. PICK j \in 1 .. n : row[j] = row[i] /\ f[row[i]] = At1(j)
      BY <2>9, <3>1
    <3>3. i = j
      BY <2>2, <3>2
    <3> QED BY <3>1, <3>2, <3>3
  <2>11. DOMAIN f = d
    OBVIOUS
  <2> HIDE DEF f
  <2>12. \A m \in d : f[m] \in Enumerated(system, d)
    BY <2>1, <2>5, <2>9
  <2>13. \A e \in Enumerated(system, d) : \E m \in d : f[m] = e
    BY <2>1, <2>5, <2>10
  <2>14. f = [m \in d |-> f[m]]
    BY <2>9, <2>11 DEF f
  <2>15. f \in Surjection(d, Enumerated(system, d))
    BY <2>12, <2>13, <2>14 DEF Surjection
  <2>16. ASSUME NEW m \in d PROVE Shows(system, f[m], m)
    BY <2>8, <2>9
  <2>17. ASSUME NEW m \in d, NEW l \in d, m # l
         PROVE  Beside(f[m].physical, f[l].physical)
    <3>1. PICK i \in 1 .. n : row[i] = m /\ f[m] = At1(i)
      BY <2>9
    <3>2. PICK j \in 1 .. n : row[j] = l /\ f[l] = At1(j)
      BY <2>9
    <3>3. i < j \/ j < i
      BY <2>17, <2>2, <3>1, <3>2
    <3> QED BY <2>7, <2>8, <3>1, <3>2, <3>3 DEF Beside
  <2> QED BY <2>15, <2>16, <2>17
<1> QED BY <1>1, <1>2, <1>3 DEF GoodDesktop

-----------------------------------------------------------------------------
(***************************************************************************)
(* The graph: every monitor of the desktop, in order.                      *)
(***************************************************************************)
\* The order of displays is strict and total where ids differ.
LEMMA BeforeIsAnOrder ==
  ASSUME NEW S, \A e \in S : IsDisplay(e), \A a, b \in S : a.id = b.id => a = b
  PROVE  /\ \A a \in S : ~Before(a, a)
         /\ \A a, b \in S : a # b => Before(a, b) \/ Before(b, a)
         /\ \A a, b, c \in S : Before(a, b) /\ Before(b, c) => Before(a, c)
<1>1. \A e \in S : /\ e.id \in Int /\ e.primary \in BOOLEAN
                   /\ e.logical.x \in Int /\ e.logical.y \in Int
  BY DEF IsDisplay, Rects
<1>2. ASSUME NEW a \in S PROVE ~Before(a, a)
  BY <1>1 DEF Before
<1>3. ASSUME NEW a \in S, NEW b \in S, a # b PROVE Before(a, b) \/ Before(b, a)
  <2>1. a.id # b.id
    BY <1>3
  <2>2. CASE a.primary # b.primary
    <3>1. a.primary \/ b.primary
      BY <1>1, <2>2, Zenon
    <3> QED BY <2>2, <3>1 DEF Before
  <2>3. CASE a.primary = b.primary
    BY <1>1, <2>1, <2>3 DEF Before
  <2> QED BY <2>2, <2>3
<1>4. ASSUME NEW a \in S, NEW b \in S, NEW c \in S, Before(a, b), Before(b, c)
      PROVE  Before(a, c)
  BY <1>1, <1>4 DEF Before
<1> QED BY <1>2, <1>3, <1>4

LEMMA AllAreOrdered ==
  ASSUME NEW S, IsFiniteSet(S), \A e \in S : IsDisplay(e),
         \A a, b \in S : a.id = b.id => a = b,
         NEW s, s = Ordered(S)
  PROVE  /\ Cardinality(S) \in Nat /\ s \in [1 .. Cardinality(S) -> S]
         /\ \A e \in S : \E i \in 1 .. Cardinality(S) : s[i] = e
<1> DEFINE n == Cardinality(S)
           R == {p \in S \X S : Before(p[1], p[2])}
<1>1. \A a, b \in S : <<a, b>> \in R <=> Before(a, b)
  OBVIOUS
<1> HIDE DEF R
<1>2. /\ \A a \in S : <<a, a>> \notin R
      /\ \A a, b \in S : a # b => <<a, b>> \in R \/ <<b, a>> \in R
      /\ \A a, b, c \in S : <<a, b>> \in R /\ <<b, c>> \in R => <<a, c>> \in R
  BY <1>1, BeforeIsAnOrder
<1>3. \E f \in [1 .. n -> S] : \A i, j \in 1 .. n : i < j => <<f[i], f[j]>> \in R
  BY <1>2, CanBeSorted
<1>4. \E f \in [1 .. n -> S] : \A i, j \in DOMAIN f : i < j => Before(f[i], f[j])
  BY <1>1, <1>3
<1>5. s \in [1 .. n -> S] /\ \A i, j \in 1 .. n : i < j => Before(s[i], s[j])
  BY <1>4 DEF Ordered, SortedBy
<1>6. \A i, j \in 1 .. n : i < j => s[i] # s[j]
  BY <1>1, <1>2, <1>5
<1>7. n \in Nat
  BY FS_CardinalityType
<1> QED BY <1>5, <1>6, <1>7, HasThemAll

-----------------------------------------------------------------------------
\* The displays, numbered from 1; there is at least one.
IsGraph(ds) ==
  \E n \in Positive : DOMAIN ds = 1 .. n /\ \A i \in 1 .. n : IsDisplay(ds[i])

\* The graph has a display of each monitor and no other.
LEMMA GraphOfADesktop ==
  ASSUME NEW system, NEW d, GoodDesktop(system, d),
         NEW ds, ds = Ordered(Enumerated(system, d))
  PROVE  /\ IsGraph(ds)
         /\ \A i \in DOMAIN ds : \E m \in d : Shows(system, ds[i], m)
         /\ \A m \in d : \E i \in DOMAIN ds : Shows(system, ds[i], m)
         /\ system = "macos" => \A i, j \in DOMAIN ds :
              ds[i] # ds[j] => Beside(ds[i].physical, ds[j].physical)
<1> DEFINE S == Enumerated(system, d)
<1>1. PICK f \in Surjection(d, S) :
        /\ \A m \in d : Shows(system, f[m], m)
        /\ system = "macos" => \A m, n \in d :
             m # n => Beside(f[m].physical, f[n].physical)
  BY EachIsShown
<1> HIDE DEF S
<1>2. f \in [d -> S] /\ \A e \in S : \E m \in d : f[m] = e
  BY <1>1 DEF Surjection
<1>3. \A e \in S : IsDisplay(e)
  BY <1>1, <1>2 DEF Shows
<1>4. \A a, b \in S : a.id = b.id => a = b
  BY <1>1, <1>2 DEF Shows, GoodDesktop
<1>5. IsFiniteSet(S)
  BY <1>1, FS_Surjection DEF GoodDesktop
<1> DEFINE n == Cardinality(S)
<1>6. /\ n \in Nat /\ ds \in [1 .. n -> S]
      /\ \A e \in S : \E i \in 1 .. n : ds[i] = e
  BY <1>3, <1>4, <1>5, AllAreOrdered DEF S
<1>7. PICK m0 : m0 \in d
  BY DEF GoodDesktop
<1>8. n \in Positive
  BY <1>2, <1>6, <1>7 DEF Positive
<1>9. IsGraph(ds)
  BY <1>3, <1>6, <1>8 DEF IsGraph
<1>10. \A i \in DOMAIN ds : \E m \in d : ds[i] = f[m]
  BY <1>2, <1>6
<1>11. \A m \in d : \E i \in DOMAIN ds : ds[i] = f[m]
  BY <1>2, <1>6
<1>12. \A i \in DOMAIN ds : \E m \in d : Shows(system, ds[i], m)
  BY <1>1, <1>10
<1>13. \A m \in d : \E i \in DOMAIN ds : Shows(system, ds[i], m)
  BY <1>1, <1>11
<1>14. ASSUME system = "macos", NEW i \in DOMAIN ds, NEW j \in DOMAIN ds, ds[i] # ds[j]
       PROVE  Beside(ds[i].physical, ds[j].physical)
  BY <1>1, <1>10, <1>14
<1> QED BY <1>9, <1>12, <1>13, <1>14

-----------------------------------------------------------------------------
(***************************************************************************)
(* What the graph takes a point to be on, and what it has around all       *)
(* displays, are places in whole numbers.                                  *)
(***************************************************************************)
LEMMA LeastIndex ==
  ASSUME NEW n \in Nat, NEW S \in SUBSET (1 .. n), S # {}
  PROVE  Min(S) \in S
<1>1. \E x \in S : \A y \in S : x <= y
  BY LeastNatural
<1> QED BY <1>1 DEF Min

\* Of finitely many numbers one is the least.
LEMMA LeastValue ==
  ASSUME NEW n \in Positive, NEW v, \A i \in 1 .. n : v[i] \in Int
  PROVE  \E i \in 1 .. n : \A j \in 1 .. n : v[i] <= v[j]
<1> DEFINE T == {k \in Nat : k + 1 <= n =>
                   \E i \in 1 .. k + 1 : \A j \in 1 .. k + 1 : v[i] <= v[j]}
<1>1. 0 \in T
  <2>1. 1 \in 1 .. n
    BY DEF Positive
  <2>2. v[1] <= v[1]
    BY <2>1
  <2>3. \A j \in 1 .. 0 + 1 : j = 1
    OBVIOUS
  <2>4. 1 \in 1 .. 0 + 1
    OBVIOUS
  <2> QED BY <2>2, <2>3, <2>4
<1>2. ASSUME NEW k \in T PROVE k + 1 \in T
  <2> SUFFICES ASSUME (k + 1) + 1 <= n
               PROVE  \E i \in 1 .. (k + 1) + 1 :
                        \A j \in 1 .. (k + 1) + 1 : v[i] <= v[j]
    BY <1>2
  <2>1. k \in Nat /\ k + 1 <= n /\ n \in Nat
    BY <1>2 DEF Positive
  <2>2. PICK i \in 1 .. k + 1 : \A j \in 1 .. k + 1 : v[i] <= v[j]
    BY <1>2, <2>1
  <2> DEFINE l == (k + 1) + 1
  <2>3. l \in 1 .. n /\ i \in 1 .. n /\ i \in 1 .. l /\ l \in 1 .. l
        /\ 1 .. l \subseteq 1 .. n
        /\ \A j \in 1 .. l : j = l \/ j \in 1 .. k + 1
    BY <2>1
  <2> HIDE DEF l
  <2>4. CASE v[i] <= v[l]
    <3>1. \A j \in 1 .. l : v[i] <= v[j]
      BY <2>2, <2>3, <2>4
    <3> QED BY <2>3, <3>1 DEF l
  <2>5. CASE ~(v[i] <= v[l])
    <3>1. ASSUME NEW j \in 1 .. l PROVE v[l] <= v[j]
      <4>1. v[l] \in Int /\ v[i] \in Int /\ v[j] \in Int
        BY <2>3
      <4>2. j = l \/ v[i] <= v[j]
        BY <2>2, <2>3
      <4> QED BY <2>5, <4>1, <4>2
    <3> QED BY <2>3, <3>1 DEF l
  <2> QED BY <2>4, <2>5
<1>3. T = Nat
  <2>1. T \in SUBSET Nat
    OBVIOUS
  <2> HIDE DEF T
  <2> QED BY <1>1, <1>2, <2>1, AllNaturals
<1>4. n - 1 \in Nat /\ (n - 1) + 1 = n /\ n <= n
  BY DEF Positive
<1>5. \A k \in Nat : k + 1 <= n =>
        \E i \in 1 .. k + 1 : \A j \in 1 .. k + 1 : v[i] <= v[j]
  BY <1>3
<1> QED BY <1>4, <1>5

LEMMA SquareIsInt == ASSUME NEW a \in Int PROVE Square(a) \in Int
BY DEF Square

LEMMA BoundsTyped ==
  ASSUME NEW d, IsDisplay(d), NEW space
  PROVE  /\ Bounds(d, space) \in Rects
         /\ Bounds(d, space).x \in Int /\ Bounds(d, space).y \in Int
         /\ Bounds(d, space).w \in Positive /\ Bounds(d, space).h \in Positive
<1>1. Bounds(d, space) \in Rects
  BY DEF Bounds, IsDisplay
<1> QED BY <1>1 DEF Rects

\* What the graph takes a point to be on: a display, and one that the point
\* is on if there is any.
LEMMA ContainingIsOne ==
  ASSUME NEW ds, IsGraph(ds), NEW p, p.x \in Int, p.y \in Int
  PROVE  \E i \in DOMAIN ds :
           /\ Containing(ds, p) = ds[i]
           /\ (\E j \in DOMAIN ds : Covers(Bounds(ds[j], p.space), p))
                => Covers(Bounds(ds[i], p.space), p)
<1>1. PICK n \in Positive : DOMAIN ds = 1 .. n /\ \A i \in 1 .. n : IsDisplay(ds[i])
  BY DEF IsGraph
<1>2. n \in Nat
  BY DEF Positive
<1> DEFINE on == {i \in DOMAIN ds : Covers(Bounds(ds[i], p.space), p)}
           far(i) == Distance(Bounds(ds[i], p.space), p)
           nearest == {i \in DOMAIN ds : \A j \in DOMAIN ds : far(i) <= far(j)}
           one == Min(IF on # {} THEN on ELSE nearest)
<1>3. ASSUME NEW i \in 1 .. n PROVE far(i) \in Int
  <2> DEFINE r == Bounds(ds[i], p.space)
  <2>1. r.x \in Int /\ r.y \in Int /\ r.w \in Positive /\ r.h \in Positive
    BY <1>1, BoundsTyped
  <2> HIDE DEF r
  <2>2. /\ p.x - Clamped(p.x, r.x, r.x + r.w) \in Int
        /\ p.y - Clamped(p.y, r.y, r.y + r.h) \in Int
    BY <2>1 DEF Clamped, Positive
  <2>3. Distance(r, p) \in Int
    BY <2>2, SquareIsInt DEF Distance
  <2> QED BY <2>3 DEF r
<1>4. nearest # {}
  <2> DEFINE v == [i \in 1 .. n |-> far(i)]
  <2>1. \A i \in 1 .. n : v[i] \in Int
    BY <1>3
  <2>2. \A i \in 1 .. n : v[i] = far(i)
    OBVIOUS
  <2> HIDE DEF v
  <2>3. \E i \in 1 .. n : \A j \in 1 .. n : v[i] <= v[j]
    BY <2>1, LeastValue
  <2> HIDE DEF far
  <2> QED BY <1>1, <2>2, <2>3
<1>5. on \in SUBSET (1 .. n) /\ nearest \in SUBSET (1 .. n)
  BY <1>1
<1>6. Containing(ds, p) = ds[one]
  BY DEF Containing
<1>7. CASE on # {}
  <2>1. one \in on
    BY <1>2, <1>5, <1>7, LeastIndex
  <2> QED BY <1>6, <2>1
<1>8. CASE on = {}
  <2>1. one \in nearest
    <3> HIDE DEF on, nearest
    <3> QED BY <1>2, <1>4, <1>5, <1>8, LeastIndex
  <2>2. one \in DOMAIN ds /\ ~ \E j \in DOMAIN ds : Covers(Bounds(ds[j], p.space), p)
    BY <1>8, <2>1
  <2> QED BY <1>6, <2>2
<1> QED BY <1>7, <1>8

\* The least and the greatest of finitely many numbers.
LEMMA ExtremesOfValues ==
  ASSUME NEW n \in Positive, NEW v, \A i \in 1 .. n : v[i] \in Int,
         NEW S, S = {v[i] : i \in 1 .. n}
  PROVE  /\ Min(S) \in Int /\ \A i \in 1 .. n : Min(S) <= v[i]
         /\ Max(S) \in Int /\ \A i \in 1 .. n : v[i] <= Max(S)
<1>1. \E x \in S : \A y \in S : x <= y
  <2>1. PICK i \in 1 .. n : \A j \in 1 .. n : v[i] <= v[j]
    BY LeastValue
  <2> QED BY <2>1
<1>2. \E x \in S : \A y \in S : x >= y
  <2> DEFINE u == [i \in 1 .. n |-> -v[i]]
  <2>1. \A i \in 1 .. n : u[i] \in Int /\ u[i] = -v[i]
    OBVIOUS
  <2> HIDE DEF u
  <2>2. PICK i \in 1 .. n : \A j \in 1 .. n : u[i] <= u[j]
    BY <2>1, LeastValue
  <2>3. \A j \in 1 .. n : v[i] >= v[j]
    BY <2>1, <2>2
  <2> QED BY <2>3
<1>3. Min(S) \in S /\ \A y \in S : Min(S) <= y
  BY <1>1 DEF Min
<1>4. Max(S) \in S /\ \A y \in S : Max(S) >= y
  BY <1>2 DEF Max
<1> QED BY <1>3, <1>4

\* The rectangle around all displays, and that it is around each.
LEMMA AroundAll ==
  ASSUME NEW ds, IsGraph(ds), NEW space
  PROVE  LET all == VirtualBounds(ds, space)
         IN /\ all.x \in Int /\ all.y \in Int /\ all.w \in Int /\ all.h \in Int
            /\ \A i \in DOMAIN ds : LET r == Bounds(ds[i], space) IN
                 /\ all.x <= r.x /\ r.x + r.w <= all.x + all.w
                 /\ all.y <= r.y /\ r.y + r.h <= all.y + all.h
<1>1. PICK n \in Positive : DOMAIN ds = 1 .. n /\ \A i \in 1 .. n : IsDisplay(ds[i])
  BY DEF IsGraph
<1> DEFINE b(i) == Bounds(ds[i], space)
           rects == {b(i) : i \in DOMAIN ds}
           vx == [i \in 1 .. n |-> b(i).x] vr == [i \in 1 .. n |-> b(i).x + b(i).w]
           vy == [i \in 1 .. n |-> b(i).y] vb == [i \in 1 .. n |-> b(i).y + b(i).h]
<1>2. \A i \in 1 .. n : /\ b(i).x \in Int /\ b(i).y \in Int
                        /\ b(i).w \in Int /\ b(i).h \in Int
  BY <1>1, BoundsTyped DEF Positive
<1> HIDE DEF b
<1> DEFINE X == {r.x : r \in rects}
           Y == {r.y : r \in rects}
           R == {r.x + r.w : r \in rects}
           B == {r.y + r.h : r \in rects}
<1>3. X = {vx[i] : i \in 1 .. n} /\ Y = {vy[i] : i \in 1 .. n}
  BY <1>1
<1>4. R = {vr[i] : i \in 1 .. n} /\ B = {vb[i] : i \in 1 .. n}
  BY <1>1
<1>5. \A i \in 1 .. n : /\ vx[i] = b(i).x /\ vr[i] = b(i).x + b(i).w
                        /\ vy[i] = b(i).y /\ vb[i] = b(i).y + b(i).h
  OBVIOUS
<1>6. /\ \A i \in 1 .. n : vx[i] \in Int
      /\ \A i \in 1 .. n : vy[i] \in Int
      /\ \A i \in 1 .. n : vr[i] \in Int
      /\ \A i \in 1 .. n : vb[i] \in Int
  BY <1>2, <1>5
<1> DEFINE left == Min(X) above == Min(Y) right == Max(R) below == Max(B)
<1>7. VirtualBounds(ds, space) = Rect(left, above, right - left, below - above)
  BY DEF VirtualBounds, b
<1> HIDE DEF vx, vr, vy, vb, rects, X, Y, R, B
<1>8. left \in Int /\ \A i \in 1 .. n : left <= vx[i]
  BY <1>3, <1>6, ExtremesOfValues
<1>9. above \in Int /\ \A i \in 1 .. n : above <= vy[i]
  BY <1>3, <1>6, ExtremesOfValues
<1>10. right \in Int /\ \A i \in 1 .. n : vr[i] <= right
  BY <1>4, <1>6, ExtremesOfValues
<1>11. below \in Int /\ \A i \in 1 .. n : vb[i] <= below
  BY <1>4, <1>6, ExtremesOfValues
<1> HIDE DEF left, above, right, below
<1> DEFINE all == VirtualBounds(ds, space)
<1>12. /\ all.x = left /\ all.y = above
       /\ all.w = right - left /\ all.h = below - above
  BY <1>7 DEF Rect
<1> HIDE DEF all
<1>13. /\ all.x \in Int /\ all.y \in Int /\ all.w \in Int /\ all.h \in Int
       /\ all.x + all.w = right /\ all.y + all.h = below
  BY <1>8, <1>9, <1>10, <1>11, <1>12
<1>14. ASSUME NEW i \in DOMAIN ds
       PROVE  /\ all.x <= b(i).x /\ b(i).x + b(i).w <= all.x + all.w
              /\ all.y <= b(i).y /\ b(i).y + b(i).h <= all.y + all.h
  BY <1>1, <1>5, <1>8, <1>9, <1>10, <1>11, <1>12, <1>13
<1> QED BY <1>13, <1>14 DEF all, b

-----------------------------------------------------------------------------
(***************************************************************************)
(* Conversions and captures keep to whole numbers.                         *)
(***************************************************************************)
\* What is known of a transform: one scale, that of the widths.
IsImage(t) ==
  /\ t.valid \in BOOLEAN
  /\ t.source.x \in Int /\ t.source.y \in Int
  /\ t.num \in Positive /\ t.den \in Positive
  /\ t.valid =>
       /\ t.w \in Positive /\ t.h \in Positive
       /\ t.source.w \in Positive /\ t.source.h \in Positive
       /\ \/ t.num = t.w /\ t.den = t.source.w
          \/ t.num = 1 /\ t.den = 1 /\ t.w = t.source.w /\ t.h = t.source.h

LEMMA QuotientTyped == ASSUME NEW a \in Int, NEW b \in Positive PROVE a \div b \in Int
BY DEF Positive

LEMMA CarriedTyped ==
  ASSUME NEW p, p.x \in Int, p.y \in Int, NEW from \in Rects, NEW to \in Rects,
         NEW space
  PROVE  /\ Carried(p, from, to, space).x \in Int
         /\ Carried(p, from, to, space).y \in Int
         /\ Carried(p, from, to, space).space = space
<1>1. /\ from.x \in Int /\ from.y \in Int /\ from.w \in Positive /\ from.h \in Positive
      /\ to.x \in Int /\ to.y \in Int /\ to.w \in Positive /\ to.h \in Positive
  BY DEF Rects
<1>2. (p.x - from.x) * to.w \in Int /\ (p.y - from.y) * to.h \in Int
  BY <1>1 DEF Positive
<1>3. /\ ((p.x - from.x) * to.w) \div from.w \in Int
      /\ ((p.y - from.y) * to.h) \div from.h \in Int
  BY <1>1, <1>2, QuotientTyped
<1> QED BY <1>1, <1>3 DEF Carried, At

LEMMA ToPhysicalTyped ==
  ASSUME NEW ds, IsGraph(ds), NEW t, IsImage(t), NEW p, p.x \in Int, p.y \in Int,
         p.space \in Spaces
  PROVE  ToPhysical(ds, t, p).x \in Int /\ ToPhysical(ds, t, p).y \in Int
<1>1. CASE p.space = "physical"
  BY <1>1 DEF ToPhysical
<1>2. CASE p.space = "logical"
  <2>1. PICK i \in DOMAIN ds : Containing(ds, p) = ds[i]
    BY ContainingIsOne
  <2>2. ds[i].logical \in Rects /\ ds[i].physical \in Rects
    BY DEF IsGraph, IsDisplay
  <2> QED BY <1>2, <2>1, <2>2, CarriedTyped DEF ToPhysical
<1>3. CASE p.space = "image"
  <2>1. (p.x * t.den) \div t.num \in Int /\ (p.y * t.den) \div t.num \in Int
    <3>1. p.x * t.den \in Int /\ p.y * t.den \in Int
      BY DEF IsImage, Positive
    <3> QED BY <3>1, QuotientTyped DEF IsImage
  <2> QED BY <1>3, <2>1 DEF ToPhysical, At, IsImage
<1> QED BY <1>1, <1>2, <1>3 DEF Spaces

LEMMA ConvertTyped ==
  ASSUME NEW ds, IsGraph(ds), NEW t, IsImage(t), NEW p, p.x \in Int, p.y \in Int,
         p.space \in Spaces, NEW space \in Spaces
  PROVE  Convert(ds, t, p, space).x \in Int /\ Convert(ds, t, p, space).y \in Int
<1> DEFINE q == ToPhysical(ds, t, p)
<1>1. q.x \in Int /\ q.y \in Int
  BY ToPhysicalTyped
<1> HIDE DEF q
<1>2. FromPhysical(ds, t, q, space).x \in Int /\ FromPhysical(ds, t, q, space).y \in Int
  <2>1. CASE space = "physical"
    BY <1>1, <2>1 DEF FromPhysical
  <2>2. CASE space = "logical"
    <3>1. PICK i \in DOMAIN ds : Containing(ds, q) = ds[i]
      BY <1>1, ContainingIsOne
    <3>2. ds[i].logical \in Rects /\ ds[i].physical \in Rects
      BY DEF IsGraph, IsDisplay
    <3> QED BY <1>1, <2>2, <3>1, <3>2, CarriedTyped DEF FromPhysical
  <2>3. CASE space = "image"
    <3>1. /\ (q.x - t.source.x) * t.num \in Int /\ (q.y - t.source.y) * t.num \in Int
      BY <1>1 DEF IsImage, Positive
    <3>2. /\ ((q.x - t.source.x) * t.num) \div t.den \in Int
          /\ ((q.y - t.source.y) * t.num) \div t.den \in Int
      BY <3>1, QuotientTyped DEF IsImage
    <3> QED BY <2>3, <3>2 DEF FromPhysical, At
  <2> QED BY <2>1, <2>2, <2>3 DEF Spaces
<1> QED BY <1>1, <1>2 DEF Convert, q

LEMMA ConvertRectTyped ==
  ASSUME NEW ds, IsGraph(ds), NEW t, IsImage(t), NEW r,
         r.x \in Int, r.y \in Int, r.w \in Int, r.h \in Int,
         NEW from \in Spaces, NEW to \in Spaces
  PROVE  LET s == ConvertRect(ds, t, r, from, to)
         IN s.x \in Int /\ s.y \in Int /\ s.w \in Int /\ s.h \in Int
<1> DEFINE a == At(r.x, r.y, from)
           b == At(r.x + r.w, r.y + r.h, from)
           u == Convert(ds, t, a, to)
           v == Convert(ds, t, b, to)
<1>1. /\ a.x \in Int /\ a.y \in Int /\ a.space \in Spaces
      /\ b.x \in Int /\ b.y \in Int /\ b.space \in Spaces
  BY DEF At
<1> HIDE DEF a, b
<1>2. u.x \in Int /\ u.y \in Int /\ v.x \in Int /\ v.y \in Int
  BY <1>1, ConvertTyped
<1>3. ConvertRect(ds, t, r, from, to) = Rect(u.x, u.y, v.x - u.x, v.y - u.y)
  BY DEF ConvertRect, a, b
<1> HIDE DEF u, v
<1> QED BY <1>2, <1>3 DEF Rect

LEMMA MaxOfTwo ==
  ASSUME NEW a \in Int, NEW b \in Int
  PROVE  Max({a, b}) \in Int /\ Max({a, b}) >= a /\ Max({a, b}) >= b
<1>1. \E x \in {a, b} : \A y \in {a, b} : x >= y
  BY DEF Max
<1>2. Max({a, b}) \in {a, b} /\ \A y \in {a, b} : Max({a, b}) >= y
  BY <1>1 DEF Max
<1> QED BY <1>2

\* A transform is published of what is captured.
LEMMA ShrunkIsImage ==
  ASSUME NEW r, r.x \in Int, r.y \in Int, r.w \in Positive, r.h \in Positive,
         NEW max \in Nat
  PROVE  IsImage(Shrunk(r, max)) /\ Shrunk(r, max).source = r
<1>1. CASE max = 0 \/ Longest(r) <= max
  <2>1. Shrunk(r, max) = Transform(r, 1, 1, r.w, r.h)
    BY <1>1 DEF Shrunk
  <2>2. 1 \in Positive
    BY DEF Positive
  <2> QED BY <2>1, <2>2 DEF IsImage, Transform
<1>2. CASE ~(max = 0 \/ Longest(r) <= max)
  <2> DEFINE w == Max({1, Rounded(r.w * max, Longest(r))})
             h == Max({1, Rounded(r.h * max, Longest(r))})
  <2>1. Longest(r) \in Positive
    <3>1. Longest(r) \in Int /\ Longest(r) >= r.w
      <4>1. r.w \in Int /\ r.h \in Int
        BY DEF Positive
      <4> QED BY <4>1, MaxOfTwo DEF Longest
    <3> QED BY <3>1 DEF Positive
  <2>2. ASSUME NEW a \in Positive PROVE Max({1, Rounded(a * max, Longest(r))}) \in Positive
    <3>1. a * max \in Int
      BY DEF Positive
    <3>2. 2 * (a * max) + Longest(r) \in Int /\ 2 * Longest(r) \in Positive
      BY <2>1, <3>1 DEF Positive
    <3>3. Rounded(a * max, Longest(r)) \in Int
      BY <3>2, QuotientTyped DEF Rounded
    <3> DEFINE b == Rounded(a * max, Longest(r))
    <3> HIDE DEF b
    <3>4. 1 \in Int /\ b \in Int
      BY <3>3 DEF b
    <3>5. Max({1, b}) \in Int /\ Max({1, b}) >= 1
      BY <3>4, MaxOfTwo
    <3> QED BY <3>5 DEF Positive, b
  <2>3. w \in Positive /\ h \in Positive
    BY <2>2
  <2>4. Shrunk(r, max) = Transform(r, w, r.w, w, h)
    BY <1>2 DEF Shrunk
  <2> HIDE DEF w, h
  <2> QED BY <2>3, <2>4 DEF IsImage, Transform
<1> QED BY <1>1, <1>2

LEMMA PrimaryIsOne ==
  ASSUME NEW ds, IsGraph(ds) PROVE \E i \in DOMAIN ds : Primary(ds) = ds[i]
<1>1. PICK n \in Positive : DOMAIN ds = 1 .. n
  BY DEF IsGraph
<1> DEFINE marked == {i \in DOMAIN ds : ds[i].primary}
<1>2. marked \in SUBSET (1 .. n) /\ n \in Nat /\ 1 \in 1 .. n
  BY <1>1 DEF Positive
<1>3. marked # {} => Min(marked) \in marked
  <2> HIDE DEF marked
  <2> QED BY <1>2, LeastIndex
<1>4. Primary(ds) = ds[IF marked = {} THEN 1 ELSE Min(marked)]
  BY DEF Primary
<1>5. \A i \in marked : i \in DOMAIN ds
  OBVIOUS
<1> HIDE DEF marked
<1>6. (IF marked = {} THEN 1 ELSE Min(marked)) \in DOMAIN ds
  BY <1>1, <1>2, <1>3, <1>5
<1> QED BY <1>4, <1>6

\* A crop of a display is on the display.
Within(r, s) == /\ s.x <= r.x /\ r.x + r.w <= s.x + s.w
                /\ s.y <= r.y /\ r.y + r.h <= s.y + s.h

LEMMA CroppedIsWithin ==
  ASSUME NEW s \in Rects, NEW r, r.x \in Int, r.y \in Int, r.w \in Int, r.h \in Int
  PROVE  LET c == Cropped(s, r)
         IN /\ c.x \in Int /\ c.y \in Int /\ c.w \in Int /\ c.h \in Int
            /\ Within(c, s)
<1>1. s.x \in Int /\ s.y \in Int /\ s.w \in Nat /\ s.h \in Nat
  BY DEF Rects, Positive
<1>2. ASSUME NEW v \in Int, NEW low \in Int, NEW high \in Int, low <= high
      PROVE  /\ Clamped(v, low, high) \in Int
             /\ low <= Clamped(v, low, high) /\ Clamped(v, low, high) <= high
  BY <1>2 DEF Clamped
<1> DEFINE x == Clamped(r.x, s.x, s.x + s.w)
           y == Clamped(r.y, s.y, s.y + s.h)
           right == Clamped(r.x + r.w, x, s.x + s.w)
           below == Clamped(r.y + r.h, y, s.y + s.h)
<1>3. /\ s.x + s.w \in Int /\ s.x <= s.x + s.w
      /\ s.y + s.h \in Int /\ s.y <= s.y + s.h
      /\ r.x + r.w \in Int /\ r.y + r.h \in Int
  BY <1>1
<1>4. x \in Int /\ s.x <= x /\ x <= s.x + s.w
  BY <1>1, <1>2, <1>3
<1>5. y \in Int /\ s.y <= y /\ y <= s.y + s.h
  BY <1>1, <1>2, <1>3
<1> HIDE DEF x, y
<1>6. right \in Int /\ x <= right /\ right <= s.x + s.w
  BY <1>2, <1>3, <1>4
<1>7. below \in Int /\ y <= below /\ below <= s.y + s.h
  BY <1>2, <1>3, <1>5
<1>8. Cropped(s, r) = Rect(x, y, right - x, below - y)
  BY DEF Cropped, x, y
<1> HIDE DEF right, below
<1> QED BY <1>1, <1>7, <1>8, <1>4, <1>5, <1>6 DEF Rect, Within

-----------------------------------------------------------------------------
(***************************************************************************)
(* The view: what is known of the graph, of the transform and of the frame *)
(* it belongs to.  The frame may be of a desktop that is no more; what is  *)
(* known of it says that desktop's displays then.                          *)
(***************************************************************************)
\* A frame that a display of this graph gave on macOS: where it begins in the
\* display, and how many of its pixels make a point.
FrameOf(d, m, f, source) ==
  /\ Shows("macos", d, m) /\ Within(source, d.physical)
  /\ f.x = m.rect.x /\ f.y = m.rect.y /\ f.step = m.scale
  /\ f.dx = source.x - d.physical.x /\ f.dy = source.y - d.physical.y
\* What is known of the last frame.
IsFrame(f, t) ==
  t.valid /\ f.desktop # {} /\ (f.kind = "window" => platform = "windows") =>
    /\ platform # "macos" =>
         /\ f.x = t.source.x /\ f.y = t.source.y
         /\ f.dx = 0 /\ f.dy = 0 /\ f.step = 1
    /\ platform = "macos" =>
         LET ds == Ordered(Enumerated(platform, f.desktop))
         IN \E i \in DOMAIN ds, m \in f.desktop : FrameOf(ds[i], m, f, t.source)
GraphIsKnown ==
  \E d \in Desktops[platform] : displays = Ordered(Enumerated(platform, d))
ViewInv ==
  /\ platform \in Platforms /\ desktop \in Desktops[platform]
  /\ GraphIsKnown /\ IsImage(image) /\ IsFrame(frame, image)

LEMMA KnownGraph == ViewInv => IsGraph(displays)
BY DesktopsAreGood, GraphOfADesktop DEF ViewInv, GraphIsKnown

LEMMA CurrentGraph ==
  ASSUME platform \in Platforms, desktop \in Desktops[platform]
  PROVE  /\ GoodDesktop(platform, desktop) /\ IsGraph(Current)
         /\ \A i \in DOMAIN Current : \E m \in desktop : Shows(platform, Current[i], m)
         /\ \A m \in desktop : \E i \in DOMAIN Current : Shows(platform, Current[i], m)
         /\ platform = "macos" => \A i, j \in DOMAIN Current :
              Current[i] # Current[j] => Beside(Current[i].physical, Current[j].physical)
BY DesktopsAreGood, GraphOfADesktop DEF Current

-----------------------------------------------------------------------------
(***************************************************************************)
(* From the pixel of the image to the place on the desktop, for a view as  *)
(* it is between any two steps.                                            *)
(***************************************************************************)
\* Two displays that have a place in common overlap there.
LEMMA CommonPlaceOverlaps ==
  ASSUME NEW r \in Rects, NEW s \in Rects, NEW p, p.x \in Int, p.y \in Int,
         Covers(r, p), Covers(s, p)
  PROVE  Overlap(r, s) /\ ~Beside(r, s)
<1>1. /\ r.x \in Int /\ r.y \in Int /\ r.w \in Positive /\ r.h \in Positive
      /\ s.x \in Int /\ s.y \in Int /\ s.w \in Positive /\ s.h \in Positive
  BY DEF Rects
<1> QED BY <1>1 DEF Covers, Overlap, Beside, Positive

\* How far into what was captured a pixel is, by the one scale there is.
LEMMA IntoByScale ==
  ASSUME IsImage(image), image.valid, Proportional,
         NEW q, q.x \in 0 .. image.w - 1, q.y \in 0 .. image.h - 1,
         (q.x * image.source.w) % image.w = 0,
         (q.y * image.source.h) % image.h = 0
  PROVE  /\ Into(q).x \in 0 .. image.source.w - 1
         /\ Into(q).y \in 0 .. image.source.h - 1
         /\ (q.x * image.den) \div image.num = Into(q).x
         /\ (q.y * image.den) \div image.num = Into(q).y
<1> DEFINE w == image.w h == image.h sw == image.source.w sh == image.source.h
           kx == Into(q).x ky == Into(q).y
<1>1. /\ w \in Positive /\ h \in Positive /\ sw \in Positive /\ sh \in Positive
      /\ \/ image.num = w /\ image.den = sw
         \/ image.num = 1 /\ image.den = 1 /\ w = sw /\ h = sh
  BY DEF IsImage
<1>2. w * sh = h * sw
  BY DEF Proportional
<1>3. q.x \in 0 .. w - 1 /\ q.y \in 0 .. h - 1
  OBVIOUS
<1>4. q.x \in Int /\ q.y \in Int /\ q.x * sw \in Int /\ q.y * sh \in Int
  BY <1>1, <1>3 DEF Positive
<1>5. kx = (q.x * sw) \div w /\ ky = (q.y * sh) \div h
  BY DEF Into
<1>6. kx \in Int /\ q.x * sw = kx * w
  BY <1>1, <1>4, <1>5, WholeQuotient
<1>7. ky \in Int /\ q.y * sh = ky * h
  BY <1>1, <1>4, <1>5, WholeQuotient
<1> DEFINE num == image.num den == image.den
<1>8. \/ num = w /\ den = sw
      \/ num = 1 /\ den = 1 /\ w = sw /\ h = sh
  BY <1>1
<1>9. 1 \in Positive
  BY DEF Positive
<1> HIDE DEF w, h, sw, sh, kx, ky, num, den
<1>10. ASSUME NEW a \in Int, NEW n \in Positive, NEW s \in Positive, NEW k \in Int,
              a \in 0 .. n - 1, a * s = k * n
       PROVE  k \in 0 .. s - 1
  <2>1. 0 <= a /\ a < n /\ n \in Int /\ s \in Int /\ 0 < n /\ 0 < s
    BY <1>10 DEF Positive
  <2>2. 0 <= a * s /\ a * s < n * s
    BY <2>1
  <2>3. k >= 0
    <3> SUFFICES ASSUME k <= -1 PROVE FALSE
      OBVIOUS
    <3>1. n * (-k) \in Positive
      BY <1>10, <2>1, ProductPositive DEF Positive
    <3>2. k * n = -(n * (-k)) /\ k * n \in Int
      BY <2>1
    <3> QED BY <1>10, <2>2, <3>1, <3>2 DEF Positive
  <2>4. k < s
    <3> SUFFICES ASSUME k >= s PROVE FALSE
      BY <2>1
    <3>1. k * n >= n * s
      BY <2>1
    <3>2. k * n \in Int /\ n * s \in Int
      BY <2>1
    <3> QED BY <1>10, <2>2, <3>1, <3>2
  <2> QED BY <2>1, <2>3, <2>4
<1>11. kx \in 0 .. sw - 1 /\ ky \in 0 .. sh - 1
  BY <1>1, <1>3, <1>4, <1>6, <1>7, <1>10
<1>12. (q.x * den) \div num = kx
  <2>1. CASE num = w /\ den = sw
    BY <1>5, <2>1
  <2>2. CASE num = 1 /\ den = 1 /\ w = sw
    <3>1. kx = q.x
      BY <1>1, <1>4, <1>5, <2>2, QuotientOfProduct
    <3>2. (q.x * 1) \div 1 = q.x
      BY <1>4, <1>9, QuotientOfProduct
    <3> QED BY <2>2, <3>1, <3>2
  <2> QED BY <1>8, <2>1, <2>2
<1>13. (q.y * den) \div num = ky
  <2>1. CASE num = w /\ den = sw
    <3>1. q.y * sw = ky * w
      <4>1. (q.y * sw) * h = (ky * w) * h
        <5>1. (q.y * sw) * h = q.y * (h * sw)
          BY <1>1, <1>4 DEF Positive
        <5>2. q.y * (w * sh) = (q.y * sh) * w
          BY <1>1, <1>4 DEF Positive
        <5>3. (ky * h) * w = (ky * w) * h
          BY <1>1, <1>7 DEF Positive
        <5> QED BY <1>2, <1>7, <5>1, <5>2, <5>3
      <4>2. q.y * sw \in Int /\ ky * w \in Int
        BY <1>1, <1>4, <1>7 DEF Positive
      <4>3. \A a, b \in Int : a * h = b * h => a = b
        BY <1>1 DEF Positive
      <4> QED BY <4>1, <4>2, <4>3
    <3>2. (ky * w) \div w = ky
      BY <1>1, <1>7, QuotientOfProduct
    <3> QED BY <2>1, <3>1, <3>2
  <2>2. CASE num = 1 /\ den = 1 /\ h = sh
    <3>1. ky = q.y
      BY <1>1, <1>4, <1>5, <2>2, QuotientOfProduct
    <3>2. (q.y * 1) \div 1 = q.y
      BY <1>4, <1>9, QuotientOfProduct
    <3> QED BY <2>2, <3>1, <3>2
  <2> QED BY <1>8, <2>1, <2>2
<1> QED BY <1>11, <1>12, <1>13 DEF w, h, sw, sh, kx, ky, num, den

\* The place of a pixel, in pixels of the desktop.
Place(q) == At(image.source.x + Into(q).x, image.source.y + Into(q).y, "physical")

LEMMA PlaceIsPhysical ==
  ASSUME IsImage(image), image.valid, Proportional, NEW q \in Samples, Whole(q)
  PROVE  /\ Place(q).x \in Int /\ Place(q).y \in Int
         /\ ToPhysical(displays, image, q) = Place(q)
         /\ Into(q).x \in 0 .. image.source.w - 1
         /\ Into(q).y \in 0 .. image.source.h - 1
         /\ q.space = "image"
<1>1. /\ q.x \in 0 .. image.w - 1 /\ q.y \in 0 .. image.h - 1 /\ q.space = "image"
  BY DEF Samples, At
<1>2. /\ Into(q).x \in 0 .. image.source.w - 1
      /\ Into(q).y \in 0 .. image.source.h - 1
      /\ (q.x * image.den) \div image.num = Into(q).x
      /\ (q.y * image.den) \div image.num = Into(q).y
  BY <1>1, IntoByScale DEF Whole
<1>3. ToPhysical(displays, image, q)
        = At(image.source.x + (q.x * image.den) \div image.num,
             image.source.y + (q.y * image.den) \div image.num, "physical")
  BY <1>1 DEF ToPhysical
<1>4. image.source.x \in Int /\ image.source.y \in Int
      /\ image.source.w \in Int /\ image.source.h \in Int
  BY DEF IsImage, Positive
<1>5. Place(q).x \in Int /\ Place(q).y \in Int
  BY <1>2, <1>4 DEF Place, At
<1>6. ToPhysical(displays, image, q) = Place(q)
  BY <1>2, <1>3 DEF Place
<1> QED BY <1>1, <1>2, <1>5, <1>6

\* A pixel that shows a monitor is on the display of the monitor; on macOS
\* that is the display the frame is of.
LEMMA PlaceIsShown ==
  ASSUME ViewInv, Known, NEW q \in Samples, Whole(q), OnMonitor(Seen(q))
  PROVE  \E i \in DOMAIN displays :
           /\ Covers(displays[i].physical, Place(q))
           /\ platform = "macos" => \E m \in desktop :
                FrameOf(displays[i], m, frame, image.source)
<1>1. /\ IsImage(image) /\ image.valid /\ Proportional
      /\ frame.desktop = desktop /\ displays = Current
      /\ frame.kind = "window" => platform = "windows"
  BY DEF ViewInv, Known
<1>2. /\ Into(q).x \in 0 .. image.source.w - 1
      /\ Into(q).y \in 0 .. image.source.h - 1
      /\ Place(q).x = image.source.x + Into(q).x
      /\ Place(q).y = image.source.y + Into(q).y
  BY <1>1, PlaceIsPhysical DEF Place, At
<1>3. /\ image.source.x \in Int /\ image.source.y \in Int
      /\ image.source.w \in Nat /\ image.source.h \in Nat
  BY <1>1 DEF IsImage, Positive
<1>4. desktop # {} /\ GoodDesktop(platform, desktop)
  BY CurrentGraph DEF ViewInv, GoodDesktop
<1>5. IsFrame(frame, image)
  BY DEF ViewInv
<1>6. CASE platform # "macos"
  <2>1. /\ frame.x = image.source.x /\ frame.y = image.source.y
        /\ frame.dx = 0 /\ frame.dy = 0 /\ frame.step = 1
    BY <1>1, <1>4, <1>5, <1>6 DEF IsFrame
  <2>2. /\ Seen(q).x = frame.x + (frame.dx + Into(q).x) \div frame.step
        /\ Seen(q).y = frame.y + (frame.dy + Into(q).y) \div frame.step
    BY DEF Seen
  <2>3. \A a \in Int : (0 + a) \div 1 = a
    OBVIOUS
  <2>4. Into(q).x \in Int /\ Into(q).y \in Int
    BY <1>2, <1>3
  <2>5. Seen(q).x = Place(q).x /\ Seen(q).y = Place(q).y
    BY <1>2, <2>1, <2>2, <2>3, <2>4
  <2>6. PICK m \in desktop : Covers(m.rect, Seen(q))
    BY DEF OnMonitor
  <2>7. PICK i \in DOMAIN displays : Shows(platform, displays[i], m)
    BY <1>1, CurrentGraph DEF ViewInv
  <2>8. Covers(displays[i].physical, Place(q))
    BY <1>6, <2>5, <2>6, <2>7 DEF Shows, Covers
  <2> QED BY <1>6, <2>8
<1>7. CASE platform = "macos"
  <2>1. PICK i \in DOMAIN displays, m \in desktop :
          FrameOf(displays[i], m, frame, image.source)
    BY <1>1, <1>4, <1>5, <1>7 DEF IsFrame, Current
  <2>2. Within(image.source, displays[i].physical)
    BY <2>1 DEF FrameOf
  <2>3. displays[i].physical \in Rects
    BY <2>1 DEF FrameOf, Shows, IsDisplay
  <2>4. Covers(displays[i].physical, Place(q))
    <3> DEFINE r == displays[i].physical
    <3>1. r.x \in Int /\ r.y \in Int /\ r.w \in Int /\ r.h \in Int
      BY <2>3 DEF Rects, Positive
    <3> QED BY <1>2, <1>3, <2>2, <3>1 DEF Covers, Within
  <2> QED BY <2>1, <2>4
<1> QED BY <1>6, <1>7

LEMMA PointsLand == ViewInv => ImagePointsLandWhereTheyWereSeen
<1> SUFFICES ASSUME ViewInv, Known, Apart, NEW q \in Samples, Whole(q),
                    OnMonitor(Seen(q))
             PROVE  /\ Resolvable(displays, image, q)
                    /\ LET p == Lands(Resolve(displays, image, q))
                       IN p.x = Seen(q).x /\ p.y = Seen(q).y
  BY Zenon DEF ImagePointsLandWhereTheyWereSeen
<1> DEFINE P == Place(q)
<1>1. /\ IsImage(image) /\ image.valid /\ Proportional /\ displays = Current
  BY DEF ViewInv, Known
<1>2. /\ P.x \in Int /\ P.y \in Int /\ P.space = "physical"
      /\ ToPhysical(displays, image, q) = P /\ q.space = "image"
      /\ Into(q).x \in Int /\ Into(q).y \in Int
  BY <1>1, PlaceIsPhysical DEF Place, At, IsImage, Positive
<1>3. IsGraph(displays)
  BY KnownGraph
<1>4. PICK i0 \in DOMAIN displays :
        /\ Covers(displays[i0].physical, P)
        /\ platform = "macos" => \E m \in desktop :
             FrameOf(displays[i0], m, frame, image.source)
  BY PlaceIsShown
<1> HIDE DEF P
<1>5. PICK i \in DOMAIN displays :
        Containing(displays, P) = displays[i] /\ Covers(displays[i].physical, P)
  <2>1. \A j \in DOMAIN displays : Bounds(displays[j], P.space) = displays[j].physical
    BY <1>2 DEF Bounds
  <2> QED BY <1>2, <1>3, <1>4, <2>1, ContainingIsOne
<1> DEFINE d == displays[i]
<1>6. IsDisplay(d)
  BY <1>3 DEF IsGraph
<1>7. Even(d, P)
  <2>1. Divides(d, q)
    BY DEF Whole
  <2>2. /\ P.x = image.source.x + Into(q).x /\ P.y = image.source.y + Into(q).y
    BY DEF P, Place, At
  <2> DEFINE p == [x |-> image.source.x + Into(q).x, y |-> image.source.y + Into(q).y]
  <2>3. p.x = P.x /\ p.y = P.y
    BY <2>2
  <2> HIDE DEF P
  <2>4. Covers(d.physical, p)
    BY <1>5, <2>3 DEF Covers
  <2>5. /\ (p.x - d.physical.x) % (d.physical.w \div d.logical.w) = 0
        /\ (p.y - d.physical.y) % (d.physical.h \div d.logical.h) = 0
    BY <2>1, <2>4 DEF Divides
  <2> QED BY <2>3, <2>5 DEF Even
<1> DEFINE L == At(PointAt(d, P).x, PointAt(d, P).y, "logical")
<1>8. /\ PointAt(d, P).x \in Int /\ PointAt(d, P).y \in Int
      /\ Covers(d.logical, PointAt(d, P))
      /\ Carried(P, d.physical, d.logical, "logical") = L
      /\ \A p : p.x = PointAt(d, P).x /\ p.y = PointAt(d, P).y =>
           Carried(p, d.logical, d.physical, "physical") = At(P.x, P.y, "physical")
  BY <1>2, <1>5, <1>6, <1>7, ThereAndBack
<1>9. /\ L.x = PointAt(d, P).x /\ L.y = PointAt(d, P).y /\ L.space = "logical"
      /\ L.x \in Int /\ L.y \in Int /\ Covers(d.logical, L)
  BY <1>8 DEF At, Covers
<1>10. Carried(L, d.logical, d.physical, "physical") = At(P.x, P.y, "physical")
  BY <1>8, <1>9
<1>11. Convert(displays, image, q, "logical") = L
  <2>1. Convert(displays, image, q, "logical")
          = FromPhysical(displays, image, P, "logical")
    BY <1>1, <1>2 DEF Convert
  <2>2. FromPhysical(displays, image, P, "logical")
          = Carried(P, d.physical, d.logical, "logical")
    BY <1>5 DEF FromPhysical
  <2> QED BY <1>8, <2>1, <2>2
<1> HIDE DEF L
<1>12. Resolvable(displays, image, q)
  <2> DEFINE all == VirtualBounds(displays, "logical")
  <2>1. /\ all.x \in Int /\ all.y \in Int /\ all.w \in Int /\ all.h \in Int
        /\ all.x <= d.logical.x /\ d.logical.x + d.logical.w <= all.x + all.w
        /\ all.y <= d.logical.y /\ d.logical.y + d.logical.h <= all.y + all.h
    BY <1>3, AroundAll DEF Bounds
  <2>2. /\ d.logical.x \in Int /\ d.logical.y \in Int
        /\ d.logical.w \in Int /\ d.logical.h \in Int
    BY <1>6 DEF IsDisplay, Rects, Positive
  <2> HIDE DEF all
  <2>3. /\ all.x - Slack <= L.x /\ L.x <= all.x + all.w + Slack
        /\ all.y - Slack <= L.y /\ L.y <= all.y + all.h + Slack
    BY <1>9, <2>1, <2>2 DEF Covers, Slack
  <2> QED BY <1>1, <1>11, <2>3 DEF Resolvable, all
<1>13. Resolve(displays, image, q) = L
  BY <1>11 DEF Resolve
<1>14. CASE platform # "macos"
  <2>1. Lands(L) = Convert(displays, image, L, "physical")
    BY <1>14 DEF Lands
  <2>2. PICK j \in DOMAIN displays :
          Containing(displays, L) = displays[j] /\ Covers(displays[j].logical, L)
    <3>1. \A j \in DOMAIN displays : Bounds(displays[j], L.space) = displays[j].logical
      BY <1>9 DEF Bounds
    <3> QED BY <1>3, <1>9, <3>1, ContainingIsOne
  <2>3. displays[j].logical \in Rects /\ d.logical \in Rects
    BY <1>3 DEF IsGraph, IsDisplay
  <2>4. i = j
    BY <1>9, <2>2, <2>3, CommonPlaceOverlaps DEF Apart
  <2>5. ToPhysical(displays, image, L) = Carried(L, d.logical, d.physical, "physical")
    BY <1>9, <2>2, <2>4 DEF ToPhysical
  <2>6. Convert(displays, image, L, "physical") = ToPhysical(displays, image, L)
    BY <1>9 DEF Convert, FromPhysical
  <2>7. Lands(L) = At(P.x, P.y, "physical")
    BY <1>10, <2>1, <2>5, <2>6
  <2>8. /\ frame.x = image.source.x /\ frame.y = image.source.y
        /\ frame.dx = 0 /\ frame.dy = 0 /\ frame.step = 1
    <3>1. frame.desktop # {}
      BY CurrentGraph DEF ViewInv, Known, GoodDesktop
    <3> QED BY <1>1, <1>14, <3>1 DEF ViewInv, IsFrame, Known
  <2>9. \A a \in Int : (0 + a) \div 1 = a
    OBVIOUS
  <2>10. Seen(q).x = P.x /\ Seen(q).y = P.y
    BY <1>2, <2>8, <2>9 DEF Seen, P, Place, At
  <2> QED BY <1>12, <1>13, <2>7, <2>10 DEF At
<1>15. CASE platform = "macos"
  <2>1. Lands(L) = L
    BY <1>15 DEF Lands
  <2>2. d = displays[i0]
    <3>1. /\ displays[i0].physical \in Rects /\ d.physical \in Rects
      BY <1>3 DEF IsGraph, IsDisplay
    <3>2. ~Beside(displays[i0].physical, d.physical)
      BY <1>2, <1>4, <1>5, <3>1, CommonPlaceOverlaps
    <3> QED BY <1>1, <1>15, <3>2, CurrentGraph DEF ViewInv
  <2>3. PICK m \in desktop : FrameOf(d, m, frame, image.source)
    BY <1>4, <1>15, <2>2
  <2>4. /\ d.logical = m.rect /\ d.physical.w = m.rect.w * m.scale
        /\ d.physical.h = m.rect.h * m.scale
        /\ frame.x = d.logical.x /\ frame.y = d.logical.y /\ frame.step = m.scale
        /\ frame.dx = image.source.x - d.physical.x
        /\ frame.dy = image.source.y - d.physical.y
    BY <2>3 DEF FrameOf, Shows
  <2>5. m.rect.w \in Positive /\ m.rect.h \in Positive /\ m.scale \in Positive
    BY CurrentGraph DEF ViewInv, GoodDesktop, IsMonitor, Rects
  <2>6. d.physical.w \div d.logical.w = m.scale /\ d.physical.h \div d.logical.h = m.scale
    BY <2>4, <2>5, FactorIsWhole
  <2>7. /\ L.x = d.logical.x + (P.x - d.physical.x) \div m.scale
        /\ L.y = d.logical.y + (P.y - d.physical.y) \div m.scale
    BY <1>9, <2>6 DEF PointAt
  <2>8. /\ P.x - d.physical.x = frame.dx + Into(q).x
        /\ P.y - d.physical.y = frame.dy + Into(q).y
    <3>1. P.x = image.source.x + Into(q).x /\ P.y = image.source.y + Into(q).y
      BY DEF P, Place, At
    <3>2. /\ image.source.x \in Int /\ image.source.y \in Int
          /\ d.physical.x \in Int /\ d.physical.y \in Int
      BY <1>1, <1>6 DEF IsImage, IsDisplay, Rects
    <3> QED BY <1>2, <2>4, <3>1, <3>2
  <2>9. L.x = Seen(q).x /\ L.y = Seen(q).y
    BY <2>4, <2>7, <2>8 DEF Seen
  <2> QED BY <1>12, <1>13, <2>1, <2>9
<1> QED BY <1>14, <1>15

-----------------------------------------------------------------------------
(***************************************************************************)
(* Calls.  A handler that loops, or has a second part, runs inside a step  *)
(* that has not returned, and a step is one of the plan.                   *)
(***************************************************************************)
Busy == {"step"} \cup Handlers
CallInv ==
  /\ platform \in Platforms
  /\ pc \in {"idle", "reply"} \cup Busy
  /\ pc = "idle" => plan = <<>> /\ done = <<>>
  /\ pc # "idle" => plan \in Plans[platform]
  /\ done \in Seq(BOOLEAN) /\ Len(done) <= Len(plan)
  /\ pc \in Busy => Len(done) < Len(plan)
  /\ pc = "tree" => Step.does = "snapshot"

LEMMA BusyPlaces ==
  Busy = {"step", "tree", "test", "poll", "nap", "look", "regions", "scroll", "missed"}
BY DEF Busy, Handlers, Waiting, Searching

\* The step that runs is one of those that may be asked for.
LEMMA StepIsTyped ==
  ASSUME CallInv, pc \in Busy PROVE IsStep(Step)
<1>1. /\ plan \in Plans[platform] /\ platform \in Platforms
      /\ Len(done) < Len(plan) /\ Len(done) \in Nat
  BY BusyPlaces DEF CallInv
<1>2. plan \in Seq(Range(plan)) /\ \A i \in DOMAIN plan : IsStep(plan[i])
  BY <1>1, PlansAssumption
<1>3. Len(done) + 1 \in DOMAIN plan
  BY <1>1, <1>2
<1> QED BY <1>2, <1>3 DEF Step

LEMMA CallStays ==
  ASSUME CallInv, UNCHANGED <<platform, pc, plan, done>> PROVE CallInv'
BY DEF CallInv, Step

\* A step returns.
LEMMA ReturnsKeep ==
  ASSUME CallInv, pc \in Busy, NEW ok \in BOOLEAN, NEW picture,
         Returns(ok, picture), UNCHANGED platform
  PROVE  CallInv'
<1>1. /\ done' = Append(done, ok) /\ plan' = plan
      /\ pc' = IF ok /\ Len(done) + 1 < Len(plan) THEN "step" ELSE "reply"
  BY DEF Returns, Onward
<1>2. done \in Seq(BOOLEAN) /\ Len(done) < Len(plan)
      /\ plan \in Plans[platform]
  BY BusyPlaces DEF CallInv
<1>3. plan \in Seq(Range(plan))
  BY <1>2, PlansAssumption DEF CallInv
<1>4. Len(plan) \in Nat
  BY <1>3
<1>5. done' \in Seq(BOOLEAN) /\ Len(done') = Len(done) + 1
  BY <1>1, <1>2
<1>6. Len(done') <= Len(plan) /\ (pc' = "step" => Len(done') < Len(plan))
  BY <1>1, <1>2, <1>4, <1>5
<1> QED BY <1>1, <1>2, <1>5, <1>6, BusyPlaces DEF CallInv

LEMMA PlainlyKeeps ==
  ASSUME CallInv, pc \in Busy, NEW ok \in BOOLEAN, Plainly(ok), UNCHANGED platform
  PROVE  CallInv'
BY ReturnsKeep DEF Plainly

\* A step ends without the image of an earlier one.
LEMMA DropsKeep ==
  ASSUME CallInv, pc \in Busy, NEW ok \in BOOLEAN, Drops(ok),
         pc' \in {"reply", Onward(ok)}
  PROVE  CallInv'
<1>1. /\ done' = Append(done, ok) /\ UNCHANGED <<platform, plan>>
      /\ \/ pc' = "reply"
         \/ pc' = "step" /\ Len(done) + 1 < Len(plan)
  BY DEF Drops, Onward, targetVars
<1>2. done \in Seq(BOOLEAN) /\ Len(done) < Len(plan) /\ plan \in Plans[platform]
  BY BusyPlaces DEF CallInv
<1>3. plan \in Seq(Range(plan))
  BY <1>2, PlansAssumption DEF CallInv
<1>4. Len(plan) \in Nat /\ done' \in Seq(BOOLEAN) /\ Len(done') = Len(done) + 1
  BY <1>1, <1>2, <1>3
<1> QED BY <1>1, <1>2, <1>4, BusyPlaces DEF CallInv

\* A handler goes on to another part of it.
LEMMA GoesKeeps ==
  ASSUME CallInv, pc \in Busy, NEW to \in Handlers, Goes(to), UNCHANGED platform,
         to = "tree" => Step.does = "snapshot"
  PROVE  CallInv'
<1>1. pc' = to /\ UNCHANGED <<plan, done>> /\ to \in Busy /\ to # "idle" /\ pc # "idle"
  BY BusyPlaces DEF Goes, Busy
<1>2. Step' = Step
  BY <1>1 DEF Step
<1> QED BY <1>1, <1>2 DEF CallInv

LEMMA CallsKept == CallInv /\ [Next]_vars => CallInv'
<1> SUFFICES ASSUME CallInv, [Next]_vars PROVE CallInv'
  OBVIOUS
<1> USE BusyPlaces
<1>1. CASE Ask
  <2>1. /\ plan' \in Plans[platform] /\ pc' = "step" /\ UNCHANGED <<platform, done>>
        /\ done = <<>> /\ platform \in Platforms
    BY <1>1 DEF Ask, targetVars, CallInv
  <2>2. plan' # <<>> /\ plan' \in Seq(Range(plan'))
    BY <2>1, PlansAssumption
  <2>3. Len(plan') \in Nat /\ 0 < Len(plan')
    BY <2>2
  <2>4. done' \in Seq(BOOLEAN) /\ Len(done') = 0
    BY <2>1
  <2> QED BY <2>1, <2>3, <2>4 DEF CallInv
<1>2. CASE Nameless
  BY <1>2, DropsKeep DEF Nameless, Doing
<1>3. CASE ListDisplays \/ Elements \/ Point \/ Scroll \/ Wait
  BY <1>3, PlainlyKeeps
     DEF ListDisplays, Elements, Point, Scroll, Wait, Doing, Atomic, user, targetVars
<1>4. ASSUME pc = "step", NoCapture \/ Unencoded PROVE CallInv'
  BY <1>4, PlainlyKeeps, ReturnsKeep DEF NoCapture, Unencoded, Atomic, user
<1>5. CASE Capture
  <2>1. pc = "step"
    BY <1>5 DEF Capture, Doing
  <2>2. CASE Taken /\ Returns(TRUE, image')
    BY <2>1, <2>2, ReturnsKeep DEF Taken, Atomic, user
  <2> QED BY <1>4, <1>5, <2>1, <2>2 DEF Capture
<1>6. CASE Snapshot
  <2>1. pc = "step" /\ Step.does = "snapshot" /\ "tree" \in Handlers
    BY <1>6 DEF Snapshot, Doing, Handlers
  <2>2. CASE Goes("tree") /\ UNCHANGED targetVars
    BY <2>1, <2>2, GoesKeeps DEF targetVars
  <2>3. CASE Taken /\ pc' = "tree" /\ UNCHANGED <<plan, done>>
    <3>1. UNCHANGED platform /\ Step' = Step
      BY <2>3 DEF Taken, Atomic, user, Step
    <3> QED BY <2>1, <2>3, <3>1 DEF CallInv
  <2> QED BY <1>4, <1>6, <2>1, <2>2, <2>3 DEF Snapshot
<1>7. CASE ReadTree
  <2>1. pc = "tree" /\ UNCHANGED platform
    BY <1>7 DEF ReadTree, user
  <2>2. Step.vision \in BOOLEAN
    <3>1. IsStep(Step) /\ Step.does = "snapshot"
      BY <2>1, StepIsTyped DEF CallInv
    <3> QED BY <3>1 DEF IsStep
  <2>3. CASE Plainly(TRUE)
    BY <2>1, <2>3, PlainlyKeeps
  <2>4. CASE Plainly(Step.vision)
    BY <2>1, <2>2, <2>4, PlainlyKeeps
  <2> QED BY <1>7, <2>3, <2>4 DEF ReadTree
<1>8. CASE WaitFor \/ WaitTest \/ WaitPoll \/ WaitOver
  <2>1. /\ pc \in Busy /\ UNCHANGED platform
        /\ \/ Goes("test") \/ Goes("poll") \/ Goes("nap")
           \/ Plainly(TRUE) \/ Plainly(FALSE)
    BY <1>8 DEF WaitFor, WaitTest, WaitPoll, WaitOver, Doing, targetVars
  <2>2. {"test", "poll", "nap"} \subseteq Handlers
    BY DEF Handlers, Waiting
  <2> QED BY <2>1, <2>2, GoesKeeps, PlainlyKeeps
<1>9. CASE Find \/ Look \/ Regions \/ FindScrolls \/ Missed
  <2>1. /\ pc \in Busy /\ UNCHANGED platform
        /\ \/ Goes("look") \/ Goes("missed") \/ Goes("regions") \/ Goes("scroll")
           \/ Plainly(TRUE) \/ Plainly(FALSE)
    BY <1>9 DEF Find, Look, Regions, FindScrolls, Missed, Doing, targetVars
  <2>2. {"look", "missed", "regions", "scroll"} \subseteq Handlers
    BY DEF Handlers, Searching
  <2> QED BY <2>1, <2>2, GoesKeeps, PlainlyKeeps
<1>10. CASE Reply
  <2>1. plan' = <<>> /\ done' = <<>> /\ pc' = "idle" /\ UNCHANGED platform
    BY <1>10 DEF Reply, targetVars
  <2>2. <<>> \in Seq(BOOLEAN) /\ Len(<<>>) <= Len(<<>>)
    OBVIOUS
  <2> QED BY <2>1, <2>2 DEF CallInv
<1>11. CASE Tick \/ Settle \/ Plug \/ Move \/ Think \/ UNCHANGED vars
  BY <1>11, CallStays
     DEF Tick, Settle, Plug, Move, Think, user, callVars, targetVars, vars
<1>12. CASE DeviceShot
  <2>1. pc \in Busy
    BY <1>12 DEF DeviceShot, Doing
  <2>2. CASE OfRegion
    BY <2>1, <2>2, ReturnsKeep DEF OfRegion, Atomic, user
  <2>3. CASE Plainly(FALSE) /\ Atomic
    BY <2>1, <2>3, PlainlyKeeps DEF Atomic, user
  <2>4. CASE Drops(TRUE) /\ pc' = Onward(TRUE)
    BY <2>1, <2>4, DropsKeep
  <2> QED BY <1>12, <2>2, <2>3, <2>4 DEF DeviceShot
<1> QED BY
     <1>1, <1>2, <1>3, <1>5, <1>6, <1>7, <1>8, <1>9, <1>10, <1>11, <1>12
     DEF Next, Running

LEMMA CallsStart == Init => CallInv
<1> SUFFICES ASSUME Init PROVE CallInv
  OBVIOUS
<1>1. <<>> \in Seq(BOOLEAN) /\ Len(<<>>) <= Len(<<>>)
  OBVIOUS
<1> QED BY <1>1, BusyPlaces DEF Init, CallInv

-----------------------------------------------------------------------------
(***************************************************************************)
(* Captures keep the view.                                                 *)
(***************************************************************************)
\* Whatever is captured has a place and a size in whole pixels.
LEMMA CapturedTyped ==
  ASSUME platform \in Platforms, IsImage(image), NEW ds, IsGraph(ds),
         NEW o, IsOptions(o), HasDisplay(o, ds)
  PROVE  /\ CapturedOf(o, ds).x \in Int /\ CapturedOf(o, ds).y \in Int
         /\ CapturedOf(o, ds).w \in Int /\ CapturedOf(o, ds).h \in Int
         /\ platform = "macos" /\ o.from # "window" =>
              \E i \in DOMAIN ds :
                /\ ds[i] = IF o.from = "display" THEN ds[o.index + 1] ELSE Primary(ds)
                /\ Within(CapturedOf(o, ds), ds[i].physical)
<1> DEFINE c == CapturedOf(o, ds)
           source == SourceOf(o, ds)
           part == ConvertRect(ds, image, o.region, o.space, "physical")
<1>1. /\ platform \in {"linux", "windows", "macos"} /\ WindowAt \in Rects
      /\ o.from \in {"all", "display", "window", "region"}
  BY DesktopsAssumption DEF IsOptions
<1>2. ASSUME NEW r \in Rects
      PROVE  /\ r.x \in Int /\ r.y \in Int /\ r.w \in Positive /\ r.h \in Positive
             /\ r.w \in Int /\ r.h \in Int
  BY DEF Rects, Positive
<1>3. \A i \in DOMAIN ds : ds[i].physical \in Rects /\ ds[i].logical \in Rects
  BY DEF IsGraph, IsDisplay
<1>4. part.x \in Int /\ part.y \in Int /\ part.w \in Int /\ part.h \in Int
  <2>1. /\ o.region.x \in Int /\ o.region.y \in Int
        /\ o.region.w \in Int /\ o.region.h \in Int /\ o.space \in Spaces
    BY DEF IsOptions
  <2>2. "physical" \in Spaces
    BY DEF Spaces
  <2> QED BY <2>1, <2>2, ConvertRectTyped
<1>5. \E i \in DOMAIN ds : Primary(ds) = ds[i]
  BY PrimaryIsOne
<1>6. ASSUME NEW i \in DOMAIN ds PROVE Within(ds[i].physical, ds[i].physical)
  BY <1>2, <1>3 DEF Within
<1>7. CASE o.from = "window"
  <2>1. c = WindowSource(ds)
    BY <1>7 DEF CapturedOf, SourceOf
  <2>2. CASE platform # "macos"
    <3>1. 0 \in Int
      OBVIOUS
    <3> QED BY <1>1, <1>2, <2>1, <2>2, <3>1, <1>7 DEF WindowSource, Rect
  <2>3. CASE platform = "macos"
    <3> DEFINE p == At(WindowAt.x, WindowAt.y, "logical")
    <3>1. p.x \in Int /\ p.y \in Int
      BY <1>1, <1>2 DEF At
    <3>2. PICK i \in DOMAIN ds : Containing(ds, p) = ds[i]
      BY <3>1, ContainingIsOne
    <3> DEFINE s == ds[i].physical.w \div ds[i].logical.w
    <3>3. s \in Int
      BY <1>2, <1>3, QuotientTyped
    <3>4. c = Rect(WindowAt.x * s, WindowAt.y * s, WindowAt.w * s, WindowAt.h * s)
      BY <2>1, <2>3, <3>2 DEF WindowSource
    <3> HIDE DEF s
    <3> QED BY <1>1, <1>2, <1>7, <3>3, <3>4 DEF Rect
  <2> QED BY <2>2, <2>3
<1>8. CASE o.from = "display"
  <2>1. c = ds[o.index + 1].physical /\ o.index + 1 \in DOMAIN ds
    BY <1>8 DEF CapturedOf, SourceOf, HasDisplay
  <2> QED BY <1>2, <1>3, <1>6, <1>8, <2>1
<1>9. CASE platform = "macos" /\ o.from = "all"
  <2>1. c = Primary(ds).physical
    BY <1>9 DEF CapturedOf, SourceOf
  <2> QED BY <1>2, <1>3, <1>5, <1>6, <1>9, <2>1
<1>10. CASE platform = "macos" /\ o.from = "region"
  <2>1. PICK i \in DOMAIN ds : Primary(ds) = ds[i]
    BY <1>5
  <2>2. c = Cropped(ds[i].physical, part)
    BY <1>10, <2>1 DEF CapturedOf, SourceOf
  <2> HIDE DEF c, part
  <2>3. /\ c.x \in Int /\ c.y \in Int /\ c.w \in Int /\ c.h \in Int
        /\ Within(c, ds[i].physical)
    BY <1>3, <1>4, <2>2, CroppedIsWithin
  <2> QED BY <1>10, <2>1, <2>3 DEF c
<1>11. CASE platform # "macos" /\ o.from = "region"
  <2>1. c = part
    BY <1>11 DEF CapturedOf, SourceOf
  <2> QED BY <1>4, <1>11, <2>1
<1>12. CASE platform # "macos" /\ o.from = "all"
  <2>1. c = VirtualBounds(ds, "physical")
    BY <1>12 DEF CapturedOf, SourceOf
  <2> QED BY <1>12, <2>1, AroundAll
<1> QED BY <1>1, <1>7, <1>8, <1>9, <1>10, <1>11, <1>12

\* The truth recorded of a frame.
LEMMA ShownIsFrame ==
  ASSUME platform \in Platforms, desktop \in Desktops[platform], IsImage(image),
         NEW ds, IsGraph(ds), NEW o, IsOptions(o), HasDisplay(o, ds),
         NEW t, t.source = CapturedOf(o, ds)
  PROVE  IsFrame(ShownBy(o, ds, t), t)
<1> DEFINE f == ShownBy(o, ds, t)
           source == CapturedOf(o, ds)
           d == IF o.from = "display" THEN ds[o.index + 1] ELSE Primary(ds)
           m == CHOOSE n \in desktop : StillThere(d) => n.id = d.id
           taken == IF ds = Current THEN desktop ELSE {}
<1>1. CASE o.from = "window"
  <2>1. f = Frame("window", taken, WindowAt.x, WindowAt.y, 0, 0,
                  IF platform = "macos" THEN t.source.w \div WindowAt.w ELSE 1)
    BY <1>1 DEF ShownBy
  <2>2. /\ f.kind = "window" /\ f.x = WindowAt.x /\ f.y = WindowAt.y
        /\ f.dx = 0 /\ f.dy = 0
        /\ f.step = IF platform = "macos" THEN t.source.w \div WindowAt.w ELSE 1
    BY <2>1 DEF Frame
  <2>3. platform = "windows" => source = WindowAt
    BY <1>1 DEF CapturedOf, SourceOf, WindowSource
  <2> HIDE DEF f
  <2>4. IsFrame(f, t)
    BY <2>2, <2>3 DEF IsFrame
  <2> QED BY <2>4 DEF f
<1>2. CASE o.from # "window" /\ platform # "macos"
  <2>1. f = Frame(o.from, taken, t.source.x, t.source.y, 0, 0, 1)
    BY <1>2 DEF ShownBy
  <2>2. /\ f.x = t.source.x /\ f.y = t.source.y /\ f.dx = 0 /\ f.dy = 0
        /\ f.step = 1
    BY <2>1 DEF Frame
  <2> HIDE DEF f
  <2>3. IsFrame(f, t)
    BY <1>2, <2>2 DEF IsFrame
  <2> QED BY <2>3 DEF f
<1>3. CASE o.from # "window" /\ platform = "macos"
  <2>1. f = Frame(o.from, taken, m.rect.x, m.rect.y, t.source.x - d.physical.x,
                  t.source.y - d.physical.y, m.scale)
    BY <1>3 DEF ShownBy
  <2>2. /\ f.desktop = taken /\ f.x = m.rect.x /\ f.y = m.rect.y
        /\ f.dx = t.source.x - d.physical.x /\ f.dy = t.source.y - d.physical.y
        /\ f.step = m.scale
    BY <2>1 DEF Frame
  <2>3. PICK i \in DOMAIN ds : ds[i] = d /\ Within(source, ds[i].physical)
    BY <1>3, CapturedTyped
  <2>4. ASSUME f.desktop # {}
        PROVE  ds = Current /\ f.desktop = desktop
    BY <2>2, <2>4
  <2>5. ASSUME ds = Current
        PROVE  m \in desktop /\ Shows("macos", ds[i], m)
    <3>1. PICK n \in desktop : Shows("macos", ds[i], n)
      BY <1>3, <2>3, <2>5, CurrentGraph
    <3>2. n.id = d.id
      BY <2>3, <3>1 DEF Shows
    <3>3. StillThere(d)
      BY <3>2 DEF StillThere
    <3>4. m \in desktop /\ m.id = n.id
      BY <3>2, <3>3
    <3>5. m = n
      <4>1. GoodDesktop(platform, desktop)
        BY CurrentGraph
      <4> QED BY <3>4, <4>1 DEF GoodDesktop
    <3> QED BY <3>1, <3>5
  <2> HIDE DEF f, d, m, taken
  <2>6. ASSUME f.desktop # {}
        PROVE  LET s == Ordered(Enumerated(platform, f.desktop))
               IN \E j \in DOMAIN s, n \in f.desktop : FrameOf(s[j], n, f, t.source)
    <3>1. ds = Current /\ f.desktop = desktop
      BY <2>4, <2>6
    <3>2. m \in desktop /\ Shows("macos", ds[i], m)
      BY <2>5, <3>1
    <3>3. FrameOf(ds[i], m, f, t.source)
      BY <2>2, <2>3, <3>2 DEF FrameOf
    <3>4. Ordered(Enumerated(platform, f.desktop)) = ds
      BY <3>1 DEF Current
    <3> QED BY <2>3, <3>1, <3>2, <3>3, <3>4
  <2>7. IsFrame(f, t)
    BY <1>3, <2>6 DEF IsFrame
  <2> QED BY <2>7 DEF f
<1> QED BY <1>1, <1>2, <1>3

\* A step that leaves what has been captured.
LEMMA ViewStays ==
  ASSUME ViewInv, UNCHANGED <<platform, displays, image, frame>>,
         desktop' \in Desktops[platform]
  PROVE  ViewInv'
<1>1. GraphIsKnown'
  BY DEF ViewInv, GraphIsKnown
<1>2. IsFrame(frame, image)'
  BY DEF ViewInv, IsFrame
<1> QED BY <1>1, <1>2 DEF ViewInv

LEMMA RefreshedIsKnown ==
  ASSUME ViewInv, displays' \in Refreshed, UNCHANGED platform
  PROVE  GraphIsKnown' /\ IsGraph(displays')
<1>1. CASE displays' = Current
  <2>1. GraphIsKnown'
    BY <1>1 DEF ViewInv, GraphIsKnown, Current
  <2> QED BY <1>1, <2>1, CurrentGraph DEF ViewInv
<1>2. CASE displays' = displays
  <2>1. GraphIsKnown'
    BY <1>2 DEF ViewInv, GraphIsKnown
  <2> QED BY <1>2, <2>1, KnownGraph
<1> QED BY <1>1, <1>2 DEF Refreshed

\* A step that looks at the displays again, and no more.
LEMMA RefreshKeeps ==
  ASSUME ViewInv, displays' \in Refreshed, UNCHANGED <<platform, desktop, image, frame>>
  PROVE  ViewInv'
<1>1. GraphIsKnown'
  BY RefreshedIsKnown
<1>2. IsFrame(frame, image)'
  BY DEF ViewInv, IsFrame
<1> QED BY <1>1, <1>2 DEF ViewInv

LEMMA CaptureKeeps ==
  ASSUME ViewInv, NEW o, IsOptions(o), CaptureDone(o), UNCHANGED <<platform, desktop>>
  PROVE  ViewInv'
<1> DEFINE source == CapturedOf(o, displays')
           t == Shrunk(source, o.max)
<1>1. /\ displays' \in Refreshed /\ HasDisplay(o, displays')
      /\ source.w > 0 /\ source.h > 0
      /\ image' = t /\ frame' = ShownBy(o, displays', t)
  BY DEF CaptureDone
<1>2. GraphIsKnown' /\ IsGraph(displays')
  BY <1>1, RefreshedIsKnown
<1>3. source.x \in Int /\ source.y \in Int /\ source.w \in Int /\ source.h \in Int
  BY <1>1, <1>2, CapturedTyped DEF ViewInv
<1>4. source.w \in Positive /\ source.h \in Positive /\ o.max \in Nat
  BY <1>1, <1>3 DEF Positive, IsOptions
<1> HIDE DEF source
<1>5. IsImage(t) /\ t.source = source
  BY <1>3, <1>4, ShrunkIsImage
<1> HIDE DEF t
<1>6. IsFrame(ShownBy(o, displays', t), t)
  <2>1. t.source = CapturedOf(o, displays')
    BY <1>5 DEF source
  <2> QED BY <1>1, <1>2, <2>1, ShownIsFrame DEF ViewInv
<1>7. IsFrame(frame, image)'
  BY <1>1, <1>6 DEF IsFrame
<1>8. IsImage(image)'
  BY <1>1, <1>5 DEF IsImage
<1> QED BY <1>2, <1>7, <1>8 DEF ViewInv

LEMMA ViewKept == CallInv /\ ViewInv /\ [Next]_vars => ViewInv'
<1> SUFFICES ASSUME CallInv, ViewInv, [Next]_vars PROVE ViewInv'
  OBVIOUS
<1>1. desktop \in Desktops[platform]
  BY DEF ViewInv
<1>2. CASE UNCHANGED <<platform, desktop, displays, image, frame>>
  BY <1>1, <1>2, ViewStays
<1>3. CASE ListDisplays
  BY <1>3, RefreshKeeps DEF ListDisplays, DisplaysListed, Atomic, user
<1>4. ASSUME Doing("capture") \/ Doing("snapshot") \/ Doing("device")
      PROVE  IsOptions(Step.options)
  <2>1. IsStep(Step)
    BY <1>4, StepIsTyped, BusyPlaces DEF Doing
  <2> QED BY <1>4, <2>1 DEF IsStep, Doing
<1>5. ASSUME Doing("capture") \/ Doing("snapshot"), NoCapture \/ Unencoded \/ Taken
      PROVE  ViewInv'
  <2>1. CASE NoCapture
    BY <2>1, RefreshKeeps DEF NoCapture, CaptureFails, Atomic, user
  <2>2. CASE Unencoded \/ Taken
    BY <1>4, <1>5, <2>2, CaptureKeeps DEF Unencoded, Taken, Atomic, user
  <2> QED BY <1>5, <2>1, <2>2
<1>6. CASE Capture
  BY <1>5, <1>6 DEF Capture
<1>7. CASE Snapshot
  BY <1>2, <1>5, <1>7 DEF Snapshot, targetVars
<1>8. CASE Ask \/ Nameless \/ ReadTree \/ Elements \/ Point \/ Scroll \/ Wait \/ Reply
  BY <1>2, <1>8
     DEF Ask, Nameless, Drops, ReadTree, Elements, Point, Scroll, Wait, Reply, user,
         program, targetVars
<1>9. CASE WaitFor \/ WaitTest \/ WaitPoll \/ WaitOver \/ Tick
  BY <1>2, <1>9
     DEF WaitFor, WaitTest, WaitPoll, WaitOver, Tick, user, targetVars
<1>10. CASE Find \/ Look \/ Regions \/ FindScrolls \/ Missed \/ Settle
  BY <1>2, <1>10
     DEF Find, Look, Regions, FindScrolls, Missed, Settle, program, targetVars
<1>11. CASE Plug
  BY <1>11, ViewStays DEF Plug, program
<1>12. CASE Move \/ Think \/ UNCHANGED vars
  BY <1>2, <1>12 DEF Move, Think, program, user, vars, targetVars
<1>13. CASE DeviceShot
  <2>1. CASE OfRegion
    BY <1>4, <1>13, <2>1, CaptureKeeps DEF DeviceShot, OfRegion, Atomic, user
  <2>2. CASE UNCHANGED <<program, user>> \/ UNCHANGED targetVars
    BY <1>2, <2>2 DEF program, user, targetVars
  <2> QED BY <1>13, <2>1, <2>2 DEF DeviceShot, Drops, Atomic
<1> QED BY <1>3, <1>6, <1>7, <1>8, <1>9, <1>10, <1>11, <1>12, <1>13
        DEF Next, Running

LEMMA ViewStarts == Init => ViewInv
<1> SUFFICES ASSUME Init PROVE ViewInv
  OBVIOUS
<1>1. platform \in Platforms /\ desktop \in Desktops[platform] /\ displays = Current
  BY DEF Init
<1>2. image = NoTransform
  BY DEF Init
<1>3. IsImage(image) /\ ~image.valid
  BY <1>2 DEF IsImage, NoTransform, Transform, Rect, Positive
<1> QED BY <1>1, <1>3 DEF ViewInv, GraphIsKnown, Current, IsFrame

(***************************************************************************)
(* A pixel of the last capture, passed back in image space, arrives at     *)
(* what was seen there, for any desktops of any monitors, any crops and    *)
(* downscales that keep the proportions of what they show, and any history *)
(* of captures, plugged monitors and failed refreshes before it: as long   *)
(* as the desktop is as it was captured, no two displays claim the same    *)
(* logical points, and no quotient has a remainder (do_capture,            *)
(* ImageTransform, DisplayGraph::convert, Session::resolve).               *)
(***************************************************************************)
THEOREM PointsLandWhereSeen == Spec => []ImagePointsLandWhereTheyWereSeen
<1>1. Init => CallInv /\ ViewInv
  BY CallsStart, ViewStarts
<1>2. CallInv /\ ViewInv /\ [Next]_vars => CallInv' /\ ViewInv'
  BY CallsKept, ViewKept
<1>3. ViewInv => ImagePointsLandWhereTheyWereSeen
  BY PointsLand
<1> QED BY <1>1, <1>2, <1>3, PTL DEF Spec

-----------------------------------------------------------------------------
(***************************************************************************)
(* The types of what is counted and of what is remembered.                 *)
(***************************************************************************)
\* A label is a number no greater than the number of items.
LEMMA LabelsAreFew == TopInv => Range(Labels) \subseteq 0 .. Items
<1> SUFFICES ASSUME TopInv, NEW item \in DOMAIN Labels
             PROVE  Labels[item] \in 0 .. Items
  BY DEF Range
<1> DEFINE under == {i \in Visible \cap Live : i < item}
<1>1. /\ top \in Int /\ Len(Slots) \in Nat /\ Items \in Nat /\ Len(Slots) <= Items
  BY ContentAssumption, SizesTyped DEF TopInv
<1>2. IsFiniteSet(Visible) /\ Cardinality(Visible) = Len(Slots)
  <2>1. top + 1 \in Int /\ top + Len(Slots) \in Int
    BY <1>1
  <2>2. /\ IsFiniteSet(top + 1 .. top + Len(Slots))
        /\ Cardinality(top + 1 .. top + Len(Slots)) =
             IF top + 1 > top + Len(Slots) THEN 0
             ELSE (top + Len(Slots)) - (top + 1) + 1
    BY <2>1, FS_Interval
  <2> QED BY <1>1, <2>2 DEF Visible
<1>3. under \in SUBSET Visible
  OBVIOUS
<1>4. /\ IsFiniteSet(under) /\ Cardinality(under) <= Cardinality(Visible)
      /\ Cardinality(under) \in Nat
  <2> HIDE DEF under
  <2> QED BY <1>2, <1>3, FS_Subset, FS_CardinalityType
<1>5. Labels[item] = Cardinality(under)
  BY DEF Labels, LabelOf
<1> HIDE DEF under
<1> QED BY <1>1, <1>2, <1>4, <1>5

\* What remains of the time of wait_for.
LeftInv == poll.left \in Nat

LEMMA QuietLeft == Quiet.left = 0
BY DEF Quiet

LEMMA LeftKept == CallInv /\ Clock /\ LeftInv /\ [Next]_vars => LeftInv'
<1> SUFFICES ASSUME CallInv, Clock, LeftInv, [Next]_vars PROVE LeftInv'
  OBVIOUS
<1>1. CASE UNCHANGED poll \/ poll' = Quiet
  BY <1>1, QuietLeft DEF LeftInv
<1>2. CASE WaitFor
  <2>1. Step.timeout \in Nat
    BY <1>2, StepIsTyped, BusyPlaces DEF WaitFor, Doing, IsStep
  <2>2. poll' = [Quiet EXCEPT !.left = Step.timeout]
    BY <1>2 DEF WaitFor
  <2>3. poll'.left = Step.timeout
    BY <2>2, QuietClock
  <2> QED BY <2>1, <2>3 DEF LeftInv
<1>3. CASE WaitTest
  <2>1. CASE poll' = [poll EXCEPT !.slow = PollTime]
    BY <2>1 DEF LeftInv, Clock
  <2> QED BY <1>1, <1>3, <2>1 DEF WaitTest
<1>4. CASE WaitPoll
  <2>1. ASSUME NEW nap, NEW blind, poll' = [poll EXCEPT !.nap = nap, !.blind = blind]
        PROVE  LeftInv'
    BY <2>1 DEF LeftInv, Clock
  <2> QED BY <1>1, <1>4, <2>1 DEF WaitPoll
<1>5. CASE Tick
  <2>1. poll'.left = Max({0, poll.left - 1})
    BY <1>5 DEF Tick, Clock
  <2>2. 0 \in Int /\ poll.left - 1 \in Int
    BY DEF LeftInv
  <2>3. Max({0, poll.left - 1}) \in Int /\ Max({0, poll.left - 1}) >= 0
    BY <2>2, MaxOfTwo
  <2> QED BY <2>1, <2>3 DEF LeftInv
<1>6. CASE Settle \/ Move
  <2>1. Watched
    BY <1>6 DEF Settle, Move
  <2> QED BY <2>1 DEF Watched, LeftInv, Clock
<1>7. CASE Ask \/ Nameless \/ ListDisplays \/ Capture \/ Snapshot \/ ReadTree
           \/ Elements \/ Point \/ Scroll \/ Wait \/ WaitOver \/ Reply
           \/ DeviceShot
  BY <1>1, <1>7
     DEF Ask, Nameless, Drops, DeviceShot, OfRegion, ListDisplays, Capture, Snapshot, ReadTree, Elements,
         Point, Scroll, Wait, WaitOver, Reply, Atomic, NoCapture, Unencoded, Taken
<1>8. CASE Find \/ Look \/ Regions \/ FindScrolls \/ Missed \/ Plug \/ Think
           \/ UNCHANGED vars
  BY <1>1, <1>8
     DEF Find, Look, Regions, FindScrolls, Missed, Plug, Think, vars
<1> QED BY <1>2, <1>3, <1>4, <1>5, <1>6, <1>7, <1>8 DEF Next, Running

\* What find has counted and looked at.
SoughtInv ==
  /\ DOMAIN search = SearchFields
  /\ search.scrolls \in Nat /\ search.seen \subseteq 1 .. Items

LEMMA SoughtKept == TopInv /\ SoughtInv /\ [Next]_vars => SoughtInv'
<1> SUFFICES ASSUME TopInv, SoughtInv, [Next]_vars PROVE SoughtInv'
  OBVIOUS
<1>1. /\ DOMAIN NoSearch = SearchFields /\ NoSearch.scrolls = 0
      /\ NoSearch.seen = {}
  BY DEF NoSearch, SearchFields
<1>2. ASSUME DOMAIN search' = SearchFields, search'.scrolls \in Nat,
             search'.seen \subseteq 1 .. Items
      PROVE  SoughtInv'
  BY <1>2 DEF SoughtInv
<1>3. CASE UNCHANGED search
  BY <1>3 DEF SoughtInv
<1>4. CASE Ends
  <2>1. search' = [NoSearch EXCEPT !.pending = search.pending]
    BY <1>4 DEF Ends
  <2> QED BY <1>1, <1>2, <2>1 DEF SearchFields
<1>5. CASE Find
  <2>1. search' = [NoSearch EXCEPT !.last = -2, !.from = top,
                                   !.pending = search.pending]
    BY <1>5 DEF Find
  <2> QED BY <1>1, <1>2, <2>1 DEF SearchFields
<1>6. CASE Look
  <2>1. CASE search' = [search EXCEPT !.seen = @ \cup Visible]
    <3>1. search.seen \cup Visible \subseteq 1 .. Items
      BY SizesTyped, ContentAssumption DEF SoughtInv, TopInv, Visible, LastTop
    <3>2. /\ DOMAIN search' = SearchFields /\ search'.scrolls = search.scrolls
          /\ search'.seen = search.seen \cup Visible
      BY <2>1 DEF SoughtInv, SearchFields
    <3> QED BY <1>2, <3>1, <3>2 DEF SoughtInv
  <2> QED BY <1>4, <1>6, <2>1 DEF Look
<1>7. CASE Regions
  <2>1. ASSUME NEW value, \/ search' = [search EXCEPT !.end = value]
                          \/ search' = [search EXCEPT !.last = value]
        PROVE  SoughtInv'
    BY <1>2, <2>1 DEF SoughtInv, SearchFields
  <2> QED BY <1>7, <2>1 DEF Regions
<1>8. CASE FindScrolls
  <2>1. CASE search' = [search EXCEPT !.scrolls = @ + 1, !.pending = TRUE]
    <3>1. /\ DOMAIN search' = SearchFields /\ search'.seen = search.seen
          /\ search'.scrolls = search.scrolls + 1
      BY <2>1 DEF SoughtInv, SearchFields
    <3> QED BY <1>2, <3>1 DEF SoughtInv
  <2> QED BY <1>4, <1>8, <2>1 DEF FindScrolls
<1>9. CASE Missed
  BY <1>4, <1>9 DEF Missed
<1>10. CASE Settle \/ Move
  <2>1. ASSUME NEW value, NEW leapt,
               \/ search' = [search EXCEPT !.pending = value, !.leapt = leapt]
               \/ search' = [search EXCEPT !.still = value]
        PROVE  SoughtInv'
    BY <1>2, <2>1 DEF SoughtInv, SearchFields
  <2> QED BY <1>10, <2>1 DEF Settle, Move
<1>11. CASE Ask \/ Nameless \/ ListDisplays \/ Capture \/ Snapshot \/ ReadTree
            \/ Elements \/ Point \/ Scroll \/ Wait \/ Reply \/ DeviceShot
  BY <1>3, <1>11
     DEF Ask, Nameless, Drops, DeviceShot, OfRegion, ListDisplays, Capture, Snapshot, ReadTree, Elements,
         Point, Scroll, Wait, Reply, Atomic, NoCapture, Unencoded, Taken
<1>12. CASE WaitFor \/ WaitTest \/ WaitPoll \/ WaitOver \/ Tick \/ Plug \/ Think
            \/ UNCHANGED vars
  BY <1>3, <1>12
     DEF WaitFor, WaitTest, WaitPoll, WaitOver, Tick, Plug, Think, vars
<1> QED BY <1>5, <1>6, <1>7, <1>8, <1>9, <1>10, <1>11, <1>12 DEF Next, Running

\* The labels that are kept, and for how long.
CacheInv == DOMAIN cache \subseteq 0 .. Items /\ age \in 0 .. LabelLife + 1

LEMMA CacheKept == CallInv /\ TopInv /\ CacheInv /\ [Next]_vars => CacheInv'
<1> SUFFICES ASSUME CallInv, TopInv, CacheInv, [Next]_vars PROVE CacheInv'
  OBVIOUS
<1>1. CASE UNCHANGED <<cache, age>>
  BY <1>1 DEF CacheInv
<1>2. ASSUME NEW n \in Nat, Aged(n), UNCHANGED cache PROVE CacheInv'
  BY <1>2, TimesAssumption DEF CacheInv, Aged
<1>3. CASE ReadTree \/ Elements
  <2>1. CASE TreeTaken
    <3>1. DOMAIN cache' = Range(Labels) /\ age' = 0
      BY <2>1 DEF TreeTaken, NewCache
    <3> QED BY <3>1, LabelsAreFew, TimesAssumption DEF CacheInv
  <2>2. CASE TreeFails
    BY <1>1, <2>2 DEF TreeFails
  <2> QED BY <1>3, <2>1, <2>2 DEF ReadTree, Elements
<1>4. CASE Wait
  <2>1. Step.ticks \in Nat
    BY <1>4, StepIsTyped, BusyPlaces DEF Wait, Doing, IsStep
  <2> QED BY <1>2, <1>4, <2>1 DEF Wait
<1>5. CASE Tick \/ Think
  BY <1>2, <1>5 DEF Tick, Think
<1>6. CASE Ask \/ Nameless \/ ListDisplays \/ Capture \/ Snapshot \/ Point
           \/ Scroll \/ Reply \/ DeviceShot
  BY <1>1, <1>6
     DEF Ask, Nameless, Drops, DeviceShot, OfRegion, ListDisplays,
         DisplaysListed, Capture, Snapshot, Point,
         Scroll, Reply, NoCapture, Unencoded, Taken, targetVars, program
<1>7. CASE WaitFor \/ WaitTest \/ WaitPoll \/ WaitOver
  BY <1>1, <1>7 DEF WaitFor, WaitTest, WaitPoll, WaitOver, targetVars
<1>8. CASE Find \/ Look \/ Regions \/ FindScrolls \/ Missed \/ Settle
  BY <1>1, <1>8
     DEF Find, Look, Regions, FindScrolls, Missed, Settle, targetVars, program
<1>9. CASE Plug \/ Move \/ UNCHANGED vars
  BY <1>1, <1>9 DEF Plug, Move, vars, targetVars, program
<1> QED BY <1>3, <1>4, <1>5, <1>6, <1>7, <1>8, <1>9 DEF Next, Running

\* The calls that have been made, what has changed, and whether an image is lost.
CountInv ==
  lost \in BOOLEAN /\ calls \in 0 .. MaxCalls /\ changes \in 0 .. MaxChanges

LEMMA CountsKept == CountInv /\ [Next]_vars => CountInv'
<1> SUFFICES ASSUME CountInv, [Next]_vars PROVE CountInv'
  OBVIOUS
<1>1. CASE lost' \in BOOLEAN /\ UNCHANGED <<calls, changes>>
  BY <1>1 DEF CountInv
<1>2. CASE UNCHANGED <<lost, calls, changes>>
  BY <1>2 DEF CountInv
<1>3. CASE Ask
  BY <1>3, TimesAssumption DEF Ask, CountInv
<1>4. CASE Plug \/ Move
  BY <1>4, TimesAssumption DEF Plug, Move, callVars, CountInv
<1>5. ASSUME NEW ok, Drops(ok) PROVE CountInv'
  <2>1. lost' \in BOOLEAN
    BY <1>5, Zenon DEF Drops
  <2> QED BY <1>1, <1>5, <2>1 DEF Drops
<1>6. ASSUME NEW ok, Plainly(ok) PROVE CountInv'
  BY <1>2, <1>6 DEF Plainly, Returns
<1>7. ASSUME NEW to, Goes(to) PROVE CountInv'
  BY <1>2, <1>7 DEF Goes
<1>8. CASE Capture \/ Snapshot
  <2>1. CASE Unencoded
    BY <1>1, <2>1 DEF Unencoded, Returns
  <2>2. CASE Taken /\ Returns(TRUE, image')
    BY <1>1, <2>2 DEF Taken, Returns
  <2>3. CASE Taken /\ UNCHANGED <<calls, changes>>
    BY <1>1, <2>3 DEF Taken
  <2> QED BY <1>6, <1>7, <1>8, <2>1, <2>2, <2>3 DEF Capture, Snapshot, NoCapture
<1>9. CASE ListDisplays \/ ReadTree \/ Elements \/ Point \/ Scroll \/ Wait
  BY <1>6, <1>9 DEF ListDisplays, ReadTree, Elements, Point, Scroll, Wait
<1>10. CASE WaitFor \/ WaitTest \/ WaitPoll \/ WaitOver
  BY <1>6, <1>7, <1>10 DEF WaitFor, WaitTest, WaitPoll, WaitOver
<1>11. CASE Find \/ Look \/ Regions \/ FindScrolls \/ Missed
  BY <1>6, <1>7, <1>11 DEF Find, Look, Regions, FindScrolls, Missed
<1>12. CASE Reply \/ Tick \/ Settle \/ Think \/ UNCHANGED vars
  BY <1>2, <1>12 DEF Reply, Tick, Settle, Think, callVars, vars
<1>13. CASE Nameless \/ DeviceShot
  <2>1. CASE OfRegion
    <3>1. lost' \in BOOLEAN
      BY <2>1, Zenon DEF OfRegion
    <3> QED BY <1>1, <2>1, <3>1 DEF OfRegion, Returns
  <2> QED BY <1>5, <1>6, <1>13, <2>1 DEF Nameless, DeviceShot
<1> QED BY <1>3, <1>4, <1>8, <1>9, <1>10, <1>11, <1>12, <1>13 DEF Next, Running

LEMMA TypesStart == Init => LeftInv /\ SoughtInv /\ CacheInv /\ CountInv
<1> SUFFICES ASSUME Init PROVE LeftInv /\ SoughtInv /\ CacheInv /\ CountInv
  OBVIOUS
<1>1. LeftInv
  BY QuietLeft DEF Init, LeftInv
<1>2. SoughtInv
  BY DEF Init, SoughtInv, NoSearch, SearchFields
<1>3. CacheInv
  <2>1. DOMAIN cache = 1 .. 0
    BY DEF Init
  <2> QED BY <2>1, TimesAssumption DEF Init, CacheInv
<1>4. lost \in BOOLEAN /\ calls = 0 /\ changes = 0
  BY Zenon DEF Init
<1>5. CountInv
  BY <1>4, TimesAssumption DEF CountInv
<1> QED BY <1>1, <1>2, <1>3, <1>5

(***************************************************************************)
(* Every variable has a value of its kind, for any calls; a handler that   *)
(* loops runs only inside a step that has not returned (run, run_batch).   *)
(***************************************************************************)
THEOREM DispatcherTypeCorrect == Spec => []TypeOK
<1>1. Init => WaitInv
  BY WaitStarts
<1>2. /\ Init => CallInv /\ ViewInv /\ TopInv
      /\ Init => LeftInv /\ SoughtInv /\ CacheInv /\ CountInv
  BY CallsStart, ViewStarts, TopStarts, TypesStart
<1>3. CallInv /\ ViewInv /\ TopInv /\ WaitInv /\ LeftInv /\ SoughtInv /\ CacheInv
        /\ CountInv => TypeOK
  BY BusyPlaces
     DEF TypeOK, CallInv, ViewInv, TopInv, WaitInv, Clock, LeftInv, SoughtInv,
         CacheInv, CountInv, Busy
<1>4. WaitInv => Clock
  BY DEF WaitInv
<1> QED BY <1>1, <1>2, <1>3, <1>4, CallsKept, ViewKept, TopKept, WaitKept,
           LeftKept, SoughtKept, CacheKept, CountsKept, PTL DEF Spec
=============================================================================
