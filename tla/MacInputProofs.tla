--------------------------- MODULE MacInputProofs ---------------------------
(***************************************************************************)
(* Proofs about MacInput: its type invariant, what is down between calls   *)
(* and after the last release_all, that no flag outlives its keys, and     *)
(* that a phased scroll is closed.                                         *)
(*                                                                         *)
(* The ledger is simpler than on the other platforms and the account is    *)
(* not: what the chords and the clicks press is in no ledger at all, so    *)
(* only the point that the call has reached says who will let go of it.    *)
(* A hold that cannot press its next key returns, which is why the keys'   *)
(* account relies on presses as well.                                      *)
(***************************************************************************)
EXTENDS MacInput, TLAPS

(* The keys that the chord in progress has pressed and will let go of. *)
Pressing ==
  IF call.op = "tap_chord" /\ call.pc = "key_up" THEN {call.keys[call.at]}
  ELSE IF call.op = "hold_chord" /\ call.pc \in {"key", "key_up", "unguard"}
  THEN {call.keys[i] : i \in 1 .. call.at - 1}
  ELSE {}

(* The button that the call in progress has pressed and will let go of. *)
InHand(ops) ==
  IF call.op \in ops /\ call.pc = "release" THEN {call.button} ELSE {}

(* The frame is well formed, and the changes of a scroll do not run out. *)
PointsInv ==
  /\ FrameOK(call)
  /\ call.op = "scroll" /\ call.pc = "key" => call.left > 0

(* The keys' account. *)
KeysInv ==
  /\ Delivered({"press", "release", "last"})
       => keysDown \subseteq heldKeys \cup Pressing
  /\ heldKeys \subseteq asked

(* The buttons' account: a click keeps no ledger. *)
ButtonsInv ==
  /\ Delivered({"release", "last"})
       => buttonsDown \subseteq heldButtons \cup InHand({"click"})
  /\ Delivered({"release"})
       => heldButtons \subseteq asked \cup InHand({"stroke", "long_press"})

(* A scroll that has begun is in the hands of the call that ends it. *)
ScrollInv ==
  Delivered({"scroll"}) /\ scrolling
    => call.op = "scroll" /\ call.pc \in {"key", "key_up"}

Inv ==
  /\ KeysInv /\ ButtonsInv /\ ScrollInv
  /\ NoPhantomModifier
  /\ ShutdownLeavesNothingDown

-----------------------------------------------------------------------------
(***************************************************************************)
(* The frames that calls start with.  NoCall is expanded here and nowhere  *)
(* else: the other lemmas know its fields from NoCallFields.               *)
(***************************************************************************)
LEMMA NoCallFields ==
  /\ NoCall \in Calls
  /\ NoCall.op = "none" /\ NoCall.pc = "idle" /\ NoCall.button = "left"
  /\ NoCall.mods = {} /\ NoCall.todo = {} /\ NoCall.guard = {}
  /\ NoCall.points = {} /\ NoCall.keys = <<>> /\ NoCall.at = 1
  /\ NoCall.left = 0
BY KeysAssumption DEF NoCall, Calls, CallOps, CallPoints, TextItems, Slots

(* A call that has pressed nothing yet. *)
Fresh(c) ==
  /\ c.pc \in {"press", "pressed", "release", "key"}
  /\ c.pc = "release" => c.op = "button_up"
  /\ c.op = "scroll" => c.pc # "key"
  /\ c.at = 1

StartsWell(c) == FrameOK(c) /\ Fresh(c)

(* A call of the pointer starts so, wherever in it it starts. *)
LEMMA PointingStartsWell ==
  ASSUME NEW op \in Pressers \cup {"scroll", "button_up"},
         NEW b \in Buttons \cup {"wheel"}, op # "scroll" => b \in Buttons,
         NEW n \in Nat \ {0},
         NEW pc \in {"press", "pressed", "release"},
         pc = "release" => op = "button_up",
         NEW p, \/ p = Pointing(op, b, {}, n) /\ pc = "press"
                \/ p = [Pointing(op, b, {}, n) EXCEPT !.pc = pc],
         Begin(p)
  PROVE  \E c : StartsWell(c) /\ Start(c) /\ Flags
<1> DEFINE c == [p EXCEPT !.mods = {}, !.todo = {}]
<1>1. /\ op \in CallOps /\ {"press", "pressed", "release"} \subseteq CallPoints
      /\ op \notin {"none", "type_text", "inject", "tap_chord"}
  BY DEF CallOps, CallPoints, Pressers
<1>2. /\ p \in Calls
      /\ p.op = op /\ p.pc = pc /\ p.button = b /\ p.left = n
      /\ p.guard = {} /\ p.keys = <<>> /\ p.at = 1
  <2>1. CASE p = Pointing(op, b, {}, n) /\ pc = "press"
    BY <1>1, <2>1, NoCallFields DEF Pointing, Calls
  <2>2. CASE p = [Pointing(op, b, {}, n) EXCEPT !.pc = pc]
    BY <1>1, <2>2, NoCallFields DEF Pointing, Calls
  <2>3. QED
    BY <2>1, <2>2
<1>3. /\ c \in Calls
      /\ c.op = op /\ c.pc = pc /\ c.button = b /\ c.left = n
      /\ c.todo = {} /\ c.guard = {} /\ c.keys = <<>> /\ c.at = 1
  BY <1>2 DEF Calls
<1>4. Start(c) /\ Flags
  BY DEF Begin
<1> HIDE DEF c
<1>5. StartsWell(c)
  BY <1>1, <1>3 DEF StartsWell, Fresh, FrameOK
<1>6. QED
  BY <1>4, <1>5

(* So does a call that is about a chord. *)
LEMMA ChordingStartsWell ==
  ASSUME NEW op \in {"tap_chord", "hold_chord"}, NEW ch \in Chords,
         NEW n \in Nat, Begin(Chording(op, ch, n))
  PROVE  \E c : StartsWell(c) /\ Start(c) /\ Flags
<1> DEFINE p == Chording(op, ch, n)
           c == [p EXCEPT !.mods = {}, !.todo = {}]
<1>1. /\ ch.mods \subseteq ModifierKeys
      /\ ch.keys \in Seq(Keys) /\ Len(ch.keys) >= 1
  BY ChordsAssumption
<1>2. op \in CallOps /\ "key" \in CallPoints
  BY DEF CallOps, CallPoints
<1>3. /\ p \in Calls
      /\ p.op = op /\ p.pc = "key" /\ p.button = "left"
      /\ p.guard = {} /\ p.keys = ch.keys /\ p.at = 1
  BY <1>1, <1>2, NoCallFields DEF Chording, Calls
<1> HIDE DEF p
<1>4. /\ c \in Calls
      /\ c.op = op /\ c.pc = "key" /\ c.button = "left"
      /\ c.todo = {} /\ c.guard = {} /\ c.keys = ch.keys /\ c.at = 1
  BY <1>3 DEF Calls
<1>5. Start(c) /\ Flags
  BY DEF Begin, p
<1> HIDE DEF c
<1>6. StartsWell(c)
  BY <1>1, <1>4, KeysAssumption DEF StartsWell, Fresh, FrameOK
<1>7. QED
  BY <1>5, <1>6

(***************************************************************************)
(* Every call that takes more than one step starts with such a frame; the  *)
(* others are done in one, typing perhaps with a Return to follow.         *)
(***************************************************************************)
LEMMA CallsStartWell ==
  ASSUME StartCall
  PROVE  \/ \E c : StartsWell(c) /\ Start(c) /\ Flags
         \/ \E k \in Keys : KeyDown(k) \/ KeyUp(k)
         \/ \E text \in Texts, enter \in BOOLEAN : TypeText(text, enter)
         \/ ReleaseAll
         \/ Shutdown
<1> DEFINE Starts == \E c : StartsWell(c) /\ Start(c) /\ Flags
<1> HIDE DEF Starts
<1>0. /\ 1 \in Nat \ {0} /\ "left" \in Buttons
      /\ 1 .. MaxRepeat \subseteq Nat \ {0} /\ 1 .. MaxSteps \subseteq Nat \ {0}
  BY BoundsAssumption, KeysAssumption
<1>1. \A b \in Buttons, n \in Nat \ {0} : Click(b, n) => Starts
  BY PointingStartsWell DEF Click, Starts, Pressers
<1>2. \A n \in Nat \ {0}, phased \in BOOLEAN : Scroll(n, phased) => Starts
  BY PointingStartsWell DEF Scroll, Starts
<1>3. \A b \in Buttons : ButtonDown(b) \/ Stroke(b) \/ ButtonUp(b) => Starts
  <2>1. \A b \in Buttons : ButtonDown(b) => Starts
    BY <1>0, PointingStartsWell DEF ButtonDown, Starts, Pressers
  <2>2. \A b \in Buttons : Stroke(b) => Starts
    BY <1>0, PointingStartsWell DEF Stroke, Starts, Pressers
  <2>3. \A b \in Buttons : ButtonUp(b) => Starts
    BY <1>0, PointingStartsWell DEF ButtonUp, Starts
  <2>4. QED
    BY <2>1, <2>2, <2>3
<1>4. LongPress => Starts
  BY <1>0, PointingStartsWell DEF LongPress, Starts, Pressers
<1>5. \A c \in Chords, n \in Nat \ {0} : TapChord(c, n) => Starts
  BY ChordingStartsWell DEF TapChord, Starts
<1>6. \A c \in Chords : HoldChord(c) => Starts
  BY <1>0, ChordingStartsWell DEF HoldChord, Starts
<1>7. ASSUME NEW kind \in GestureKinds, NEW fingers \in FingerCounts,
             NEW native \in BOOLEAN, NEW path \in BOOLEAN,
             Gesture(kind, fingers, native, path)
      PROVE  Starts
  BY <1>0, <1>1, <1>2, <1>3, <1>4, <1>5, <1>7, MacAssumption DEF Gesture
<1>8. QED
  BY <1>0, <1>1, <1>2, <1>3, <1>5, <1>6, <1>7 DEF StartCall, Starts


-----------------------------------------------------------------------------
(***************************************************************************)
(* What the steps do to the frame of the call.  The later lemmas know the  *)
(* fields of call' from these alone.                                       *)
(***************************************************************************)
Kept ==
  call'.op = call.op /\ call'.button = call.button /\ call'.keys = call.keys

(* Returning leaves a well-formed frame. *)
LEMMA FinishFrameOK == ASSUME Finish PROVE PointsInv' /\ call' = NoCall
BY NoCallFields, KeysAssumption DEF Finish, FrameOK, PointsInv

(***************************************************************************)
(* So does any other way on, as long as the position stays within the      *)
(* chord and the rounds do not run out.                                    *)
(***************************************************************************)
LEMMA OnwardFrameOK ==
  ASSUME PointsInv, NEW pc \in CallPoints \ {"idle", "gone", "return_up"},
         NEW at \in 1 .. Len(call.keys) + 1, NEW left \in Nat,
         call.op = "tap_chord" => at <= Len(call.keys),
         pc \in {"press", "release", "touch_begin", "touch_move"} => left > 0,
         call.op = "scroll" /\ pc = "key" => left > 0,
         \/ /\ call' = [call EXCEPT !.pc = pc]
            /\ at = call.at /\ left = call.left
         \/ /\ call' = [call EXCEPT !.at = at]
            /\ pc = call.pc /\ left = call.left
         \/ /\ call' = [call EXCEPT !.pc = pc, !.at = at]
            /\ left = call.left
         \/ /\ call' = [call EXCEPT !.pc = pc, !.left = left]
            /\ at = call.at
         \/ call' = [call EXCEPT !.pc = pc, !.at = at, !.left = left]
  PROVE  /\ PointsInv' /\ Kept
         /\ call'.pc = pc /\ call'.at = at /\ call'.left = left
<1> DEFINE Onward == /\ call' \in Calls /\ Kept
                     /\ call'.pc = pc /\ call'.at = at /\ call'.left = left
                     /\ call'.todo = call.todo /\ call'.guard = call.guard
<1>0. call \in Calls /\ at \in Nat \ {0}
  BY DEF PointsInv, FrameOK, Calls
<1>1. CASE call' = [call EXCEPT !.pc = pc] /\ at = call.at /\ left = call.left
  <2> Onward
    BY <1>0, <1>1 DEF Calls, Kept
  <2> QED
    BY DEF PointsInv, FrameOK, Kept
<1>2. CASE call' = [call EXCEPT !.at = at] /\ pc = call.pc /\ left = call.left
  <2> Onward
    BY <1>0, <1>2 DEF Calls, Kept
  <2> QED
    BY DEF PointsInv, FrameOK, Kept
<1>3. CASE call' = [call EXCEPT !.pc = pc, !.at = at] /\ left = call.left
  <2> Onward
    BY <1>0, <1>3 DEF Calls, Kept
  <2> QED
    BY DEF PointsInv, FrameOK, Kept
<1>4. CASE call' = [call EXCEPT !.pc = pc, !.left = left] /\ at = call.at
  <2> Onward
    BY <1>0, <1>4 DEF Calls, Kept
  <2> QED
    BY DEF PointsInv, FrameOK, Kept
<1>5. CASE call' = [call EXCEPT !.pc = pc, !.at = at, !.left = left]
  <2> Onward
    BY <1>0, <1>5 DEF Calls, Kept
  <2> QED
    BY DEF PointsInv, FrameOK, Kept
<1> QED
  BY <1>1, <1>2, <1>3, <1>4, <1>5

(* Moving on to another point of the call is such a way. *)
LEMMA GotoFrameOK ==
  ASSUME PointsInv, NEW pc \in CallPoints \ {"idle", "gone", "return_up"},
         Goto(pc),
         pc \in {"press", "release", "touch_begin", "touch_move"} => call.left > 0,
         call.op = "scroll" => pc # "key"
  PROVE  /\ PointsInv' /\ Kept
         /\ call'.pc = pc /\ call'.at = call.at /\ call'.left = call.left
<1>1. /\ call.at \in 1 .. Len(call.keys) + 1 /\ call.left \in Nat
      /\ call.op = "tap_chord" => call.at <= Len(call.keys)
  BY DEF PointsInv, FrameOK, Calls
<1>2. QED
  BY <1>1, OnwardFrameOK DEF Goto

(* And so is going on to the next round of anything but a tap. *)
LEMMA RoundFrameOK ==
  ASSUME PointsInv, call.op # "tap_chord",
         NEW pc \in CallPoints \ {"idle", "gone", "return_up"}, NEW left \in Nat,
         call' = [call EXCEPT !.pc = pc, !.left = left],
         pc \in {"press", "release", "touch_begin", "touch_move"} => left > 0,
         call.op = "scroll" /\ pc = "key" => left > 0
  PROVE  PointsInv' /\ Kept /\ call'.pc = pc
<1>1. call.at \in 1 .. Len(call.keys) + 1
  BY DEF PointsInv, FrameOK, Calls
<1>2. QED
  BY <1>1, OnwardFrameOK

(* A button's event: the press, of any call but one, precedes a release. *)
LEMMA ButtonFrames ==
  ASSUME PointsInv
  PROVE  /\ PressButton \/ ReleaseButton =>
              PointsInv' /\ call.button \in Buttons
         /\ PressButton =>
              /\ call.pc = "press" /\ call.op \in Pressers
              /\ \/ call' = NoCall
                 \/ Kept /\ call'.pc = "release" /\ call.op # "button_down"
         /\ ReleaseButton =>
              /\ call.pc = "release" /\ call.op \in Pressers \cup {"button_up"}
              /\ call' = NoCall \/ (Kept /\ call'.pc = "press")
<1>0. /\ call \in Calls /\ {"press", "release"} \subseteq CallPoints
      /\ call.left \in Nat /\ call.at \in 1 .. Len(call.keys) + 1
  BY DEF PointsInv, FrameOK, Calls, CallPoints
<1>1. call.op \in Pressers \cup {"button_up"} => call.button \in Buttons
  BY DEF PointsInv, FrameOK, Pressers
<1>2. CASE PressButton
  <2>1. call.pc = "press" /\ call.op \in Pressers /\ call.left > 0
    BY <1>2 DEF PressButton, At, PointsInv, FrameOK
  <2>2. CASE Finish
    BY <1>1, <2>1, <2>2, FinishFrameOK DEF ReleaseButton, At
  <2>3. CASE Goto("release") /\ call.op # "button_down"
    BY <1>0, <1>1, <2>1, <2>3, GotoFrameOK DEF ReleaseButton, At
  <2>4. QED
    BY <1>2, <2>2, <2>3 DEF PressButton
<1>3. CASE ReleaseButton
  <2>1. call.pc = "release" /\ call.op \in Pressers \cup {"button_up"}
    BY <1>3 DEF ReleaseButton, At
  <2>2. CASE Finish
    BY <1>1, <2>1, <2>2, FinishFrameOK DEF PressButton, At
  <2>3. CASE call.left > 1
             /\ call' = [call EXCEPT !.pc = "press", !.left = @ - 1]
    <3>1. PICK left \in Nat : left = call.left - 1 /\ left > 0
      BY <1>0, <2>3
    <3>2. call.op # "tap_chord"
      BY <2>1 DEF Pressers
    <3>3. call' = [call EXCEPT !.pc = "press", !.left = left]
      BY <2>3, <3>1
    <3>4. PointsInv' /\ Kept /\ call'.pc = "press"
      <4>1. "press" \in CallPoints \ {"idle", "gone", "return_up"}
        BY <1>0
      <4>2. QED
        BY <3>1, <3>2, <3>3, <4>1, RoundFrameOK
    <3>5. QED
      BY <1>1, <2>1, <3>4 DEF PressButton, At
  <2>4. QED
    BY <1>3, <2>2, <2>3 DEF ReleaseButton, Finish
<1>4. QED
  BY <1>2, <1>3

(* A scroll's event: its begin, its changes, its end, or a plain one. *)
ScrollStep == ScrollBegin \/ ScrollChange \/ ScrollEnd \/ TurnWheel

LEMMA ScrollFrames ==
  ASSUME PointsInv, ScrollStep
  PROVE  /\ PointsInv' /\ call.op = "scroll"
         /\ call.pc \in {"press", "key", "key_up", "pressed"}
         /\ call' = NoCall \/ (Kept /\ call'.pc \in {"key", "key_up", "pressed"})
         /\ ScrollBegin => \/ MayFail("scroll")
                           \/ Kept /\ call'.pc \in {"key", "key_up"}
         /\ ScrollChange => \/ MayFail("scroll")
                            \/ Kept /\ call'.pc \in {"key", "key_up"}
         /\ TurnWheel => call.pc = "pressed"
<1>0. /\ call \in Calls /\ {"key", "key_up", "pressed"} \subseteq CallPoints
      /\ call.left \in Nat /\ call.at \in 1 .. Len(call.keys) + 1
  BY DEF PointsInv, FrameOK, Calls, CallPoints
<1>1. call.op = "scroll" /\ call.pc \in {"press", "key", "key_up", "pressed"}
  BY DEF ScrollStep, ScrollBegin, ScrollChange, ScrollEnd, TurnWheel, At
<1>2. ASSUME NEW pc \in {"key", "key_up", "pressed"},
             call' = [call EXCEPT !.pc = pc, !.left = @ - 1],
             call.left > 0, pc = "key" => call.left > 1
      PROVE  PointsInv' /\ Kept /\ call'.pc = pc
  <2>1. PICK left \in Nat : left = call.left - 1 /\ (pc = "key" => left > 0)
    BY <1>0, <1>2
  <2>2. call' = [call EXCEPT !.pc = pc, !.left = left]
    BY <1>2, <2>1
  <2>3. pc \in CallPoints \ {"idle", "gone", "return_up"}
    BY <1>0
  <2>4. QED
    BY <1>1, <2>1, <2>2, <2>3, RoundFrameOK
<1>3. CASE ScrollBegin
  <2>1. call.pc = "press" /\ call.left > 0
    BY <1>1, <1>3 DEF ScrollBegin, At, PointsInv, FrameOK
  <2>2. \/ MayFail("scroll") /\ Finish
        \/ call.left > 1 /\ call' = [call EXCEPT !.pc = "key", !.left = @ - 1]
        \/ call' = [call EXCEPT !.pc = "key_up", !.left = @ - 1]
    BY <1>3 DEF ScrollBegin
  <2>3. QED
    BY <1>1, <1>2, <2>1, <2>2, FinishFrameOK DEF ScrollChange, TurnWheel, At
<1>4. CASE ScrollChange
  <2>1. call.pc = "key" /\ call.left > 0
    BY <1>1, <1>4 DEF ScrollChange, At, PointsInv
  <2>2. \/ MayFail("scroll") /\ Finish
        \/ call.left > 1 /\ call' = [call EXCEPT !.pc = "key", !.left = @ - 1]
        \/ call' = [call EXCEPT !.pc = "key_up", !.left = @ - 1]
    <3>1. call.left > 1 /\ call' = [call EXCEPT !.pc = @, !.left = @ - 1]
            => call' = [call EXCEPT !.pc = "key", !.left = @ - 1]
      BY <2>1
    <3>2. QED
      BY <1>4, <3>1 DEF ScrollChange
  <2>3. QED
    BY <1>1, <1>2, <2>1, <2>2, FinishFrameOK DEF ScrollBegin, TurnWheel, At
<1>5. CASE ScrollEnd
  BY <1>1, <1>5, FinishFrameOK
     DEF ScrollEnd, ScrollBegin, ScrollChange, TurnWheel, At
<1>6. CASE TurnWheel
  <2>1. call.pc = "pressed"
    BY <1>6 DEF TurnWheel, At
  <2>2. \/ Finish
        \/ call.left > 1 /\ call' = [call EXCEPT !.left = @ - 1]
    BY <1>6 DEF TurnWheel, Finish
  <2>3. call' = [call EXCEPT !.left = @ - 1]
          => call' = [call EXCEPT !.pc = "pressed", !.left = @ - 1]
    BY <1>0, <2>1 DEF Calls
  <2>4. QED
    BY <1>0, <1>1, <1>2, <2>1, <2>2, <2>3, FinishFrameOK
       DEF ScrollBegin, ScrollChange, At
<1>7. QED
  BY <1>3, <1>4, <1>5, <1>6 DEF ScrollStep


(***************************************************************************)
(* A chord's event is about the key at its position, which moves on within *)
(* the chord, or about the one before it.                                  *)
(***************************************************************************)
LEMMA TapFrames ==
  ASSUME PointsInv
  PROVE  /\ TapDown \/ TapUp =>
              PointsInv' /\ call.op = "tap_chord" /\ Current \in Keys
         /\ TapDown =>
              /\ call.pc = "key"
              /\ \/ /\ keysDown' = keysDown \cup {Current}
                    /\ Kept /\ call'.pc = "key_up" /\ call'.at = call.at
                 \/ keysDown' = keysDown /\ call' = NoCall
         /\ TapUp =>
              /\ call.pc = "key_up" /\ keysDown' = keysDown \ {Current}
              /\ call' = NoCall \/ (Kept /\ call'.pc = "key")
<1>0. /\ {"key", "key_up"} \subseteq CallPoints \ {"idle", "gone", "return_up"}
      /\ call.keys \in Seq(Keys) /\ call.at \in Nat \ {0} /\ call.left \in Nat
  BY DEF PointsInv, FrameOK, Calls, CallPoints
<1>1. TapDown \/ TapUp =>
        call.op = "tap_chord" /\ call.at \in 1 .. Len(call.keys)
  BY <1>0 DEF TapDown, TapUp, At, PointsInv, FrameOK
<1>2. TapDown \/ TapUp => Current \in Keys
  BY <1>0, <1>1 DEF Current
<1>3. CASE TapDown
  <2>1. call.pc = "key" /\ ~TapUp
    BY <1>3 DEF TapDown, TapUp, At
  <2>2. CASE keysDown' = keysDown \cup {Current} /\ Goto("key_up")
    BY <1>0, <1>1, <1>2, <1>3, <2>1, <2>2, GotoFrameOK
  <2>3. CASE UNCHANGED keysDown /\ Finish
    BY <1>1, <1>2, <1>3, <2>1, <2>3, FinishFrameOK
  <2>4. QED
    BY <1>3, <2>2, <2>3 DEF TapDown
<1>4. CASE TapUp
  <2>1. call.pc = "key_up" /\ keysDown' = keysDown \ {Current} /\ ~TapDown
    BY <1>4 DEF TapDown, TapUp, At
  <2>2. CASE call' = NoCall
    BY <1>1, <1>2, <1>4, <2>1, <2>2, FinishFrameOK DEF Finish
  <2>3. CASE /\ call.at < Len(call.keys)
             /\ call' = [call EXCEPT !.pc = "key", !.at = @ + 1]
    <3>1. PICK at \in 1 .. Len(call.keys) : at = call.at + 1
      BY <1>0, <2>3
    <3>2. call' = [call EXCEPT !.pc = "key", !.at = at]
      BY <2>3, <3>1
    <3>3. at \in 1 .. Len(call.keys) + 1 /\ at <= Len(call.keys)
      BY <1>0
    <3>4. PointsInv' /\ Kept /\ call'.pc = "key"
      BY <1>0, <1>1, <1>4, <3>2, <3>3, OnwardFrameOK
    <3>5. QED
      BY <1>1, <1>2, <1>4, <2>1, <3>4
  <2>4. CASE /\ call.left > 1
             /\ call' = [call EXCEPT !.pc = "key", !.at = 1, !.left = @ - 1]
    <3>1. PICK left \in Nat : left = call.left - 1
      BY <1>0, <2>4
    <3>2. call' = [call EXCEPT !.pc = "key", !.at = 1, !.left = left]
      BY <2>4, <3>1
    <3>3. 1 \in 1 .. Len(call.keys) + 1 /\ 1 <= Len(call.keys)
      BY <1>0, <1>1, <1>4
    <3>4. PointsInv' /\ Kept /\ call'.pc = "key"
      BY <1>0, <1>1, <1>4, <3>2, <3>3, OnwardFrameOK
    <3>5. QED
      BY <1>1, <1>2, <1>4, <2>1, <3>4
  <2>5. QED
    BY <1>4, <2>2, <2>3, <2>4 DEF TapUp
<1>5. QED
  BY <1>3, <1>4

LEMMA HoldFrames ==
  ASSUME PointsInv
  PROVE  /\ HoldDown \/ HoldUp \/ HoldUndo =>
              PointsInv' /\ call.op = "hold_chord" /\ call.at \in Nat \ {0}
         /\ HoldDown =>
              /\ call.pc = "key"
              /\ \/ /\ Current \in Keys /\ keysDown' = keysDown \cup {Current}
                    /\ Kept /\ call'.pc = "key" /\ call'.at = call.at + 1
                 \/ /\ keysDown' = keysDown
                    /\ Kept /\ call'.pc \in {"key_up", "unguard"}
                    /\ call'.at = call.at
                 \/ MayFail("press") /\ keysDown' = keysDown /\ call' = NoCall
         /\ HoldUp =>
              /\ call.pc = "key_up"
              /\ \/ call.at = 1 /\ keysDown' = keysDown /\ call' = NoCall
                 \/ /\ call.at > 1 /\ call.keys[call.at - 1] \in Keys
                    /\ \/ keysDown' = keysDown \ {call.keys[call.at - 1]}
                       \/ MayFail("release") /\ keysDown' = keysDown
                    /\ Kept /\ call'.pc = "key_up" /\ call'.at = call.at - 1
         /\ HoldUndo =>
              /\ call.pc = "unguard"
              /\ \/ /\ call.at = 1 /\ call' = NoCall
                    /\ UNCHANGED <<keysDown, heldKeys, heldModifiers>>
                 \/ /\ call.at > 1 /\ call.keys[call.at - 1] \in Keys
                    /\ StrikeOff(call.keys[call.at - 1])
                    /\ Kept /\ call'.pc = "unguard" /\ call'.at = call.at - 1
<1>0. /\ {"key", "key_up", "unguard"}
           \subseteq CallPoints \ {"idle", "gone", "return_up"}
      /\ call.keys \in Seq(Keys) /\ call.at \in Nat \ {0} /\ call.left \in Nat
      /\ call.at <= Len(call.keys) + 1
  BY DEF PointsInv, FrameOK, Calls, CallPoints
<1>1. HoldDown \/ HoldUp \/ HoldUndo => call.op = "hold_chord"
  BY DEF HoldDown, HoldUp, HoldUndo, At
<1>2. ASSUME NEW at \in 1 .. Len(call.keys) + 1, call.op = "hold_chord",
             call.pc \in {"key", "key_up", "unguard"},
             call' = [call EXCEPT !.at = at]
      PROVE  PointsInv' /\ Kept /\ call'.pc = call.pc /\ call'.at = at
  <2>1. call.pc \in CallPoints \ {"idle", "gone", "return_up"}
    BY <1>0, <1>2
  <2>2. /\ call.op # "tap_chord" /\ call.op # "scroll"
        /\ call.pc \notin {"press", "release", "touch_begin", "touch_move"}
    BY <1>2
  <2>3. ASSUME NEW pc \in CallPoints \ {"idle", "gone", "return_up"},
               NEW left \in Nat, pc = call.pc, left = call.left
        PROVE  PointsInv' /\ Kept /\ call'.pc = pc /\ call'.at = at
    BY <1>2, <2>2, <2>3, OnwardFrameOK
  <2>4. QED
    BY <1>0, <2>1, <2>3
<1>3. ASSUME call.op = "hold_chord", call.pc \in {"key_up", "unguard"},
             call.at # 1, call' = [call EXCEPT !.at = @ - 1]
      PROVE  /\ call.at > 1 /\ call.keys[call.at - 1] \in Keys
             /\ PointsInv' /\ Kept /\ call'.pc = call.pc
             /\ call'.at = call.at - 1
  <2>1. PICK at \in 1 .. Len(call.keys) + 1 :
          at = call.at - 1 /\ at \in 1 .. Len(call.keys)
    BY <1>0, <1>3
  <2>2. call' = [call EXCEPT !.at = at]
    BY <1>3, <2>1
  <2>3. PointsInv' /\ Kept /\ call'.pc = call.pc /\ call'.at = at
    BY <1>2, <1>3, <2>2
  <2>4. QED
    BY <1>0, <1>3, <2>1, <2>3
<1>4. CASE HoldDown
  <2>1. call.pc = "key" /\ ~HoldUp /\ ~HoldUndo
    BY <1>4 DEF HoldDown, HoldUp, HoldUndo, At
  <2>2. ASSUME NEW pc \in {"key_up", "unguard"}, Goto(pc), UNCHANGED keysDown
        PROVE  /\ PointsInv' /\ keysDown' = keysDown
               /\ Kept /\ call'.pc \in {"key_up", "unguard"}
               /\ call'.at = call.at
    BY <1>0, <1>1, <1>4, <2>2, GotoFrameOK
  <2>3. ASSUME ~(call.at > Len(call.keys)),
               keysDown' = keysDown \cup {Current},
               call' = [call EXCEPT !.at = @ + 1]
        PROVE  /\ PointsInv' /\ Current \in Keys
               /\ keysDown' = keysDown \cup {Current}
               /\ Kept /\ call'.pc = "key" /\ call'.at = call.at + 1
    <3>1. PICK at \in 1 .. Len(call.keys) + 1 : at = call.at + 1
      BY <1>0, <2>3
    <3>2. call' = [call EXCEPT !.at = at]
      BY <2>3, <3>1
    <3>3. PointsInv' /\ Kept /\ call'.pc = "key" /\ call'.at = at
      BY <1>1, <1>2, <1>4, <2>1, <3>2
    <3>4. Current \in Keys
      BY <1>0, <2>3 DEF Current
    <3>5. QED
      BY <2>3, <3>1, <3>3, <3>4
  <2>4. ASSUME MayFail("press"), UNCHANGED keysDown, Finish
        PROVE  PointsInv' /\ keysDown' = keysDown /\ call' = NoCall
    BY <2>4, FinishFrameOK
  <2>5. \/ \E pc \in {"key_up", "unguard"} : Goto(pc) /\ UNCHANGED keysDown
        \/ /\ ~(call.at > Len(call.keys))
           /\ keysDown' = keysDown \cup {Current}
           /\ call' = [call EXCEPT !.at = @ + 1]
        \/ MayFail("press") /\ UNCHANGED keysDown /\ Finish
    BY <1>4 DEF HoldDown
  <2>6. QED
    BY <1>0, <1>1, <1>4, <2>1, <2>2, <2>3, <2>4, <2>5
<1>5. CASE HoldUp
  <2>1. call.pc = "key_up" /\ ~HoldDown /\ ~HoldUndo
    BY <1>5 DEF HoldDown, HoldUp, HoldUndo, At
  <2>2. CASE call.at = 1
    BY <1>0, <1>1, <1>5, <2>1, <2>2, FinishFrameOK DEF HoldUp
  <2>3. CASE call.at # 1
    <3>1. /\ call' = [call EXCEPT !.at = @ - 1]
          /\ \/ keysDown' = keysDown \ {call.keys[call.at - 1]}
             \/ MayFail("release") /\ keysDown' = keysDown
      BY <1>5, <2>3 DEF HoldUp
    <3>2. QED
      BY <1>0, <1>1, <1>3, <1>5, <2>1, <2>3, <3>1
  <2>4. QED
    BY <2>2, <2>3
<1>6. CASE HoldUndo
  <2>1. call.pc = "unguard" /\ ~HoldDown /\ ~HoldUp
    BY <1>6 DEF HoldDown, HoldUp, HoldUndo, At
  <2>2. CASE call.at = 1
    BY <1>0, <1>1, <1>6, <2>1, <2>2, FinishFrameOK DEF HoldUndo, Flags
  <2>3. CASE call.at # 1
    <3>1. /\ call' = [call EXCEPT !.at = @ - 1]
          /\ StrikeOff(call.keys[call.at - 1])
      BY <1>6, <2>3 DEF HoldUndo
    <3>2. QED
      BY <1>0, <1>1, <1>3, <1>6, <2>1, <2>3, <3>1
  <2>4. QED
    BY <2>2, <2>3
<1>7. QED
  BY <1>4, <1>5, <1>6


-----------------------------------------------------------------------------
(* Which steps leave alone what. *)
ButtonStep == PressButton \/ ReleaseButton
ChordStep == TapDown \/ TapUp \/ HoldDown \/ HoldUp \/ HoldUndo

LEMMA StepIsQuiet ==
  ASSUME TakeStep
  PROVE  /\ UNCHANGED <<faults, touching, contactsDown>>
         /\ ButtonStep =>
              UNCHANGED <<keysDown, heldKeys, heldModifiers, scrolling>>
         /\ ScrollStep =>
              UNCHANGED <<keysDown, buttonsDown, heldKeys, heldButtons,
                          heldModifiers, asked>>
         /\ ChordStep =>
              UNCHANGED <<buttonsDown, heldButtons, asked, scrolling>>
         /\ TapDown \/ TapUp \/ HoldDown \/ HoldUp =>
              UNCHANGED <<heldKeys, heldModifiers>>
<1>1. ButtonStep =>
        UNCHANGED <<faults, touching, contactsDown, keysDown, heldKeys,
                    heldModifiers, scrolling>>
  BY DEF ButtonStep, PressButton, ReleaseButton, NoContacts, Flags
<1>2. ScrollStep =>
        UNCHANGED <<faults, touching, contactsDown, keysDown, buttonsDown,
                    heldKeys, heldButtons, heldModifiers, asked>>
  BY DEF ScrollStep, ScrollBegin, ScrollChange, ScrollEnd, TurnWheel, Flags,
         Step, desktop, ledgers
<1>3. TapDown \/ TapUp \/ HoldDown \/ HoldUp =>
        UNCHANGED <<faults, touching, contactsDown, buttonsDown, heldButtons,
                    asked, scrolling, heldKeys, heldModifiers>>
  BY DEF TapDown, TapUp, HoldDown, HoldUp, KeysOnly, NoContacts, Flags, Step
<1>4. HoldUndo =>
        UNCHANGED <<faults, touching, contactsDown, buttonsDown, heldButtons,
                    asked, scrolling>>
  BY DEF HoldUndo, StrikeOff, KeysOnly, NoContacts, Flags, Step
<1>5. QED
  BY <1>1, <1>2, <1>3, <1>4 DEF TakeStep, ButtonStep, ScrollStep, ChordStep

(* What release_all leaves is well typed. *)
LEMMA LetGoTypeOK ==
  ASSUME TypeOK, LetGoOfLedger
  PROVE  /\ keysDown' \subseteq Keys /\ buttonsDown' \subseteq Buttons
         /\ touching' = {} /\ LedgersTypeOK'
         /\ heldModifiers' \subseteq ModifierKeys /\ scrolling' \in BOOLEAN
BY DEF TypeOK, LedgersTypeOK, LetGoOfLedger, NoContacts

(* What a text may leave behind: the frame of the Return that follows it. *)
LEMMA TypingLeaves ==
  ASSUME PointsInv, NEW text \in Texts, NEW enter \in BOOLEAN,
         TypeText(text, enter)
  PROVE  /\ Resting /\ keysDown' \subseteq keysDown
         /\ UNCHANGED <<buttonsDown, touching, heldKeys, heldButtons,
                        contactsDown, asked, faults, heldModifiers, scrolling>>
         /\ PointsInv'
         /\ \/ call' = NoCall
            \/ call'.op = "tap_chord" /\ call'.pc = "key"
<1>1. Resting /\ call = NoCall
  BY DEF TypeText, Resting, PointsInv, FrameOK
<1>2. /\ keysDown' \subseteq keysDown
      /\ UNCHANGED <<buttonsDown, touching, heldKeys, heldButtons,
                     contactsDown, asked, faults, heldModifiers, scrolling>>
  BY DEF TypeText, NoContacts, Flags, Step
<1>3. ASSUME call' = [NoCall EXCEPT !.op = "tap_chord", !.pc = "key",
                                    !.keys = <<Return>>, !.left = 1]
      PROVE  PointsInv' /\ call'.op = "tap_chord" /\ call'.pc = "key"
  <2>1. "tap_chord" \in CallOps /\ "key" \in CallPoints
    BY DEF CallOps, CallPoints
  <2>2. <<Return>> \in Seq(Keys) /\ Len(<<Return>>) = 1
    BY KeysAssumption
  <2>3. /\ call' \in Calls /\ call'.op = "tap_chord" /\ call'.pc = "key"
        /\ call'.at = 1 /\ call'.guard = {} /\ call'.keys = <<Return>>
        /\ call'.button = "left"
    BY <1>3, <2>1, <2>2, NoCallFields DEF Calls
  <2>4. QED
    BY <2>2, <2>3, KeysAssumption DEF PointsInv, FrameOK
<1>4. call' = NoCall => PointsInv'
  BY FinishFrameOK DEF Finish
<1>5. QED
  BY <1>1, <1>2, <1>3, <1>4 DEF TypeText

(* Every call a client can make keeps the types. *)
LEMMA StartTypeOK == TypeOK /\ PointsInv /\ StartCall => TypeOK' /\ PointsInv'
<1> SUFFICES ASSUME TypeOK, PointsInv, StartCall PROVE TypeOK' /\ PointsInv'
  OBVIOUS
<1>1. ASSUME NEW c, StartsWell(c), Start(c), Flags PROVE TypeOK' /\ PointsInv'
  <2>1. call' = c /\ PointsInv'
    BY <1>1 DEF StartsWell, Fresh, Start, PointsInv
  <2>2. QED
    BY <1>1, <2>1
       DEF TypeOK, LedgersTypeOK, PointsInv, FrameOK, Start, Flags, desktop,
           ledgers
<1>2. ASSUME NEW k \in Keys, KeyDown(k) \/ KeyUp(k) PROVE TypeOK' /\ PointsInv'
  <2>1. k \in DOMAIN FlagOf => FlagOf[k] \in ModifierKeys
    BY MacAssumption
  <2>2. call' = call /\ PointsInv'
    BY <1>2 DEF KeyDown, KeyUp, PointsInv
  <2>3. QED
    BY <1>2, <2>1, <2>2
       DEF TypeOK, LedgersTypeOK, KeyDown, KeyUp, StrikeOff, NoContacts
<1>3. ASSUME NEW text \in Texts, NEW enter \in BOOLEAN, TypeText(text, enter)
      PROVE  TypeOK' /\ PointsInv'
  <2>1. PointsInv' /\ keysDown' \subseteq keysDown
        /\ UNCHANGED <<buttonsDown, touching, heldKeys, heldButtons,
                       contactsDown, asked, heldModifiers, scrolling>>
    BY <1>3, TypingLeaves
  <2>2. QED
    BY <2>1 DEF TypeOK, LedgersTypeOK, PointsInv, FrameOK
<1>4. CASE ReleaseAll
  BY <1>4, LetGoTypeOK DEF ReleaseAll, TypeOK, PointsInv
<1>5. CASE Shutdown
  <2>1. call = NoCall /\ "gone" \in CallPoints
    BY <1>5 DEF Shutdown, PointsInv, FrameOK, Resting, CallPoints
  <2>2. call' \in Calls /\ call'.pc = "gone" /\ call' = [NoCall EXCEPT !.pc = "gone"]
    BY <1>5, <2>1, NoCallFields DEF Shutdown, Goto, Calls
  <2>3. /\ call'.op = "none" /\ call'.todo = {} /\ call'.guard = {}
        /\ call'.keys = <<>> /\ call'.at = 1 /\ call'.button = "left"
    BY <2>2, NoCallFields DEF Calls
  <2>4. PointsInv'
    BY <2>2, <2>3, KeysAssumption DEF FrameOK, PointsInv
  <2>5. QED
    BY <1>5, <2>2, <2>4, LetGoTypeOK DEF TypeOK, Shutdown
<1>6. QED
  BY <1>1, <1>2, <1>3, <1>4, <1>5, CallsStartWell

(* So does every step of one. *)
LEMMA StepTypeOK == TypeOK /\ PointsInv /\ TakeStep => TypeOK' /\ PointsInv'
<1> SUFFICES ASSUME TypeOK, PointsInv, TakeStep PROVE TypeOK' /\ PointsInv'
  OBVIOUS
<1>0. PointsInv' => call' \in Calls
  BY DEF PointsInv, FrameOK
<1>1. CASE ButtonStep
  <2>1. PointsInv' /\ call.button \in Buttons
    BY <1>1, ButtonFrames DEF ButtonStep
  <2>2. /\ buttonsDown' \subseteq Buttons /\ heldButtons' \subseteq Buttons
        /\ asked' \subseteq Keys \cup Buttons
    BY <1>1, <2>1
       DEF ButtonStep, PressButton, ReleaseButton, TypeOK, LedgersTypeOK
  <2>3. QED
    BY <1>0, <1>1, <2>1, <2>2, StepIsQuiet DEF TypeOK, LedgersTypeOK
<1>2. CASE ScrollStep
  <2>1. scrolling' \in BOOLEAN
    BY <1>2
       DEF ScrollStep, ScrollBegin, ScrollChange, ScrollEnd, TurnWheel, Flags,
           TypeOK
  <2>2. QED
    BY <1>0, <1>2, <2>1, StepIsQuiet, ScrollFrames DEF TypeOK, LedgersTypeOK
<1>3. CASE TapDown \/ TapUp
  BY <1>0, <1>3, StepIsQuiet, TapFrames DEF ChordStep, TypeOK, LedgersTypeOK
<1>4. CASE HoldDown \/ HoldUp
  BY <1>0, <1>4, StepIsQuiet, HoldFrames DEF ChordStep, TypeOK, LedgersTypeOK
<1>5. CASE HoldUndo
  <2>1. /\ keysDown' \subseteq Keys /\ heldKeys' \subseteq Keys
        /\ heldModifiers' \subseteq ModifierKeys
    BY <1>5, HoldFrames DEF TypeOK, LedgersTypeOK, StrikeOff
  <2>2. QED
    BY <1>0, <1>5, <2>1, StepIsQuiet, HoldFrames
       DEF ChordStep, TypeOK, LedgersTypeOK
<1>6. QED
  BY <1>1, <1>2, <1>3, <1>4, <1>5 DEF TakeStep, ButtonStep, ScrollStep

LEMMA TypesAndPoints == Spec => [](TypeOK /\ PointsInv)
<1>1. Init => TypeOK /\ PointsInv
  <2> SUFFICES ASSUME Init PROVE TypeOK /\ PointsInv
    OBVIOUS
  <2>1. PointsInv /\ call \in Calls
    BY NoCallFields, KeysAssumption DEF Init, InputInit, PointsInv, FrameOK
  <2>2. scrolling \in BOOLEAN /\ heldModifiers \subseteq ModifierKeys
    BY DEF Init
  <2>3. LedgersTypeOK
    BY DEF Init, InputInit, LedgersTypeOK, Slots
  <2>4. QED
    BY <2>1, <2>2, <2>3 DEF Init, InputInit, TypeOK
<1>2. TypeOK /\ PointsInv /\ [Next]_vars => TypeOK' /\ PointsInv'
  <2> SUFFICES ASSUME TypeOK, PointsInv, [Next]_vars
               PROVE  TypeOK' /\ PointsInv'
    OBVIOUS
  <2>1. CASE UNCHANGED vars
    BY <2>1 DEF vars, TypeOK, LedgersTypeOK, desktop, ledgers, PointsInv
  <2>2. QED
    BY <2>1, StartTypeOK, StepTypeOK DEF Next
<1>3. QED
  BY <1>1, <1>2, PTL DEF Spec

(* The backend's type invariant holds of every behaviour. *)
THEOREM TypeCorrect == Spec => []TypeOK
BY TypesAndPoints, PTL


-----------------------------------------------------------------------------
(* What the invariant says between calls. *)
LEMMA RestingHolds ==
  ASSUME PointsInv, Inv, Resting
  PROVE  /\ call = NoCall
         /\ Delivered({"press", "release", "last"}) => keysDown \subseteq heldKeys
         /\ heldKeys \subseteq asked
         /\ Delivered({"release", "last"}) => buttonsDown \subseteq heldButtons
         /\ Delivered({"release"}) => heldButtons \subseteq asked
         /\ Delivered({"scroll"}) => ~scrolling
<1>1. call = NoCall
  BY DEF PointsInv, FrameOK, Resting
<1>2. Pressing = {} /\ InHand({"click"}) = {}
      /\ InHand({"stroke", "long_press"}) = {}
  BY <1>1, NoCallFields DEF Pressing, InHand
<1>3. QED
  BY <1>1, <1>2, NoCallFields DEF Inv, KeysInv, ButtonsInv, ScrollInv

(***************************************************************************)
(* A call that has just started has nothing in its hands, nor has one that *)
(* is over.  All that is left to show of such a step is what it does to    *)
(* the ledgers.                                                            *)
(***************************************************************************)
LEMMA EmptyHandsHold ==
  ASSUME UNCHANGED faults, call'.pc # "gone",
         call'.pc = "release" => call'.op = "button_up",
         Pressing' = {},
         Delivered({"press", "release", "last"}) => keysDown' \subseteq heldKeys',
         heldKeys' \subseteq asked',
         Delivered({"release", "last"}) => buttonsDown' \subseteq heldButtons',
         Delivered({"release"}) => heldButtons' \subseteq asked',
         Delivered({"scroll"}) => ~scrolling',
         NoPhantomModifier'
  PROVE  Inv'
<1>1. KeysInv' /\ ButtonsInv' /\ ScrollInv'
  BY DEF KeysInv, ButtonsInv, ScrollInv, Delivered
<1>2. ShutdownLeavesNothingDown'
  BY DEF ShutdownLeavesNothingDown, Gone
<1>3. QED
  BY <1>1, <1>2 DEF Inv

(* A key struck off takes its flag along, whatever else stands for it. *)
LEMMA FlagsFollowKeys ==
  ASSUME NoPhantomModifier, NEW k \in Keys
  PROVE  /\ KeyDown(k) => NoPhantomModifier'
         /\ StrikeOff(k) => NoPhantomModifier'
BY DEF NoPhantomModifier, KeyDown, StrikeOff

(* Every call a client can make keeps the account. *)
LEMMA StartInv == TypeOK /\ PointsInv /\ Inv /\ StartCall => Inv'
<1> SUFFICES ASSUME TypeOK, PointsInv, Inv, StartCall PROVE Inv'
  OBVIOUS
<1>0. NoPhantomModifier
  BY DEF Inv
<1>1. ASSUME NEW c, StartsWell(c), Start(c), Flags PROVE Inv'
  <2>1. Resting /\ Fresh(call)'
    BY <1>1 DEF StartsWell, Start, Fresh
  <2>2. UNCHANGED <<keysDown, buttonsDown, touching, heldKeys, heldButtons,
                    asked, faults, heldModifiers, scrolling>>
    BY <1>1 DEF Start, Flags, desktop, ledgers
  <2>3. Pressing' = {}
    <3>1. 1 .. 1 - 1 = {}
      OBVIOUS
    <3>2. QED
      BY <2>1, <3>1 DEF Pressing, Fresh
  <2>4. NoPhantomModifier'
    BY <1>0, <2>2 DEF NoPhantomModifier
  <2>5. QED
    BY <2>1, <2>2, <2>3, <2>4, RestingHolds, EmptyHandsHold DEF Fresh
<1>2. ASSUME NEW k \in Keys, KeyDown(k) \/ KeyUp(k) PROVE Inv'
  <2>1. Resting /\ UNCHANGED <<call, faults, buttonsDown, heldButtons, scrolling>>
    BY <1>2 DEF KeyDown, KeyUp, StrikeOff
  <2>2. heldButtons \subseteq asked => heldButtons \subseteq asked'
    BY <1>2, KeysAssumption DEF KeyDown, KeyUp, TypeOK, LedgersTypeOK
  <2>3. call' = NoCall /\ Pressing' = {}
    BY <2>1, RestingHolds, NoCallFields DEF Pressing
  <2>4. NoPhantomModifier'
    BY <1>0, <1>2, FlagsFollowKeys DEF KeyUp
  <2>5. /\ Delivered({"press", "release", "last"})
             => keysDown' \subseteq heldKeys'
        /\ heldKeys' \subseteq asked'
    <3>1. CASE KeyDown(k)
      BY <2>1, <3>1, RestingHolds DEF KeyDown
    <3>2. CASE KeyUp(k)
      BY <2>1, <3>2, RestingHolds DEF KeyUp, StrikeOff, Delivered, MayFail
    <3>3. QED
      BY <1>2, <3>1, <3>2
  <2>6. QED
    BY <2>1, <2>2, <2>3, <2>4, <2>5, RestingHolds, NoCallFields, EmptyHandsHold
<1>3. ASSUME NEW text \in Texts, NEW enter \in BOOLEAN, TypeText(text, enter)
      PROVE  Inv'
  <2>1. /\ Resting /\ keysDown' \subseteq keysDown
        /\ UNCHANGED <<buttonsDown, heldKeys, heldButtons, asked, faults,
                       heldModifiers, scrolling>>
    BY <1>3, TypingLeaves
  <2>2. call'.pc \in {"idle", "key"} /\ Pressing' = {}
    BY <1>3, TypingLeaves, NoCallFields DEF Pressing
  <2>3. NoPhantomModifier'
    BY <1>0, <2>1 DEF NoPhantomModifier
  <2>4. QED
    BY <2>1, <2>2, <2>3, RestingHolds, EmptyHandsHold
<1>4. CASE ReleaseAll \/ Shutdown
  <2>1. Resting /\ LetGoOfLedger
    BY <1>4 DEF ReleaseAll, Shutdown
  <2>2. /\ heldKeys' = {} /\ heldButtons' = {} /\ heldModifiers' = {}
        /\ UNCHANGED <<faults, scrolling>>
        /\ ~MayFail("last") => /\ keysDown' = keysDown \ heldKeys
                               /\ buttonsDown' = buttonsDown \ heldButtons
    BY <2>1 DEF LetGoOfLedger, Lost
  <2>3. /\ Delivered({"press", "release", "last"}) => keysDown' = {}
        /\ Delivered({"release", "last"}) => buttonsDown' = {}
        /\ Delivered({"scroll"}) => ~scrolling'
        /\ NoPhantomModifier'
    BY <2>1, <2>2, RestingHolds DEF Delivered, MayFail, NoPhantomModifier
  <2>4. CASE ReleaseAll
    <3>1. call' = NoCall /\ Pressing' = {}
      BY <2>1, <2>4, RestingHolds, NoCallFields DEF ReleaseAll, Pressing
    <3>2. QED
      BY <2>1, <2>2, <2>3, <3>1, NoCallFields, EmptyHandsHold
  <2>5. CASE Shutdown
    <3>1. call'.pc = "gone" /\ call'.op = "none"
      BY <2>1, <2>5, RestingHolds, NoCallFields DEF Shutdown, Goto, Calls
    <3>2. Pressing' = {}
      BY <3>1 DEF Pressing
    <3>3. QED
      BY <2>2, <2>3, <3>1, <3>2
         DEF Inv, KeysInv, ButtonsInv, ScrollInv, ShutdownLeavesNothingDown,
             Delivered
  <2>6. QED
    BY <1>4, <2>4, <2>5
<1>5. QED
  BY <1>1, <1>2, <1>3, <1>4, CallsStartWell


-----------------------------------------------------------------------------
(***************************************************************************)
(* Keys.  A chord's key goes down into the hands of the call, and comes up *)
(* as it leaves them; only an undo touches the ledger as well.             *)
(***************************************************************************)
LEMMA StepKeys ==
  TypeOK /\ PointsInv /\ Inv /\ TakeStep => KeysInv' /\ NoPhantomModifier'
<1> SUFFICES ASSUME TypeOK, PointsInv, Inv, TakeStep
             PROVE  KeysInv' /\ NoPhantomModifier'
  OBVIOUS
<1>0. /\ faults' = faults /\ KeysInv /\ NoPhantomModifier
      /\ heldKeys \subseteq Keys /\ Keys \cap Buttons = {}
  BY StepIsQuiet, KeysAssumption DEF Inv, TypeOK, LedgersTypeOK
<1>1. ASSUME UNCHANGED <<heldKeys, heldModifiers>>, heldKeys \cap asked \subseteq asked',
             Delivered({"press", "release"})
               => keysDown' \ Pressing' \subseteq keysDown \ Pressing
      PROVE  KeysInv' /\ NoPhantomModifier'
  <2>1. Delivered({"press", "release", "last"}) => Delivered({"press", "release"})
    BY DEF Delivered
  <2>2. KeysInv'
    BY <1>0, <1>1, <2>1 DEF KeysInv, Delivered
  <2>3. QED
    BY <1>0, <1>1, <2>2 DEF NoPhantomModifier
<1>2. CASE ButtonStep
  <2>1. Pressing = {}
    BY <1>2, ButtonFrames DEF ButtonStep, Pressing
  <2>2. heldKeys \cap asked \subseteq asked'
    BY <1>0, <1>2, ButtonFrames DEF ButtonStep, PressButton, ReleaseButton
  <2>3. QED
    BY <1>1, <1>2, <2>1, <2>2, StepIsQuiet
<1>3. CASE ScrollStep
  <2>1. Pressing = {}
    BY <1>3, ScrollFrames DEF Pressing
  <2>2. QED
    BY <1>1, <1>3, <2>1, StepIsQuiet
<1>4. CASE TapDown \/ TapUp
  <2>1. UNCHANGED <<asked, heldKeys, heldModifiers>>
    BY <1>4, StepIsQuiet DEF ChordStep
  <2>2. CASE TapDown
    <3>1. Pressing = {} /\ call.op = "tap_chord"
      BY <2>2, TapFrames DEF Pressing
    <3>2. \/ keysDown' = keysDown
          \/ keysDown' = keysDown \cup {Current} /\ Pressing' = {Current}
      BY <2>2, <3>1, TapFrames DEF Pressing, Kept, Current
    <3>3. QED
      BY <1>1, <2>1, <3>1, <3>2
  <2>3. CASE TapUp
    <3>1. Pressing = {Current} /\ keysDown' = keysDown \ {Current}
      BY <2>3, TapFrames DEF Pressing, Current
    <3>2. QED
      BY <1>1, <2>1, <3>1
  <2>4. QED
    BY <1>4, <2>2, <2>3
<1>5. ASSUME HoldDown \/ HoldUp \/ HoldUndo
      PROVE  /\ Pressing = {call.keys[i] : i \in 1 .. call.at - 1}
             /\ Kept /\ call'.pc \in {"key", "key_up", "unguard"}
                  => Pressing' = {call.keys[i] : i \in 1 .. call'.at - 1}
  <2>1. /\ call.op = "hold_chord"
        /\ call.pc \in {"key", "key_up", "unguard"}
    BY <1>5, HoldFrames
  <2>2. QED
    BY <2>1 DEF Pressing, Kept
<1>6. ASSUME HoldUp \/ HoldUndo, call.at > 1, Kept,
             call'.pc \in {"key_up", "unguard"}, call'.at = call.at - 1
      PROVE  Pressing \subseteq Pressing' \cup {call.keys[call.at - 1]}
  <2>1. call.at \in Nat \ {0}
    BY <1>6, HoldFrames
  <2>2. 1 .. call.at - 1 = (1 .. call'.at - 1) \cup {call.at - 1}
    BY <1>6, <2>1
  <2>3. QED
    BY <1>5, <1>6, <2>2
<1>7. ASSUME HoldUp \/ HoldUndo, call.at = 1 PROVE Pressing = {}
  <2>1. 1 .. 1 - 1 = {}
    OBVIOUS
  <2>2. QED
    BY <1>5, <1>7, <2>1
<1>8. CASE HoldDown
  <2>1. UNCHANGED <<asked, heldKeys, heldModifiers>>
    BY <1>8, StepIsQuiet DEF ChordStep
  <2>2. CASE /\ keysDown' = keysDown \cup {Current}
             /\ Kept /\ call'.pc = "key" /\ call'.at = call.at + 1
    <3>1. call.at \in Nat \ {0}
      BY <1>8, HoldFrames
    <3>2. 1 .. call'.at - 1 = (1 .. call.at - 1) \cup {call.at}
      BY <2>2, <3>1
    <3>3. Pressing' = Pressing \cup {Current}
      BY <1>5, <1>8, <2>2, <3>2 DEF Current
    <3>4. QED
      BY <1>1, <2>1, <2>2, <3>3
  <2>3. CASE /\ keysDown' = keysDown
             /\ Kept /\ call'.pc \in {"key_up", "unguard"}
             /\ call'.at = call.at
    BY <1>1, <1>5, <1>8, <2>1, <2>3
  <2>4. CASE MayFail("press") /\ keysDown' = keysDown
    BY <1>1, <2>1, <2>4 DEF MayFail, Delivered
  <2>5. QED
    BY <1>8, <2>2, <2>3, <2>4, HoldFrames
<1>9. CASE HoldUp
  <2>1. UNCHANGED <<asked, heldKeys, heldModifiers>>
    BY <1>9, StepIsQuiet DEF ChordStep
  <2>2. CASE call.at = 1 /\ keysDown' = keysDown
    BY <1>1, <1>7, <1>9, <2>1, <2>2
  <2>3. CASE /\ call.at > 1
             /\ \/ keysDown' = keysDown \ {call.keys[call.at - 1]}
                \/ MayFail("release")
             /\ Kept /\ call'.pc = "key_up" /\ call'.at = call.at - 1
    <3>1. Pressing \subseteq Pressing' \cup {call.keys[call.at - 1]}
      BY <1>6, <1>9, <2>3
    <3>2. QED
      BY <1>1, <2>1, <2>3, <3>1 DEF MayFail, Delivered
  <2>4. QED
    BY <1>9, <2>2, <2>3, HoldFrames
<1>10. CASE HoldUndo
  <2>1. UNCHANGED asked
    BY <1>10, StepIsQuiet DEF ChordStep
  <2>2. CASE call.at = 1 /\ UNCHANGED <<keysDown, heldKeys, heldModifiers>>
    BY <1>1, <1>7, <1>10, <2>1, <2>2
  <2>3. CASE /\ call.at > 1 /\ call.keys[call.at - 1] \in Keys
             /\ StrikeOff(call.keys[call.at - 1])
             /\ Kept /\ call'.pc = "unguard" /\ call'.at = call.at - 1
    <3>1. Pressing \subseteq Pressing' \cup {call.keys[call.at - 1]}
      BY <1>6, <1>10, <2>3
    <3>2. /\ heldKeys' = heldKeys \ {call.keys[call.at - 1]}
          /\ keysDown' = keysDown \ {call.keys[call.at - 1]} \/ MayFail("release")
      BY <2>3 DEF StrikeOff
    <3>3. KeysInv'
      BY <1>0, <2>1, <3>1, <3>2 DEF KeysInv, MayFail, Delivered
    <3>4. QED
      BY <1>0, <2>3, <3>3, FlagsFollowKeys
  <2>4. QED
    BY <1>10, <2>2, <2>3, HoldFrames
<1>11. QED
  BY <1>2, <1>3, <1>4, <1>8, <1>9, <1>10 DEF TakeStep, ButtonStep, ScrollStep

(***************************************************************************)
(* Buttons.  A press hands the button to the call, and to the ledger if it *)
(* is not a click's; the release takes it from both.                       *)
(***************************************************************************)
LEMMA StepButtons == TypeOK /\ PointsInv /\ Inv /\ TakeStep => ButtonsInv'
<1> SUFFICES ASSUME TypeOK, PointsInv, Inv, TakeStep PROVE ButtonsInv'
  OBVIOUS
<1>0. faults' = faults /\ ButtonsInv
  BY StepIsQuiet DEF Inv
<1>1. ASSUME UNCHANGED <<buttonsDown, heldButtons, asked>>,
             call.pc # "release", call'.pc # "release"
      PROVE  ButtonsInv'
  BY <1>0, <1>1 DEF ButtonsInv, InHand, Delivered
<1>2. CASE ScrollStep
  BY <1>1, <1>2, StepIsQuiet, ScrollFrames, NoCallFields
<1>3. CASE TapDown \/ TapUp
  BY <1>1, <1>3, StepIsQuiet, TapFrames, NoCallFields DEF ChordStep
<1>4. CASE HoldDown \/ HoldUp \/ HoldUndo
  BY <1>1, <1>4, StepIsQuiet, HoldFrames, NoCallFields DEF ChordStep
<1>5. CASE PressButton
  <2>1. call.pc = "press" /\ call.op \in Pressers
    BY <1>5, ButtonFrames
  <2>2. InHand({"click"}) = {} /\ InHand({"stroke", "long_press"}) = {}
    BY <2>1 DEF InHand
  <2>3. CASE UNCHANGED <<buttonsDown, heldButtons, asked>> /\ Finish
    BY <1>1, <2>1, <2>3, NoCallFields DEF Finish
  <2>4. CASE /\ buttonsDown' = buttonsDown \cup {call.button}
             /\ heldButtons' = heldButtons \cup {call.button}
             /\ asked' = asked \cup {call.button}
    BY <1>0, <2>2, <2>4 DEF ButtonsInv, Delivered
  <2>5. CASE /\ buttonsDown' = buttonsDown \cup {call.button}
             /\ heldButtons' = IF call.op \in Ledgered
                               THEN heldButtons \cup {call.button}
                               ELSE heldButtons
             /\ asked' = asked /\ Kept /\ call'.pc = "release"
             /\ call.op # "button_down"
    <3>1. \/ call.op = "click" /\ InHand({"click"})' = {call.button}
          \/ /\ call.op \in Ledgered
             /\ InHand({"stroke", "long_press"})' = {call.button}
      BY <2>1, <2>5 DEF InHand, Kept, Pressers, Ledgered
    <3>2. call.op = "click" => call.op \notin Ledgered
      BY DEF Ledgered
    <3>3. QED
      BY <1>0, <2>2, <2>5, <3>1, <3>2 DEF ButtonsInv, Delivered
  <2>6. Goto("release") => Kept /\ call'.pc = "release"
    <3>1. Goto("release") => call'.pc = "release"
      BY DEF Goto, PointsInv, FrameOK, Calls
    <3>2. QED
      BY <1>5, <3>1, ButtonFrames, NoCallFields
  <2>7. CASE call.op = "button_down"
    BY <1>5, <2>3, <2>4, <2>7 DEF PressButton, Ledgered, Pressers
  <2>8. CASE call.op # "button_down"
    BY <1>5, <2>3, <2>5, <2>6, <2>8 DEF PressButton
  <2>9. QED
    BY <2>7, <2>8
<1>6. CASE ReleaseButton
  <2>1. call.pc = "release" /\ call'.pc # "release"
    BY <1>6, ButtonFrames, NoCallFields
  <2>2. InHand({"click"})' = {} /\ InHand({"stroke", "long_press"})' = {}
    BY <2>1 DEF InHand
  <2>3. CASE MayFail("release")
    BY <1>0, <2>3 DEF ButtonsInv, Delivered, MayFail
  <2>4. CASE /\ buttonsDown' = buttonsDown \ {call.button}
             /\ heldButtons' = IF call.op = "click"
                               THEN heldButtons ELSE heldButtons \ {call.button}
             /\ asked' = IF call.op = "button_up"
                         THEN asked \ {call.button} ELSE asked
    <3>1. /\ InHand({"click"}) \subseteq {call.button}
          /\ InHand({"stroke", "long_press"})
               \subseteq IF call.op = "click" THEN {} ELSE {call.button}
      BY DEF InHand
    <3>2. QED
      BY <1>0, <2>2, <2>4, <3>1 DEF ButtonsInv, Delivered
  <2>5. QED
    BY <1>6, <2>3, <2>4 DEF ReleaseButton
<1>7. QED
  BY <1>2, <1>3, <1>4, <1>5, <1>6 DEF TakeStep, ScrollStep

(* Scrolls.  A begin puts the scroll into the hands of its call. *)
LEMMA StepScroll == TypeOK /\ PointsInv /\ Inv /\ TakeStep => ScrollInv' /\ ~Gone'
<1> SUFFICES ASSUME TypeOK, PointsInv, Inv, TakeStep PROVE ScrollInv' /\ ~Gone'
  OBVIOUS
<1>0. faults' = faults /\ ScrollInv
  BY StepIsQuiet DEF Inv
<1>1. ASSUME UNCHANGED scrolling, call.op # "scroll" PROVE ScrollInv'
  BY <1>0, <1>1 DEF ScrollInv, Delivered
<1>2. CASE ButtonStep
  BY <1>1, <1>2, StepIsQuiet, ButtonFrames, NoCallFields
     DEF ButtonStep, Pressers, Gone
<1>3. CASE TapDown \/ TapUp
  BY <1>1, <1>3, StepIsQuiet, TapFrames, NoCallFields DEF ChordStep, Gone
<1>4. CASE HoldDown \/ HoldUp \/ HoldUndo
  BY <1>1, <1>4, StepIsQuiet, HoldFrames, NoCallFields DEF ChordStep, Gone
<1>5. CASE ScrollStep
  <2>1. ~Gone' /\ call.op = "scroll"
    BY <1>5, ScrollFrames, NoCallFields DEF Gone
  <2>2. CASE MayFail("scroll")
    BY <1>0, <2>1, <2>2 DEF ScrollInv, Delivered, MayFail
  <2>3. CASE (ScrollBegin \/ ScrollChange) /\ ~MayFail("scroll")
    BY <1>5, <2>1, <2>3, ScrollFrames DEF ScrollInv, Kept
  <2>4. CASE ScrollEnd /\ ~MayFail("scroll")
    BY <2>1, <2>4 DEF ScrollEnd, ScrollInv
  <2>5. CASE TurnWheel
    <3>1. call.pc = "pressed" /\ scrolling' = scrolling
      BY <1>5, <2>5, ScrollFrames DEF TurnWheel, Flags
    <3>2. QED
      BY <1>0, <2>1, <3>1 DEF ScrollInv, Delivered
  <2>6. QED
    BY <1>5, <2>2, <2>3, <2>4, <2>5 DEF ScrollStep
<1>6. QED
  BY <1>2, <1>3, <1>4, <1>5 DEF TakeStep, ButtonStep, ScrollStep

-----------------------------------------------------------------------------
(* The account holds of every behaviour. *)
THEOREM InvHolds == Spec => []Inv
<1>1. Init => Inv
  <2> SUFFICES ASSUME Init PROVE Inv
    OBVIOUS
  <2>1. /\ keysDown = {} /\ buttonsDown = {} /\ heldKeys = {} /\ heldButtons = {}
        /\ asked = {} /\ heldModifiers = {} /\ ~scrolling /\ ~Gone
    BY NoCallFields DEF Init, InputInit, Gone
  <2>2. QED
    BY <2>1 DEF Inv, KeysInv, ButtonsInv, ScrollInv, NoPhantomModifier,
                ShutdownLeavesNothingDown
<1>2. TypeOK /\ PointsInv /\ Inv /\ [Next]_vars => Inv'
  <2> SUFFICES ASSUME TypeOK, PointsInv, Inv, [Next]_vars PROVE Inv'
    OBVIOUS
  <2>1. CASE StartCall
    BY <2>1, StartInv
  <2>2. CASE TakeStep
    BY <2>2, StepKeys, StepButtons, StepScroll
       DEF Inv, ShutdownLeavesNothingDown
  <2>3. CASE UNCHANGED vars
    BY <2>3
       DEF vars, desktop, ledgers, Inv, KeysInv, ButtonsInv, ScrollInv,
           NoPhantomModifier, ShutdownLeavesNothingDown, Delivered, Pressing,
           InHand, Gone
  <2>4. QED
    BY <2>1, <2>2, <2>3 DEF Next
<1>3. QED
  BY <1>1, <1>2, TypesAndPoints, PTL DEF Spec

(***************************************************************************)
(* After the last release_all nothing is down (README: "Every held button, *)
(* key and touch contact is released on shutdown"), as long as the events  *)
(* that let go of it could be created, and for the keys those that press,  *)
(* since hold_chord lets go of nothing when it returns on one of those.    *)
(***************************************************************************)
THEOREM ReleasedOnShutdown == Spec => []ShutdownLeavesNothingDown
BY InvHolds, PTL DEF Inv

(***************************************************************************)
(* Between calls nothing is down that the client has not asked for, on the *)
(* same terms: an unmapped key in the middle of a chord undoes the keys    *)
(* before it, and a click of several rounds lets go in each.               *)
(***************************************************************************)
THEOREM NothingElseStaysDown == Spec => []OnlyAskedForStaysDown
<1>1. PointsInv /\ Inv => OnlyAskedForStaysDown
  <2> SUFFICES ASSUME PointsInv, Inv, Resting PROVE OnlyAskedForStaysDown
    BY DEF OnlyAskedForStaysDown
  <2>1. Delivered({"release", "last"}) => Delivered({"release"})
    BY DEF Delivered
  <2>2. QED
    BY <2>1, RestingHolds DEF OnlyAskedForStaysDown
<1>2. QED
  BY <1>1, TypesAndPoints, InvHolds, PTL

(***************************************************************************)
(* No flag of held_modifiers_ is without a key in the ledger that stands   *)
(* for it, whatever key_up and the undo of a chord strike off, and in      *)
(* whatever order the left and the right key of a pair come and go.        *)
(***************************************************************************)
THEOREM FlagsHaveKeys == Spec => []NoPhantomModifier
BY InvHolds, PTL DEF Inv

(* A phased scroll is closed when its call returns, if its events exist. *)
THEOREM ScrollsAreClosed == Spec => []PhasedScrollIsClosed
<1>1. PointsInv /\ Inv => PhasedScrollIsClosed
  BY RestingHolds DEF PhasedScrollIsClosed
<1>2. QED
  BY <1>1, TypesAndPoints, InvHolds, PTL
=============================================================================
