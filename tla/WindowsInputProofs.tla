------------------------- MODULE WindowsInputProofs -------------------------
(***************************************************************************)
(* Proofs about WindowsInput: its type invariant, what is down between     *)
(* calls and after the last release_all, that the ledger knows of every    *)
(* key of a chord, and that a button never moves without its modifiers.    *)
(*                                                                         *)
(* The argument is an account, as on Linux, but one with more debtors: the *)
(* modifiers of a ModifierGuard are owed by the guard alone, the button of *)
(* a click by the point the call has reached, and every event may be       *)
(* refused.  So each part of the account is kept under the releases that   *)
(* it relies on, and under no assumption about presses.                    *)
(***************************************************************************)
EXTENDS WindowsInput, TLAPS

(* The keys that the call has noted in the ledger and will let go of. *)
Pressing ==
  IF call.op = "tap_chord" /\ call.pc = "key_up" THEN {call.keys[call.at]}
  ELSE IF call.op = "hold_chord" /\ call.pc \in {"key", "key_up"}
  THEN {call.keys[i] : i \in 1 .. call.at - 1}
  ELSE {}

(* The button in the ledger that the call will let go of itself. *)
InHand ==
  IF /\ call.op \in {"stroke", "long_press"}
     /\ call.pc \in {"release", "released"}
  THEN {call.button} ELSE {}

(***************************************************************************)
(* Where a call may be: only press() and release() wait for a guard to let *)
(* go, with a round left to go on to, and what waits for the release of a  *)
(* chord's key has been sent.                                              *)
(***************************************************************************)
PointsInv ==
  /\ call.pc \in {"pressed", "released"}
       => call.left > 0 /\ call.op \in Pressers \cup {"button_up"}
  /\ call.op = "tap_chord" /\ call.pc = "key_up" => Sent(Current)

(* The keys' account. *)
KeysInv ==
  /\ Delivered({"release", "last", "batch"})
       => keysDown \subseteq heldKeys \cup call.guard
  /\ Delivered({"release"}) => heldKeys \subseteq asked \cup Pressing

(* The buttons' account: a click keeps no ledger. *)
ButtonsInv ==
  /\ Delivered({"release", "last"})
       => buttonsDown \subseteq
            heldButtons \cup IF call.pc \in {"pressed", "release"}
                             THEN {call.button} ELSE {}
  /\ Delivered({"release", "last"}) /\ call.pc = "released"
       => call.button \notin buttonsDown
  /\ Delivered({"release"}) => heldButtons \subseteq asked \cup InHand

(* Contacts are on the glass only between a first frame and its lift. *)
TouchInv ==
  Delivered({"lift"}) =>
    touching \subseteq IF call.pc \in {"touch_move", "touch_lift"}
                       THEN call.points ELSE {}

(* Before an event of a button, a modifier is in the guard or on its way. *)
GuardInv ==
  call.pc \in {"press", "release"} =>
    /\ call.mods \subseteq call.todo \cup call.guard
    /\ (Delivered({"press"}) => call.guard \subseteq keysDown)

Inv ==
  /\ KeysInv /\ ButtonsInv /\ TouchInv /\ GuardInv
  /\ ChordKeysAreInTheLedger
  /\ ShutdownLeavesNothingDown

-----------------------------------------------------------------------------
(***************************************************************************)
(* The frames that calls start with.  NoCall is expanded here and nowhere  *)
(* else: the other lemmas know its fields from NoCallFields.               *)
(***************************************************************************)
LEMMA NoCallFields ==
  /\ NoCall \in Calls
  /\ NoCall.op = "none" /\ NoCall.pc = "idle" /\ NoCall.button = "left"
  /\ NoCall.mods = {} /\ NoCall.todo = {} /\ NoCall.guard = {}
  /\ NoCall.points = {} /\ NoCall.keys = <<>> /\ NoCall.at = 1
  /\ NoCall.left = 0
BY KeysAssumption DEF NoCall, Calls, CallOps, CallPoints, TextItems, Slots

(* A call that has pressed nothing yet, and has all its modifiers to press. *)
Fresh(c) ==
  /\ c.pc \in {"press", "release", "key", "touch_begin"}
  /\ c.pc = "release" => c.op = "button_up"
  /\ c.todo = c.mods /\ c.guard = {}
  /\ c.at = 1

StartsWell(c) == FrameOK(c) /\ Fresh(c)

(* A frame of Pointing is one that a call may start with. *)
LEMMA PointingStartsWell ==
  ASSUME NEW op \in Pressers \cup {"scroll", "button_up"},
         NEW b \in Buttons \cup {"wheel"}, op # "scroll" => b \in Buttons,
         NEW mods \in SUBSET ModifierKeys, NEW n \in 1 .. MaxRepeat
  PROVE  /\ op # "button_up" => StartsWell(Pointing(op, b, mods, n))
         /\ op = "button_up" =>
              StartsWell([Pointing(op, b, mods, n) EXCEPT !.pc = "release"])
<1>1. /\ op \in CallOps /\ {"press", "release"} \subseteq CallPoints
      /\ n \in Nat \ {0} /\ op \notin {"none", "type_text", "inject", "tap_chord"}
  BY BoundsAssumption DEF CallOps, CallPoints, Pressers
<1>2. ASSUME NEW pc \in {"press", "release"}, NEW c,
             c = [Pointing(op, b, mods, n) EXCEPT !.pc = pc],
             pc = "release" => op = "button_up"
      PROVE  StartsWell(c)
  <2>1. /\ c \in Calls
        /\ c.op = op /\ c.pc = pc /\ c.button = b /\ c.left = n
        /\ c.mods = mods /\ c.todo = mods
        /\ c.guard = {} /\ c.keys = <<>> /\ c.at = 1
    BY <1>1, <1>2, NoCallFields DEF Pointing, Calls
  <2>2. QED
    BY <1>1, <1>2, <2>1 DEF StartsWell, Fresh, FrameOK
<1>3. Pointing(op, b, mods, n) = [Pointing(op, b, mods, n) EXCEPT !.pc = "press"]
  BY <1>1, NoCallFields DEF Pointing, Calls
<1>4. QED
  BY <1>2, <1>3

(* A frame of Chording is one that a call may start with. *)
LEMMA ChordingStartsWell ==
  ASSUME NEW op \in {"tap_chord", "hold_chord"}, NEW ch \in Chords,
         NEW n \in 1 .. MaxRepeat
  PROVE  StartsWell(Chording(op, ch, n))
<1> DEFINE c == Chording(op, ch, n)
<1>1. /\ ch.mods \subseteq ModifierKeys
      /\ ch.keys \in Seq(Keys) /\ Len(ch.keys) >= 1
  BY ChordsAssumption
<1>2. op \in CallOps /\ "key" \in CallPoints /\ n \in Nat
  BY BoundsAssumption DEF CallOps, CallPoints
<1>3. /\ c \in Calls
      /\ c.op = op /\ c.pc = "key" /\ c.button = "left"
      /\ c.mods = ch.mods /\ c.todo = ch.mods
      /\ c.guard = {} /\ c.keys = ch.keys /\ c.at = 1
  BY <1>1, <1>2, NoCallFields DEF Chording, Calls
<1> HIDE DEF c
<1>4. StartsWell(c)
  BY <1>1, <1>3, KeysAssumption DEF StartsWell, Fresh, FrameOK
<1> QED
  BY <1>4 DEF c

(* A frame of Touching is one that a call may start with. *)
LEMMA TouchingStartsWell ==
  ASSUME NEW kind \in GestureKinds, NEW fingers \in FingerCounts,
         NEW n \in 1 .. MaxSteps
  PROVE  StartsWell(Touching(kind, fingers, n))
<1> DEFINE c == Touching(kind, fingers, n)
<1>1. fingers \in Int /\ n \in Nat \ {0}
  BY BoundsAssumption
<1>2. /\ Layout(kind, fingers) \in SUBSET (0 .. Slots - 1)
      /\ Clamp(fingers, 1, Slots) \in 0 .. Slots
  BY <1>1 DEF Layout, Clamp, Slots
<1>3. "inject" \in CallOps /\ "touch_begin" \in CallPoints
  BY DEF CallOps, CallPoints
<1>4. /\ c \in Calls
      /\ c.op = "inject" /\ c.pc = "touch_begin" /\ c.button = "left"
      /\ c.mods = {} /\ c.todo = {} /\ c.guard = {} /\ c.keys = <<>>
      /\ c.at = 1 /\ c.left = n
  BY <1>1, <1>2, <1>3, NoCallFields DEF Touching, Calls
<1> HIDE DEF c
<1>5. StartsWell(c)
  BY <1>1, <1>4, KeysAssumption DEF StartsWell, Fresh, FrameOK
<1> QED
  BY <1>5 DEF c

(***************************************************************************)
(* Every call that takes more than one step starts with such a frame; the  *)
(* others are done in one, typing perhaps with a Return to follow.         *)
(***************************************************************************)
LEMMA CallsStartWell ==
  ASSUME StartCall
  PROVE  \/ \E c : StartsWell(c) /\ Begin(c)
         \/ \E k \in Keys : KeyDown(k) \/ KeyUp(k)
         \/ \E text \in Texts, enter \in BOOLEAN : TypeText(text, enter)
         \/ ReleaseAll
         \/ Shutdown
<1> DEFINE Starts == \E c : StartsWell(c) /\ Begin(c)
<1> HIDE DEF Starts
<1>0. 1 \in 1 .. MaxRepeat /\ "left" \in Buttons
  BY BoundsAssumption, KeysAssumption
<1>1. \A b \in Buttons, mods \in SUBSET ModifierKeys, n \in 1 .. MaxRepeat :
        Click(b, mods, n) => Starts
  BY PointingStartsWell DEF Click, Starts, Pressers
<1>2. \A mods \in SUBSET ModifierKeys, n \in 1 .. MaxRepeat :
        Scroll(mods, n) => Starts
  BY PointingStartsWell DEF Scroll, Starts
<1>3. ASSUME NEW b \in Buttons, NEW mods \in SUBSET ModifierKeys,
             \/ \E n \in 1 .. MaxRepeat : Click(b, mods, n)
             \/ ButtonDown(b, mods)
             \/ ButtonUp(b, mods)
             \/ Stroke(b, mods)
      PROVE  Starts
  BY <1>0, <1>1, <1>3, PointingStartsWell
     DEF ButtonDown, ButtonUp, Stroke, Starts, Pressers
<1>4. \A c \in Chords, n \in 1 .. MaxRepeat : TapChord(c, n) => Starts
  BY ChordingStartsWell DEF TapChord, Starts
<1>5. \A c \in Chords : HoldChord(c) => Starts
  BY <1>0, ChordingStartsWell DEF HoldChord, Starts
<1>6. ASSUME NEW kind \in GestureKinds, NEW fingers \in FingerCounts,
             Inject(kind, fingers)
      PROVE  Starts
  BY <1>6, TouchingStartsWell DEF Inject, Starts
<1>7. ASSUME NEW kind \in GestureKinds, NEW mods \in SUBSET ModifierKeys,
             Emulate(kind, mods)
      PROVE  Starts
  <2>1. mods \cup {Control} \in SUBSET ModifierKeys
    BY VkAssumption
  <2>2. CASE kind = "tap" /\ Click("left", mods, 1)
    BY <1>0, <1>1, <2>2
  <2>3. CASE Begin(Pointing("long_press", "left", mods, 1))
    BY <1>0, <2>3, PointingStartsWell DEF Starts, Pressers
  <2>4. CASE \E n \in 1 .. MaxRepeat : Scroll(mods \cup {Control}, n)
    BY <1>2, <2>1, <2>4
  <2>5. QED
    BY <1>7, <2>2, <2>3, <2>4 DEF Emulate
<1>8. ASSUME NEW kind \in GestureKinds, NEW fingers \in FingerCounts,
             NEW mods \in SUBSET ModifierKeys, NEW native \in BOOLEAN,
             Gesture(kind, fingers, mods, native)
      PROVE  Starts
  BY <1>0, <1>4, <1>6, <1>7, <1>8, VkAssumption DEF Gesture
<1>9. QED
  BY <1>2, <1>3, <1>4, <1>5, <1>8 DEF StartCall, Starts

-----------------------------------------------------------------------------
(* Starting a call keeps the types. *)
LEMMA BeginTypeOK ==
  ASSUME TypeOK, NEW c, StartsWell(c), Begin(c)
  PROVE  TypeOK' /\ PointsInv'
<1>1. TypeOK'
  BY DEF TypeOK, CallTypeOK, LedgersTypeOK, StartsWell, Begin, Start,
         desktop, ledgers
<1>2. Fresh(call)'
  BY DEF StartsWell, Begin, Start, Fresh
<1>3. QED
  BY <1>1, <1>2 DEF Fresh, PointsInv

(* Pressing or letting go of a key keeps the types of what it changes. *)
LEMMA KeyEventTypeOK ==
  ASSUME TypeOK, NEW k \in Keys, PressKey(k) \/ ReleaseKey(k) \/ NoEvent
  PROVE  /\ keysDown' \subseteq Keys \cup {"packet"} /\ heldKeys' \subseteq Keys
         /\ heldButtons' = heldButtons /\ contactsDown' = contactsDown
         /\ buttonsDown' = buttonsDown /\ touching' = touching
BY DEF TypeOK, LedgersTypeOK, PressKey, ReleaseKey, NoEvent, desktop, ledgers

(* A text presses and lets go of Return and the key of characters only. *)
LEMMA StrokedKeys ==
  ASSUME NEW text
  PROVE  Stroked(text) \subseteq {Return, "packet"}
BY DEF Stroked

(* Returning leaves a well-formed frame. *)
LEMMA NoCallFrameOK ==
  ASSUME call' = NoCall
  PROVE  FrameOK(call)' /\ PointsInv'
BY NoCallFields, KeysAssumption DEF FrameOK, PointsInv

(***************************************************************************)
(* So does any other way on, as long as the position stays within the      *)
(* chord and the rounds do not run out.                                    *)
(***************************************************************************)
LEMMA OnwardFrameOK ==
  ASSUME FrameOK(call), call' \in Calls,
         call'.op = call.op, call'.button = call.button,
         call'.keys = call.keys,
         call'.pc \notin {"idle", "gone", "return_up"},
         call'.at <= Len(call.keys) + 1,
         call.op = "tap_chord" => call'.at <= Len(call.keys),
         call'.pc \in {"press", "release", "touch_begin", "touch_move"}
           => call'.left > 0,
         call.op \in {"none", "type_text", "inject"}
           => call'.todo = {} /\ call'.guard = {}
  PROVE  FrameOK(call)'
BY DEF FrameOK

(* Moving on to another point of the call is such a way. *)
LEMMA GotoFrameOK ==
  ASSUME FrameOK(call), NEW pc \in CallPoints \ {"idle", "gone", "return_up"},
         Goto(pc),
         pc \in {"press", "release", "touch_begin", "touch_move"} => call.left > 0
  PROVE  /\ FrameOK(call)'
         /\ call'.op = call.op /\ call'.pc = pc /\ call'.button = call.button
         /\ call'.keys = call.keys /\ call'.at = call.at
         /\ call'.left = call.left /\ call'.mods = call.mods
         /\ call'.todo = call.todo /\ call'.guard = call.guard
         /\ call'.points = call.points
<1>1. call \in Calls
  BY DEF FrameOK
<1>2. /\ call' \in Calls
      /\ call'.op = call.op /\ call'.pc = pc /\ call'.button = call.button
      /\ call'.keys = call.keys /\ call'.at = call.at
      /\ call'.left = call.left /\ call'.mods = call.mods
      /\ call'.todo = call.todo /\ call'.guard = call.guard
      /\ call'.points = call.points
  BY <1>1 DEF Goto, Calls
<1>3. FrameOK(call)'
  BY <1>2, OnwardFrameOK DEF FrameOK
<1>4. QED
  BY <1>2, <1>3

(* What release_all leaves is well typed. *)
LEMMA LetGoTypeOK ==
  ASSUME TypeOK, LetGoOfLedger
  PROVE  /\ keysDown' \subseteq Keys \cup {"packet"}
         /\ buttonsDown' \subseteq Buttons
         /\ touching' \subseteq 0 .. Slots - 1
         /\ LedgersTypeOK'
         /\ touchReady' \in BOOLEAN
BY DEF TypeOK, LedgersTypeOK, LetGoOfLedger, Slots

(* What a text may leave behind: the frame of the Return that follows it. *)
LEMMA TypingLeaves ==
  ASSUME TypeOK, NEW text \in Texts, NEW enter \in BOOLEAN,
         TypeText(text, enter)
  PROVE  /\ Resting
         /\ keysDown' \subseteq keysDown \cup {Return, "packet"}
         /\ ~MayFail("batch") => keysDown' \subseteq keysDown
         /\ UNCHANGED <<buttonsDown, touching, heldKeys, heldButtons,
                        contactsDown, asked, faults, touchReady>>
         /\ \/ call' = NoCall
            \/ /\ FrameOK(call)' /\ call'.op = "tap_chord" /\ call'.pc = "key"
               /\ call'.at = 1 /\ call'.guard = {}
<1>1. Resting /\ call = NoCall
  BY DEF TypeText, Resting, TypeOK, CallTypeOK, FrameOK
<1>2. UNCHANGED <<buttonsDown, touching, heldKeys, heldButtons,
                  contactsDown, asked, faults, touchReady>>
  BY DEF TypeText, ledgers
<1>3. /\ keysDown' \subseteq keysDown \cup {Return, "packet"}
      /\ ~MayFail("batch") => keysDown' \subseteq keysDown
  BY StrokedKeys DEF TypeText
<1>4. ASSUME call' = [NoCall EXCEPT !.op = "tap_chord", !.pc = "key",
                                    !.keys = <<Return>>, !.left = 1]
      PROVE  /\ FrameOK(call)' /\ call'.op = "tap_chord" /\ call'.pc = "key"
             /\ call'.at = 1 /\ call'.guard = {}
  <2>1. "tap_chord" \in CallOps /\ "key" \in CallPoints
    BY DEF CallOps, CallPoints
  <2>2. <<Return>> \in Seq(Keys) /\ Len(<<Return>>) = 1
    BY KeysAssumption
  <2>3. /\ call' \in Calls /\ call'.op = "tap_chord" /\ call'.pc = "key"
        /\ call'.at = 1 /\ call'.guard = {} /\ call'.keys = <<Return>>
        /\ call'.button = "left"
    BY <1>4, <2>1, <2>2, NoCallFields DEF Calls
  <2>4. QED
    BY <2>2, <2>3, KeysAssumption DEF FrameOK
<1>5. QED
  BY <1>1, <1>2, <1>3, <1>4 DEF TypeText

(* Every call a client can make keeps the types. *)
LEMMA StartTypeOK == TypeOK /\ PointsInv /\ StartCall => TypeOK' /\ PointsInv'
<1> SUFFICES ASSUME TypeOK, PointsInv, StartCall
             PROVE  TypeOK' /\ PointsInv'
  OBVIOUS
<1>1. CASE \E c : StartsWell(c) /\ Begin(c)
  BY <1>1, BeginTypeOK
<1>2. ASSUME NEW k \in Keys, KeyDown(k) \/ KeyUp(k) PROVE TypeOK' /\ PointsInv'
  BY <1>2, KeyEventTypeOK
     DEF TypeOK, CallTypeOK, LedgersTypeOK, PointsInv, Current, KeyDown, KeyUp
<1>3. ASSUME NEW text \in Texts, NEW enter \in BOOLEAN, TypeText(text, enter)
      PROVE  TypeOK' /\ PointsInv'
  <2>1. FrameOK(call)' /\ PointsInv'
    BY <1>3, TypingLeaves, NoCallFrameOK DEF PointsInv
  <2>2. QED
    BY <1>3, <2>1, TypingLeaves, KeysAssumption
       DEF TypeOK, CallTypeOK, LedgersTypeOK
<1>4. CASE ReleaseAll
  BY <1>4, LetGoTypeOK
     DEF TypeOK, CallTypeOK, ReleaseAll, PointsInv, Current
<1>5. CASE Shutdown
  <2>1. call = NoCall /\ "gone" \in CallPoints
    BY <1>5 DEF Shutdown, TypeOK, CallTypeOK, FrameOK, Resting, CallPoints
  <2>2. call' \in Calls /\ call'.pc = "gone" /\ call' = [NoCall EXCEPT !.pc = "gone"]
    BY <1>5, <2>1, NoCallFields DEF Shutdown, Goto, Calls
  <2>3. /\ call'.op = "none" /\ call'.todo = {} /\ call'.guard = {}
        /\ call'.keys = <<>> /\ call'.at = 1 /\ call'.button = "left"
    BY <2>2, NoCallFields DEF Calls
  <2>4. FrameOK(call)' /\ PointsInv'
    BY <2>2, <2>3, KeysAssumption DEF FrameOK, PointsInv
  <2>5. QED
    BY <1>5, <2>4, LetGoTypeOK DEF TypeOK, CallTypeOK, Shutdown
<1>6. QED
  BY <1>1, <1>2, <1>3, <1>4, <1>5, CallsStartWell

-----------------------------------------------------------------------------
(***************************************************************************)
(* What the steps do to the frame of the call.  The later lemmas know the  *)
(* fields of call' from these alone.                                       *)
(***************************************************************************)
Kept ==
  /\ call'.op = call.op /\ call'.button = call.button /\ call'.keys = call.keys
  /\ call'.mods = call.mods /\ call'.points = call.points

(* The guard takes a modifier from todo, or lets one of its own go. *)
LEMMA GuardFrames ==
  ASSUME FrameOK(call)
  PROVE  /\ GuardPress =>
              \E k \in call.todo :
                /\ \/ keysDown' = keysDown \cup {k}
                   \/ MayFail("press") /\ keysDown' = keysDown
                /\ call'.todo = call.todo \ {k}
                /\ call'.guard = call.guard \cup {k}
         /\ GuardRelease =>
              /\ call.pc \in {"pressed", "released", "unguard"}
              /\ \E k \in call.guard :
                   /\ \/ keysDown' = keysDown \ {k}
                      \/ MayFail("release") /\ keysDown' = keysDown
                   /\ call'.todo = call.todo
                   /\ call'.guard = call.guard \ {k}
         /\ GuardPress \/ GuardRelease =>
              /\ FrameOK(call)' /\ Kept
              /\ call'.pc = call.pc /\ call'.at = call.at
              /\ call'.left = call.left
              /\ call.pc \notin {"idle", "gone"}
<1>0. call \in Calls
  BY DEF FrameOK
<1>1. ASSUME NEW k \in call.todo,
             call' = [call EXCEPT !.todo = @ \ {k}, !.guard = @ \cup {k}]
      PROVE  /\ FrameOK(call)' /\ Kept
             /\ call'.pc = call.pc /\ call'.at = call.at
             /\ call'.left = call.left
             /\ call'.todo = call.todo \ {k} /\ call'.guard = call.guard \cup {k}
             /\ call.pc \notin {"idle", "gone"}
  <2>1. /\ call.todo \ {k} \in SUBSET ModifierKeys
        /\ call.guard \cup {k} \in SUBSET ModifierKeys
    BY <1>0 DEF Calls
  <2>2. /\ call' \in Calls /\ Kept
        /\ call'.pc = call.pc /\ call'.at = call.at /\ call'.left = call.left
        /\ call'.todo = call.todo \ {k} /\ call'.guard = call.guard \cup {k}
        /\ call'.text = call.text
    BY <1>0, <1>1, <2>1 DEF Calls, Kept
  <2>3. call.pc \notin {"idle", "gone"}
    BY <1>0, NoCallFields DEF FrameOK, Calls
  <2>4. FrameOK(call)'
    BY <2>2, <2>3 DEF FrameOK, Kept
  <2>5. QED
    BY <2>2, <2>3, <2>4
<1>2. ASSUME NEW k \in call.guard, call.pc \in {"pressed", "released", "unguard"},
             call' = [call EXCEPT !.guard = @ \ {k}]
      PROVE  /\ FrameOK(call)' /\ Kept
             /\ call'.pc = call.pc /\ call'.at = call.at
             /\ call'.left = call.left
             /\ call'.todo = call.todo /\ call'.guard = call.guard \ {k}
  <2>1. /\ call' \in Calls /\ Kept
        /\ call'.pc = call.pc /\ call'.at = call.at /\ call'.left = call.left
        /\ call'.todo = call.todo /\ call'.guard = call.guard \ {k}
    BY <1>0, <1>2 DEF Calls, Kept
  <2>2. FrameOK(call)'
    BY <1>2, <2>1 DEF FrameOK, Kept
  <2>3. QED
    BY <2>1, <2>2
<1>3. GuardPress =>
        \E k \in call.todo :
          /\ \/ keysDown' = keysDown \cup {k}
             \/ MayFail("press") /\ keysDown' = keysDown
          /\ call' = [call EXCEPT !.todo = @ \ {k}, !.guard = @ \cup {k}]
  BY DEF GuardPress
<1>4. GuardRelease =>
        /\ call.pc \in {"pressed", "released", "unguard"}
        /\ \E k \in call.guard :
             /\ \/ keysDown' = keysDown \ {k}
                \/ MayFail("release") /\ keysDown' = keysDown
             /\ call' = [call EXCEPT !.guard = @ \ {k}]
  BY DEF GuardRelease
<1>5. QED
  BY <1>1, <1>2, <1>3, <1>4

(***************************************************************************)
(* A pointer's event moves the call on with its modifiers still down; once *)
(* press() or release() has returned, the modifiers are to be pressed      *)
(* again for what follows.                                                 *)
(***************************************************************************)
LEMMA PointerFrames ==
  ASSUME FrameOK(call), PointsInv
  PROVE  /\ PressButton \/ ReleaseButton \/ TurnWheel =>
              /\ FrameOK(call)' /\ PointsInv' /\ Kept
              /\ call.todo = {} /\ call'.todo = {} /\ call'.guard = call.guard
         /\ PressButton =>
              /\ call.pc = "press" /\ call.op \in Pressers
              /\ \/ /\ buttonsDown' = buttonsDown \cup {call.button}
                    /\ call'.pc = "pressed"
                 \/ /\ MayFail("press") /\ buttonsDown' = buttonsDown
                    /\ call'.pc = "unguard"
         /\ ReleaseButton =>
              /\ call.pc = "release" /\ call.op \in Pressers \cup {"button_up"}
              /\ \/ /\ buttonsDown' = buttonsDown \ {call.button}
                    /\ call'.pc = "released"
                 \/ /\ MayFail("release") /\ buttonsDown' = buttonsDown
                    /\ call'.pc \in {"released", "unguard"}
         /\ TurnWheel =>
              /\ call.pc = "press" /\ call.op = "scroll"
              /\ call'.pc \in {"press", "unguard"}
<1>0. call \in Calls /\ {"pressed", "released", "unguard"} \subseteq CallPoints
  BY DEF FrameOK, CallPoints
<1>1. ASSUME NEW pc \in {"pressed", "released", "unguard"}, Goto(pc),
             call.todo = {}, call.pc \in {"press", "release"},
             pc # "unguard" => call.op \in Pressers \cup {"button_up"}
      PROVE  /\ FrameOK(call)' /\ PointsInv' /\ Kept /\ call'.pc = pc
             /\ call'.todo = {} /\ call'.guard = call.guard
  <2>1. pc \in CallPoints \ {"idle", "gone", "return_up"}
    BY <1>0
  <2>2. call.left > 0
    BY <1>1 DEF FrameOK
  <2>3. QED
    BY <1>1, <2>1, <2>2, GotoFrameOK DEF PointsInv, Kept
<1>2. ASSUME call.op = "scroll", call.pc = "press", call.todo = {},
             call' = [call EXCEPT !.left = @ - 1,
                             !.pc = IF call.left > 1 THEN @ ELSE "unguard"]
      PROVE  /\ FrameOK(call)' /\ PointsInv' /\ Kept
             /\ call'.pc \in {"press", "unguard"}
             /\ call'.todo = {} /\ call'.guard = call.guard
  <2>1. call.left \in Nat /\ call.left > 0 /\ call.left - 1 \in Nat
    BY <1>0, <1>2 DEF FrameOK, Calls
  <2>2. /\ call' \in Calls /\ Kept /\ call'.at = call.at
        /\ call'.left = call.left - 1
        /\ call'.pc = IF call.left > 1 THEN "press" ELSE "unguard"
        /\ call'.todo = {} /\ call'.guard = call.guard
    BY <1>0, <1>2, <2>1 DEF Calls, Kept
  <2>3. FrameOK(call)'
    BY <1>2, <2>1, <2>2, OnwardFrameOK DEF Kept, FrameOK
  <2>4. QED
    BY <1>2, <2>2, <2>3 DEF PointsInv, Kept
<1>3. CASE PressButton
  BY <1>1, <1>3 DEF PressButton, At, ReleaseButton, TurnWheel, Pressers
<1>4. CASE ReleaseButton
  BY <1>1, <1>4 DEF PressButton, At, ReleaseButton, TurnWheel, Pressers
<1>5. CASE TurnWheel
  BY <1>1, <1>2, <1>5 DEF PressButton, At, ReleaseButton, TurnWheel, Pressers
<1>6. QED
  BY <1>3, <1>4, <1>5

LEMMA ReturnFrames ==
  ASSUME FrameOK(call), PointsInv
  PROVE  /\ Pressed \/ Released \/ Leave =>
              FrameOK(call)' /\ PointsInv' /\ call.guard = {}
         /\ Pressed =>
              /\ call.pc = "pressed" /\ call.op \in Pressers \cup {"button_up"}
              /\ call.op = "button_down" => call' = NoCall
              /\ call.op # "button_down" =>
                   /\ Kept /\ call'.pc = "release"
                   /\ call'.todo = call.mods /\ call'.guard = {}
         /\ Released =>
              /\ call.pc = "released" /\ call.op \in Pressers \cup {"button_up"}
              /\ \/ call' = NoCall
                 \/ /\ Kept /\ call'.pc = "press"
                    /\ call'.todo = call.mods /\ call'.guard = {}
         /\ Leave => call.pc = "unguard" /\ call' = NoCall
<1>0. call \in Calls /\ {"press", "release"} \subseteq CallPoints
  BY DEF FrameOK, CallPoints
<1>1. ASSUME NEW pc \in {"press", "release"}, NEW left \in Nat \ {0},
             call' = [call EXCEPT !.pc = pc, !.left = left, !.todo = call.mods],
             call.guard = {}, call.op \in Pressers \cup {"button_up"}
      PROVE  /\ FrameOK(call)' /\ PointsInv' /\ Kept /\ call'.pc = pc
             /\ call'.todo = call.mods /\ call'.guard = {}
  <2>1. /\ call' \in Calls /\ Kept /\ call'.pc = pc /\ call'.at = call.at
        /\ call'.left = left
        /\ call'.todo = call.mods /\ call'.guard = {}
    BY <1>0, <1>1 DEF Calls, Kept
  <2>2. call.op \notin {"none", "type_text", "inject", "tap_chord"}
    BY <1>1 DEF Pressers
  <2>3. FrameOK(call)'
    BY <2>1, <2>2, OnwardFrameOK DEF Kept, FrameOK
  <2>4. QED
    BY <2>1, <2>2, <2>3 DEF PointsInv, Kept
<1>2. CASE Pressed
  <2>1. call.left \in Nat \ {0} /\ call.op \in Pressers \cup {"button_up"}
        /\ call.guard = {} /\ call.pc = "pressed"
    BY <1>0, <1>2 DEF Pressed, PointsInv, Calls
  <2>2. CASE call.op = "button_down"
    BY <1>2, <2>1, <2>2, NoCallFrameOK DEF Pressed, Released, Leave
  <2>3. CASE call.op # "button_down"
    <3>1. call' = [call EXCEPT !.pc = "release", !.left = call.left,
                               !.todo = call.mods]
      BY <1>0, <1>2, <2>3 DEF Pressed, Calls
    <3>2. QED
      BY <1>1, <2>1, <2>3, <3>1 DEF Released, Leave
  <2>4. QED
    BY <2>2, <2>3
<1>3. CASE Released
  <2>1. call.left \in Nat \ {0} /\ call.op \in Pressers \cup {"button_up"}
        /\ call.guard = {} /\ call.pc = "released"
    BY <1>0, <1>3 DEF Released, PointsInv, Calls
  <2>2. CASE call.left > 1
    <3>1. call.left - 1 \in Nat \ {0}
      BY <2>1, <2>2
    <3>2. call' = [call EXCEPT !.pc = "press", !.left = call.left - 1,
                               !.todo = call.mods]
      BY <1>0, <1>3, <2>2 DEF Released, Calls
    <3>3. QED
      BY <1>1, <2>1, <3>1, <3>2 DEF Pressed, Leave
  <2>3. CASE ~(call.left > 1)
    BY <1>3, <2>1, <2>3, NoCallFrameOK DEF Pressed, Released, Leave
  <2>4. QED
    BY <2>2, <2>3
<1>4. CASE Leave
  BY <1>4, NoCallFrameOK DEF Pressed, Released, Leave
<1>5. QED
  BY <1>2, <1>3, <1>4


(***************************************************************************)
(* A chord's event is about the key at its position, which moves on within *)
(* the chord; an event that is refused makes for the end of the call.      *)
(***************************************************************************)
LEMMA TapFrames ==
  ASSUME FrameOK(call), PointsInv
  PROVE  /\ TapDown \/ TapUp =>
              /\ FrameOK(call)' /\ PointsInv' /\ Kept
              /\ call.op = "tap_chord" /\ Current \in Keys
              /\ call.todo = {} /\ call'.guard = call.guard
              /\ call'.pc \in {"key", "key_up", "unguard"}
         /\ TapDown =>
              /\ call.pc = "key"
              /\ \/ /\ PressKey(Current)
                    /\ call'.pc = "key_up" /\ call'.at = call.at
                 \/ NoEvent /\ call'.pc = "unguard"
         /\ TapUp =>
              /\ call.pc = "key_up"
              /\ \/ ReleaseKey(Current) /\ call'.pc \in {"key", "unguard"}
                 \/ /\ MayFail("release")
                    /\ NoEvent /\ call'.pc = "unguard"
<1>0. call \in Calls /\ {"key", "key_up", "unguard"} \subseteq CallPoints
  BY DEF FrameOK, CallPoints
<1>1. CASE TapDown \/ TapUp
  <2>1. /\ call.op = "tap_chord" /\ call.pc \in {"key", "key_up"}
        /\ call.todo = {} /\ call.at \in Nat \ {0} /\ call.left \in Nat
        /\ call.at <= Len(call.keys) /\ call.keys \in Seq(Keys)
    BY <1>0, <1>1 DEF TapDown, TapUp, At, FrameOK, Calls
  <2>2. Current \in Keys
    BY <2>1 DEF Current
  <2>3. ASSUME NEW pc \in {"key_up", "unguard"}, Goto(pc),
               pc = "key_up" => Sent(Current)
        PROVE  /\ FrameOK(call)' /\ PointsInv' /\ Kept /\ call'.pc = pc
               /\ call'.at = call.at /\ call'.guard = call.guard
    <3>1. pc \in CallPoints \ {"idle", "gone", "return_up"}
      BY <1>0
    <3>2. QED
      BY <2>3, <3>1, GotoFrameOK DEF PointsInv, Kept, Current, Sent
  <2>4. ASSUME NEW pc \in {"key", "unguard"}, NEW at \in 1 .. Len(call.keys),
               NEW left \in Nat,
               \/ call' = [call EXCEPT !.pc = pc, !.at = at]
               \/ call' = [call EXCEPT !.pc = pc, !.at = at, !.left = left]
        PROVE  /\ FrameOK(call)' /\ PointsInv' /\ Kept /\ call'.pc = pc
               /\ call'.guard = call.guard
    <3>1. at \in Nat \ {0}
      OBVIOUS
    <3>2. /\ call' \in Calls /\ Kept /\ call'.pc = pc /\ call'.at = at
          /\ call'.guard = call.guard
      <4>1. CASE call' = [call EXCEPT !.pc = pc, !.at = at]
        BY <1>0, <3>1, <4>1 DEF Calls, Kept
      <4>2. CASE call' = [call EXCEPT !.pc = pc, !.at = at, !.left = left]
        BY <1>0, <3>1, <4>2 DEF Calls, Kept
      <4>3. QED
        BY <2>4, <4>1, <4>2
    <3>3. FrameOK(call)'
      BY <2>1, <3>2, OnwardFrameOK DEF Kept
    <3>4. QED
      BY <3>2, <3>3 DEF PointsInv, Kept
  <2>5. CASE TapDown
    <3>1. CASE Sent(Current) /\ PressKey(Current) /\ Goto("key_up")
      BY <2>1, <2>2, <2>3, <2>5, <3>1 DEF TapDown, TapUp, At
    <3>2. CASE NoEvent /\ Goto("unguard")
      BY <2>1, <2>2, <2>3, <2>5, <3>2 DEF TapDown, TapUp, At
    <3>3. QED
      BY <2>5, <3>1, <3>2 DEF TapDown
  <2>6. CASE TapUp
    <3>1. call.pc = "key_up" /\ Sent(Current)
      BY <2>1, <2>6 DEF TapUp, At, PointsInv
    <3>2. CASE Refused("release", Current) /\ NoEvent /\ Goto("unguard")
      BY <2>1, <2>2, <2>3, <2>6, <3>1, <3>2
         DEF TapDown, TapUp, At, Refused, Sent
    <3>3. CASE /\ ReleaseKey(Current)
               /\ call.at < Len(call.keys)
               /\ call' = [call EXCEPT !.pc = "key", !.at = @ + 1]
      <4>1. call' = [call EXCEPT !.pc = "key", !.at = call.at + 1]
            /\ call.at + 1 \in 1 .. Len(call.keys)
        BY <2>1, <3>3
      <4>2. QED
        BY <2>1, <2>2, <2>4, <2>6, <3>1, <3>3, <4>1 DEF TapDown, At
    <3>4. CASE /\ ReleaseKey(Current)
               /\ call.left > 1
               /\ call' = [call EXCEPT !.pc = "key", !.at = 1, !.left = @ - 1]
      <4>1. call' = [call EXCEPT !.pc = "key", !.at = 1, !.left = call.left - 1]
            /\ 1 \in 1 .. Len(call.keys) /\ call.left - 1 \in Nat
        BY <1>0, <2>1, <3>4 DEF Calls
      <4>2. QED
        BY <2>1, <2>2, <2>4, <2>6, <3>1, <3>4, <4>1 DEF TapDown, At
    <3>5. CASE ReleaseKey(Current) /\ call' = [call EXCEPT !.pc = "unguard"]
      BY <2>1, <2>2, <2>3, <2>6, <3>1, <3>5 DEF TapDown, At, Goto
    <3>6. QED
      BY <2>6, <3>2, <3>3, <3>4, <3>5 DEF TapUp
  <2>7. QED
    BY <1>1, <2>5, <2>6
<1>2. QED
  BY <1>1

LEMMA HoldFrames ==
  ASSUME FrameOK(call), PointsInv
  PROVE  /\ HoldDown \/ HoldUp =>
              /\ FrameOK(call)' /\ PointsInv' /\ Kept
              /\ call.op = "hold_chord" /\ call.at \in Nat \ {0}
              /\ call.todo = {} /\ call'.guard = call.guard
              /\ call.pc \in {"key", "key_up"}
         /\ HoldDown =>
              \/ /\ Current \in Keys /\ PressKey(Current)
                 /\ call'.pc = "key" /\ call'.at = call.at + 1
              \/ NoEvent /\ call'.pc = "key_up" /\ call'.at = call.at
         /\ HoldUp =>
              \/ call.at = 1 /\ NoEvent /\ call'.pc = "unguard"
              \/ /\ call.at > 1 /\ call.keys[call.at - 1] \in Keys
                 /\ \/ ReleaseKey(call.keys[call.at - 1])
                    \/ MayFail("release") /\ NoEvent
                 /\ call'.pc = "key_up" /\ call'.at = call.at - 1
<1>0. call \in Calls /\ {"key", "key_up", "unguard"} \subseteq CallPoints
  BY DEF FrameOK, CallPoints
<1>1. CASE HoldDown \/ HoldUp
  <2>1. /\ call.op = "hold_chord" /\ call.pc \in {"key", "key_up"}
        /\ call.todo = {} /\ call.at \in Nat \ {0}
        /\ call.at <= Len(call.keys) + 1 /\ call.keys \in Seq(Keys)
    BY <1>0, <1>1 DEF HoldDown, HoldUp, At, FrameOK, Calls
  <2>2. ASSUME NEW pc \in {"key_up", "unguard"}, Goto(pc)
        PROVE  /\ FrameOK(call)' /\ PointsInv' /\ Kept /\ call'.pc = pc
               /\ call'.at = call.at /\ call'.guard = call.guard
    <3>1. pc \in CallPoints \ {"idle", "gone", "return_up"}
      BY <1>0
    <3>2. QED
      BY <2>1, <2>2, <3>1, GotoFrameOK DEF PointsInv, Kept
  <2>3. ASSUME NEW at \in 1 .. Len(call.keys) + 1,
               call' = [call EXCEPT !.at = at]
        PROVE  /\ FrameOK(call)' /\ PointsInv' /\ Kept /\ call'.pc = call.pc
               /\ call'.at = at /\ call'.guard = call.guard
    <3>1. at \in Nat \ {0}
      BY <2>1
    <3>2. /\ call' \in Calls /\ Kept /\ call'.pc = call.pc /\ call'.at = at
          /\ call'.guard = call.guard
      BY <1>0, <2>3, <3>1 DEF Calls, Kept
    <3>3. FrameOK(call)'
      BY <2>1, <3>2, OnwardFrameOK DEF Kept
    <3>4. QED
      BY <2>1, <3>2, <3>3 DEF PointsInv, Kept
  <2>4. CASE HoldDown
    <3>1. call.pc = "key" /\ ~HoldUp
      BY <2>4 DEF HoldDown, HoldUp, At
    <3>2. CASE NoEvent /\ Goto("key_up")
      BY <2>1, <2>2, <2>4, <3>1, <3>2
    <3>3. CASE /\ ~(call.at > Len(call.keys))
               /\ PressKey(Current)
               /\ call' = [call EXCEPT !.at = @ + 1]
      <4>1. Current \in Keys /\ call.at + 1 \in 1 .. Len(call.keys) + 1
        BY <2>1, <3>3 DEF Current
      <4>2. call' = [call EXCEPT !.at = call.at + 1]
        BY <3>3
      <4>3. QED
        BY <2>1, <2>3, <3>1, <3>3, <4>1, <4>2
    <3>4. QED
      BY <2>4, <3>2, <3>3 DEF HoldDown
  <2>5. CASE HoldUp
    <3>1. call.pc = "key_up" /\ ~HoldDown
      BY <2>5 DEF HoldDown, HoldUp, At
    <3>2. CASE call.at = 1
      BY <2>1, <2>2, <2>5, <3>1, <3>2 DEF HoldUp
    <3>3. CASE call.at # 1
      <4>1. /\ call.at > 1 /\ call.keys[call.at - 1] \in Keys
            /\ call.at - 1 \in 1 .. Len(call.keys) + 1
        BY <2>1, <3>3
      <4>2. call' = [call EXCEPT !.at = call.at - 1]
            /\ \/ ReleaseKey(call.keys[call.at - 1])
               \/ MayFail("release") /\ NoEvent
        BY <2>5, <3>3 DEF HoldUp
      <4>3. QED
        BY <2>1, <2>3, <3>1, <4>1, <4>2
    <3>4. QED
      BY <3>2, <3>3
  <2>6. QED
    BY <1>1, <2>4, <2>5
<1>2. QED
  BY <1>1

(* A frame of contacts: the first one, those that follow, and the lift. *)
LEMMA TouchFrames ==
  ASSUME FrameOK(call), PointsInv
  PROVE  /\ TouchBegin \/ TouchMove \/ TouchLift =>
              /\ FrameOK(call)' /\ PointsInv'
              /\ call.op = "inject" /\ call.guard = {}
              /\ call.points \subseteq 0 .. Slots - 1
              /\ call.fingers \in 0 .. Slots
         /\ TouchBegin =>
              /\ call.pc = "touch_begin"
              /\ \/ /\ touching' = touching \cup call.points
                    /\ call'.pc = "touch_move" /\ Kept /\ call'.guard = {}
                 \/ touching' = touching /\ call' = NoCall
         /\ TouchMove =>
              /\ call.pc = "touch_move" /\ NoEvent /\ Kept /\ call'.guard = {}
              /\ call'.pc \in {"touch_move", "touch_lift"}
         /\ TouchLift =>
              /\ call.pc = "touch_lift" /\ call' = NoCall
              /\ \/ touching' = touching \ call.points
                 \/ MayFail("lift") /\ touching' = touching
<1>0. call \in Calls /\ {"touch_move", "touch_lift"} \subseteq CallPoints
  BY DEF FrameOK, CallPoints
<1>1. ASSUME call.op = "inject"
      PROVE  /\ call.guard = {} /\ call.todo = {}
             /\ call.points \subseteq 0 .. Slots - 1
             /\ call.fingers \in 0 .. Slots
  BY <1>0, <1>1 DEF FrameOK, Calls
<1>2. ASSUME NEW pc \in {"touch_move", "touch_lift"}, Goto(pc),
             call.op = "inject", call.pc \in {"touch_begin", "touch_move"}
      PROVE  FrameOK(call)' /\ PointsInv' /\ Kept /\ call'.pc = pc
             /\ call'.guard = {}
  <2>1. pc \in CallPoints \ {"idle", "gone", "return_up"} /\ call.left > 0
    BY <1>0, <1>2 DEF FrameOK
  <2>2. QED
    BY <1>1, <1>2, <2>1, GotoFrameOK DEF PointsInv, Kept
<1>3. ASSUME call.op = "inject", call.pc = "touch_move",
             call' = [call EXCEPT !.left = @ - 1,
                             !.pc = IF call.left > 1 THEN @ ELSE "touch_lift"]
      PROVE  FrameOK(call)' /\ PointsInv' /\ Kept /\ call'.guard = {}
             /\ call'.pc \in {"touch_move", "touch_lift"}
  <2>1. call.left \in Nat /\ call.left > 0 /\ call.left - 1 \in Nat
    BY <1>0, <1>3 DEF FrameOK, Calls
  <2>2. /\ call' \in Calls /\ Kept /\ call'.at = call.at
        /\ call'.left = call.left - 1
        /\ call'.pc = IF call.left > 1 THEN "touch_move" ELSE "touch_lift"
        /\ call'.todo = call.todo /\ call'.guard = call.guard
    BY <1>0, <1>3, <2>1 DEF Calls, Kept
  <2>3. FrameOK(call)'
    BY <1>1, <1>3, <2>1, <2>2, OnwardFrameOK DEF Kept, FrameOK
  <2>4. QED
    BY <1>1, <1>3, <2>2, <2>3 DEF PointsInv, Kept
<1>4. CASE TouchBegin
  BY <1>1, <1>2, <1>4, NoCallFrameOK DEF TouchBegin, TouchMove, TouchLift, At
<1>5. CASE TouchMove
  BY <1>1, <1>2, <1>3, <1>5 DEF TouchBegin, TouchMove, TouchLift, At
<1>6. CASE TouchLift
  BY <1>1, <1>6, NoCallFrameOK DEF TouchBegin, TouchMove, TouchLift, At
<1>7. QED
  BY <1>4, <1>5, <1>6

-----------------------------------------------------------------------------
(* Every step of a call keeps the types. *)
LEMMA StepTypeOK == TypeOK /\ PointsInv /\ TakeStep => TypeOK' /\ PointsInv'
<1> SUFFICES ASSUME TypeOK, PointsInv, TakeStep
             PROVE  TypeOK' /\ PointsInv'
  OBVIOUS
<1>0. FrameOK(call) /\ call \in Calls
  BY DEF TypeOK, CallTypeOK, FrameOK
<1>1. CASE GuardPress \/ GuardRelease
  <2>1. FrameOK(call)' /\ Kept /\ call'.pc = call.pc /\ call'.at = call.at
        /\ call'.left = call.left
    BY <1>0, <1>1, GuardFrames
  <2>2. PointsInv'
    BY <2>1 DEF PointsInv, Kept, Current
  <2>3. call.todo \cup call.guard \subseteq Keys
    BY <1>0, KeysAssumption DEF Calls
  <2>4. keysDown' \subseteq Keys \cup {"packet"}
    BY <1>0, <1>1, <2>3, GuardFrames DEF TypeOK
  <2>5. QED
    BY <1>1, <2>1, <2>2, <2>4
       DEF GuardPress, GuardRelease, Step, TypeOK, CallTypeOK, LedgersTypeOK,
           ledgers
<1>2. CASE PressButton \/ ReleaseButton \/ TurnWheel
  <2>1. FrameOK(call)' /\ PointsInv'
    BY <1>0, <1>2, PointerFrames
  <2>2. buttonsDown' \subseteq Buttons
    <3>1. call.op \in Pressers \cup {"button_up"} => call.button \in Buttons
      BY <1>0 DEF FrameOK, Pressers
    <3>2. QED
      BY <1>0, <1>2, <3>1, PointerFrames
         DEF TypeOK, TurnWheel, NoEvent, desktop
  <2>3. QED
    BY <1>2, <2>1, <2>2
       DEF PressButton, ReleaseButton, TurnWheel, NoEvent, Pointer, Step,
           TypeOK, CallTypeOK, LedgersTypeOK, desktop, ledgers
<1>3. CASE Pressed \/ Released \/ Leave
  <2>1. FrameOK(call)' /\ PointsInv'
    BY <1>0, <1>3, ReturnFrames
  <2>2. Pressed => call.button \in Buttons
    BY <1>0, ReturnFrames DEF FrameOK, Pressers
  <2>3. QED
    BY <1>3, <2>1, <2>2
       DEF Pressed, Released, Leave, NoEvent, Pointer, Step,
           TypeOK, CallTypeOK, LedgersTypeOK, desktop, ledgers
<1>4. CASE TapDown \/ TapUp
  <2>1. FrameOK(call)' /\ PointsInv' /\ Current \in Keys
    BY <1>0, <1>4, TapFrames
  <2>2. PressKey(Current) \/ ReleaseKey(Current) \/ NoEvent
    BY <1>0, <1>4, TapFrames
  <2>3. QED
    BY <1>4, <2>1, <2>2, KeyEventTypeOK
       DEF TapDown, TapUp, Step, TypeOK, CallTypeOK, LedgersTypeOK
<1>5. CASE HoldDown \/ HoldUp
  <2>1. FrameOK(call)' /\ PointsInv'
    BY <1>0, <1>5, HoldFrames
  <2>2. \E k \in Keys : PressKey(k) \/ ReleaseKey(k) \/ NoEvent
    BY <1>0, <1>5, HoldFrames, KeysAssumption
  <2>3. QED
    BY <1>5, <2>1, <2>2, KeyEventTypeOK
       DEF HoldDown, HoldUp, Step, TypeOK, CallTypeOK, LedgersTypeOK
<1>6. CASE TouchBegin \/ TouchMove \/ TouchLift
  <2>1. /\ FrameOK(call)' /\ PointsInv'
        /\ call.points \subseteq 0 .. Slots - 1 /\ call.fingers \in 0 .. Slots
    BY <1>0, <1>6, TouchFrames
  <2>2. QED
    BY <1>6, <2>1
       DEF TouchBegin, TouchMove, TouchLift, NoEvent, Contacts, Step, Slots,
           TypeOK, CallTypeOK, LedgersTypeOK, desktop, ledgers
<1>7. QED
  BY <1>1, <1>2, <1>3, <1>4, <1>5, <1>6 DEF TakeStep

(* A call is only ever where PointsInv says, and the types hold. *)
LEMMA TypesAndPoints == Spec => [](TypeOK /\ PointsInv)
<1>1. Init => TypeOK /\ PointsInv
  <2> SUFFICES ASSUME Init PROVE TypeOK /\ PointsInv
    OBVIOUS
  <2>1. FrameOK(call) /\ PointsInv
    BY NoCallFields, KeysAssumption DEF Init, InputInit, FrameOK, PointsInv
  <2>2. QED
    BY <2>1 DEF Init, InputInit, TypeOK, CallTypeOK, LedgersTypeOK, Slots
<1>2. TypeOK /\ PointsInv /\ [Next]_vars => TypeOK' /\ PointsInv'
  <2> SUFFICES ASSUME TypeOK, PointsInv, [Next]_vars
               PROVE  TypeOK' /\ PointsInv'
    OBVIOUS
  <2>1. CASE UNCHANGED vars
    BY <2>1 DEF vars, TypeOK, CallTypeOK, LedgersTypeOK, desktop, ledgers,
                PointsInv, Current
  <2>2. QED
    BY <2>1, StartTypeOK, StepTypeOK DEF Next
<1>3. QED
  BY <1>1, <1>2, PTL DEF Spec

(* The backend's type invariant holds of every behaviour. *)
THEOREM TypeCorrect == Spec => []TypeOK
BY TypesAndPoints, PTL


-----------------------------------------------------------------------------
(* What the invariant says between calls. *)
LEMMA RestingHolds ==
  ASSUME TypeOK, Inv, Resting
  PROVE  /\ call = NoCall
         /\ Delivered({"release", "last", "batch"}) => keysDown \subseteq heldKeys
         /\ Delivered({"release"}) => heldKeys \subseteq asked
         /\ Delivered({"release", "last"}) => buttonsDown \subseteq heldButtons
         /\ Delivered({"release"}) => heldButtons \subseteq asked
         /\ Delivered({"lift"}) => touching = {}
         /\ Delivered({"batch", "last"})
              => keysDown \ ModifierKeys \subseteq heldKeys
<1>1. call = NoCall
  BY DEF TypeOK, CallTypeOK, FrameOK, Resting
<1>2. Pressing = {} /\ InHand = {}
  BY <1>1, NoCallFields DEF Pressing, InHand
<1>3. QED
  BY <1>1, <1>2, NoCallFields
     DEF Inv, KeysInv, ButtonsInv, TouchInv, ChordKeysAreInTheLedger

(***************************************************************************)
(* A call that has just started holds nothing, nor does one that is over.  *)
(* All that is left to show of such a step is what it does to the ledgers. *)
(***************************************************************************)
LEMMA EmptyHandsHold ==
  ASSUME call'.guard = {}, call'.pc # "gone", UNCHANGED faults,
         call'.pc \in {"press", "release"} => call'.mods \subseteq call'.todo,
         call'.pc = "release" => call'.op = "button_up",
         call'.pc \notin {"pressed", "released", "touch_move", "touch_lift",
                          "key_up"},
         call'.pc = "key" => call'.at = 1,
         Delivered({"release", "last", "batch"}) => keysDown' \subseteq heldKeys',
         Delivered({"release"}) => heldKeys' \subseteq asked',
         Delivered({"release", "last"}) => buttonsDown' \subseteq heldButtons',
         Delivered({"release"}) => heldButtons' \subseteq asked',
         Delivered({"lift"}) => touching' = {},
         Delivered({"batch", "last"})
           => keysDown' \ ModifierKeys \subseteq heldKeys'
  PROVE  Inv'
<1>1. Pressing' = {} /\ InHand' = {}
  <2>1. 1 .. 1 - 1 = {}
    OBVIOUS
  <2>2. QED
    BY <2>1 DEF Pressing, InHand
<1>2. KeysInv' /\ ButtonsInv' /\ TouchInv'
  BY <1>1 DEF KeysInv, ButtonsInv, TouchInv, Delivered
<1>3. GuardInv' /\ ChordKeysAreInTheLedger' /\ ShutdownLeavesNothingDown'
  BY DEF GuardInv, ChordKeysAreInTheLedger, ShutdownLeavesNothingDown, Gone,
         Delivered
<1>4. QED
  BY <1>2, <1>3 DEF Inv

(* Every call a client can make keeps the account. *)
LEMMA StartInv == TypeOK /\ Inv /\ StartCall => Inv'
<1> SUFFICES ASSUME TypeOK, Inv, StartCall PROVE Inv'
  OBVIOUS
<1>1. ASSUME NEW c, StartsWell(c), Begin(c) PROVE Inv'
  <2>1. Resting /\ call' = c /\ Fresh(call)'
    BY <1>1 DEF StartsWell, Begin, Start, Fresh
  <2>2. UNCHANGED <<keysDown, buttonsDown, touching, heldKeys, heldButtons,
                    asked, faults>>
    BY <1>1 DEF Begin, Start, desktop, ledgers
  <2>3. QED
    BY <2>1, <2>2, RestingHolds, EmptyHandsHold DEF Fresh
<1>2. ASSUME NEW k \in Keys, KeyDown(k) \/ KeyUp(k) PROVE Inv'
  <2>1. Resting /\ call' = call /\ faults' = faults
        /\ UNCHANGED <<buttonsDown, touching, heldButtons>>
    BY <1>2 DEF KeyDown, KeyUp, PressKey, ReleaseKey
  <2>2. heldButtons \subseteq asked => heldButtons \subseteq asked'
    BY <1>2, KeysAssumption DEF KeyDown, KeyUp, TypeOK, LedgersTypeOK
  <2>3. call' = NoCall
    BY <2>1, RestingHolds
  <2>4. QED
    BY <1>2, <2>1, <2>2, <2>3, RestingHolds, NoCallFields, EmptyHandsHold
       DEF KeyDown, KeyUp, PressKey, ReleaseKey
<1>3. ASSUME NEW text \in Texts, NEW enter \in BOOLEAN, TypeText(text, enter)
      PROVE  Inv'
  <2>1. Delivered({"release", "last", "batch"}) \/ Delivered({"batch", "last"})
          => keysDown' \subseteq keysDown
    BY <1>3, TypingLeaves DEF Delivered, MayFail
  <2>2. call'.guard = {} /\ call'.pc \in {"idle", "key"}
        /\ (call'.pc = "key" => call'.at = 1)
    BY <1>3, TypingLeaves, NoCallFields
  <2>3. Resting /\ UNCHANGED <<buttonsDown, touching, heldKeys, heldButtons,
                               asked, faults>>
    BY <1>3, TypingLeaves
  <2>4. QED
    BY <2>1, <2>2, <2>3, RestingHolds, EmptyHandsHold
<1>4. CASE ReleaseAll \/ Shutdown
  <2>1. Resting /\ LetGoOfLedger /\ faults' = faults
    BY <1>4 DEF ReleaseAll, Shutdown, LetGoOfLedger
  <2>2. /\ heldKeys' = {} /\ heldButtons' = {}
        /\ keysDown' \subseteq keysDown /\ touching' \subseteq touching
        /\ ~MayFail("last") => /\ keysDown' = keysDown \ heldKeys
                               /\ buttonsDown' = buttonsDown \ heldButtons
    BY <2>1 DEF LetGoOfLedger, Lost
  <2>3. /\ Delivered({"release", "last", "batch"}) => keysDown' = {}
        /\ Delivered({"release", "last"}) => buttonsDown' = {}
        /\ Delivered({"lift"}) => touching' = {}
        /\ Delivered({"batch", "last"}) => keysDown' \ ModifierKeys = {}
    BY <2>1, <2>2, RestingHolds DEF Delivered, MayFail
  <2>4. CASE ReleaseAll
    <3>1. call' = NoCall
      BY <2>1, <2>4, RestingHolds DEF ReleaseAll
    <3>2. QED
      BY <2>1, <2>2, <2>3, <3>1, NoCallFields, EmptyHandsHold
  <2>5. CASE Shutdown
    <3>1. call'.pc = "gone" /\ call'.op = "none" /\ call'.guard = {}
      BY <2>1, <2>5, RestingHolds, NoCallFields DEF Shutdown, Goto, Calls
    <3>2. Pressing' = {} /\ InHand' = {}
      BY <3>1 DEF Pressing, InHand
    <3>3. QED
      BY <2>1, <2>2, <2>3, <3>1, <3>2
         DEF Inv, KeysInv, ButtonsInv, TouchInv, GuardInv,
             ChordKeysAreInTheLedger, ShutdownLeavesNothingDown, Delivered
  <2>6. QED
    BY <1>4, <2>4, <2>5
<1>5. QED
  BY <1>1, <1>2, <1>3, <1>4, CallsStartWell


-----------------------------------------------------------------------------
(***************************************************************************)
(* Steps.  One lemma for each part of the account, and one that says which *)
(* steps leave alone what the part speaks of.                              *)
(***************************************************************************)
PointerStep ==
  \/ PressButton \/ ReleaseButton \/ TurnWheel
  \/ Pressed \/ Released \/ Leave
ChordStep == TapDown \/ TapUp \/ HoldDown \/ HoldUp
TouchStep == TouchBegin \/ TouchMove \/ TouchLift

LEMMA StepIsQuiet ==
  ASSUME TakeStep
  PROVE  /\ UNCHANGED <<faults, touchReady>>
         /\ GuardPress \/ GuardRelease =>
              UNCHANGED <<buttonsDown, touching, heldKeys, heldButtons, asked>>
         /\ PointerStep => UNCHANGED <<keysDown, touching, heldKeys>>
         /\ ChordStep => UNCHANGED <<buttonsDown, touching, heldButtons, asked>>
         /\ TouchStep =>
              UNCHANGED <<keysDown, buttonsDown, heldKeys, heldButtons, asked>>
<1>1. PointerStep =>
        UNCHANGED <<faults, touchReady, keysDown, touching, heldKeys>>
  BY DEF PointerStep, PressButton, ReleaseButton, TurnWheel, Pressed,
         Released, Leave, Pointer, NoEvent, Step, desktop, ledgers
<1>2. ChordStep =>
        UNCHANGED <<faults, touchReady, buttonsDown, touching, heldButtons, asked>>
  BY DEF ChordStep, TapDown, TapUp, HoldDown, HoldUp, PressKey, ReleaseKey,
         NoEvent, Step, desktop, ledgers
<1>3. TouchStep =>
        UNCHANGED <<faults, touchReady, keysDown, buttonsDown, heldKeys,
                    heldButtons, asked>>
  BY DEF TouchStep, TouchBegin, TouchMove, TouchLift, Contacts, NoEvent, Step,
         desktop, ledgers
<1>4. GuardPress \/ GuardRelease =>
        UNCHANGED <<faults, touchReady, buttonsDown, touching, heldKeys,
                    heldButtons, asked>>
  BY DEF GuardPress, GuardRelease, Step, ledgers
<1>5. QED
  BY <1>1, <1>2, <1>3, <1>4 DEF TakeStep, PointerStep, ChordStep, TouchStep

(***************************************************************************)
(* Keys.  A modifier goes down with the guard and comes up with it, a key  *)
(* of a chord with the ledger; the ledger grows with Pressing and shrinks  *)
(* before it.                                                              *)
(***************************************************************************)
LEMMA StepKeys ==
  TypeOK /\ PointsInv /\ Inv /\ TakeStep => KeysInv' /\ ChordKeysAreInTheLedger'
<1> SUFFICES ASSUME TypeOK, PointsInv, Inv, TakeStep
             PROVE  KeysInv' /\ ChordKeysAreInTheLedger'
  OBVIOUS
<1>0. /\ FrameOK(call) /\ faults' = faults
      /\ heldKeys \subseteq Keys /\ call.button \in Buttons \cup {"wheel"}
      /\ call.todo \cup call.guard \subseteq ModifierKeys
      /\ KeysInv /\ ChordKeysAreInTheLedger
  BY StepIsQuiet DEF TypeOK, CallTypeOK, LedgersTypeOK, FrameOK, Calls, Inv
<1>1. CASE GuardPress \/ GuardRelease
  <2>1. /\ UNCHANGED <<heldKeys, asked>> /\ Kept
        /\ call'.pc = call.pc /\ call'.at = call.at
    BY <1>0, <1>1, StepIsQuiet, GuardFrames
  <2>2. Pressing' = Pressing
    BY <2>1 DEF Pressing, Kept
  <2>3. Delivered({"release", "last", "batch"})
          => keysDown' \subseteq heldKeys \cup call'.guard
    BY <1>0, <1>1, GuardFrames DEF KeysInv, Delivered, MayFail
  <2>4. keysDown' \subseteq keysDown \cup ModifierKeys
    BY <1>0, <1>1, GuardFrames
  <2>5. QED
    BY <1>0, <2>1, <2>2, <2>3, <2>4
       DEF KeysInv, ChordKeysAreInTheLedger, Delivered
<1>2. ASSUME UNCHANGED <<keysDown, heldKeys>>, heldKeys \cap asked \subseteq asked',
             Pressing = {}, call'.guard = call.guard
      PROVE  KeysInv' /\ ChordKeysAreInTheLedger'
  BY <1>0, <1>2 DEF KeysInv, ChordKeysAreInTheLedger, Delivered
<1>3. CASE PointerStep
  <2>1. /\ call'.guard = call.guard
        /\ call.pc \in {"press", "pressed", "release", "released", "unguard"}
    BY <1>0, <1>3, PointerFrames, ReturnFrames, NoCallFields DEF PointerStep
  <2>2. heldKeys \cap asked \subseteq asked'
    BY <1>0, <1>3, KeysAssumption
       DEF PointerStep, PressButton, ReleaseButton, TurnWheel, Pressed,
           Released, Leave, Step
  <2>3. QED
    BY <1>2, <1>3, <2>1, <2>2, StepIsQuiet DEF Pressing
<1>4. CASE TouchStep
  <2>1. call.op = "inject" /\ call.guard = {} /\ call'.guard = {}
    BY <1>0, <1>4, TouchFrames, NoCallFields DEF TouchStep
  <2>2. QED
    BY <1>2, <1>4, <2>1, StepIsQuiet DEF Pressing
<1>5. ASSUME NEW k \in Keys, asked' = asked, call'.guard = call.guard,
             \/ PressKey(k) /\ Pressing \cup {k} \subseteq Pressing'
             \/ ReleaseKey(k) /\ Pressing \subseteq Pressing' \cup {k}
             \/ NoEvent /\ (MayFail("release") \/ Pressing \subseteq Pressing')
      PROVE  KeysInv' /\ ChordKeysAreInTheLedger'
  <2>1. \/ keysDown' = keysDown \cup {k} /\ heldKeys' = heldKeys \cup {k}
        \/ keysDown' = keysDown \ {k} /\ heldKeys' = heldKeys \ {k}
        \/ keysDown' = keysDown /\ heldKeys' = heldKeys
    BY <1>5 DEF PressKey, ReleaseKey, NoEvent, desktop, ledgers
  <2>2. ChordKeysAreInTheLedger'
    BY <1>0, <2>1 DEF ChordKeysAreInTheLedger, Delivered
  <2>3. Delivered({"release", "last", "batch"})
          => keysDown' \subseteq heldKeys' \cup call'.guard
    BY <1>0, <1>5, <2>1 DEF KeysInv
  <2>4. Delivered({"release"}) => heldKeys' \subseteq asked \cup Pressing'
    BY <1>0, <1>5
       DEF KeysInv, Delivered, MayFail, PressKey, ReleaseKey, NoEvent, ledgers
  <2>5. QED
    BY <1>0, <1>5, <2>2, <2>3, <2>4 DEF KeysInv, Delivered
<1>6. CASE TapDown \/ TapUp
  <2>1. /\ Kept /\ call.op = "tap_chord" /\ Current \in Keys
        /\ call'.guard = call.guard /\ asked' = asked
    BY <1>0, <1>6, TapFrames, StepIsQuiet DEF ChordStep
  <2>2. CASE TapDown
    <3>1. Pressing = {}
      BY <1>0, <2>1, <2>2, TapFrames DEF Pressing
    <3>2. PressKey(Current) => Pressing' = {Current} \/ call'.pc = "unguard"
      BY <1>0, <2>1, <2>2, TapFrames DEF Pressing, Kept, Current
    <3>3. QED
      BY <1>0, <1>5, <2>1, <2>2, <3>1, <3>2, TapFrames
         DEF Pressing, Kept, Current
  <2>3. CASE TapUp
    <3>1. Pressing = {Current}
      BY <1>0, <2>1, <2>3, TapFrames DEF Pressing, Current
    <3>2. QED
      BY <1>0, <1>5, <2>1, <2>3, <3>1, TapFrames
  <2>4. QED
    BY <1>6, <2>2, <2>3
<1>7. CASE HoldDown \/ HoldUp
  <2>1. /\ Kept /\ call.op = "hold_chord" /\ call.at \in Nat \ {0}
        /\ call.pc \in {"key", "key_up"}
        /\ call'.guard = call.guard /\ asked' = asked
        /\ Pressing = {call.keys[i] : i \in 1 .. call.at - 1}
    BY <1>0, <1>7, HoldFrames, StepIsQuiet DEF ChordStep, Pressing
  <2>2. call'.pc \in {"key", "key_up"}
          => Pressing' = {call.keys[i] : i \in 1 .. call'.at - 1}
    BY <2>1 DEF Pressing, Kept
  <2>3. CASE NoEvent /\ call'.pc = "key_up" /\ call'.at = call.at
    BY <1>5, <2>1, <2>2, <2>3, KeysAssumption
  <2>4. CASE call.at = 1 /\ NoEvent
    BY <1>5, <2>1, <2>4, KeysAssumption
  <2>5. CASE /\ Current \in Keys /\ PressKey(Current)
             /\ call'.pc = "key" /\ call'.at = call.at + 1
    <3>1. 1 .. call'.at - 1 = (1 .. call.at - 1) \cup {call.at}
      BY <2>1, <2>5
    <3>2. Pressing' = Pressing \cup {Current}
      BY <2>1, <2>2, <2>5, <3>1 DEF Current
    <3>3. QED
      BY <1>5, <2>1, <2>5, <3>2
  <2>6. CASE /\ call.at > 1 /\ call.keys[call.at - 1] \in Keys
             /\ \/ ReleaseKey(call.keys[call.at - 1])
                \/ MayFail("release") /\ NoEvent
             /\ call'.pc = "key_up" /\ call'.at = call.at - 1
    <3>1. 1 .. call.at - 1 = (1 .. call'.at - 1) \cup {call.at - 1}
      BY <2>1, <2>6
    <3>2. Pressing \subseteq Pressing' \cup {call.keys[call.at - 1]}
      BY <2>1, <2>2, <2>6, <3>1
    <3>3. QED
      BY <1>5, <2>1, <2>6, <3>2
  <2>7. QED
    BY <1>0, <1>7, <2>3, <2>4, <2>5, <2>6, HoldFrames
<1>8. QED
  BY <1>1, <1>3, <1>4, <1>6, <1>7 DEF TakeStep, PointerStep, TouchStep


(***************************************************************************)
(* Buttons.  A step of the pointer hands the button from the point of the  *)
(* call to the ledger or lets go of it; no other step is about buttons.    *)
(***************************************************************************)
LEMMA StepButtons == TypeOK /\ PointsInv /\ Inv /\ TakeStep => ButtonsInv'
<1> SUFFICES ASSUME TypeOK, PointsInv, Inv, TakeStep PROVE ButtonsInv'
  OBVIOUS
<1>0. /\ FrameOK(call) /\ faults' = faults /\ ButtonsInv
      /\ heldButtons \subseteq Buttons
  BY StepIsQuiet DEF TypeOK, CallTypeOK, LedgersTypeOK, Inv
<1>1. CASE GuardPress \/ GuardRelease
  <2>1. /\ UNCHANGED <<buttonsDown, heldButtons, asked>> /\ Kept
        /\ call'.pc = call.pc
    BY <1>0, <1>1, StepIsQuiet, GuardFrames
  <2>2. QED
    BY <1>0, <2>1 DEF ButtonsInv, InHand, Kept, Delivered
<1>2. ASSUME UNCHANGED <<buttonsDown, heldButtons, asked>>,
             call.pc \notin {"pressed", "release", "released"},
             call'.pc \notin {"pressed", "release", "released"}
      PROVE  ButtonsInv'
  BY <1>0, <1>2 DEF ButtonsInv, InHand, Delivered
<1>3. CASE ChordStep
  BY <1>0, <1>2, <1>3, StepIsQuiet, TapFrames, HoldFrames DEF ChordStep
<1>4. CASE TouchStep
  BY <1>0, <1>2, <1>4, StepIsQuiet, TouchFrames, NoCallFields DEF TouchStep
<1>5. CASE TurnWheel
  BY <1>0, <1>2, <1>5, PointerFrames
     DEF TurnWheel, NoEvent, Step, desktop, ledgers
<1>6. CASE PressButton
  <2>1. /\ UNCHANGED <<heldButtons, asked>> /\ Kept
        /\ call.pc = "press" /\ call'.pc \in {"pressed", "unguard"}
        /\ \/ buttonsDown' = buttonsDown \cup {call.button}
              /\ call'.pc = "pressed"
           \/ buttonsDown' = buttonsDown
    BY <1>0, <1>6, PointerFrames DEF PressButton, Step
  <2>2. QED
    BY <1>0, <2>1 DEF ButtonsInv, InHand, Kept, Delivered
<1>7. CASE ReleaseButton
  <2>1. /\ UNCHANGED <<heldButtons, asked>> /\ Kept
        /\ call.pc = "release"
        /\ \/ buttonsDown' = buttonsDown \ {call.button}
              /\ call'.pc = "released"
           \/ MayFail("release")
    BY <1>0, <1>7, PointerFrames DEF ReleaseButton, Step
  <2>2. QED
    BY <1>0, <2>1 DEF ButtonsInv, InHand, Kept, Delivered, MayFail
<1>8. CASE Pressed
  <2>1. /\ UNCHANGED buttonsDown
        /\ heldButtons' = IF call.op \in Ledgered
                          THEN heldButtons \cup {call.button} ELSE heldButtons
        /\ asked' = IF call.op = "button_down"
                    THEN asked \cup {call.button} ELSE asked
        /\ call.pc = "pressed" /\ call.op \in Pressers \cup {"button_up"}
    BY <1>0, <1>8, ReturnFrames DEF Pressed
  <2>2. CASE call.op = "button_down"
    BY <1>0, <1>8, <2>1, <2>2, ReturnFrames, NoCallFields
       DEF ButtonsInv, InHand, Ledgered, Pressers, Delivered
  <2>3. CASE call.op # "button_down"
    <3>1. Kept /\ call'.pc = "release"
      BY <1>0, <1>8, <2>3, ReturnFrames
    <3>2. QED
      BY <1>0, <2>1, <2>3, <3>1
         DEF ButtonsInv, InHand, Kept, Ledgered, Pressers, Delivered
  <2>4. QED
    BY <2>2, <2>3
<1>9. CASE Released
  <2>1. /\ UNCHANGED buttonsDown
        /\ heldButtons' = IF call.op = "click"
                          THEN heldButtons ELSE heldButtons \ {call.button}
        /\ asked' = IF call.op = "button_up"
                    THEN asked \ {call.button} ELSE asked
        /\ call.pc = "released" /\ call'.pc \in {"idle", "press"}
    BY <1>0, <1>9, ReturnFrames, NoCallFields DEF Released
  <2>2. Delivered({"release"}) => heldButtons' \subseteq asked'
    BY <1>0, <2>1 DEF ButtonsInv, InHand
  <2>3. Delivered({"release", "last"}) => buttonsDown' \subseteq heldButtons'
    BY <1>0, <2>1 DEF ButtonsInv
  <2>4. QED
    BY <1>0, <2>1, <2>2, <2>3 DEF ButtonsInv, Delivered
<1>10. CASE Leave
  BY <1>0, <1>2, <1>10, ReturnFrames, NoCallFields
     DEF Leave, NoEvent, Step, desktop, ledgers
<1>11. QED
  BY <1>1, <1>3, <1>4, <1>5, <1>6, <1>7, <1>8, <1>9, <1>10
     DEF TakeStep, ChordStep, TouchStep

(* Contacts.  A lift takes all that the first frame has put down. *)
LEMMA StepTouch == TypeOK /\ PointsInv /\ Inv /\ TakeStep => TouchInv' /\ ~Gone'
<1> SUFFICES ASSUME TypeOK, PointsInv, Inv, TakeStep PROVE TouchInv' /\ ~Gone'
  OBVIOUS
<1>0. FrameOK(call) /\ faults' = faults /\ TouchInv
  BY StepIsQuiet DEF TypeOK, CallTypeOK, Inv
<1>1. CASE GuardPress \/ GuardRelease
  <2>1. /\ UNCHANGED touching /\ Kept /\ call'.pc = call.pc
        /\ call.pc # "gone"
    BY <1>0, <1>1, StepIsQuiet, GuardFrames
  <2>2. QED
    BY <1>0, <2>1 DEF TouchInv, Kept, Delivered, Gone
<1>2. ASSUME UNCHANGED touching, call.pc \notin {"touch_move", "touch_lift"},
             call'.pc # "gone"
      PROVE  TouchInv' /\ ~Gone'
  BY <1>0, <1>2 DEF TouchInv, Delivered, Gone
<1>3. CASE PointerStep
  <2>1. call'.pc \in {"pressed", "released", "unguard", "press", "release", "idle"}
        /\ call.pc \in {"pressed", "released", "unguard", "press", "release"}
    BY <1>0, <1>3, PointerFrames, ReturnFrames, NoCallFields DEF PointerStep
  <2>2. QED
    BY <1>2, <1>3, <2>1, StepIsQuiet
<1>4. CASE ChordStep
  BY <1>0, <1>2, <1>4, StepIsQuiet, TapFrames, HoldFrames DEF ChordStep
<1>5. CASE TouchBegin
  BY <1>0, <1>2, <1>5, TouchFrames, NoCallFields
     DEF TouchInv, Kept, Delivered, Gone
<1>6. CASE TouchMove
  BY <1>0, <1>6, TouchFrames
     DEF TouchInv, Kept, Delivered, Gone, NoEvent, desktop
<1>7. CASE TouchLift
  BY <1>0, <1>7, TouchFrames, NoCallFields
     DEF TouchInv, Delivered, MayFail, Gone
<1>8. QED
  BY <1>1, <1>3, <1>4, <1>5, <1>6, <1>7
     DEF TakeStep, PointerStep, ChordStep

(***************************************************************************)
(* Guards.  A modifier leaves todo only for the guard, and the guard does  *)
(* not let go before the event; a call comes back to the point before an   *)
(* event of a button with all its modifiers to press again.                *)
(***************************************************************************)
LEMMA StepGuard == TypeOK /\ PointsInv /\ Inv /\ TakeStep => GuardInv'
<1> SUFFICES ASSUME TypeOK, PointsInv, Inv, TakeStep PROVE GuardInv'
  OBVIOUS
<1>0. FrameOK(call) /\ faults' = faults /\ GuardInv
  BY StepIsQuiet DEF TypeOK, CallTypeOK, Inv
<1>1. CASE GuardPress
  <2>1. Kept /\ call'.pc = call.pc
    BY <1>0, <1>1, GuardFrames
  <2>2. QED
    BY <1>0, <1>1, <2>1, GuardFrames DEF GuardInv, Kept, Delivered, MayFail
<1>2. CASE GuardRelease
  BY <1>0, <1>2, GuardFrames DEF GuardInv
<1>3. CASE PressButton \/ ReleaseButton
  BY <1>0, <1>3, PointerFrames DEF GuardInv
<1>4. CASE TurnWheel
  <2>1. keysDown' = keysDown
    BY <1>4, StepIsQuiet DEF PointerStep
  <2>2. QED
    BY <1>0, <1>4, <2>1, PointerFrames DEF GuardInv, Kept, Delivered
<1>5. CASE Pressed \/ Released \/ Leave
  BY <1>0, <1>5, ReturnFrames, NoCallFields DEF GuardInv, Kept
<1>6. CASE ChordStep
  BY <1>0, <1>6, TapFrames, HoldFrames DEF GuardInv, ChordStep
<1>7. CASE TouchStep
  BY <1>0, <1>7, TouchFrames, NoCallFields DEF GuardInv, TouchStep
<1>8. QED
  BY <1>1, <1>2, <1>3, <1>4, <1>5, <1>6, <1>7
     DEF TakeStep, ChordStep, TouchStep

-----------------------------------------------------------------------------
(* The account holds of every behaviour. *)
THEOREM InvHolds == Spec => []Inv
<1>1. Init => Inv
  <2> SUFFICES ASSUME Init PROVE Inv
    OBVIOUS
  <2>1. Pressing = {} /\ InHand = {} /\ ~Gone /\ call.pc = "idle"
    BY NoCallFields DEF Init, InputInit, Pressing, InHand, Gone
  <2>2. QED
    BY <2>1 DEF Init, InputInit, Inv, KeysInv, ButtonsInv, TouchInv, GuardInv,
                ChordKeysAreInTheLedger, ShutdownLeavesNothingDown
<1>2. TypeOK /\ PointsInv /\ Inv /\ [Next]_vars => Inv'
  <2> SUFFICES ASSUME TypeOK, PointsInv, Inv, [Next]_vars PROVE Inv'
    OBVIOUS
  <2>1. CASE StartCall
    BY <2>1, StartInv
  <2>2. CASE TakeStep
    BY <2>2, StepKeys, StepButtons, StepTouch, StepGuard
       DEF Inv, ShutdownLeavesNothingDown
  <2>3. CASE UNCHANGED vars
    BY <2>3
       DEF vars, desktop, ledgers, Inv, KeysInv, ButtonsInv, TouchInv,
           GuardInv, ChordKeysAreInTheLedger, ShutdownLeavesNothingDown,
           Delivered, Pressing, InHand, Gone
  <2>4. QED
    BY <2>1, <2>2, <2>3 DEF Next
<1>3. QED
  BY <1>1, <1>2, TypesAndPoints, PTL DEF Spec

(***************************************************************************)
(* After the last release_all nothing is down of which the releases were   *)
(* delivered (README: "Every held button, key and touch contact is         *)
(* released on shutdown"), whatever was refused of the presses.            *)
(***************************************************************************)
THEOREM ReleasedOnShutdown == Spec => []ShutdownLeavesNothingDown
BY InvHolds, PTL DEF Inv

(***************************************************************************)
(* Between calls nothing is down that the client has not asked for: every  *)
(* path out of every call lets go of what the call pressed, the paths of   *)
(* refused presses included.                                               *)
(***************************************************************************)
THEOREM NothingElseStaysDown == Spec => []OnlyAskedForStaysDown
<1>1. TypeOK /\ Inv => OnlyAskedForStaysDown
  <2> SUFFICES ASSUME TypeOK, Inv, Resting PROVE OnlyAskedForStaysDown
    BY DEF OnlyAskedForStaysDown
  <2>1. /\ Delivered({"release", "last", "batch"}) => Delivered({"release"})
        /\ Delivered({"release", "last"}) => Delivered({"release"})
    BY DEF Delivered
  <2>2. QED
    BY <2>1, RestingHolds DEF OnlyAskedForStaysDown
<1>2. QED
  BY <1>1, TypesAndPoints, InvHolds, PTL

(***************************************************************************)
(* The ledger knows of every key of a chord that is down, also when the    *)
(* system refuses its release and the call gives up: it takes no key out   *)
(* before the event that lets go of it.                                    *)
(***************************************************************************)
THEOREM LedgerKnowsChordKeys == Spec => []ChordKeysAreInTheLedger
BY InvHolds, PTL DEF Inv

(***************************************************************************)
(* When an event of a button is sent, all the modifiers of its call are    *)
(* down, for every click of a click and for both events of each.           *)
(***************************************************************************)
THEOREM EventsCarryTheirModifiers == Spec => []ModifiersAroundEachEvent
<1>1. Inv => ModifiersAroundEachEvent
  BY DEF Inv, GuardInv, ModifiersAroundEachEvent
<1>2. QED
  BY <1>1, InvHolds, PTL
=============================================================================
