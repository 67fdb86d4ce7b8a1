-------------------------- MODULE LinuxInputProofs --------------------------
(***************************************************************************)
(* Proofs about LinuxInput: its type invariant; that nothing is left down  *)
(* after a call that the client has not asked for, nor anything at all     *)
(* after the last release_all; that modifiers are held around the events   *)
(* of a button, that a call lets go of nothing it does not name, and that  *)
(* the spare keycode is handed back.                                       *)
(*                                                                         *)
(* The argument is an account.  A key is down only if it is in the ledger  *)
(* held_keys_, and in the ledger only if the client has asked for it, the  *)
(* call's ModifierGuard owes its release, or the call is between its press *)
(* and its release (Pressing).  The account closes because a call cannot   *)
(* come to its end with the guard or Pressing non-empty, and because the   *)
(* keymap answers the release with the keycode of the press.               *)
(***************************************************************************)
EXTENDS LinuxInput, SequenceTheorems, TLAPS

(* The keys that the call has pressed itself and not yet let go of. *)
Pressing ==
  IF call.op = "tap_chord" /\ call.pc = "key_up" THEN {call.keys[call.at]}
  ELSE IF call.op = "hold_chord" /\ call.pc \in {"key", "key_up"}
  THEN {call.keys[i] : i \in 1 .. call.at - 1}
  ELSE IF call.pc = "return_up" THEN {Return} ELSE {}

(* The keys' account, and that every key in it can be let go of. *)
KeysInv ==
  KeymapStable =>
    /\ keysDown \subseteq CodesOf(heldKeys)
    /\ heldKeys \subseteq asked \cup call.guard \cup Pressing
    /\ \A k \in heldKeys \cup call.guard \cup Pressing : OnKeymap(k)

(* The button in the ledger that the call will let go of itself. *)
InHand ==
  IF \/ call.op = "stroke" /\ call.pc = "release"
     \/ /\ call.op = "long_press" /\ call.left > 0
        /\ call.pc \in {"release", "unguard"}
  THEN {call.button} ELSE {}

(* The buttons' account: a click and the wheel keep no ledger. *)
ButtonsInv ==
  /\ buttonsDown \subseteq
       heldButtons \cup IF call.pc = "release" THEN {call.button} ELSE {}
  /\ heldButtons \subseteq asked \cup InHand

(* Contacts are on the glass only between a first frame and its lift. *)
TouchInv ==
  FramesReach =>
    touching \subseteq IF call.pc \in {"touch_move", "touch_lift"}
                       THEN call.points ELSE {}

Inv == KeysInv /\ ButtonsInv /\ TouchInv /\ ShutdownLeavesNothingDown

(***************************************************************************)
(* The guard presses nothing but the modifiers its call names, and around  *)
(* the event of a button those that have left todo are down.               *)
(***************************************************************************)
GuardInv ==
  /\ call.todo \cup call.guard \subseteq call.mods
  /\ /\ KeymapStable
     /\ call.op \in {"click", "scroll", "stroke"}
     /\ call.pc \in {"press", "release"}
     => \A m \in call.mods \ call.todo : OnKeymap(m) => keymap[m] \in keysDown

(* Whatever is typed with the spare keycode, its restoration is to come. *)
Restores(text) ==
  \A i \in DOMAIN text :
    text[i] = "char" => \E j \in DOMAIN text : j > i /\ text[j] = "restore"

TypingInv ==
  call.op = "type_text" =>
    /\ call.pc \in {"type", "return_up"}
    /\ (call.pc = "return_up" => Head(call.text) = "newline")
    /\ Restores(call.text)
    /\ (call.spare \in bound
          => \E j \in DOMAIN call.text : call.text[j] = "restore")

-----------------------------------------------------------------------------
(***************************************************************************)
(* The frames that calls start with.  NoCall is expanded here and nowhere  *)
(* else: the other lemmas know its fields from NoCallFields.               *)
(***************************************************************************)
LEMMA NoCallFields ==
  /\ NoCall \in Calls
  /\ NoCall.op = "none" /\ NoCall.pc = "idle" /\ NoCall.button = "left"
  /\ NoCall.mods = {} /\ NoCall.todo = {} /\ NoCall.guard = {}
  /\ NoCall.points = {}
  /\ NoCall.keys = <<>> /\ NoCall.at = 1 /\ NoCall.left = 0
BY KeysAssumption DEF NoCall, Calls, CallOps, CallPoints, TextItems, Slots

Fresh(c) ==
  /\ c.pc \in {"press", "key", "type", "touch_begin"}
  /\ c.todo = c.mods /\ c.guard = {}
  /\ c.at = 1

StartsWell(c) ==
  /\ FrameOK(c)
  /\ Fresh(c)
  /\ c.op = "type_text" => /\ c.pc = "type" /\ Restores(c.text)
                           /\ c.spare \in Spares \ bound

(* A frame of Pointing is one that a call may start with. *)
LEMMA PointingStartsWell ==
  ASSUME NEW op \in {"click", "button_down", "scroll", "stroke", "long_press"},
         NEW b \in Buttons \cup {"wheel"}, op # "scroll" => b \in Buttons,
         NEW mods \in SUBSET ModifierKeys, NEW n \in 1 .. MaxRepeat
  PROVE  StartsWell(Pointing(op, b, mods, n))
<1> DEFINE c == Pointing(op, b, mods, n)
<1>1. op \in CallOps /\ "press" \in CallPoints /\ n \in Nat \ {0}
  BY BoundsAssumption DEF CallOps, CallPoints
<1>2. /\ c \in Calls
      /\ c.op = op /\ c.pc = "press" /\ c.button = b /\ c.left = n
      /\ c.mods = mods /\ c.todo = mods
      /\ c.guard = {} /\ c.keys = <<>> /\ c.at = 1
  BY <1>1, NoCallFields DEF Pointing, Calls
<1> HIDE DEF c
<1>3. StartsWell(c)
  BY <1>1, <1>2 DEF StartsWell, Fresh, FrameOK
<1> QED
  BY <1>3 DEF c

(* A frame of Chording is one that a call may start with. *)
LEMMA ChordingStartsWell ==
  ASSUME NEW op \in {"tap_chord", "hold_chord"}, NEW ch \in Chords,
         NEW n \in 1 .. MaxRepeat
  PROVE  StartsWell(Chording(op, ch, n))
<1> DEFINE c == Chording(op, ch, n)
<1>1. /\ ch.mods \subseteq ModifierKeys
      /\ ch.keys \in Seq(Keys) /\ Len(ch.keys) >= 1
  BY ChordsAssumption
<1>a. op \in CallOps /\ "key" \in CallPoints /\ n \in Nat
  BY BoundsAssumption DEF CallOps, CallPoints
<1>2. /\ c \in Calls
      /\ c.op = op /\ c.pc = "key" /\ c.button = "left"
      /\ c.mods = ch.mods /\ c.todo = ch.mods
      /\ c.guard = {} /\ c.keys = ch.keys /\ c.at = 1
  BY <1>1, <1>a, NoCallFields DEF Chording, Calls
<1> HIDE DEF c
<1>3. StartsWell(c)
  BY <1>1, <1>2, KeysAssumption DEF StartsWell, Fresh, FrameOK
<1> QED
  BY <1>3 DEF c

(* A frame of Typing, with its spare keycode, is one too. *)
LEMMA TypingStartsWell ==
  ASSUME NEW text \in Texts, NEW enter \in BOOLEAN, NEW s \in Spares \ bound
  PROVE  StartsWell([Typing(text, enter) EXCEPT !.spare = s])
<1> DEFINE items == text \o <<"restore">>
                         \o (IF enter THEN <<"newline">> ELSE <<>>)
           c == [Typing(text, enter) EXCEPT !.spare = s]
<1>1. items \in Seq(TextItems)
  <2>1. text \in Seq(TextItems)
    BY BoundsAssumption DEF TextItems
  <2>2. <<"restore">> \in Seq(TextItems)
    BY DEF TextItems
  <2> DEFINE end == IF enter THEN <<"newline">> ELSE <<>>
  <2>a. <<"newline">> \in Seq(TextItems) /\ <<>> \in Seq(TextItems)
    BY DEF TextItems
  <2>3. end \in Seq(TextItems)
    BY <2>a
  <2> HIDE DEF end
  <2>4. text \o <<"restore">> \o end \in Seq(TextItems)
    BY <2>1, <2>2, <2>3
  <2> QED
    BY <2>4 DEF end
<1>b. Restores(items)
  <2>1. text \in Seq({"char", "newline"})
    BY BoundsAssumption
  <2>2. /\ Len(text) + 1 \in DOMAIN items /\ items[Len(text) + 1] = "restore"
        /\ \A i \in DOMAIN items : i > Len(text) => items[i] # "char"
    BY <2>1
  <2>3. \A i \in DOMAIN items : i \in Nat
    BY <1>1
  <2>4. Len(text) \in Nat
    BY <2>1
  <2> HIDE DEF items
  <2>5. QED
    BY <2>2, <2>3, <2>4 DEF Restores
<1> HIDE DEF items
<1>2. s \in Nat
  BY CodesAssumption
<1>a. "type_text" \in CallOps /\ "type" \in CallPoints
  BY DEF CallOps, CallPoints
<1>3. /\ c \in Calls
      /\ c.op = "type_text" /\ c.pc = "type" /\ c.button = "left"
      /\ c.mods = {} /\ c.todo = {} /\ c.guard = {} /\ c.keys = <<>>
      /\ c.at = 1 /\ c.spare = s /\ c.text = items
  BY <1>1, <1>2, <1>a, NoCallFields DEF Typing, items, Calls
<1> HIDE DEF c
<1>4. StartsWell(c)
  BY <1>3, <1>b, KeysAssumption DEF StartsWell, Fresh, FrameOK
<1> QED
  BY <1>4 DEF c

(* A frame of Touching is one that a call may start with. *)
LEMMA TouchingStartsWell ==
  ASSUME NEW kind \in GestureKinds, NEW fingers \in FingerCounts,
         NEW n \in 1 .. MaxSteps
  PROVE  StartsWell(Touching(kind, fingers, n))
<1> DEFINE c == Touching(kind, fingers, n)
<1>1. fingers \in Int /\ n \in Nat \ {0}
  BY BoundsAssumption
<1>2. /\ Layout(kind, fingers) \in SUBSET (0 .. Slots - 1)
      /\ Clamp(fingers, 1, Slots) \in 0 .. Slots
  BY <1>1 DEF Layout, Clamp, Slots
<1>a. "inject" \in CallOps /\ "touch_begin" \in CallPoints
  BY DEF CallOps, CallPoints
<1>3. /\ c \in Calls
      /\ c.op = "inject" /\ c.pc = "touch_begin" /\ c.button = "left"
      /\ c.mods = {} /\ c.todo = {} /\ c.guard = {} /\ c.keys = <<>>
      /\ c.at = 1 /\ c.left = n
  BY <1>1, <1>2, <1>a, NoCallFields DEF Touching, Calls
<1> HIDE DEF c
<1>4. StartsWell(c)
  BY <1>1, <1>3, KeysAssumption DEF StartsWell, Fresh, FrameOK
<1> QED
  BY <1>4 DEF c

(***************************************************************************)
(* Every call that takes more than one step starts with such a frame; the  *)
(* others are done in one.                                                 *)
(***************************************************************************)
LEMMA CallsStartWell ==
  ASSUME StartCall
  PROVE  \/ \E c : StartsWell(c) /\ Begin(c)
         \/ \E b \in Buttons : ButtonUp(b)
         \/ \E k \in Keys : KeyDown(k) \/ KeyUp(k)
         \/ ReleaseAll
         \/ Shutdown
<1> DEFINE Starts == \E c : StartsWell(c) /\ Begin(c)
<1> HIDE DEF Starts
<1>1. \A b \in Buttons, mods \in SUBSET ModifierKeys, n \in 1 .. MaxRepeat :
        Click(b, mods, n) => Starts
  BY PointingStartsWell DEF Click, Starts
<1>2. \A mods \in SUBSET ModifierKeys, n \in 1 .. MaxRepeat :
        Scroll(mods, n) => Starts
  BY PointingStartsWell DEF Scroll, Starts
<1>3. ASSUME NEW b \in Buttons, NEW mods \in SUBSET ModifierKeys,
             \/ \E n \in 1 .. MaxRepeat : Click(b, mods, n)
             \/ ButtonDown(b, mods)
             \/ Stroke(b, mods)
      PROVE  Starts
  <2>1. 1 \in 1 .. MaxRepeat
    BY BoundsAssumption
  <2>2. QED
    BY <2>1, <1>1, <1>3, PointingStartsWell DEF ButtonDown, Stroke, Starts
<1>4. ASSUME NEW c \in Chords,
             HoldChord(c) \/ \E n \in 1 .. MaxRepeat : TapChord(c, n)
      PROVE  Starts
  <2>1. 1 \in 1 .. MaxRepeat
    BY BoundsAssumption
  <2>2. QED
    BY <2>1, <1>4, ChordingStartsWell DEF HoldChord, TapChord, Starts
<1>5. ASSUME NEW text \in Texts, NEW enter \in BOOLEAN, TypeText(text, enter)
      PROVE  Starts
  BY <1>5, TypingStartsWell DEF TypeText, Starts
<1>6. ASSUME NEW kind \in GestureKinds, NEW fingers \in FingerCounts,
             Inject(kind, fingers)
      PROVE  Starts
  BY <1>6, TouchingStartsWell DEF Inject, Starts
<1>7. ASSUME NEW kind \in GestureKinds, NEW fingers \in FingerCounts,
             NEW mods \in SUBSET ModifierKeys, Emulate(kind, fingers, mods)
      PROVE  Starts
  <2>1. "left" \in Buttons /\ 1 \in 1 .. MaxRepeat
        /\ mods \cup {Control} \in SUBSET ModifierKeys
    BY KeysAssumption, BoundsAssumption, CodesAssumption
  <2>2. CASE kind = "tap" /\ Click("left", mods, 1)
    BY <2>1, <2>2, <1>1
  <2>3. CASE kind = "long_press"
             /\ Begin(Pointing("long_press", "left", mods, 1))
    BY <2>1, <2>3, PointingStartsWell DEF Starts
  <2>4. CASE kind \in {"pinch", "smart_zoom"}
             /\ \E n \in 1 .. MaxRepeat : Scroll(mods \cup {Control}, n)
    BY <2>1, <2>4, <1>2
  <2>5. CASE kind = "swipe" /\ fingers <= 2
             /\ \E n \in 1 .. MaxRepeat : Scroll(mods, n)
    BY <2>1, <2>5, <1>2
  <2>6. QED
    BY <1>7, <2>2, <2>3, <2>4, <2>5 DEF Emulate
<1>8. ASSUME NEW kind \in GestureKinds, NEW fingers \in FingerCounts,
             NEW mods \in SUBSET ModifierKeys, NEW native \in BOOLEAN,
             Gesture(kind, fingers, mods, native)
      PROVE  Starts
  BY <1>6, <1>7, <1>8 DEF Gesture
<1>9. QED
  BY <1>2, <1>3, <1>4, <1>5, <1>8 DEF StartCall, Starts

-----------------------------------------------------------------------------
(* Starting a call keeps the types. *)
LEMMA BeginTypeOK ==
  ASSUME TypeOK, NEW c, StartsWell(c), Begin(c)
  PROVE  TypeOK'
BY DEF TypeOK, CallTypeOK, LedgersTypeOK, StartsWell, Begin, Start,
       desktop, ledgers, platform

(* Pressing a key keeps the types of what it changes. *)
LEMMA PressKeyTypeOK ==
  ASSUME TypeOK, NEW k \in Keys, OnKeymap(k), PressKey(k)
  PROVE  /\ keysDown' \subseteq Codes /\ heldKeys' \subseteq Keys
         /\ heldButtons' = heldButtons /\ contactsDown' = contactsDown
         /\ buttonsDown' = buttonsDown /\ touching' = touching
BY CodesAssumption DEF TypeOK, LedgersTypeOK, PressKey, OnKeymap

(* Letting go of a key keeps the types of what it changes. *)
LEMMA ReleaseKeyTypeOK ==
  ASSUME TypeOK, NEW k, ReleaseKey(k)
  PROVE  /\ keysDown' \subseteq Codes /\ heldKeys' \subseteq Keys
         /\ heldButtons' = heldButtons /\ contactsDown' = contactsDown
         /\ buttonsDown' = buttonsDown /\ touching' = touching
BY DEF TypeOK, LedgersTypeOK, ReleaseKey

(* So does letting go of the ledgers. *)
LEMMA LetGoTypeOK ==
  ASSUME TypeOK, LetGoOfLedger
  PROVE  /\ keysDown' \subseteq Codes
         /\ buttonsDown' \subseteq Buttons \cup {"wheel"}
         /\ touching' \subseteq 0 .. Slots - 1
         /\ LedgersTypeOK'
         /\ keymap' \in Keymaps /\ bound' \subseteq Spares
         /\ touchReady' \in BOOLEAN
BY DEF TypeOK, LedgersTypeOK, LetGoOfLedger, platform, Slots

(* Every call a client can make keeps the types. *)
LEMMA StartTypeOK == TypeOK /\ StartCall => TypeOK'
<1> SUFFICES ASSUME TypeOK, StartCall PROVE TypeOK'
  OBVIOUS
<1>1. CASE \E c : StartsWell(c) /\ Begin(c)
  BY <1>1, BeginTypeOK
<1>2. ASSUME NEW b \in Buttons, ButtonUp(b) PROVE TypeOK'
  BY <1>2 DEF TypeOK, CallTypeOK, LedgersTypeOK, ButtonUp, platform
<1>3. ASSUME NEW k \in Keys, KeyDown(k) PROVE TypeOK'
  BY <1>3, PressKeyTypeOK DEF TypeOK, CallTypeOK, LedgersTypeOK, KeyDown, platform
<1>4. ASSUME NEW k \in Keys, KeyUp(k) PROVE TypeOK'
  BY <1>4, ReleaseKeyTypeOK DEF TypeOK, CallTypeOK, LedgersTypeOK, KeyUp, platform
<1>5. CASE ReleaseAll
  BY <1>5, LetGoTypeOK DEF TypeOK, CallTypeOK, ReleaseAll
<1>6. CASE Shutdown
  <2>1. call' \in Calls
    BY <1>6 DEF Shutdown, TypeOK, CallTypeOK, FrameOK, Goto, Calls, CallPoints
  <2>2. FrameOK(call)'
    BY <1>6, <2>1, NoCallFields DEF Shutdown, Goto, TypeOK, CallTypeOK, FrameOK, Resting, Calls
  <2>3. call'.op # "type_text"
    BY <1>6, NoCallFields DEF Shutdown, Goto, TypeOK, CallTypeOK, FrameOK, Resting, Calls
  <2>4. QED
    BY <1>6, <2>2, <2>3, LetGoTypeOK DEF TypeOK, CallTypeOK, Shutdown
<1>7. QED
  BY <1>1, <1>2, <1>3, <1>4, <1>5, <1>6, CallsStartWell

-----------------------------------------------------------------------------
(* Moving on to another point of the call keeps its frame well formed. *)
LEMMA GotoFrameOK ==
  ASSUME FrameOK(call), ~Resting, ~Gone, NEW pc \in CallPoints \ {"idle", "gone"}, Goto(pc),
         pc \in {"press", "release", "touch_begin", "touch_move"} => call.left > 0,
         pc = "return_up" => call.text # <<>>
  PROVE  FrameOK(call)' /\ call'.op = call.op /\ call'.spare = call.spare
BY DEF FrameOK, Goto, Calls, Resting, Gone

(* So does returning. *)
LEMMA NoCallFrameOK ==
  ASSUME call' = NoCall
  PROVE  FrameOK(call)' /\ call'.op # "type_text"
BY NoCallFields, KeysAssumption DEF FrameOK

(* What a step leaves of the frame, and what it may change of it. *)
Onward(pc, at, left) ==
  /\ call' \in Calls
  /\ call'.op = call.op /\ call'.spare = call.spare
  /\ call'.button = call.button /\ call'.keys = call.keys
  /\ call'.pc = "return_up" => call'.text = call.text
  /\ call.todo = {} => call'.todo = {} /\ call'.guard = call.guard
  /\ call'.pc = pc /\ call'.at = at /\ call'.left = left

(* A frame in which only these have moved, within bounds, is well formed. *)
LEMMA OnwardFrameOK ==
  ASSUME FrameOK(call), NEW pc, NEW at, NEW left, Onward(pc, at, left),
         pc \notin {"idle", "gone"},
         pc = "return_up" => call.pc = "return_up",
         at <= Len(call.keys) + 1,
         call.op = "tap_chord" => at <= Len(call.keys),
         pc \in {"press", "release", "touch_begin", "touch_move"} => left > 0
  PROVE  FrameOK(call)' /\ call'.op = call.op /\ call'.spare = call.spare
BY DEF Onward, FrameOK

(* Taking the next item of the text keeps the frame well formed. *)
LEMMA RestFrameOK ==
  ASSUME FrameOK(call), call.pc \in {"type", "return_up"},
         call.op = "type_text", call.text # <<>>, call' = Rest
  PROVE  FrameOK(call)' /\ call'.op = call.op /\ call'.spare = call.spare
<1>1. call \in Calls /\ "type" \in CallPoints
  BY DEF FrameOK, CallPoints
<1>2. Tail(call.text) \in Seq(TextItems)
  BY <1>1 DEF Calls
<1>3. Onward("type", call.at, call.left)
  BY <1>1, <1>2 DEF Rest, Onward, Calls
<1>4. QED
  BY <1>3, OnwardFrameOK DEF FrameOK

(* Every step of a call keeps the types. *)
LEMMA StepTypeOK == TypeOK /\ TakeStep => TypeOK'
<1> SUFFICES ASSUME TypeOK, TakeStep PROVE TypeOK'
  OBVIOUS
<1> USE DEF TypeOK, CallTypeOK
<1>0. call \in Calls
  BY DEF FrameOK
<1>1. CASE GuardPress
  <2>1. PICK k \in call.todo :
          /\ IF OnKeymap(k)
             THEN /\ PressKey(k)
                  /\ call' = [call EXCEPT !.todo = @ \ {k}, !.guard = @ \cup {k}]
             ELSE /\ NoEvent
                  /\ call' = [call EXCEPT !.todo = @ \ {k}]
          /\ Step
    BY <1>1 DEF GuardPress
  <2>2. k \in ModifierKeys /\ k \in Keys
    BY KeysAssumption DEF FrameOK, Calls
  <2>3. FrameOK(call)' /\ call'.op = call.op /\ call'.spare = call.spare
    <3>1. Onward(call.pc, call.at, call.left)
      <4>1. \/ call' = [call EXCEPT !.todo = @ \ {k}, !.guard = @ \cup {k}]
            \/ call' = [call EXCEPT !.todo = @ \ {k}]
        BY <2>1
      <4>2. /\ call.todo \ {k} \in SUBSET ModifierKeys
            /\ call.guard \cup {k} \in SUBSET ModifierKeys
        BY <1>0, <2>2 DEF Calls
      <4>3. QED
        BY <1>0, <4>1, <4>2 DEF Onward, Calls
    <3>2. call.todo # {} => call.pc \notin {"idle", "gone"}
      BY NoCallFields DEF FrameOK, Calls
    <3>3. QED
      BY <3>1, <3>2, OnwardFrameOK DEF FrameOK
  <2>4. QED
    BY <2>1, <2>2, <2>3, PressKeyTypeOK
       DEF LedgersTypeOK, NoEvent, Step, desktop, ledgers, platform
<1>2. CASE GuardRelease
  <2>1. PICK k \in call.guard :
          /\ IF OnKeymap(k) THEN ReleaseKey(k) ELSE NoEvent
          /\ call' = [call EXCEPT !.guard = @ \ {k}]
    BY <1>2 DEF GuardRelease
  <2>2. FrameOK(call)' /\ call'.op = call.op /\ call'.spare = call.spare
    BY <2>1, <1>2, NoCallFields DEF GuardRelease, FrameOK, Calls
  <2>3. QED
    BY <1>2, <2>1, <2>2, ReleaseKeyTypeOK
       DEF GuardRelease, LedgersTypeOK, NoEvent, Step, desktop, ledgers, platform
<1>3. CASE Leave
  <2>1. FrameOK(call)' /\ (call'.op = "type_text" => call.op = "type_text" /\ call'.spare = call.spare)
    <3>1. "release" \in CallPoints \ {"idle", "gone"}
      BY DEF CallPoints
    <3>2. QED
      BY <1>3, <3>1, NoCallFrameOK, GotoFrameOK DEF Leave, Resting, Gone
  <2>2. QED
    BY <1>3, <2>1 DEF Leave, LedgersTypeOK, NoEvent, Step, desktop, ledgers, platform
<1>4. CASE PressButton
  <2>1. call.button \in Buttons \cup {"wheel"} /\ (call.op # "scroll" => call.button \in Buttons)
    BY DEF FrameOK, Calls
  <2>2. FrameOK(call)' /\ call'.op = call.op /\ call'.spare = call.spare
    <3>1. {"unguard", "release"} \subseteq CallPoints \ {"idle", "gone"}
      BY DEF CallPoints
    <3>2. QED
      BY <1>4, <3>1, GotoFrameOK DEF PressButton, At, Resting, Gone, FrameOK
  <2>3. QED
    BY <1>4, <2>1, <2>2 DEF PressButton, At, Ledgered, LedgersTypeOK, platform
<1>5. CASE ReleaseButton
  <2>1. FrameOK(call)' /\ call'.op = call.op /\ call'.spare = call.spare
    <3>1. call.left \in Nat /\ call.left > 0
      BY <1>5 DEF ReleaseButton, At, FrameOK, Calls
    <3>2. {"press", "unguard"} \subseteq CallPoints
      BY DEF CallPoints
    <3>3. QED
      <4>1. Onward(IF call.left > 1 THEN "press" ELSE "unguard", call.at, call.left - 1)
        <5>1. call' = [call EXCEPT !.left = @ - 1,
                          !.pc = IF call.left > 1 THEN "press" ELSE "unguard"]
          BY <1>5 DEF ReleaseButton
        <5>2. call.left - 1 \in Nat
          BY <3>1
        <5>3. QED
          BY <1>0, <3>2, <5>1, <5>2 DEF Onward, Calls
      <4>2. QED
        BY <1>5, <3>1, <4>1, OnwardFrameOK DEF ReleaseButton, At, FrameOK
  <2>2. QED
    BY <1>5, <2>1 DEF ReleaseButton, At, LedgersTypeOK, Step, platform
<1>6. CASE TapDown
  <2>1. Current \in Keys /\ {"key_up", "unguard"} \subseteq CallPoints
    BY <1>6 DEF TapDown, At, Current, FrameOK, Calls, CallPoints
  <2>2. FrameOK(call)' /\ call'.op = call.op /\ call'.spare = call.spare
    BY <1>6, <2>1, GotoFrameOK DEF TapDown, At, Resting, Gone
  <2>3. QED
    BY <1>6, <2>1, <2>2, PressKeyTypeOK
       DEF TapDown, LedgersTypeOK, NoEvent, Step, desktop, ledgers, platform
<1>7. CASE TapUp
  <2>1. {"key", "unguard"} \subseteq CallPoints
    BY DEF CallPoints
  <2>2. call.left \in Nat /\ call.at \in Nat \ {0} /\ call.at <= Len(call.keys)
        /\ call.keys \in Seq(Keys)
    BY <1>7 DEF TapUp, At, FrameOK, Calls
  <2>3. CASE call' = [call EXCEPT !.pc = "key", !.at = @ + 1]
             /\ call.at < Len(call.keys)
    <3>1. FrameOK(call)' /\ call'.op = call.op /\ call'.spare = call.spare
      <4>1. Onward("key", call.at + 1, call.left)
        <5>1. call.at + 1 \in Nat \ {0} /\ "key" \in CallPoints
          BY <2>1, <2>2
        <5>2. QED
          BY <1>0, <2>3, <5>1 DEF Onward, Calls
      <4>2. QED
        BY <2>2, <2>3, <4>1, OnwardFrameOK
    <3>2. QED
      BY <1>7, <3>1, ReleaseKeyTypeOK
         DEF TapUp, LedgersTypeOK, NoEvent, Step, desktop, ledgers, platform
  <2>4. CASE call' = [call EXCEPT !.pc = "key", !.at = 1, !.left = @ - 1]
             /\ call.left > 1
    <3>1. FrameOK(call)' /\ call'.op = call.op /\ call'.spare = call.spare
      <4>1. Onward("key", 1, call.left - 1)
        <5>1. call.left - 1 \in Nat /\ 1 \in Nat \ {0} /\ "key" \in CallPoints
          BY <2>1, <2>2, <2>4
        <5>2. QED
          BY <1>0, <2>4, <5>1 DEF Onward, Calls
      <4>2. QED
        BY <2>2, <2>4, <4>1, OnwardFrameOK
    <3>2. QED
      BY <1>7, <3>1, ReleaseKeyTypeOK
         DEF TapUp, LedgersTypeOK, NoEvent, Step, desktop, ledgers, platform
  <2>5. CASE Goto("unguard")
    <3>1. FrameOK(call)' /\ call'.op = call.op /\ call'.spare = call.spare
      BY <1>7, <2>1, <2>5, GotoFrameOK DEF TapUp, At, Resting, Gone
    <3>2. QED
      BY <1>7, <3>1, ReleaseKeyTypeOK
         DEF TapUp, LedgersTypeOK, NoEvent, Step, desktop, ledgers, platform
  <2>6. QED
    BY <1>7, <2>3, <2>4, <2>5 DEF TapUp, Goto
<1>8. CASE HoldDown
  <2>1. "key_up" \in CallPoints
    BY DEF CallPoints
  <2>2. CASE call.at <= Len(call.keys) /\ OnKeymap(Current)
    <3>1. Current \in Keys
      BY <2>2 DEF Current, FrameOK, Calls
    <3>2. PressKey(Current) /\ call' = [call EXCEPT !.at = @ + 1]
      BY <1>8, <2>2 DEF HoldDown
    <3>3. FrameOK(call)' /\ call'.op = call.op /\ call'.spare = call.spare
      <4>1. Onward("key", call.at + 1, call.left)
        <5>1. call.pc = "key" /\ call.at + 1 \in Nat \ {0}
          BY <1>0, <1>8 DEF HoldDown, At, Calls
        <5>2. QED
          BY <1>0, <3>2, <5>1 DEF Onward, Calls
      <4>2. call.at + 1 <= Len(call.keys) + 1
        BY <2>2 DEF FrameOK, Calls
      <4>3. QED
        BY <1>8, <4>1, <4>2, OnwardFrameOK DEF HoldDown, At
    <3>4. QED
      BY <1>8, <2>2, <3>1, <3>2, <3>3, PressKeyTypeOK
         DEF HoldDown, LedgersTypeOK, Step, desktop, ledgers, platform
  <2>3. CASE ~(call.at <= Len(call.keys) /\ OnKeymap(Current))
    <3>1. NoEvent /\ Goto("key_up")
      BY <1>8, <2>3 DEF HoldDown
    <3>2. FrameOK(call)' /\ call'.op = call.op /\ call'.spare = call.spare
      BY <1>8, <2>1, <3>1, GotoFrameOK DEF HoldDown, At, Resting, Gone
    <3>3. QED
      BY <1>8, <3>1, <3>2
         DEF HoldDown, LedgersTypeOK, NoEvent, Step, desktop, ledgers, platform
  <2>4. QED
    BY <2>2, <2>3
<1>9. CASE HoldUp
  <2>1. "unguard" \in CallPoints
    BY DEF CallPoints
  <2>2. FrameOK(call)' /\ call'.op = call.op /\ call'.spare = call.spare
    <3>1. CASE call.at > 1
      <4>1. call' = [call EXCEPT !.at = @ - 1]
        BY <1>9, <3>1 DEF HoldUp
      <4>2. call.at - 1 \in Nat \ {0}
        BY <3>1 DEF FrameOK, Calls
      <4>3. QED
        <5>1. Onward("key_up", call.at - 1, call.left)
          BY <1>9, <4>1, <4>2 DEF HoldUp, At, Onward, FrameOK, Calls
        <5>2. call.at - 1 <= Len(call.keys) + 1
          BY <4>2 DEF FrameOK, Calls
        <5>3. QED
          BY <1>9, <5>1, <5>2, OnwardFrameOK DEF HoldUp, At
    <3>2. CASE ~(call.at > 1)
      BY <1>9, <2>1, <3>2, GotoFrameOK DEF HoldUp, At, Resting, Gone
    <3>3. QED
      BY <3>1, <3>2
  <2>3. QED
    BY <1>9, <2>2, ReleaseKeyTypeOK
       DEF HoldUp, LedgersTypeOK, NoEvent, Step, desktop, ledgers, platform
<1>10. CASE TypeChar \/ TypeRestore
  <2>1. /\ call.op = "type_text" /\ call.pc = "type"
        /\ call.text # <<>> /\ call' = Rest
    BY <1>10 DEF TypeChar, TypeRestore, Typed, At
  <2>2. FrameOK(call)' /\ call'.op = call.op /\ call'.spare = call.spare
    BY <1>0, <2>1, RestFrameOK
  <2>3. bound' \subseteq Spares
    BY <1>10, <2>1 DEF TypeChar, TypeRestore
  <2>4. QED
    BY <1>10, <2>1, <2>2, <2>3
       DEF TypeChar, TypeRestore, LedgersTypeOK, NoEvent, desktop, ledgers
<1>11. CASE TypeReturn
  <2>1. Return \in Keys /\ "return_up" \in CallPoints
    BY KeysAssumption DEF CallPoints
  <2>2. CASE OnKeymap(Return)
    <3>1. FrameOK(call)' /\ call'.op = call.op /\ call'.spare = call.spare
      BY <1>11, <2>1, <2>2, GotoFrameOK
         DEF TypeReturn, Typed, At, Resting, Gone
    <3>2. QED
      BY <1>11, <2>1, <2>2, <3>1, PressKeyTypeOK
         DEF TypeReturn, LedgersTypeOK, Step, platform
  <2>3. CASE ~OnKeymap(Return)
    BY <1>11, <2>3, NoCallFrameOK
       DEF TypeReturn, LedgersTypeOK, NoEvent, Step, desktop, ledgers, platform
  <2>4. QED
    BY <2>2, <2>3
<1>12. CASE TypeReturnUp
  <2>1. CASE OnKeymap(Return)
    <3>1. /\ call.op = "type_text" /\ call.pc = "return_up"
          /\ call.text # <<>> /\ call' = Rest
      BY <1>12, <2>1 DEF TypeReturnUp, At, FrameOK
    <3>2. FrameOK(call)' /\ call'.op = call.op /\ call'.spare = call.spare
      BY <1>0, <3>1, RestFrameOK
    <3>3. QED
      BY <1>12, <2>1, <3>1, <3>2, ReleaseKeyTypeOK
         DEF TypeReturnUp, LedgersTypeOK, Step, platform
  <2>2. CASE ~OnKeymap(Return)
    BY <1>12, <2>2, NoCallFrameOK
       DEF TypeReturnUp, LedgersTypeOK, NoEvent, Step, desktop, ledgers,
           platform
  <2>3. QED
    BY <2>1, <2>2
<1>13. CASE TypeDone
  BY <1>13, NoCallFrameOK
     DEF TypeDone, LedgersTypeOK, NoEvent, Step, desktop, ledgers, platform
<1>14. CASE TouchBegin
  <2>1. \A part \in Reached("begin") : part \subseteq 0 .. Slots - 1
    BY <1>0 DEF Reached, Calls
  <2>2. FrameOK(call)' /\ call'.op # "type_text"
    <3>1. "touch_move" \in CallPoints
      BY DEF CallPoints
    <3>2. QED
      BY <1>14, <3>1, NoCallFrameOK, GotoFrameOK
         DEF TouchBegin, At, Resting, Gone, FrameOK
  <2>3. contactsDown' \in 0 .. Slots
    BY <1>0, <1>14 DEF TouchBegin, LedgersTypeOK, Calls
  <2>4. QED
    BY <1>14, <2>1, <2>2, <2>3
       DEF TouchBegin, LedgersTypeOK, Contacts, Step, platform
<1>15. CASE TouchMove
  <2>1. "touch_lift" \in CallPoints /\ call.left \in Nat /\ call.left > 0
    BY <1>0, <1>15 DEF CallPoints, TouchMove, At, FrameOK, Calls
  <2>2. CASE Goto("touch_lift")
    <3>1. FrameOK(call)' /\ call'.op = call.op /\ call'.spare = call.spare
      BY <1>15, <2>1, <2>2, GotoFrameOK DEF TouchMove, At, Resting, Gone
    <3>2. QED
      BY <1>15, <3>1
         DEF TouchMove, LedgersTypeOK, NoEvent, Step, desktop, ledgers, platform
  <2>3. CASE call' = [call EXCEPT !.left = @ - 1,
                        !.pc = IF call.left > 1 THEN @ ELSE "touch_lift"]
    <3>1. call.left - 1 \in Nat
      BY <2>1
    <3>2. Onward(IF call.left > 1 THEN call.pc ELSE "touch_lift",
                 call.at, call.left - 1)
      BY <1>0, <2>1, <2>3, <3>1 DEF Onward, Calls
    <3>3. FrameOK(call)' /\ call'.op = call.op /\ call'.spare = call.spare
      BY <1>15, <2>1, <3>2, OnwardFrameOK DEF TouchMove, At, FrameOK
    <3>4. QED
      BY <1>15, <3>3
         DEF TouchMove, LedgersTypeOK, NoEvent, Step, desktop, ledgers, platform
  <2>4. QED
    BY <1>15, <2>2, <2>3 DEF TouchMove, Goto
<1>16. CASE TouchLift
  <2>1. FrameOK(call)' /\ call'.op # "type_text"
    BY <1>16, NoCallFrameOK DEF TouchLift
  <2>2. touching' \subseteq touching /\ contactsDown' \in 0 .. Slots
    BY <1>16 DEF TouchLift, Slots
  <2>3. QED
    BY <1>16, <2>1, <2>2 DEF TouchLift, LedgersTypeOK, Contacts, Step, platform
<1>17. QED
  BY <1>1, <1>2, <1>3, <1>4, <1>5, <1>6, <1>7, <1>8, <1>9, <1>10, <1>11,
     <1>12, <1>13, <1>14, <1>15, <1>16 DEF TakeStep

(* The backend's type invariant holds of every behaviour. *)
THEOREM TypeCorrect == Spec => []TypeOK
<1>1. Init => TypeOK
  <2> SUFFICES ASSUME Init PROVE TypeOK
    OBVIOUS
  <2>1. FrameOK(call) /\ call.op # "type_text"
    BY NoCallFields, KeysAssumption DEF Init, InputInit, FrameOK
  <2>2. QED
    BY <2>1 DEF Init, InputInit, TypeOK, CallTypeOK, LedgersTypeOK, Slots
<1>2. TypeOK /\ [Next]_vars => TypeOK'
  <2> SUFFICES ASSUME TypeOK, [Next]_vars PROVE TypeOK'
    OBVIOUS
  <2>1. CASE SwitchKeymap
    BY <2>1 DEF SwitchKeymap, TypeOK, CallTypeOK, LedgersTypeOK, desktop, ledgers
  <2>2. CASE UNCHANGED vars
    BY <2>2 DEF vars, TypeOK, CallTypeOK, LedgersTypeOK, desktop, ledgers,
                platform
  <2>3. QED
    BY <2>1, <2>2, StartTypeOK, StepTypeOK DEF Next
<1>3. QED
  BY <1>1, <1>2, PTL DEF Spec

-----------------------------------------------------------------------------
(* A press enters the ledger with its keycode. *)
LEMMA PressKept ==
  ASSUME NEW k \in Keys, heldKeys \subseteq Keys, PressKey(k),
         keymap' = keymap, keysDown \subseteq CodesOf(heldKeys)
  PROVE  keysDown' \subseteq CodesOf(heldKeys)'
BY DEF PressKey, CodesOf

(* A release takes a key and its keycode together. *)
LEMMA ReleaseKept ==
  ASSUME NEW k \in Keys, heldKeys \subseteq Keys, ReleaseKey(k),
         keymap' = keymap, keysDown \subseteq CodesOf(heldKeys)
  PROVE  keysDown' \subseteq CodesOf(heldKeys)'
BY DEF ReleaseKey, CodesOf

(* What the invariant says between calls. *)
LEMMA RestingHolds ==
  ASSUME TypeOK, Inv, Resting
  PROVE  /\ call = NoCall
         /\ Pressing = {} /\ InHand = {}
         /\ KeymapStable => /\ keysDown \subseteq CodesOf(heldKeys)
                            /\ heldKeys \subseteq asked
                            /\ \A k \in heldKeys : OnKeymap(k)
         /\ buttonsDown \subseteq heldButtons /\ heldButtons \subseteq asked
         /\ FramesReach => touching = {}
<1>1. call = NoCall
  BY DEF TypeOK, CallTypeOK, FrameOK, Resting
<1>2. Pressing = {} /\ InHand = {} /\ call.guard = {}
  BY <1>1, NoCallFields DEF Pressing, InHand
<1>3. QED
  BY <1>1, <1>2, NoCallFields
     DEF Inv, KeysInv, ButtonsInv, TouchInv, KeymapStable, Resting

(* A call that has just started has pressed nothing. *)
LEMMA FreshHolds ==
  ASSUME Fresh(call)'
  PROVE  Pressing' = {} /\ InHand' = {} /\ ~Gone'
<1>1. call'.at - 1 = 0 /\ 1 .. 0 = {}
  BY DEF Fresh
<1>2. QED
  BY <1>1 DEF Fresh, Pressing, InHand, Gone

(* Nor has one that is done in a single step. *)
LEMMA StillRestingHolds ==
  ASSUME TypeOK, Inv, Resting, call' = call \/ call' = NoCall
  PROVE  Pressing' = {} /\ InHand' = {} /\ call' = NoCall /\ ~Gone'
<1>1. call' = NoCall
  BY RestingHolds
<1>2. QED
  BY <1>1, NoCallFields DEF Pressing, InHand, Gone

(* Every call a client can make keeps the account. *)
LEMMA StartInv == TypeOK /\ Inv /\ StartCall => Inv'
<1> SUFFICES ASSUME TypeOK, Inv, StartCall PROVE Inv'
  OBVIOUS
<1>1. ASSUME NEW c, StartsWell(c), Begin(c) PROVE Inv'
  <2>1. Resting /\ call' = c /\ Fresh(call)'
    BY <1>1 DEF StartsWell, Begin, Start, Fresh
  <2>2. Pressing' = {} /\ InHand' = {} /\ ~Gone' /\ call'.guard = {}
    BY <2>1, FreshHolds DEF Fresh
  <2>3. UNCHANGED <<keysDown, buttonsDown, touching, heldKeys, heldButtons,
                    asked, faults, keymap>>
    BY <1>1 DEF Begin, Start, desktop, ledgers, platform
  <2>4. KeysInv'
    BY <2>1, <2>2, <2>3, RestingHolds
       DEF KeysInv, KeymapStable, MayFail, CodesOf, OnKeymap
  <2>5. ButtonsInv'
    BY <2>1, <2>2, <2>3, RestingHolds DEF ButtonsInv
  <2>6. TouchInv'
    BY <2>1, <2>2, <2>3, RestingHolds DEF TouchInv, FramesReach, MayFail
  <2>7. QED
    BY <2>2, <2>4, <2>5, <2>6 DEF Inv, ShutdownLeavesNothingDown
<1>2. ASSUME NEW b \in Buttons, ButtonUp(b) PROVE Inv'
  <2>1. Resting /\ call' = call
    BY <1>2 DEF ButtonUp
  <2>2. Pressing' = {} /\ InHand' = {} /\ call' = NoCall /\ ~Gone'
    BY <2>1, StillRestingHolds
  <2>3. UNCHANGED <<keysDown, touching, heldKeys, faults, keymap>>
    BY <1>2 DEF ButtonUp, platform
  <2>4. KeysInv'
    <3>1. heldKeys \subseteq asked => heldKeys \subseteq asked'
      BY <1>2, KeysAssumption DEF ButtonUp, TypeOK, LedgersTypeOK
    <3>2. QED
      BY <2>1, <2>2, <2>3, <3>1, RestingHolds, NoCallFields
         DEF KeysInv, KeymapStable, MayFail, CodesOf, OnKeymap
  <2>5. ButtonsInv'
    BY <1>2, <2>1, <2>2, RestingHolds, NoCallFields DEF ButtonsInv, ButtonUp
  <2>6. TouchInv'
    BY <2>1, <2>2, <2>3, RestingHolds DEF TouchInv, FramesReach, MayFail
  <2>7. QED
    BY <2>2, <2>4, <2>5, <2>6 DEF Inv, ShutdownLeavesNothingDown
<1>3. ASSUME NEW k \in Keys, KeyDown(k) \/ KeyUp(k) PROVE Inv'
  <2>1. Resting /\ call' = call /\ OnKeymap(k) /\ keymap' = keymap
        /\ faults' = faults
    BY <1>3 DEF KeyDown, KeyUp, platform
  <2>2. Pressing' = {} /\ InHand' = {} /\ call' = NoCall /\ ~Gone'
    BY <2>1, StillRestingHolds
  <2>3. UNCHANGED <<buttonsDown, touching, heldButtons>>
    BY <1>3 DEF KeyDown, KeyUp, PressKey, ReleaseKey
  <2>4. KeysInv'
    <3>1. SUFFICES ASSUME KeymapStable
                   PROVE  /\ keysDown' \subseteq CodesOf(heldKeys)'
                          /\ heldKeys' \subseteq asked'
                          /\ \A j \in heldKeys' : OnKeymap(j)
      BY <2>1, <2>2, NoCallFields DEF KeysInv, KeymapStable, MayFail, OnKeymap
    <3>2. keysDown' \subseteq CodesOf(heldKeys)'
      BY <1>3, <2>1, <3>1, RestingHolds, PressKept, ReleaseKept
         DEF KeyDown, KeyUp, TypeOK, LedgersTypeOK
    <3>3. heldKeys' \subseteq asked' /\ \A j \in heldKeys' : OnKeymap(j)
      BY <1>3, <2>1, <3>1, RestingHolds
         DEF KeyDown, KeyUp, PressKey, ReleaseKey
    <3>4. QED
      BY <3>2, <3>3
  <2>5. ButtonsInv'
    <3>1. heldButtons \subseteq asked => heldButtons \subseteq asked'
      BY <1>3, KeysAssumption DEF KeyDown, KeyUp, TypeOK, LedgersTypeOK
    <3>2. QED
      BY <2>1, <2>2, <2>3, <3>1, RestingHolds DEF ButtonsInv
  <2>6. TouchInv'
    BY <2>1, <2>2, <2>3, RestingHolds DEF TouchInv, FramesReach, MayFail
  <2>7. QED
    BY <2>2, <2>4, <2>5, <2>6 DEF Inv, ShutdownLeavesNothingDown
<1>4. CASE ReleaseAll \/ Shutdown
  <2>1. Resting /\ LetGoOfLedger /\ faults' = faults /\ keymap' = keymap
    BY <1>4 DEF ReleaseAll, Shutdown, LetGoOfLedger, platform
  <2>2. /\ KeymapStable => keysDown' = {}
        /\ buttonsDown' = {} /\ heldKeys' = {} /\ heldButtons' = {}
        /\ FramesReach => touching' = {}
    BY <2>1, RestingHolds DEF LetGoOfLedger, CodesOf
  <2>3. call'.pc \in {"idle", "gone"} /\ call'.guard = {}
        /\ call'.op = "none"
    BY <1>4, <2>1, RestingHolds, NoCallFields
       DEF ReleaseAll, Shutdown, Goto, Calls
  <2>4. Pressing' = {} /\ InHand' = {}
    BY <2>3 DEF Pressing, InHand
  <2>5. QED
    BY <2>1, <2>2, <2>3, <2>4
       DEF Inv, KeysInv, ButtonsInv, TouchInv, ShutdownLeavesNothingDown,
           KeymapStable, FramesReach, MayFail, CodesOf, OnKeymap
<1>5. QED
  BY <1>1, <1>2, <1>3, <1>4, CallsStartWell

-----------------------------------------------------------------------------
(* No step of a call changes the keymap or what may go wrong. *)
LEMMA StepIsQuiet ==
  ASSUME TakeStep
  PROVE  UNCHANGED <<faults, keymap, touchReady>>
<1>1. CASE GuardPress \/ GuardRelease \/ Leave \/ ReleaseButton
  BY <1>1 DEF GuardPress, GuardRelease, Leave, ReleaseButton, Step, platform
<1>2. CASE TapDown \/ TapUp \/ HoldDown \/ HoldUp
  BY <1>2 DEF TapDown, TapUp, HoldDown, HoldUp, Step, platform
<1>3. CASE TypeReturn \/ TypeReturnUp \/ TypeDone
  BY <1>3 DEF TypeReturn, TypeReturnUp, TypeDone, Step, platform
<1>4. CASE TouchBegin \/ TouchMove \/ TouchLift
  BY <1>4 DEF TouchBegin, TouchMove, TouchLift, Step, platform
<1>5. CASE PressButton \/ TypeChar \/ TypeRestore
  BY <1>5 DEF PressButton, TypeChar, TypeRestore, platform
<1>6. QED
  BY <1>1, <1>2, <1>3, <1>4, <1>5 DEF TakeStep

(***************************************************************************)
(* Keys.  A step that presses a key adds it to the guard or to Pressing, a *)
(* step that lets go of one takes it from the ledger too.                  *)
(***************************************************************************)
LEMMA StepKeys == TypeOK /\ Inv /\ TakeStep => KeysInv'
<1> SUFFICES ASSUME TypeOK, Inv, TakeStep, KeymapStable
             PROVE  /\ keysDown' \subseteq CodesOf(heldKeys)'
                    /\ heldKeys' \subseteq asked' \cup call'.guard \cup Pressing'
                    /\ \A k \in heldKeys' \cup call'.guard \cup Pressing' :
                         OnKeymap(k)'
  BY StepIsQuiet DEF KeysInv, KeymapStable, MayFail
<1>0. /\ keysDown \subseteq CodesOf(heldKeys)
      /\ heldKeys \subseteq asked \cup call.guard \cup Pressing
      /\ \A k \in heldKeys \cup call.guard \cup Pressing : OnKeymap(k)
      /\ heldKeys \subseteq Keys /\ call \in Calls
      /\ call.guard \subseteq Keys
  BY KeysAssumption
     DEF Inv, KeysInv, TypeOK, LedgersTypeOK, CallTypeOK, FrameOK, Calls
<1>a. keymap' = keymap
  BY StepIsQuiet
<1>1. CASE GuardPress
  <2>1. PICK k \in call.todo :
          IF OnKeymap(k)
          THEN /\ PressKey(k)
               /\ call' = [call EXCEPT !.todo = @ \ {k}, !.guard = @ \cup {k}]
          ELSE /\ NoEvent
               /\ call' = [call EXCEPT !.todo = @ \ {k}]
    BY <1>1 DEF GuardPress
  <2>2. k \in Keys /\ asked' = asked
    BY <1>0, <1>1, KeysAssumption DEF Calls, GuardPress, Step
  <2>3. Pressing' = Pressing
    <3>1. \/ call' = [call EXCEPT !.todo = @ \ {k}, !.guard = @ \cup {k}]
          \/ call' = [call EXCEPT !.todo = @ \ {k}]
      BY <2>1
    <3>2. /\ call'.op = call.op /\ call'.pc = call.pc
          /\ call'.keys = call.keys /\ call'.at = call.at
      BY <1>0, <3>1 DEF Calls
    <3>3. QED
      BY <3>2 DEF Pressing
  <2>4. CASE OnKeymap(k)
    <3>1. call'.guard = call.guard \cup {k} /\ PressKey(k)
      BY <1>0, <2>1, <2>4 DEF Calls
    <3>2. QED
      BY <1>0, <1>a, <2>2, <2>3, <2>4, <3>1, PressKept DEF PressKey, OnKeymap
  <2>5. CASE ~OnKeymap(k)
    <3>1. call'.guard = call.guard /\ NoEvent
      BY <1>0, <2>1, <2>5 DEF Calls
    <3>2. QED
      BY <1>0, <1>a, <2>2, <2>3, <3>1
         DEF NoEvent, desktop, ledgers, OnKeymap, CodesOf
  <2>6. QED
    BY <2>4, <2>5
<1>2. CASE GuardRelease
  <2>1. PICK k \in call.guard :
          /\ IF OnKeymap(k) THEN ReleaseKey(k) ELSE NoEvent
          /\ call' = [call EXCEPT !.guard = @ \ {k}]
    BY <1>2 DEF GuardRelease
  <2>2. ReleaseKey(k) /\ call'.guard = call.guard \ {k} /\ asked' = asked
    BY <1>0, <1>2, <2>1 DEF Calls, GuardRelease, Step
  <2>3. Pressing' = {} /\ Pressing = {}
    BY <1>0, <1>2, <2>1 DEF Pressing, Calls, GuardRelease
  <2>4. QED
    BY <1>0, <1>a, <2>2, <2>3, ReleaseKept DEF ReleaseKey, OnKeymap
<1>3. ASSUME UNCHANGED <<keysDown, heldKeys>>, asked \subseteq asked',
             Pressing = {}, Pressing' = {}, call'.guard = call.guard
      PROVE  /\ keysDown' \subseteq CodesOf(heldKeys)'
             /\ heldKeys' \subseteq asked' \cup call'.guard \cup Pressing'
             /\ \A k \in heldKeys' \cup call'.guard \cup Pressing' : OnKeymap(k)'
  BY <1>0, <1>a, <1>3 DEF OnKeymap, CodesOf
<1>4. CASE Leave
  <2>1. UNCHANGED <<keysDown, heldKeys, asked>> /\ call.guard = {}
    BY <1>4 DEF Leave, NoEvent, Step, desktop, ledgers
  <2>2. Pressing = {} /\ Pressing' = {} /\ call'.guard = {}
    <3>1. CASE call' = NoCall
      BY <1>4, <3>1, NoCallFields DEF Leave, Pressing
    <3>2. CASE Goto("release")
      BY <1>0, <1>4, <3>2 DEF Leave, Goto, Pressing, Calls
    <3>3. QED
      BY <1>4, <3>1, <3>2 DEF Leave
  <2>3. QED
    BY <1>3, <2>1, <2>2
<1>5. CASE PressButton \/ ReleaseButton
  <2>1. UNCHANGED <<keysDown, heldKeys>> /\ asked \subseteq asked'
    BY <1>5 DEF PressButton, ReleaseButton, Step
  <2>2. \/ Goto("release") \/ Goto("unguard")
        \/ call' = [call EXCEPT !.left = @ - 1,
                      !.pc = IF call.left > 1 THEN "press" ELSE "unguard"]
    BY <1>5 DEF PressButton, ReleaseButton
  <2>3. /\ call'.guard = call.guard /\ call'.op = call.op
        /\ call'.pc \in {"press", "release", "unguard"}
    BY <1>0, <2>2 DEF Goto, Calls
  <2>4. call.pc \in {"press", "release"}
    BY <1>5 DEF PressButton, ReleaseButton, At
  <2>5. QED
    BY <1>3, <2>1, <2>3, <2>4 DEF Pressing
<1>6. CASE TapDown
  <2>1. PICK k \in Keys : k = Current
    BY <1>0, <1>6 DEF TapDown, At, Current, TypeOK, CallTypeOK, FrameOK, Calls
  <2>2. /\ call.op = "tap_chord" /\ call.pc = "key" /\ asked' = asked
        /\ Pressing = {}
    BY <1>6 DEF TapDown, At, Step, Pressing
  <2>3. CASE OnKeymap(k)
    <3>1. PressKey(k) /\ Goto("key_up")
      BY <1>6, <2>1, <2>3 DEF TapDown
    <3>2. Pressing' = {k} /\ call'.guard = call.guard
      BY <1>0, <2>1, <2>2, <3>1 DEF Goto, Pressing, Current, Calls
    <3>3. QED
      BY <1>0, <1>a, <2>2, <2>3, <3>1, <3>2, PressKept DEF PressKey, OnKeymap
  <2>4. CASE ~OnKeymap(k)
    <3>1. NoEvent /\ Goto("unguard")
      BY <1>6, <2>1, <2>4 DEF TapDown
    <3>2. Pressing' = {} /\ call'.guard = call.guard
      BY <1>0, <2>2, <3>1 DEF Goto, Pressing, Calls
    <3>3. QED
      BY <1>3, <2>2, <3>1, <3>2 DEF NoEvent, desktop, ledgers
  <2>5. QED
    BY <2>3, <2>4
<1>7. CASE TapUp
  <2>1. PICK k \in Keys : k = Current
    BY <1>0, <1>7 DEF TapUp, At, Current, TypeOK, CallTypeOK, FrameOK, Calls
  <2>2. /\ call.op = "tap_chord" /\ call.pc = "key_up" /\ asked' = asked
        /\ Pressing = {k}
    BY <1>7, <2>1 DEF TapUp, At, Step, Pressing, Current
  <2>3. ReleaseKey(k)
    BY <1>0, <1>7, <2>1, <2>2 DEF TapUp
  <2>4. \/ call' = [call EXCEPT !.pc = "key", !.at = @ + 1]
        \/ call' = [call EXCEPT !.pc = "key", !.at = 1, !.left = @ - 1]
        \/ call' = [call EXCEPT !.pc = "unguard"]
    BY <1>0, <1>7, <2>1, <2>2 DEF TapUp
  <2>5. call'.guard = call.guard /\ call'.op = call.op
        /\ call'.pc \in {"key", "unguard"}
    BY <1>0, <2>4 DEF Calls
  <2>6. Pressing' = {}
    BY <2>2, <2>5 DEF Pressing
  <2>7. QED
    BY <1>0, <1>a, <2>2, <2>3, <2>5, <2>6, ReleaseKept DEF ReleaseKey, OnKeymap
<1>8. CASE HoldDown
  <2>1. /\ call.op = "hold_chord" /\ call.pc = "key" /\ asked' = asked
        /\ Pressing = {call.keys[i] : i \in 1 .. call.at - 1}
    BY <1>8 DEF HoldDown, At, Step, Pressing
  <2>2. CASE call.at <= Len(call.keys) /\ OnKeymap(Current)
    <3>1. PICK k \in Keys : k = Current
      BY <1>0, <2>2 DEF Current, Calls
    <3>2. PressKey(k) /\ call' = [call EXCEPT !.at = @ + 1] /\ OnKeymap(k)
      BY <1>8, <2>2, <3>1 DEF HoldDown
    <3>3. /\ call'.op = "hold_chord" /\ call'.pc = "key"
          /\ call'.keys = call.keys /\ call'.at = call.at + 1
          /\ call'.guard = call.guard
      BY <1>0, <2>1, <3>2 DEF Calls
    <3>4. Pressing' = Pressing \cup {k}
      <4>1. call.at \in Nat \ {0}
        BY <1>0 DEF Calls
      <4>2. Pressing' = {call.keys[i] : i \in 1 .. call.at}
        BY <3>3, <4>1 DEF Pressing
      <4>3. 1 .. call.at = (1 .. call.at - 1) \cup {call.at}
        BY <4>1
      <4>4. QED
        BY <2>1, <3>1, <4>2, <4>3 DEF Current
    <3>5. QED
      BY <1>0, <1>a, <2>1, <3>2, <3>3, <3>4, PressKept DEF PressKey, OnKeymap
  <2>3. CASE ~(call.at <= Len(call.keys) /\ OnKeymap(Current))
    <3>1. NoEvent /\ Goto("key_up")
      BY <1>8, <2>3 DEF HoldDown
    <3>2. /\ call'.op = "hold_chord" /\ call'.pc = "key_up"
          /\ call'.keys = call.keys /\ call'.at = call.at
          /\ call'.guard = call.guard
      BY <1>0, <2>1, <3>1 DEF Goto, Calls
    <3>3. Pressing' = Pressing
      BY <2>1, <3>2 DEF Pressing
    <3>4. QED
      BY <1>0, <1>a, <2>1, <3>1, <3>2, <3>3
         DEF NoEvent, desktop, ledgers, OnKeymap, CodesOf
  <2>4. QED
    BY <2>2, <2>3
<1>9. CASE HoldUp
  <2>1. /\ call.op = "hold_chord" /\ call.pc = "key_up" /\ asked' = asked
        /\ Pressing = {call.keys[i] : i \in 1 .. call.at - 1}
        /\ call.at \in Nat \ {0}
    BY <1>0, <1>9 DEF HoldUp, At, Step, Pressing, Calls
  <2>2. CASE call.at > 1
    <3>1. PICK k \in Keys : k = call.keys[call.at - 1]
      BY <1>0, <2>1, <2>2
         DEF Calls, TypeOK, CallTypeOK, FrameOK
    <3>2. ReleaseKey(k) /\ call' = [call EXCEPT !.at = @ - 1]
      BY <1>0, <1>9, <2>1, <2>2, <3>1 DEF HoldUp
    <3>3. /\ call'.op = "hold_chord" /\ call'.pc = "key_up"
          /\ call'.keys = call.keys /\ call'.at = call.at - 1
          /\ call'.guard = call.guard
      BY <1>0, <2>1, <3>2 DEF Calls
    <3>4. Pressing \subseteq Pressing' \cup {k} /\ Pressing' \subseteq Pressing
      <4>1. Pressing' = {call.keys[i] : i \in 1 .. (call.at - 1) - 1}
        BY <3>3 DEF Pressing
      <4>2. 1 .. call.at - 1 = (1 .. (call.at - 1) - 1) \cup {call.at - 1}
        BY <2>1, <2>2
      <4>3. QED
        BY <2>1, <3>1, <4>1, <4>2
    <3>5. QED
      BY <1>0, <1>a, <2>1, <3>2, <3>3, <3>4, ReleaseKept
         DEF ReleaseKey, OnKeymap
  <2>3. CASE ~(call.at > 1)
    <3>1. NoEvent /\ Goto("unguard")
      BY <1>9, <2>3 DEF HoldUp
    <3>2. call'.pc = "unguard" /\ call'.guard = call.guard
      BY <1>0, <3>1 DEF Goto, Calls
    <3>3. Pressing = {} /\ Pressing' = {}
      BY <2>1, <2>3, <3>2 DEF Pressing
    <3>4. QED
      BY <1>3, <2>1, <3>1, <3>2, <3>3 DEF NoEvent, desktop, ledgers
  <2>4. QED
    BY <2>2, <2>3
<1>10. CASE TypeReturn \/ TypeReturnUp
  <2>1. /\ call.op = "type_text" /\ call.guard = {} /\ asked' = asked
        /\ Return \in Keys
    BY <1>10, KeysAssumption
       DEF TypeReturn, TypeReturnUp, Typed, At, Step, TypeOK, CallTypeOK, FrameOK
  <2>2. CASE call' = NoCall
    <3>1. NoEvent /\ Pressing = {}
      <4>1. NoCall.pc = "idle" /\ ~ Goto("return_up") /\ call' # Rest
        BY <1>0, <2>2, NoCallFields DEF Goto, Rest, Calls
      <4>2. TypeReturnUp => ~OnKeymap(Return) /\ call.pc = "return_up"
        BY <4>1 DEF TypeReturnUp, At
      <4>3. ~TypeReturnUp
        BY <1>0, <2>1, <4>2 DEF Pressing
      <4>4. QED
        BY <1>10, <2>1, <4>1, <4>3 DEF TypeReturn, Typed, At, Pressing
    <3>2. QED
      BY <1>3, <2>1, <2>2, <3>1, NoCallFields
         DEF NoEvent, desktop, ledgers, Pressing
  <2>3. CASE PressKey(Return) /\ Goto("return_up") /\ OnKeymap(Return)
    <3>1. call'.pc = "return_up" /\ call'.op = "type_text"
          /\ call'.guard = call.guard
      BY <1>0, <2>1, <2>3 DEF Goto, Calls
    <3>2. Pressing' = {Return} /\ Pressing \subseteq {Return}
      BY <2>1, <3>1 DEF Pressing
    <3>3. QED
      BY <1>0, <1>a, <2>1, <2>3, <3>1, <3>2, PressKept DEF PressKey, OnKeymap
  <2>4. CASE ReleaseKey(Return) /\ call' = Rest
    <3>1. call'.pc = "type" /\ call'.op = "type_text"
          /\ call'.guard = call.guard
      BY <1>0, <2>1, <2>4 DEF Rest, Calls
    <3>2. Pressing' = {} /\ Pressing \subseteq {Return}
      BY <2>1, <3>1 DEF Pressing
    <3>3. QED
      BY <1>0, <1>a, <2>1, <2>4, <3>1, <3>2, ReleaseKept
         DEF ReleaseKey, OnKeymap
  <2>5. QED
    BY <1>10, <2>2, <2>3, <2>4 DEF TypeReturn, TypeReturnUp
<1>11. CASE TypeChar \/ TypeRestore \/ TypeDone
  <2>1. /\ UNCHANGED <<keysDown, heldKeys, asked>>
        /\ call.pc = "type" /\ call.op = "type_text" /\ call.guard = {}
        /\ call' = Rest \/ call' = NoCall
    BY <1>11 DEF TypeChar, TypeRestore, TypeDone, Typed, At, Step, NoEvent,
                 desktop, ledgers, TypeOK, CallTypeOK, FrameOK
  <2>2. call'.guard = {} /\ call'.pc \in {"type", "idle"} /\ call'.op \in {"type_text", "none"}
    BY <1>0, <2>1, NoCallFields DEF Rest, Calls
  <2>3. QED
    BY <1>3, <2>1, <2>2 DEF Pressing
<1>12. CASE TouchBegin \/ TouchMove \/ TouchLift
  <2>1. /\ UNCHANGED <<keysDown, heldKeys, asked>>
        /\ call.op = "inject" /\ call.guard = {}
    BY <1>12 DEF TouchBegin, TouchMove, TouchLift, At, Step, NoEvent, Contacts,
                 desktop, ledgers, TypeOK, CallTypeOK, FrameOK
  <2>2. \/ call' = NoCall
        \/ \E pc \in {"touch_move", "touch_lift"} : Goto(pc)
        \/ call' = [call EXCEPT !.left = @ - 1,
                                !.pc = IF call.left > 1 THEN @ ELSE "touch_lift"]
    BY <1>12 DEF TouchBegin, TouchMove, TouchLift, Goto
  <2>3. call'.guard = {} /\ call'.pc # "return_up" /\ call'.op \in {"inject", "none"}
    <3>1. call.pc # "return_up"
      BY <1>12 DEF TouchBegin, TouchMove, TouchLift, At
    <3>2. QED
      BY <1>0, <2>1, <2>2, <3>1, NoCallFields DEF Goto, Calls
  <2>4. call.pc # "return_up"
    BY <1>12 DEF TouchBegin, TouchMove, TouchLift, At
  <2>5. QED
    BY <1>3, <2>1, <2>3, <2>4 DEF Pressing
<1>13. QED
  BY <1>1, <1>2, <1>4, <1>5, <1>6, <1>7, <1>8, <1>9, <1>10, <1>11, <1>12
     DEF TakeStep

-----------------------------------------------------------------------------
(***************************************************************************)
(* Buttons and contacts.  A step of any other kind moves no button and     *)
(* ends outside the points that InHand and the ledger speak of.            *)
(***************************************************************************)
LEMMA OtherSteps ==
  ASSUME TypeOK, TakeStep,
         ~(Leave \/ PressButton \/ ReleaseButton
           \/ TouchBegin \/ TouchMove \/ TouchLift)
  PROVE  /\ UNCHANGED <<buttonsDown, heldButtons, touching, asked>>
         /\ \/ /\ call'.op = call.op /\ call'.pc = call.pc
               /\ call'.button = call.button /\ call'.left = call.left
               /\ call'.points = call.points
            \/ /\ call.op \in {"tap_chord", "hold_chord", "type_text"}
               /\ call'.op \in {call.op, "none"}
               /\ call.pc \notin {"release", "touch_move", "touch_lift"}
               /\ call'.pc \notin {"release", "touch_move", "touch_lift", "gone"}
<1>0. call \in Calls
  BY DEF TypeOK, CallTypeOK, FrameOK
<1>1. CASE GuardPress \/ GuardRelease
  <2>1. \/ \E k : call' = [call EXCEPT !.todo = @ \ {k}, !.guard = @ \cup {k}]
        \/ \E k : call' = [call EXCEPT !.todo = @ \ {k}]
        \/ \E k : call' = [call EXCEPT !.guard = @ \ {k}]
    BY <1>1 DEF GuardPress, GuardRelease
  <2>2. /\ call'.op = call.op /\ call'.pc = call.pc
        /\ call'.button = call.button /\ call'.left = call.left
        /\ call'.points = call.points
    BY <1>0, <2>1 DEF Calls
  <2>3. QED
    BY <1>1, <2>2 DEF GuardPress, GuardRelease, PressKey, ReleaseKey, NoEvent,
                      Step, desktop, ledgers
<1>2. CASE TapDown \/ TapUp \/ HoldDown \/ HoldUp
  <2>1. /\ call.op \in {"tap_chord", "hold_chord"} /\ call.pc \in {"key", "key_up"}
        /\ \/ Goto("key_up") \/ Goto("unguard")
           \/ call' = [call EXCEPT !.pc = "key", !.at = @ + 1]
           \/ call' = [call EXCEPT !.pc = "key", !.at = 1, !.left = @ - 1]
           \/ call' = [call EXCEPT !.pc = "unguard"]
           \/ call' = [call EXCEPT !.at = @ + 1]
           \/ call' = [call EXCEPT !.at = @ - 1]
    BY <1>2 DEF TapDown, TapUp, HoldDown, HoldUp, At
  <2>2. call'.op = call.op /\ call'.pc \in {"key", "key_up", "unguard"}
    BY <1>0, <2>1 DEF Goto, Calls
  <2>3. UNCHANGED <<buttonsDown, heldButtons, touching, asked>>
    BY <1>2 DEF TapDown, TapUp, HoldDown, HoldUp, PressKey, ReleaseKey, NoEvent,
                Step, desktop, ledgers
  <2>4. QED
    BY <2>1, <2>2, <2>3
<1>3. CASE TypeChar \/ TypeReturn \/ TypeReturnUp \/ TypeRestore \/ TypeDone
  <2>1. /\ call.op = "type_text" /\ call.pc \in {"type", "return_up"}
        /\ call' = Rest \/ call' = NoCall \/ Goto("return_up")
    BY <1>3 DEF TypeChar, TypeReturn, TypeReturnUp, TypeRestore, TypeDone,
                Typed, At
  <2>2. call'.op \in {call.op, "none"} /\ call'.pc \in {"type", "return_up", "idle"}
    BY <1>0, <2>1, NoCallFields DEF Goto, Rest, Calls
  <2>3. UNCHANGED <<buttonsDown, heldButtons, touching, asked>>
    BY <1>3 DEF TypeChar, TypeReturn, TypeReturnUp, TypeRestore, TypeDone,
                PressKey, ReleaseKey, NoEvent, Step, desktop, ledgers
  <2>4. QED
    BY <2>1, <2>2, <2>3
<1>4. QED
  BY <1>1, <1>2, <1>3 DEF TakeStep

(* Steps are taken by calls in progress only. *)
LEMMA StepIsOfACall ==
  ASSUME TypeOK, TakeStep
  PROVE  ~Gone /\ ~Resting
<1>1. Gone \/ Resting => call.todo = {} /\ call.pc \in {"idle", "gone"}
  <2>1. Gone \/ Resting => call.op = "none"
    BY NoCallFields DEF TypeOK, CallTypeOK, FrameOK, Gone, Resting, Calls
  <2>2. QED
    BY <2>1 DEF TypeOK, CallTypeOK, FrameOK, Gone, Resting
<1>2. CASE GuardPress \/ GuardRelease \/ Leave
  BY <1>1, <1>2 DEF GuardPress, GuardRelease, Leave
<1>3. CASE PressButton \/ ReleaseButton \/ TapDown \/ TapUp \/ HoldDown \/ HoldUp
  BY <1>1, <1>3
     DEF PressButton, ReleaseButton, TapDown, TapUp, HoldDown, HoldUp, At
<1>4. CASE TypeChar \/ TypeReturn \/ TypeReturnUp \/ TypeRestore \/ TypeDone
  BY <1>1, <1>4
     DEF TypeChar, TypeReturn, TypeReturnUp, TypeRestore, TypeDone, Typed, At
<1>5. CASE TouchBegin \/ TouchMove \/ TouchLift
  BY <1>1, <1>5 DEF TouchBegin, TouchMove, TouchLift, At
<1>6. QED
  BY <1>2, <1>3, <1>4, <1>5 DEF TakeStep

(* Every step keeps the account of buttons and contacts, and returns. *)
LEMMA StepButtons == TypeOK /\ Inv /\ TakeStep => ButtonsInv' /\ TouchInv' /\ ~Gone'
<1> SUFFICES ASSUME TypeOK, Inv, TakeStep
             PROVE  ButtonsInv' /\ TouchInv' /\ ~Gone'
  OBVIOUS
<1>0. call \in Calls /\ faults' = faults /\ call.left \in Nat
  BY StepIsQuiet DEF TypeOK, CallTypeOK, FrameOK, Calls
<1>1. CASE ~(Leave \/ PressButton \/ ReleaseButton
             \/ TouchBegin \/ TouchMove \/ TouchLift)
  <2>1. ~Gone
    BY StepIsOfACall
  <2>2. QED
    BY <1>0, <1>1, <2>1, OtherSteps
       DEF Inv, ButtonsInv, TouchInv, InHand, FramesReach, MayFail, Gone
<1>2. CASE Leave
  <2>1. UNCHANGED <<buttonsDown, heldButtons, touching, asked>>
        /\ call.pc = "unguard"
    BY <1>2 DEF Leave, NoEvent, Step, desktop, ledgers
  <2>2. CASE call' = NoCall /\ ~(call.op = "long_press" /\ call.left > 0)
    BY <1>0, <2>1, <2>2, NoCallFields
       DEF Inv, ButtonsInv, TouchInv, InHand, FramesReach, MayFail, Gone
  <2>3. CASE Goto("release") /\ call.op = "long_press" /\ call.left > 0
    <3>1. /\ call'.pc = "release" /\ call'.op = call.op /\ call'.left = call.left
          /\ call'.button = call.button
      BY <1>0, <2>3 DEF Goto, Calls
    <3>2. QED
      BY <1>0, <2>1, <2>3, <3>1
         DEF Inv, ButtonsInv, TouchInv, InHand, FramesReach, MayFail, Gone
  <2>4. QED
    BY <1>2, <2>2, <2>3 DEF Leave
<1>3. CASE PressButton
  <2>1. call'.op = call.op /\ call'.button = call.button
        /\ call'.left = call.left /\ call'.pc = (IF call.op \in {"button_down", "long_press"} THEN "unguard" ELSE "release")
    BY <1>0, <1>3 DEF PressButton, Goto, Calls
  <2>2. call.left > 0 /\ call.pc = "press"
    BY <1>3 DEF PressButton, At, TypeOK, CallTypeOK, FrameOK
  <2>3. QED
    BY <1>0, <1>3, <2>1, <2>2
       DEF PressButton, At, Ledgered, Inv, ButtonsInv, TouchInv, InHand, FramesReach, MayFail, Gone
<1>4. CASE ReleaseButton
  <2>1. call.left > 0 /\ call.pc = "release"
    BY <1>4 DEF ReleaseButton, At, TypeOK, CallTypeOK, FrameOK
  <2>2. /\ call'.op = call.op /\ call'.button = call.button
        /\ call'.left = call.left - 1
        /\ call'.pc = IF call.left > 1 THEN "press" ELSE "unguard"
    BY <1>0, <1>4 DEF ReleaseButton, Calls
  <2>3. call'.pc \in {"press", "unguard"} /\ InHand' = {}
    BY <1>0, <2>1, <2>2 DEF InHand
  <2>4. UNCHANGED <<asked, touching>>
        /\ buttonsDown' = buttonsDown \ {call.button}
        /\ heldButtons' = IF call.op \in Ledgered
                          THEN heldButtons \ {call.button} ELSE heldButtons
    BY <1>4 DEF ReleaseButton, Step
  <2>5. heldButtons \subseteq asked \cup InHand
        /\ InHand \subseteq {call.button}
        /\ (InHand # {} => call.op \in Ledgered)
        /\ buttonsDown \subseteq heldButtons \cup {call.button}
    BY <2>1 DEF Inv, ButtonsInv, InHand, Ledgered
  <2>6. ButtonsInv'
    BY <2>3, <2>4, <2>5 DEF ButtonsInv
  <2>7. QED
    BY <1>0, <2>1, <2>3, <2>4, <2>6
       DEF Inv, TouchInv, FramesReach, MayFail, Gone
<1>5. CASE TouchBegin \/ TouchMove \/ TouchLift
  <2>1. /\ UNCHANGED <<buttonsDown, heldButtons, asked>>
        /\ call.op = "inject" /\ call.pc \in {"touch_begin", "touch_move", "touch_lift"}
        /\ \/ call' = NoCall \/ Goto("touch_move") \/ Goto("touch_lift")
           \/ call' = [call EXCEPT !.left = @ - 1,
                         !.pc = IF call.left > 1 THEN @ ELSE "touch_lift"]
    BY <1>5 DEF TouchBegin, TouchMove, TouchLift, At, Contacts, NoEvent, Step,
                Goto, desktop, ledgers
  <2>2. /\ call'.op \in {"inject", "none"}
        /\ call'.pc \in {"idle", "touch_begin", "touch_move", "touch_lift"}
    <3>1. CASE call' = NoCall
      BY <3>1, NoCallFields
    <3>2. CASE Goto("touch_move") \/ Goto("touch_lift")
      BY <1>0, <2>1, <3>2 DEF Goto, Calls
    <3>3. CASE call' = [call EXCEPT !.left = @ - 1,
                          !.pc = IF call.left > 1 THEN @ ELSE "touch_lift"]
      BY <1>0, <2>1, <3>3 DEF Calls
    <3>4. QED
      BY <2>1, <3>1, <3>2, <3>3
  <2>3. ButtonsInv' /\ ~Gone'
    BY <2>1, <2>2 DEF Inv, ButtonsInv, InHand, Gone
  <2>4. TouchInv'
    <3>1. SUFFICES ASSUME FramesReach
                   PROVE  touching' \subseteq
                            IF call'.pc \in {"touch_move", "touch_lift"}
                            THEN call'.points ELSE {}
      BY <1>0 DEF TouchInv, FramesReach, MayFail
    <3>2. CASE TouchBegin
      <4>1. touching' = touching \cup call.points /\ Goto("touch_move")
        BY <1>5, <3>1, <3>2 DEF TouchBegin, Reached, FramesReach
      <4>2. touching = {}
        BY <3>1, <3>2 DEF Inv, TouchInv, TouchBegin, At
      <4>3. call'.pc = "touch_move" /\ call'.points = call.points
        BY <1>0, <4>1 DEF Goto, Calls
      <4>4. QED
        BY <4>1, <4>2, <4>3
    <3>3. CASE TouchMove
      <4>1. touching' = touching /\ touching \subseteq call.points
        BY <3>1, <3>3
           DEF Inv, TouchInv, TouchMove, At, NoEvent, desktop
      <4>2. \/ Goto("touch_lift")
            \/ call' = [call EXCEPT !.left = @ - 1,
                          !.pc = IF call.left > 1 THEN @ ELSE "touch_lift"]
        BY <3>3 DEF TouchMove, Goto
      <4>3. call.pc = "touch_move"
        BY <3>3 DEF TouchMove, At
      <4>4. call'.pc \in {"touch_move", "touch_lift"}
            /\ call'.points = call.points
        BY <1>0, <4>2, <4>3 DEF Goto, Calls
      <4>5. QED
        BY <4>1, <4>4
    <3>4. CASE TouchLift
      <4>1. touching' = touching \ call.points /\ call' = NoCall
        BY <3>1, <3>4 DEF TouchLift, Reached, FramesReach
      <4>2. touching \subseteq call.points
        BY <3>1, <3>4 DEF Inv, TouchInv, TouchLift, At
      <4>3. QED
        BY <4>1, <4>2
    <3>5. QED
      BY <1>5, <3>2, <3>3, <3>4
  <2>5. QED
    BY <2>3, <2>4
<1>6. QED
  BY <1>1, <1>2, <1>3, <1>4, <1>5

-----------------------------------------------------------------------------
(* The account holds of every behaviour. *)
THEOREM InvHolds == Spec => []Inv
<1>1. Init => Inv
  <2> SUFFICES ASSUME Init PROVE Inv
    OBVIOUS
  <2>1. Pressing = {} /\ InHand = {} /\ ~Gone /\ call.guard = {}
    BY NoCallFields DEF Init, InputInit, Pressing, InHand, Gone
  <2>2. QED
    BY <2>1 DEF Init, InputInit, Inv, KeysInv, ButtonsInv, TouchInv,
                ShutdownLeavesNothingDown
<1>2. TypeOK /\ Inv /\ [Next]_vars => Inv'
  <2> SUFFICES ASSUME TypeOK, Inv, [Next]_vars PROVE Inv'
    OBVIOUS
  <2>1. CASE StartCall
    BY <2>1, StartInv
  <2>2. CASE TakeStep
    BY <2>2, StepKeys, StepButtons DEF Inv, ShutdownLeavesNothingDown
  <2>3. CASE SwitchKeymap
    <3>1. UNCHANGED <<desktop, ledgers, asked, call, faults>> /\ ~Gone
      BY <2>3 DEF SwitchKeymap
    <3>2. Pressing' = Pressing /\ InHand' = InHand /\ ~Gone'
      BY <3>1 DEF Pressing, InHand, Gone
    <3>3. KeysInv'
      <4>1. KeymapStable => Resting /\ heldKeys = {}
        BY <2>3 DEF SwitchKeymap, KeymapStable
      <4>2. KeymapStable => keysDown = {} /\ call.guard = {} /\ Pressing = {}
        BY <4>1, RestingHolds, NoCallFields DEF CodesOf
      <4>3. QED
        BY <3>1, <3>2, <4>1, <4>2
           DEF KeysInv, KeymapStable, MayFail, desktop, ledgers
    <3>4. QED
      BY <3>1, <3>2, <3>3
         DEF Inv, ButtonsInv, TouchInv, ShutdownLeavesNothingDown, FramesReach,
             MayFail, desktop, ledgers
  <2>4. CASE UNCHANGED vars
    BY <2>4
       DEF vars, desktop, ledgers, platform, Inv, KeysInv, ButtonsInv,
           TouchInv, ShutdownLeavesNothingDown, KeymapStable, FramesReach,
           MayFail, Pressing, InHand, Gone, CodesOf, OnKeymap
  <2>5. QED
    BY <2>1, <2>2, <2>3, <2>4 DEF Next
<1>3. QED
  BY <1>1, <1>2, TypeCorrect, PTL DEF Spec

(***************************************************************************)
(* After the last release_all nothing is down (README: "Every held button, *)
(* key and touch contact is released on shutdown"), for every set of keys, *)
(* keymap and sequence of calls.                                           *)
(***************************************************************************)
THEOREM ReleasedOnShutdown == Spec => []ShutdownLeavesNothingDown
BY InvHolds, PTL DEF Inv

(***************************************************************************)
(* Between calls nothing is down that the client has not asked for: every  *)
(* path out of every call lets go of what the call pressed.                *)
(***************************************************************************)
THEOREM NothingElseStaysDown == Spec => []OnlyAskedForStaysDown
<1>1. TypeOK /\ Inv => OnlyAskedForStaysDown
  BY RestingHolds DEF OnlyAskedForStaysDown, CodesOf
<1>2. QED
  BY <1>1, TypeCorrect, InvHolds, PTL


-----------------------------------------------------------------------------
(***************************************************************************)
(* The modifiers of a call.  Only the guard's two steps move a modifier;   *)
(* a button's event comes when all of them have left todo.                 *)
(***************************************************************************)
LEMMA GuardInvNext == TypeOK /\ GuardInv /\ [Next]_vars => GuardInv'
<1> SUFFICES ASSUME TypeOK, GuardInv, [Next]_vars PROVE GuardInv'
  OBVIOUS
<1>0. FrameOK(call) /\ call \in Calls
  BY DEF TypeOK, CallTypeOK, FrameOK
<1>1. ASSUME NEW c, StartsWell(c), Begin(c) PROVE GuardInv'
  BY <1>1 DEF StartsWell, Fresh, Begin, Start, GuardInv
<1>2. ASSUME call' = NoCall \/ (call' = call /\ Resting) PROVE GuardInv'
  <2>1. call' = NoCall
    BY <1>0, <1>2 DEF FrameOK, Resting
  <2>2. QED
    BY <2>1, NoCallFields DEF GuardInv
<1>3. CASE StartCall
  <2>1. ASSUME \/ \E b \in Buttons : ButtonUp(b)
               \/ \E k \in Keys : KeyDown(k) \/ KeyUp(k)
               \/ ReleaseAll
        PROVE  GuardInv'
    BY <1>2, <2>1 DEF ButtonUp, KeyDown, KeyUp, ReleaseAll
  <2>2. CASE Shutdown
    <3>1. call'.pc = "gone" /\ call'.todo = {} /\ call'.guard = {}
      BY <1>0, <2>2, NoCallFields DEF Shutdown, Goto, Resting, FrameOK, Calls
    <3>2. QED
      BY <3>1 DEF GuardInv
  <2>3. QED
    BY <1>1, <1>3, <2>1, <2>2, CallsStartWell
<1>4. CASE GuardPress
  <2>1. PICK k \in call.todo :
          IF OnKeymap(k)
          THEN /\ PressKey(k)
               /\ call' = [call EXCEPT !.todo = @ \ {k}, !.guard = @ \cup {k}]
          ELSE /\ NoEvent
               /\ call' = [call EXCEPT !.todo = @ \ {k}]
    BY <1>4 DEF GuardPress
  <2>2. /\ call'.op = call.op /\ call'.pc = call.pc /\ call'.mods = call.mods
        /\ call'.todo = call.todo \ {k}
        /\ call'.guard \subseteq call.guard \cup {k}
    BY <1>0, <2>1 DEF Calls
  <2>3. /\ keysDown \subseteq keysDown'
        /\ OnKeymap(k) => keymap[k] \in keysDown'
    BY <2>1 DEF PressKey, NoEvent, desktop
  <2>4. QED
    BY <1>4, <2>2, <2>3, StepIsQuiet
       DEF TakeStep, GuardInv, KeymapStable, MayFail, OnKeymap
<1>5. CASE GuardRelease
  <2>1. /\ call'.pc = "unguard" /\ call'.mods = call.mods
        /\ call'.todo = call.todo /\ call'.guard \subseteq call.guard
    BY <1>0, <1>5 DEF GuardRelease, Calls
  <2>2. QED
    BY <2>1 DEF GuardInv
<1>6. CASE PressButton \/ ReleaseButton
  <2>1. \/ Goto("release") \/ Goto("unguard")
        \/ call' = [call EXCEPT !.left = @ - 1,
                      !.pc = IF call.left > 1 THEN "press" ELSE "unguard"]
    BY <1>6 DEF PressButton, ReleaseButton
  <2>2. /\ call'.op = call.op /\ call'.mods = call.mods
        /\ call'.todo = call.todo /\ call'.guard = call.guard
    BY <1>0, <2>1 DEF Goto, Calls
  <2>3. keysDown' = keysDown /\ call.pc \in {"press", "release"}
    BY <1>6 DEF PressButton, ReleaseButton, At
  <2>4. QED
    BY <1>6, <2>2, <2>3, StepIsQuiet
       DEF TakeStep, GuardInv, KeymapStable, MayFail, OnKeymap
<1>7. ASSUME NEW pc \in {"key", "key_up", "unguard", "type", "return_up",
                         "touch_move", "touch_lift"},
             call'.pc = pc, call'.mods = call.mods, call'.todo = call.todo,
             call'.guard = call.guard
      PROVE  GuardInv'
  BY <1>7 DEF GuardInv
<1>8. CASE Leave
  <2>1. CASE call.op = "long_press" /\ Goto("release")
    <3>1. /\ call'.op = "long_press" /\ call'.mods = call.mods
          /\ call'.todo = call.todo /\ call'.guard = call.guard
      BY <1>0, <2>1 DEF Goto, Calls
    <3>2. QED
      BY <3>1 DEF GuardInv
  <2>2. QED
    BY <1>2, <1>8, <2>1 DEF Leave
<1>9. CASE TapDown \/ TapUp \/ HoldDown \/ HoldUp
  <2>1. /\ call.pc \in {"key", "key_up"}
        /\ \/ Goto("key_up") \/ Goto("unguard")
           \/ call' = [call EXCEPT !.pc = "key", !.at = @ + 1]
           \/ call' = [call EXCEPT !.pc = "key", !.at = 1, !.left = @ - 1]
           \/ call' = [call EXCEPT !.pc = "unguard"]
           \/ call' = [call EXCEPT !.at = @ + 1]
           \/ call' = [call EXCEPT !.at = @ - 1]
    BY <1>9 DEF TapDown, TapUp, HoldDown, HoldUp, At
  <2>2. /\ call'.pc \in {"key", "key_up", "unguard"} /\ call'.mods = call.mods
        /\ call'.todo = call.todo /\ call'.guard = call.guard
    BY <1>0, <2>1 DEF Goto, Calls
  <2>3. QED
    BY <1>7, <2>2
<1>10. CASE TypeChar \/ TypeReturn \/ TypeReturnUp \/ TypeRestore \/ TypeDone
  <2>1. call' = Rest \/ call' = NoCall \/ Goto("return_up")
    BY <1>10 DEF TypeChar, TypeReturn, TypeReturnUp, TypeRestore, TypeDone
  <2>2. ASSUME call' # NoCall
        PROVE  /\ call'.pc \in {"type", "return_up"} /\ call'.mods = call.mods
               /\ call'.todo = call.todo /\ call'.guard = call.guard
    BY <1>0, <2>1, <2>2 DEF Goto, Rest, Calls
  <2>3. QED
    BY <1>2, <1>7, <2>2
<1>11. CASE TouchBegin \/ TouchMove \/ TouchLift
  <2>1. /\ call.pc \in {"touch_begin", "touch_move", "touch_lift"}
        /\ \/ call' = NoCall \/ Goto("touch_move") \/ Goto("touch_lift")
           \/ /\ call.pc = "touch_move"
              /\ call' = [call EXCEPT !.left = @ - 1,
                            !.pc = IF call.left > 1 THEN @ ELSE "touch_lift"]
    BY <1>11 DEF TouchBegin, TouchMove, TouchLift, At, Goto
  <2>2. ASSUME call' # NoCall
        PROVE  /\ call'.pc \in {"touch_move", "touch_lift"}
               /\ call'.mods = call.mods
               /\ call'.todo = call.todo /\ call'.guard = call.guard
    BY <1>0, <2>1, <2>2 DEF Goto, Calls
  <2>3. QED
    BY <1>2, <1>7, <2>2
<1>12. CASE SwitchKeymap
  <2>1. call' = call /\ faults' = faults /\ (KeymapStable => Resting)
    BY <1>12 DEF SwitchKeymap, KeymapStable
  <2>2. QED
    BY <2>1 DEF GuardInv, KeymapStable, MayFail, Resting
<1>13. CASE UNCHANGED vars
  BY <1>13 DEF vars, desktop, platform, GuardInv, KeymapStable, MayFail, OnKeymap
<1>14. QED
  BY <1>3, <1>4, <1>5, <1>6, <1>8, <1>9, <1>10, <1>11, <1>12, <1>13
     DEF Next, TakeStep

LEMMA GuardInvHolds == Spec => []GuardInv
<1>1. Init => GuardInv
  BY NoCallFields DEF Init, InputInit, GuardInv
<1>2. QED
  BY <1>1, GuardInvNext, TypeCorrect, PTL DEF Spec

(***************************************************************************)
(* A modifier named in a click, a scroll or a stroke is down when the      *)
(* button comes up again ("Held for the duration of the action"), for      *)
(* every number of modifiers, clicks and detents.                          *)
(***************************************************************************)
THEOREM ModifiersAreHeldThroughout == Spec => []ModifiersSpanThePress
<1>1. GuardInv => ModifiersSpanThePress
  BY DEF GuardInv, ModifiersSpanThePress, At
<1>2. QED
  BY <1>1, GuardInvHolds, PTL


(* The indices of a chord's keys that its calls can be at. *)
LEMMA ChordKeysAreNamed ==
  ASSUME TypeOK, GuardInv
  PROVE  /\ call.guard \subseteq Named \cap Keys
         /\ call.op = "tap_chord" => Current \in Named \cap Keys
         /\ call.at > 1 => call.keys[call.at - 1] \in Named \cap Keys
         /\ call.op = "type_text" => Return \in Named \cap Keys
<1>1. /\ call.keys \in Seq(Keys) /\ call.at \in Nat \ {0}
      /\ call.at <= Len(call.keys) + 1
      /\ call.op = "tap_chord" => call.at <= Len(call.keys)
      /\ call.guard \subseteq ModifierKeys
  BY DEF TypeOK, CallTypeOK, FrameOK, Calls
<1>2. /\ call.op = "tap_chord" => call.at \in DOMAIN call.keys
      /\ call.at > 1 => call.at - 1 \in DOMAIN call.keys
  BY <1>1
<1>3. \A i \in DOMAIN call.keys : call.keys[i] \in Named \cap Keys
  BY <1>1 DEF Named
<1>4. QED
  BY <1>1, <1>2, <1>3, KeysAssumption DEF Named, Current, GuardInv

(***************************************************************************)
(* A call lets go of no key and no button but those its own arguments      *)
(* name: its guard was filled from mods, its taps come from its chord.     *)
(***************************************************************************)
THEOREM OthersAreLeftAlone == Spec => LetsGoOnlyOfWhatItNames
<1> DEFINE Keeps == ~Resting => /\ keysDown \ keysDown' \subseteq CodesOf(Named)
                               /\ buttonsDown \ buttonsDown' \subseteq {call.button}
<1>1. TypeOK /\ GuardInv /\ [Next]_vars => [Keeps]_vars
  <2> SUFFICES ASSUME TypeOK, GuardInv, Next, ~Resting PROVE Keeps
    OBVIOUS
  <2>1. ASSUME NEW k \in Named \cap Keys,
               UNCHANGED <<keysDown, buttonsDown>> \/ ReleaseKey(k)
        PROVE  Keeps
    BY <2>1 DEF ReleaseKey, CodesOf
  <2>2. CASE StartCall
    <3>1. \/ Resting
          \/ \E b \in Buttons : ButtonUp(b)
          \/ \E k \in Keys : KeyDown(k) \/ KeyUp(k)
          \/ ReleaseAll \/ Shutdown
      BY <2>2, CallsStartWell DEF Begin, Start
    <3>2. QED
      BY <3>1 DEF ButtonUp, KeyDown, KeyUp, ReleaseAll, Shutdown
  <2>3. CASE GuardPress \/ TapDown \/ HoldDown \/ TypeReturn
    <3>1. keysDown \subseteq keysDown' /\ buttonsDown' = buttonsDown
      BY <2>3 DEF GuardPress, TapDown, HoldDown, TypeReturn, PressKey, NoEvent,
                  desktop
    <3>2. QED
      BY <3>1
  <2>4. CASE GuardRelease
    BY <2>1, <2>4, ChordKeysAreNamed DEF GuardRelease, NoEvent, desktop
  <2>5. CASE PressButton \/ ReleaseButton
    BY <2>5 DEF PressButton, ReleaseButton
  <2>6. CASE TapUp
    BY <2>1, <2>6, ChordKeysAreNamed DEF TapUp, At, NoEvent, desktop
  <2>7. CASE HoldUp
    <3>1. \/ UNCHANGED <<keysDown, buttonsDown>>
          \/ call.at > 1 /\ ReleaseKey(call.keys[call.at - 1])
      BY <2>7 DEF HoldUp, NoEvent, desktop
    <3>2. QED
      BY <2>1, <3>1, ChordKeysAreNamed
  <2>8. CASE TypeReturnUp
    BY <2>1, <2>8, ChordKeysAreNamed DEF TypeReturnUp, At, NoEvent, desktop
  <2>9. CASE \/ Leave \/ TypeChar \/ TypeRestore \/ TypeDone
             \/ TouchBegin \/ TouchMove \/ TouchLift \/ SwitchKeymap
    BY <2>9 DEF Leave, TypeChar, TypeRestore, TypeDone, TouchBegin, TouchMove,
                TouchLift, SwitchKeymap, NoEvent, Contacts, desktop
  <2>10. QED
    BY <2>2, <2>3, <2>4, <2>5, <2>6, <2>7, <2>8, <2>9 DEF Next, TakeStep
<1>2. QED
  BY <1>1, TypeCorrect, GuardInvHolds, PTL DEF Spec, LetsGoOnlyOfWhatItNames


-----------------------------------------------------------------------------
(***************************************************************************)
(* What is to come of a text, an item later: the restoration that follows  *)
(* a character is still there, and so is any that has not been reached.    *)
(***************************************************************************)
Pending(text) == \E j \in DOMAIN text : text[j] = "restore"

LEMMA TailRestores ==
  ASSUME NEW text \in Seq(TextItems), text # <<>>, Restores(text)
  PROVE  /\ Restores(Tail(text))
         /\ Head(text) = "char" => Pending(Tail(text))
         /\ Head(text) # "restore" /\ Pending(text) => Pending(Tail(text))
<1>1. /\ Len(text) \in Nat \ {0} /\ DOMAIN text = 1 .. Len(text)
      /\ DOMAIN Tail(text) = 1 .. Len(text) - 1
      /\ \A i \in 1 .. Len(text) - 1 : Tail(text)[i] = text[i + 1]
      /\ Head(text) = text[1]
  BY HeadTailProperties
<1>2. \A j \in DOMAIN text : j > 1 /\ text[j] = "restore" => Pending(Tail(text))
  <2> SUFFICES ASSUME NEW j \in DOMAIN text, j > 1, text[j] = "restore"
               PROVE  Pending(Tail(text))
    OBVIOUS
  <2>1. j - 1 \in DOMAIN Tail(text) /\ Tail(text)[j - 1] = "restore"
    BY <1>1
  <2>2. QED
    BY <2>1 DEF Pending
<1>3. Restores(Tail(text))
  <2> SUFFICES ASSUME NEW i \in DOMAIN Tail(text), Tail(text)[i] = "char"
               PROVE  \E j \in DOMAIN Tail(text) :
                        j > i /\ Tail(text)[j] = "restore"
    BY DEF Restores
  <2>1. i + 1 \in DOMAIN text /\ text[i + 1] = "char" /\ i \in Nat
    BY <1>1
  <2>2. PICK j \in DOMAIN text : j > i + 1 /\ text[j] = "restore"
    BY <2>1 DEF Restores
  <2>3. j - 1 \in DOMAIN Tail(text) /\ j - 1 > i /\ Tail(text)[j - 1] = "restore"
    BY <1>1, <2>1, <2>2
  <2>4. QED
    BY <2>3
<1>4. Head(text) = "char" => Pending(Tail(text))
  BY <1>1, <1>2 DEF Restores
<1>5. Head(text) # "restore" /\ Pending(text) => Pending(Tail(text))
  BY <1>1, <1>2 DEF Pending
<1>6. QED
  BY <1>3, <1>4, <1>5

(* Typing keeps to its text, and the keycode it borrows to its restoration. *)
LEMMA TypingInvNext == TypeOK /\ TypingInv /\ [Next]_vars => TypingInv'
<1> SUFFICES ASSUME TypeOK, TypingInv, [Next]_vars PROVE TypingInv'
  OBVIOUS
<1>0. FrameOK(call) /\ call \in Calls
  BY DEF TypeOK, CallTypeOK, FrameOK
<1>1. CASE StartCall
  <2>1. ASSUME NEW c, StartsWell(c), Begin(c) PROVE TypingInv'
    <3>1. call' = c /\ bound' = bound
      BY <2>1 DEF Begin, Start, platform
    <3>2. QED
      BY <2>1, <3>1 DEF StartsWell, TypingInv
  <2>2. CASE ~\E c : StartsWell(c) /\ Begin(c)
    <3>1. /\ Resting
          /\ call' = call \/ Goto("gone")
      BY <1>1, <2>2, CallsStartWell
         DEF ButtonUp, KeyDown, KeyUp, ReleaseAll, Shutdown
    <3>2. call = NoCall
      BY <1>0, <3>1 DEF FrameOK, Resting
    <3>3. call'.op = "none"
      BY <1>0, <3>1, <3>2, NoCallFields DEF Goto, Calls
    <3>4. QED
      BY <3>3 DEF TypingInv
  <2>3. QED
    BY <2>1, <2>2
<1>2. ASSUME call.op = "type_text", call.pc \in {"type", "return_up"},
             call.text # <<>>, call' = Rest,
             \/ Head(call.text) = "restore" /\ bound' = bound \ {call.spare}
             \/ Head(call.text) = "char"
             \/ Head(call.text) = "newline" /\ bound' = bound
      PROVE  TypingInv'
  <2>1. call.text \in Seq(TextItems)
    BY <1>0 DEF Calls
  <2>2. /\ call'.pc = "type" /\ call'.spare = call.spare
        /\ call'.text = Tail(call.text)
    BY <1>0, <1>2 DEF Rest, Calls
  <2>3. Restores(call'.text)
    BY <1>2, <2>1, <2>2, TailRestores DEF TypingInv
  <2>4. call.spare \in bound' => Pending(call'.text)
    BY <1>2, <2>1, <2>2, TailRestores DEF TypingInv, Pending
  <2>5. QED
    BY <2>2, <2>3, <2>4 DEF TypingInv, Pending
<1>3. CASE TypeChar \/ TypeRestore
  BY <1>2, <1>3 DEF TypeChar, TypeRestore, Typed, At
<1>4. ASSUME call' = NoCall PROVE TypingInv'
  BY <1>4, NoCallFields DEF TypingInv
<1>5. CASE TypeReturn
  <2>1. CASE OnKeymap(Return)
    <3>1. /\ call'.op = "type_text" /\ call'.pc = "return_up"
          /\ call'.text = call.text /\ call'.spare = call.spare
          /\ Head(call.text) = "newline" /\ bound' = bound
      BY <1>0, <1>5, <2>1
         DEF TypeReturn, Typed, At, Goto, Calls, Step, platform
    <3>2. QED
      BY <1>5, <3>1 DEF TypingInv, TypeReturn, Typed, At
  <2>2. QED
    BY <1>4, <1>5, <2>1 DEF TypeReturn
<1>6. CASE TypeReturnUp
  <2>1. /\ call.op = "type_text" /\ call.pc = "return_up"
        /\ call.text # <<>> /\ Head(call.text) = "newline" /\ bound' = bound
    BY <1>0, <1>6 DEF TypeReturnUp, At, Step, platform, FrameOK, TypingInv
  <2>2. QED
    BY <1>2, <1>4, <1>6, <2>1 DEF TypeReturnUp
<1>7. CASE TypeDone
  BY <1>4, <1>7 DEF TypeDone
<1>8. ASSUME call.op # "type_text",
             call' = NoCall \/ call'.op = call.op
      PROVE  TypingInv'
  BY <1>4, <1>8 DEF TypingInv
<1>9. CASE GuardPress \/ GuardRelease
  <2>1. call.op # "type_text"
    BY <1>0, <1>9 DEF GuardPress, GuardRelease, FrameOK
  <2>2. \/ \E k : call' = [call EXCEPT !.todo = @ \ {k}, !.guard = @ \cup {k}]
        \/ \E k : call' = [call EXCEPT !.todo = @ \ {k}]
        \/ \E k : call' = [call EXCEPT !.guard = @ \ {k}]
    BY <1>9 DEF GuardPress, GuardRelease
  <2>3. call'.op = call.op
    BY <1>0, <2>2 DEF Calls
  <2>4. QED
    BY <1>8, <2>1, <2>3
<1>10. CASE \/ Leave \/ PressButton \/ ReleaseButton
            \/ TapDown \/ TapUp \/ HoldDown \/ HoldUp
            \/ TouchBegin \/ TouchMove \/ TouchLift
  <2>1. call.op # "type_text"
    BY <1>10 DEF TypingInv, Leave, PressButton, ReleaseButton, TapDown, TapUp,
                 HoldDown, HoldUp, TouchBegin, TouchMove, TouchLift, At
  <2>2. \/ call' = NoCall
        \/ \E pc : Goto(pc)
        \/ \E pc, at : call' = [call EXCEPT !.pc = pc, !.at = at]
        \/ \E at : call' = [call EXCEPT !.at = at]
        \/ \E pc, at, left :
             call' = [call EXCEPT !.pc = pc, !.at = at, !.left = left]
        \/ \E pc, left : call' = [call EXCEPT !.left = left, !.pc = pc]
    BY <1>10 DEF Leave, PressButton, ReleaseButton, TapDown, TapUp, HoldDown,
                 HoldUp, TouchBegin, TouchMove, TouchLift, Goto
  <2>3. call' = NoCall \/ call'.op = call.op
    BY <1>0, <2>2 DEF Goto, Calls
  <2>4. QED
    BY <1>8, <2>1, <2>3
<1>11. CASE SwitchKeymap
  <2>1. call' = call /\ bound' \subseteq bound
    BY <1>11 DEF SwitchKeymap
  <2>2. QED
    BY <2>1 DEF TypingInv
<1>12. CASE UNCHANGED vars
  BY <1>12 DEF vars, platform, TypingInv
<1>13. QED
  BY <1>1, <1>3, <1>5, <1>6, <1>7, <1>9, <1>10, <1>11, <1>12 DEF Next, TakeStep

LEMMA TypingInvHolds == Spec => []TypingInv
<1>1. Init => TypingInv
  BY NoCallFields DEF Init, InputInit, TypingInv
<1>2. QED
  BY <1>1, TypingInvNext, TypeCorrect, PTL DEF Spec

(***************************************************************************)
(* type_text hands back the keycode it borrowed for characters outside the *)
(* keymap, at the end of every text, unless it gave up at a newline for    *)
(* which the keymap had no Return.                                         *)
(***************************************************************************)
THEOREM SpareComesBack == Spec => SpareIsHandedBack
<1> DEFINE HandsBack ==
  call.op = "type_text" /\ call' = NoCall /\ call.spare \in bound'
    => ~OnKeymap(Return)
<1>1. TypeOK /\ TypingInv /\ [Next]_vars => [HandsBack]_vars
  <2> SUFFICES ASSUME TypeOK, TypingInv, Next, call.op = "type_text",
                      call' = NoCall, call.spare \in bound', OnKeymap(Return)
               PROVE  FALSE
    BY Zenon
  <2>0. FrameOK(call) /\ call \in Calls /\ ~Resting
    BY NoCallFields DEF TypeOK, CallTypeOK, FrameOK, Resting
  <2>1. CASE StartCall
    <3>1. \/ Resting \/ \E b \in Buttons : ButtonUp(b)
          \/ \E k \in Keys : KeyDown(k) \/ KeyUp(k)
          \/ ReleaseAll \/ Shutdown
      BY <2>1, CallsStartWell DEF Begin, Start
    <3>2. QED
      BY <2>0, <3>1 DEF ButtonUp, KeyDown, KeyUp, ReleaseAll, Shutdown
  <2>2. CASE TypeDone
    <3>1. call.text = <<>> /\ bound' = bound
      BY <2>2 DEF TypeDone, Step, platform
    <3>2. QED
      BY <3>1 DEF TypingInv
  <2>3. CASE \/ TypeChar \/ TypeRestore \/ TypeReturn \/ TypeReturnUp
    <3>1. call' = Rest \/ Goto("return_up")
      BY <2>3 DEF TypeChar, TypeRestore, TypeReturn, TypeReturnUp
    <3>2. call'.pc \in {"type", "return_up"}
      BY <2>0, <3>1 DEF Rest, Goto, Calls
    <3>3. QED
      BY <3>2, NoCallFields
  <2>4. CASE GuardPress \/ GuardRelease
    BY <2>0, <2>4 DEF GuardPress, GuardRelease, FrameOK
  <2>5. CASE \/ Leave \/ PressButton \/ ReleaseButton
             \/ TapDown \/ TapUp \/ HoldDown \/ HoldUp
             \/ TouchBegin \/ TouchMove \/ TouchLift
    BY <2>5 DEF TypingInv, Leave, PressButton, ReleaseButton, TapDown, TapUp,
                HoldDown, HoldUp, TouchBegin, TouchMove, TouchLift, At
  <2>6. CASE SwitchKeymap
    BY <2>0, <2>6, NoCallFields DEF SwitchKeymap, Resting
  <2>7. QED
    BY <2>1, <2>2, <2>3, <2>4, <2>5, <2>6 DEF Next, TakeStep
<1>2. QED
  BY <1>1, TypeCorrect, TypingInvHolds, PTL DEF Spec, SpareIsHandedBack
=============================================================================
