---------------------------- MODULE WindowsInput ----------------------------
(***************************************************************************)
(* src/platform/windows/input_windows.cpp: SendInput for the pointer and   *)
(* the keyboard, InjectTouchInput for contacts.                            *)
(*                                                                         *)
(* The system may refuse any event, above all while a window of a process  *)
(* with more rights has the focus.  What may be refused, and is a member   *)
(* of faults in the behaviours that have it: "press" and "release", events *)
(* of a key or a button; "last", those of release_all; "batch", part of    *)
(* the events of a text; "begin", "move" and "lift", a frame of contacts,  *)
(* which InjectTouchInput takes as a whole or not at all.                  *)
(*                                                                         *)
(* A key here is a physical key: the guard's VK_CONTROL is the left-hand   *)
(* key, as its scan code says, and "packet" is the key that               *)
(* KEYEVENTF_UNICODE presses.                                              *)
(***************************************************************************)
EXTENDS InputBackend

CONSTANTS
  NoVk,         \* the keys for which to_vk has no virtual key
  ShellChords,  \* what shell_swipe taps, a subset of Chords
  Control       \* Key::LeftControl

ASSUME VkAssumption ==
  /\ NoVk \subseteq Keys \ (ModifierKeys \cup {Return})
  /\ ShellChords \subseteq Chords
  /\ Control \in ModifierKeys
  /\ "packet" \notin Keys

VARIABLE touchReady  \* rigid: InitializeTouchInjection succeeded

vars == <<desktop, ledgers, asked, call, faults, touchReady>>

Init == InputInit /\ touchReady \in BOOLEAN

-----------------------------------------------------------------------------
(***************************************************************************)
(* The calls.  GetCursorPos and the motion that leads up to a click, a     *)
(* scroll or a stroke may be refused too: such a call returns before it    *)
(* has pressed anything, a step that changes nothing.                      *)
(***************************************************************************)
Begin(c) == Start(c) /\ UNCHANGED touchReady

Click(b, mods, n) == Begin(Pointing("click", b, mods, n))
ButtonDown(b, mods) == Begin(Pointing("button_down", b, mods, 1))
ButtonUp(b, mods) ==
  Begin([Pointing("button_up", b, mods, 1) EXCEPT !.pc = "release"])
Scroll(mods, n) == Begin(Pointing("scroll", "wheel", mods, n))
Stroke(b, mods) == Begin(Pointing("stroke", b, mods, 1))
TapChord(c, n) == Begin(Chording("tap_chord", c, n))
HoldChord(c) == Begin(Chording("hold_chord", c, 1))

(* Mutant of PressKey: the ledger does not hear of the key. *)
PressKeyUnnoted(k) ==
  /\ keysDown' = keysDown \cup {k}
  /\ UNCHANGED <<buttonsDown, touching, ledgers>>

(* key_event: the ledger follows the event, and only an event that is sent. *)
PressKey(k) ==
  /\ keysDown' = keysDown \cup {k}
  /\ heldKeys' = heldKeys \cup {k}
  /\ UNCHANGED <<buttonsDown, touching, heldButtons, contactsDown>>

ReleaseKey(k) ==
  /\ keysDown' = keysDown \ {k}
  /\ heldKeys' = heldKeys \ {k}
  /\ UNCHANGED <<buttonsDown, touching, heldButtons, contactsDown>>

NoEvent == UNCHANGED <<desktop, ledgers>>
Refused(event, k) == MayFail(event) \/ k \in NoVk
Sent(k) == k \notin NoVk

KeyDown(k) ==
  /\ Resting
  /\ Sent(k)
  /\ PressKey(k)
  /\ asked' = asked \cup {k}
  /\ UNCHANGED <<call, faults, touchReady>>

KeyUp(k) ==
  /\ Resting
  /\ Sent(k)
  /\ ReleaseKey(k)
  /\ asked' = asked \ {k}
  /\ UNCHANGED <<call, faults, touchReady>>

(***************************************************************************)
(* type_text sends the text in batches of whole strokes, a newline as a    *)
(* stroke of Return, and notes none of it in the ledger.  A batch that is  *)
(* cut short may end inside a stroke.                                      *)
(***************************************************************************)
Stroked(text) ==
  {IF item = "newline" THEN Return ELSE "packet" :
     item \in {text[i] : i \in DOMAIN text}}

TypeText(text, enter) ==
  /\ Resting
  /\ \/ /\ keysDown' = keysDown \ Stroked(text)
        /\ call' = IF enter THEN [NoCall EXCEPT !.op = "tap_chord", !.pc = "key",
                                                !.keys = <<Return>>, !.left = 1]
                            ELSE call
     \/ /\ MayFail("batch")
        /\ \E gone \in SUBSET Stroked(text), stuck \in SUBSET Stroked(text) :
             /\ Cardinality(stuck) <= 1
             /\ keysDown' = (keysDown \ gone) \cup stuck
        /\ UNCHANGED call
  /\ UNCHANGED <<buttonsDown, touching, ledgers, asked, faults, touchReady>>

(***************************************************************************)
(* gesture.  A swipe of three fingers or more is handed to the shell's     *)
(* shortcuts before the support for contacts is asked for, and where       *)
(* require_native forbids that it is refused, because gesture_support      *)
(* calls it emulated.                                                      *)
(***************************************************************************)
ShellSwipe(kind, fingers) == kind \in {"swipe", "edge_swipe"} /\ fingers >= 3

Inject(kind, fingers) ==
  /\ touchReady
  /\ ~ShellSwipe(kind, fingers)
  /\ fingers <= Slots
  /\ \E n \in 1 .. MaxSteps : Begin(Touching(kind, fingers, n))

Emulate(kind, mods) ==
  /\ ~touchReady
  /\ \/ kind = "tap" /\ Click("left", mods, 1)
     \/ kind = "long_press" /\ Begin(Pointing("long_press", "left", mods, 1))
     \/ /\ kind = "pinch"
        /\ \E n \in 1 .. MaxRepeat : Scroll(mods \cup {Control}, n)

Gesture(kind, fingers, mods, native) ==
  \/ /\ ~native /\ ShellSwipe(kind, fingers)
     /\ \E c \in ShellChords : TapChord(c, 1)
  \/ Inject(kind, fingers)
  \/ ~native /\ ~ShellSwipe(kind, fingers) /\ Emulate(kind, mods)

-----------------------------------------------------------------------------
(***************************************************************************)
(* The steps of a call.  ModifierGuard sends its events past the ledger    *)
(* and never looks at what became of them.  press() has one around every   *)
(* button event of its own; scroll and the chords have one in all.         *)
(***************************************************************************)
At(ops, pc) == call.op \in ops /\ call.pc = pc /\ call.todo = {}
Goto(pc) == call' = [call EXCEPT !.pc = pc]
Step == UNCHANGED <<asked, faults, touchReady>>
Pointer == UNCHANGED <<keysDown, touching, heldKeys, contactsDown>>

GuardPress ==
  \E k \in call.todo :
    /\ \/ keysDown' = keysDown \cup {k}
       \/ MayFail("press") /\ UNCHANGED keysDown
    /\ call' = [call EXCEPT !.todo = @ \ {k}, !.guard = @ \cup {k}]
    /\ UNCHANGED <<buttonsDown, touching, ledgers>>
    /\ Step

GuardRelease ==
  /\ call.pc \in {"pressed", "released", "unguard"}
  /\ \E k \in call.guard :
       /\ \/ keysDown' = keysDown \ {k}
          \/ MayFail("release") /\ UNCHANGED keysDown
       /\ call' = [call EXCEPT !.guard = @ \ {k}]
  /\ UNCHANGED <<buttonsDown, touching, ledgers>>
  /\ Step

Pressers == {"click", "button_down", "stroke", "long_press"}

PressButton ==
  /\ At(Pressers, "press")
  /\ \/ buttonsDown' = buttonsDown \cup {call.button} /\ Goto("pressed")
     \/ MayFail("press") /\ UNCHANGED buttonsDown /\ Goto("unguard")
  /\ UNCHANGED heldButtons
  /\ Pointer
  /\ Step

(* A stroke whose release is refused goes on as if it had not been. *)
ReleaseButton ==
  /\ At(Pressers \cup {"button_up"}, "release")
  /\ \/ buttonsDown' = buttonsDown \ {call.button} /\ Goto("released")
     \/ /\ MayFail("release")
        /\ UNCHANGED buttonsDown
        /\ Goto(IF call.op = "stroke" THEN "released" ELSE "unguard")
  /\ UNCHANGED heldButtons
  /\ Pointer
  /\ Step

Ledgered == Pressers \ {"click"}

(* Mutant of Pressed: the release goes without modifiers. *)
PressedBare ==
  /\ call.pc = "pressed" /\ call.guard = {}
  /\ heldButtons' = IF call.op \in Ledgered
                    THEN heldButtons \cup {call.button} ELSE heldButtons
  /\ IF call.op = "button_down"
     THEN call' = NoCall /\ asked' = asked \cup {call.button}
     ELSE Goto("release") /\ UNCHANGED asked
  /\ UNCHANGED <<buttonsDown, faults, touchReady>>
  /\ Pointer

(* press() has returned: the ledger, and the modifiers of the release. *)
Pressed ==
  /\ call.pc = "pressed" /\ call.guard = {}
  /\ heldButtons' = IF call.op \in Ledgered
                    THEN heldButtons \cup {call.button} ELSE heldButtons
  /\ IF call.op = "button_down"
     THEN call' = NoCall /\ asked' = asked \cup {call.button}
     ELSE /\ call' = [call EXCEPT !.pc = "release", !.todo = call.mods]
          /\ UNCHANGED asked
  /\ UNCHANGED <<buttonsDown, faults, touchReady>>
  /\ Pointer

Released ==
  /\ call.pc = "released" /\ call.guard = {}
  /\ heldButtons' = IF call.op = "click"
                    THEN heldButtons ELSE heldButtons \ {call.button}
  /\ asked' = IF call.op = "button_up" THEN asked \ {call.button} ELSE asked
  /\ call' = IF call.left > 1
             THEN [call EXCEPT !.pc = "press", !.left = @ - 1,
                               !.todo = call.mods]
             ELSE NoCall
  /\ UNCHANGED <<buttonsDown, faults, touchReady>>
  /\ Pointer

Leave ==
  /\ call.pc = "unguard" /\ call.guard = {}
  /\ call' = NoCall
  /\ NoEvent
  /\ Step

TurnWheel ==
  /\ At({"scroll"}, "press")
  /\ \/ call' = [call EXCEPT !.left = @ - 1,
                             !.pc = IF call.left > 1 THEN @ ELSE "unguard"]
     \/ MayFail("press") /\ Goto("unguard")
  /\ NoEvent
  /\ Step

(***************************************************************************)
(* tap_chord gives up at the first event that is refused; hold_chord lets  *)
(* go of what it has pressed, keys[1 .. at - 1], whatever becomes of it.   *)
(***************************************************************************)
Current == call.keys[call.at]

TapDown ==
  /\ At({"tap_chord"}, "key")
  /\ \/ Sent(Current) /\ PressKey(Current) /\ Goto("key_up")
     \/ Refused("press", Current) /\ NoEvent /\ Goto("unguard")
  /\ Step

(* Mutant of TapUp: the ledger is told before the event is refused. *)
TapUpForgets ==
  /\ At({"tap_chord"}, "key_up")
  /\ heldKeys' = heldKeys \ {Current}
  /\ \/ keysDown' = keysDown \ {Current}
     \/ Refused("release", Current) /\ UNCHANGED keysDown
  /\ Goto("unguard")
  /\ UNCHANGED <<buttonsDown, touching, heldButtons, contactsDown>>
  /\ Step

TapUp ==
  /\ At({"tap_chord"}, "key_up")
  /\ \/ /\ ReleaseKey(Current)
        /\ call' =
             IF call.at < Len(call.keys)
             THEN [call EXCEPT !.pc = "key", !.at = @ + 1]
             ELSE IF call.left > 1
             THEN [call EXCEPT !.pc = "key", !.at = 1, !.left = @ - 1]
             ELSE [call EXCEPT !.pc = "unguard"]
     \/ Refused("release", Current) /\ NoEvent /\ Goto("unguard")
  /\ Step

(* Mutant of HoldDown: a press that is refused returns at once. *)
HoldDownReturns ==
  /\ At({"hold_chord"}, "key")
  /\ IF call.at > Len(call.keys) THEN NoEvent /\ Goto("key_up")
     ELSE \/ /\ Sent(Current)
             /\ PressKey(Current)
             /\ call' = [call EXCEPT !.at = @ + 1]
          \/ Refused("press", Current) /\ NoEvent /\ Goto("unguard")
  /\ Step

HoldDown ==
  /\ At({"hold_chord"}, "key")
  /\ IF call.at > Len(call.keys) THEN NoEvent /\ Goto("key_up")
     ELSE \/ /\ Sent(Current)
             /\ PressKey(Current)
             /\ call' = [call EXCEPT !.at = @ + 1]
          \/ Refused("press", Current) /\ NoEvent /\ Goto("key_up")
  /\ Step

HoldUp ==
  /\ At({"hold_chord"}, "key_up")
  /\ IF call.at = 1 THEN NoEvent /\ Goto("unguard")
     ELSE /\ \/ ReleaseKey(call.keys[call.at - 1])
             \/ MayFail("release") /\ NoEvent
          /\ call' = [call EXCEPT !.at = @ - 1]
  /\ Step

(***************************************************************************)
(* inject.  The lift is always sent, its result never looked at.           *)
(***************************************************************************)
Contacts == UNCHANGED <<keysDown, buttonsDown, heldKeys, heldButtons>>

TouchBegin ==
  /\ At({"inject"}, "touch_begin")
  /\ \/ /\ touching' = touching \cup call.points
        /\ contactsDown' = call.fingers
        /\ Goto("touch_move")
     \/ MayFail("begin") /\ UNCHANGED <<touching, contactsDown>> /\ call' = NoCall
  /\ Contacts
  /\ Step

TouchMove ==
  /\ At({"inject"}, "touch_move")
  /\ \/ call' = [call EXCEPT !.left = @ - 1,
                             !.pc = IF call.left > 1 THEN @ ELSE "touch_lift"]
     \/ MayFail("move") /\ Goto("touch_lift")
  /\ NoEvent
  /\ Step

TouchLift ==
  /\ At({"inject"}, "touch_lift")
  /\ \/ touching' = touching \ call.points
     \/ MayFail("lift") /\ UNCHANGED touching
  /\ contactsDown' = 0
  /\ call' = NoCall
  /\ Contacts
  /\ Step

-----------------------------------------------------------------------------
(***************************************************************************)
(* release_all tries each entry of the ledgers once, ignores what becomes  *)
(* of it, and clears them.  Between calls there are no contacts to lift.   *)
(***************************************************************************)
Lost(ledger) == IF MayFail("last") THEN SUBSET ledger ELSE {{}}

LetGoOfLedger ==
  /\ \E lost \in Lost(heldKeys) : keysDown' = keysDown \ (heldKeys \ lost)
  /\ \E lost \in Lost(heldButtons) :
       buttonsDown' = buttonsDown \ (heldButtons \ lost)
  /\ touching' = touching \ (0 .. contactsDown - 1)
  /\ heldKeys' = {} /\ heldButtons' = {} /\ contactsDown' = 0
  /\ asked' = {}
  /\ UNCHANGED <<faults, touchReady>>

ReleaseAll == Resting /\ LetGoOfLedger /\ UNCHANGED call

(* ~WinInput, when the session goes. *)
Shutdown == Resting /\ LetGoOfLedger /\ Goto("gone")

StartCall ==
  \/ \E b \in Buttons, mods \in SUBSET ModifierKeys :
       \/ \E n \in 1 .. MaxRepeat : Click(b, mods, n)
       \/ ButtonDown(b, mods)
       \/ ButtonUp(b, mods)
       \/ Stroke(b, mods)
  \/ \E mods \in SUBSET ModifierKeys, n \in 1 .. MaxRepeat : Scroll(mods, n)
  \/ \E k \in Keys : KeyDown(k) \/ KeyUp(k)
  \/ \E c \in Chords : HoldChord(c) \/ \E n \in 1 .. MaxRepeat : TapChord(c, n)
  \/ \E text \in Texts, enter \in BOOLEAN : TypeText(text, enter)
  \/ \E kind \in GestureKinds, fingers \in FingerCounts,
        mods \in SUBSET ModifierKeys, native \in BOOLEAN :
       Gesture(kind, fingers, mods, native)
  \/ ReleaseAll
  \/ Shutdown

TakeStep ==
  \/ GuardPress \/ GuardRelease \/ Leave
  \/ PressButton \/ Pressed \/ ReleaseButton \/ Released \/ TurnWheel
  \/ TapDown \/ TapUp \/ HoldDown \/ HoldUp
  \/ TouchBegin \/ TouchMove \/ TouchLift

Next == StartCall \/ TakeStep

(* The one thread of the server runs the call it is in to its end. *)
Spec == Init /\ [][Next]_vars /\ WF_vars(TakeStep)

-----------------------------------------------------------------------------
(* Type correctness of the backend and of the desktop. *)
TypeOK ==
  /\ CallTypeOK
  /\ LedgersTypeOK
  /\ keysDown \subseteq Keys \cup {"packet"}
  /\ buttonsDown \subseteq Buttons
  /\ touching \subseteq 0 .. Slots - 1
  /\ touchReady \in BOOLEAN

Delivered(events) == events \cap faults = {}

(***************************************************************************)
(* After the last release_all nothing is down, as long as the releases     *)
(* that the backend relies on get through.  Presses may be refused at any  *)
(* point of any call.                                                      *)
(***************************************************************************)
ShutdownLeavesNothingDown ==
  Gone => /\ Delivered({"release", "last", "batch"}) => keysDown = {}
          /\ Delivered({"release", "last"}) => buttonsDown = {}
          /\ Delivered({"lift"}) => touching = {}

(***************************************************************************)
(* Between calls only what the client asked for is down, as long as        *)
(* releases get through.                                                   *)
(***************************************************************************)
OnlyAskedForStaysDown ==
  Resting => /\ Delivered({"release", "last", "batch"}) => keysDown \subseteq asked
             /\ Delivered({"release", "last"}) => buttonsDown \subseteq asked
             /\ Delivered({"lift"}) => touching = {}

(***************************************************************************)
(* A key pressed by a chord or held for the client is in the ledger for as *)
(* long as it is down, whatever is refused and wherever a call gives up:   *)
(* release_all will try it.                                                *)
(***************************************************************************)
ChordKeysAreInTheLedger ==
  Delivered({"batch", "last"}) => keysDown \ ModifierKeys \subseteq heldKeys

(***************************************************************************)
(* Every event of a button is sent with its modifiers down, unless their   *)
(* own presses were refused.                                               *)
(***************************************************************************)
ModifiersAroundEachEvent ==
  Delivered({"press"}) /\ call.pc \in {"press", "release"} /\ call.todo = {}
    => call.mods \subseteq keysDown
=============================================================================
