----------------------------- MODULE LinuxInput -----------------------------
(***************************************************************************)
(* src/platform/linux/input_linux.cpp: XTest for the pointer and the       *)
(* keyboard, a virtual uinput touchscreen for contacts.                    *)
(*                                                                         *)
(* XTest events cannot fail once the display is open.  What can go wrong   *)
(* on this platform, and is a member of faults in the behaviours that have *)
(* it: "keymap", the user replaces the keymap at any moment; "begin",      *)
(* "move" and "lift", the writes of a touch frame fail part-way.  Without  *)
(* "keymap" the user replaces the keymap only while nothing is held.       *)
(***************************************************************************)
EXTENDS InputBackend

CONSTANTS
  Codes,     \* X keycodes
  Spares,    \* those of them that no keymap in play binds
  Keymaps,   \* the keymaps in play, functions from keys to keycodes
  Control    \* Key::LeftControl

(* What XKeysymToKeycode answers for a keysym that is not on the keymap. *)
NoCode == 0

ASSUME CodesAssumption ==
  /\ Codes \subseteq Nat \ {NoCode}
  /\ Spares \subseteq Codes
  /\ Keymaps \subseteq [Keys -> (Codes \ Spares) \cup {NoCode}]
  /\ Control \in ModifierKeys

VARIABLES
  keymap,     \* the keymap, as XKeysymToKeycode sees it
  bound,      \* spare keycodes this process has bound to a character
  touchReady  \* rigid: /dev/uinput could be opened

platform == <<keymap, bound, touchReady>>
vars == <<desktop, ledgers, asked, call, faults, platform>>

Init ==
  /\ InputInit
  /\ keymap \in Keymaps
  /\ bound = {}
  /\ touchReady \in BOOLEAN

-----------------------------------------------------------------------------
(***************************************************************************)
(* One event each.  key_event looks the keycode up again at every event,   *)
(* and sends nothing if the keymap has none.                               *)
(***************************************************************************)
OnKeymap(k) == keymap[k] # NoCode

PressKey(k) ==
  /\ keysDown' = keysDown \cup {keymap[k]}
  /\ heldKeys' = heldKeys \cup {k}
  /\ UNCHANGED <<buttonsDown, touching, heldButtons, contactsDown>>

ReleaseKey(k) ==
  /\ keysDown' = keysDown \ {keymap[k]}
  /\ heldKeys' = heldKeys \ {k}
  /\ UNCHANGED <<buttonsDown, touching, heldButtons, contactsDown>>

NoEvent == UNCHANGED <<desktop, ledgers>>

(***************************************************************************)
(* UinputTouch::frame writes contact by contact and looks only at the      *)
(* result of the closing sync: a frame whose writes fail has reached any   *)
(* of its contacts, whatever it reports.                                   *)
(***************************************************************************)
Reached(frame) == IF MayFail(frame) THEN SUBSET call.points ELSE {call.points}

-----------------------------------------------------------------------------
(***************************************************************************)
(* The calls.  When XQueryPointer fails, click, scroll and stroke return   *)
(* before they have sent anything: a step that changes nothing.            *)
(***************************************************************************)
Begin(c) == Start(c) /\ UNCHANGED platform

Click(b, mods, n) == Begin(Pointing("click", b, mods, n))
ButtonDown(b, mods) == Begin(Pointing("button_down", b, mods, 1))
Scroll(mods, n) == Begin(Pointing("scroll", "wheel", mods, n))
Stroke(b, mods) == Begin(Pointing("stroke", b, mods, 1))
TapChord(c, n) == Begin(Chording("tap_chord", c, n))
HoldChord(c) == Begin(Chording("hold_chord", c, 1))

ButtonUp(b) ==
  /\ Resting
  /\ buttonsDown' = buttonsDown \ {b}
  /\ heldButtons' = heldButtons \ {b}
  /\ asked' = asked \ {b}
  /\ UNCHANGED <<keysDown, touching, heldKeys, contactsDown, call, faults,
                 platform>>

KeyDown(k) ==
  /\ Resting
  /\ OnKeymap(k)
  /\ PressKey(k)
  /\ asked' = asked \cup {k}
  /\ UNCHANGED <<call, faults, platform>>

KeyUp(k) ==
  /\ Resting
  /\ OnKeymap(k)
  /\ ReleaseKey(k)
  /\ asked' = asked \ {k}
  /\ UNCHANGED <<call, faults, platform>>

(* find_spare_keycode: a keycode with no keysym, or the call fails. *)
TypeText(text, enter) ==
  \E s \in Spares \ bound : Begin([Typing(text, enter) EXCEPT !.spare = s])

(***************************************************************************)
(* gesture: the answer of gesture_support decides between contacts, a      *)
(* substitute made of pointer events, and an error that changes nothing.   *)
(***************************************************************************)
Inject(kind, fingers) ==
  /\ touchReady
  /\ fingers <= Slots
  /\ \E n \in 1 .. MaxSteps : Begin(Touching(kind, fingers, n))

Emulate(kind, fingers, mods) ==
  /\ ~touchReady
  /\ \/ kind = "tap" /\ Click("left", mods, 1)
     \/ kind = "long_press" /\ Begin(Pointing("long_press", "left", mods, 1))
     \/ /\ kind \in {"pinch", "smart_zoom"}
        /\ \E n \in 1 .. MaxRepeat : Scroll(mods \cup {Control}, n)
     \/ /\ kind = "swipe" /\ fingers <= 2
        /\ \E n \in 1 .. MaxRepeat : Scroll(mods, n)

Gesture(kind, fingers, mods, native) ==
  \/ Inject(kind, fingers)
  \/ ~native /\ Emulate(kind, fingers, mods)

-----------------------------------------------------------------------------
(***************************************************************************)
(* The steps of a call.  The constructor of ModifierGuard runs first, its  *)
(* destructor on every way out.                                            *)
(***************************************************************************)
At(ops, pc) == call.op \in ops /\ call.pc = pc /\ call.todo = {}
Goto(pc) == call' = [call EXCEPT !.pc = pc]
Step == UNCHANGED <<asked, faults, platform>>

GuardPress ==
  \E k \in call.todo :
    /\ IF OnKeymap(k)
       THEN /\ PressKey(k)
            /\ call' = [call EXCEPT !.todo = @ \ {k}, !.guard = @ \cup {k}]
       ELSE /\ NoEvent
            /\ call' = [call EXCEPT !.todo = @ \ {k}]
    /\ Step

(* Mutant of GuardRelease: the guard's scope ends at once. *)
GuardReleaseEarly ==
  /\ call.todo = {}
  /\ \E k \in call.guard :
       /\ IF OnKeymap(k) THEN ReleaseKey(k) ELSE NoEvent
       /\ call' = [call EXCEPT !.guard = @ \ {k}]
  /\ Step

(* Mutant of GuardRelease: it lets go of every key in the ledger. *)
GuardReleaseLedger ==
  /\ call.pc = "unguard"
  /\ \E k \in call.guard :
       /\ keysDown' = keysDown \ {keymap[h] : h \in heldKeys}
       /\ heldKeys' = {}
       /\ call' = [call EXCEPT !.guard = @ \ {k}]
  /\ UNCHANGED <<buttonsDown, touching, heldButtons, contactsDown>>
  /\ Step

GuardRelease ==
  /\ call.pc = "unguard"
  /\ \E k \in call.guard :
       /\ IF OnKeymap(k) THEN ReleaseKey(k) ELSE NoEvent
       /\ call' = [call EXCEPT !.guard = @ \ {k}]
  /\ Step

(* A long press is button_down, a sleep, then button_up without a guard. *)
Leave ==
  /\ call.pc = "unguard"
  /\ call.guard = {}
  /\ IF call.op = "long_press" /\ call.left > 0
     THEN Goto("release") ELSE call' = NoCall
  /\ NoEvent
  /\ Step

Ledgered == {"button_down", "stroke", "long_press"}

PressButton ==
  /\ At({"click", "scroll", "button_down", "stroke", "long_press"}, "press")
  /\ buttonsDown' = buttonsDown \cup {call.button}
  /\ heldButtons' = IF call.op \in Ledgered
                    THEN heldButtons \cup {call.button} ELSE heldButtons
  /\ asked' = IF call.op = "button_down"
              THEN asked \cup {call.button} ELSE asked
  /\ Goto(IF call.op \in {"button_down", "long_press"}
          THEN "unguard" ELSE "release")
  /\ UNCHANGED <<keysDown, touching, heldKeys, contactsDown, faults, platform>>

ReleaseButton ==
  /\ At({"click", "scroll", "stroke", "long_press"}, "release")
  /\ buttonsDown' = buttonsDown \ {call.button}
  /\ heldButtons' = IF call.op \in Ledgered
                    THEN heldButtons \ {call.button} ELSE heldButtons
  /\ call' = [call EXCEPT !.left = @ - 1,
                          !.pc = IF call.left > 1 THEN "press" ELSE "unguard"]
  /\ UNCHANGED <<keysDown, touching, heldKeys, contactsDown>>
  /\ Step

(***************************************************************************)
(* tap_chord, and the Return that type_text taps with it.  A key that is   *)
(* not on the keymap ends the call.                                        *)
(***************************************************************************)
Current == call.keys[call.at]

TapDown ==
  /\ At({"tap_chord"}, "key")
  /\ IF OnKeymap(Current)
     THEN PressKey(Current) /\ Goto("key_up")
     ELSE NoEvent /\ Goto("unguard")
  /\ Step

(* Mutant of TapUp: the repeats are not counted down. *)
TapUpForever ==
  /\ At({"tap_chord"}, "key_up")
  /\ IF OnKeymap(Current)
     THEN /\ ReleaseKey(Current)
          /\ call' = [call EXCEPT !.pc = "key",
                        !.at = IF @ < Len(call.keys) THEN @ + 1 ELSE 1]
     ELSE NoEvent /\ Goto("unguard")
  /\ Step

TapUp ==
  /\ At({"tap_chord"}, "key_up")
  /\ IF OnKeymap(Current)
     THEN /\ ReleaseKey(Current)
          /\ call' =
               IF call.at < Len(call.keys)
               THEN [call EXCEPT !.pc = "key", !.at = @ + 1]
               ELSE IF call.left > 1
               THEN [call EXCEPT !.pc = "key", !.at = 1, !.left = @ - 1]
               ELSE [call EXCEPT !.pc = "unguard"]
     ELSE NoEvent /\ Goto("unguard")
  /\ Step

(* hold_chord: keys[1 .. at - 1] are its vector pressed. *)
HoldDown ==
  /\ At({"hold_chord"}, "key")
  /\ IF call.at <= Len(call.keys) /\ OnKeymap(Current)
     THEN PressKey(Current) /\ call' = [call EXCEPT !.at = @ + 1]
     ELSE NoEvent /\ Goto("key_up")
  /\ Step

(* Mutant of HoldUp: the first key of the chord is never reached. *)
HoldUpOffByOne ==
  /\ At({"hold_chord"}, "key_up")
  /\ IF call.at > 2
     THEN LET k == call.keys[call.at - 1] IN
          /\ IF OnKeymap(k) THEN ReleaseKey(k) ELSE NoEvent
          /\ call' = [call EXCEPT !.at = @ - 1]
     ELSE NoEvent /\ Goto("unguard")
  /\ Step

HoldUp ==
  /\ At({"hold_chord"}, "key_up")
  /\ IF call.at > 1
     THEN LET k == call.keys[call.at - 1] IN
          /\ IF OnKeymap(k) THEN ReleaseKey(k) ELSE NoEvent
          /\ call' = [call EXCEPT !.at = @ - 1]
     ELSE NoEvent /\ Goto("unguard")
  /\ Step

(***************************************************************************)
(* type_text: each character is bound to the spare keycode, which is       *)
(* pressed and released in one flush; a newline is a tap of Return, and    *)
(* its failure returns without the restoring XChangeKeyboardMapping.       *)
(***************************************************************************)
Rest == [call EXCEPT !.pc = "type", !.text = Tail(@)]
Typed(item) == At({"type_text"}, "type") /\ call.text # <<>>
               /\ Head(call.text) = item

TypeChar ==
  /\ Typed("char")
  /\ bound' = bound \cup {call.spare}
  /\ call' = Rest
  /\ NoEvent
  /\ UNCHANGED <<asked, faults, keymap, touchReady>>

TypeReturn ==
  /\ Typed("newline")
  /\ IF OnKeymap(Return)
     THEN PressKey(Return) /\ Goto("return_up")
     ELSE NoEvent /\ call' = NoCall
  /\ Step

TypeReturnUp ==
  /\ At({"type_text"}, "return_up")
  /\ IF OnKeymap(Return)
     THEN ReleaseKey(Return) /\ call' = Rest
     ELSE NoEvent /\ call' = NoCall
  /\ Step

(* Mutant of TypeRestore: the mapping is not put back. *)
TypeKeepsSpare ==
  /\ Typed("restore")
  /\ call' = Rest
  /\ NoEvent
  /\ Step

TypeRestore ==
  /\ Typed("restore")
  /\ bound' = bound \ {call.spare}
  /\ call' = Rest
  /\ NoEvent
  /\ UNCHANGED <<asked, faults, keymap, touchReady>>

TypeDone ==
  /\ At({"type_text"}, "type")
  /\ call.text = <<>>
  /\ call' = NoCall
  /\ NoEvent
  /\ Step

(***************************************************************************)
(* inject.  The lift is always written, its result never looked at.        *)
(***************************************************************************)
Contacts == UNCHANGED <<keysDown, buttonsDown, heldKeys, heldButtons>>

TouchBegin ==
  /\ At({"inject"}, "touch_begin")
  /\ \E part \in Reached("begin") : touching' = touching \cup part
  /\ \/ contactsDown' = call.fingers /\ Goto("touch_move")
     \/ MayFail("begin") /\ UNCHANGED contactsDown /\ call' = NoCall
  /\ Contacts
  /\ Step

TouchMove ==
  /\ At({"inject"}, "touch_move")
  /\ call' \in {[call EXCEPT !.left = @ - 1,
                             !.pc = IF call.left > 1 THEN @ ELSE "touch_lift"]}
               \cup IF MayFail("move")
                    THEN {[call EXCEPT !.pc = "touch_lift"]} ELSE {}
  /\ NoEvent
  /\ Step

TouchLift ==
  /\ At({"inject"}, "touch_lift")
  /\ \E part \in Reached("lift") : touching' = touching \ part
  /\ contactsDown' = 0
  /\ call' = NoCall
  /\ Contacts
  /\ Step

-----------------------------------------------------------------------------
(* Mutant of LetGoOfLedger: the buttons' ledger is cleared, not let go of. *)
ForgetButtons ==
  /\ keysDown' = keysDown \ {keymap[k] : k \in heldKeys}
  /\ touching' = touching \ (0 .. contactsDown - 1)
  /\ heldKeys' = {} /\ heldButtons' = {} /\ contactsDown' = 0
  /\ asked' = {}
  /\ UNCHANGED <<buttonsDown, faults, platform>>

(***************************************************************************)
(* release_all: every ledger entry is let go of, with no look at whether   *)
(* that worked, and the ledgers are cleared.  Between calls contacts_down_ *)
(* is zero, so its lift of the contacts never has any to lift.             *)
(***************************************************************************)
LetGoOfLedger ==
  /\ keysDown' = keysDown \ {keymap[k] : k \in heldKeys}
  /\ buttonsDown' = buttonsDown \ heldButtons
  /\ touching' = touching \ (0 .. contactsDown - 1)
  /\ heldKeys' = {} /\ heldButtons' = {} /\ contactsDown' = 0
  /\ asked' = {}
  /\ UNCHANGED <<faults, platform>>

ReleaseAll == Resting /\ LetGoOfLedger /\ UNCHANGED call

(* ~LinuxInput, when the session goes; the kernel removes the touchscreen. *)
Shutdown ==
  /\ Resting
  /\ LetGoOfLedger
  /\ Goto("gone")

(* The user replaces the keymap, and with it, or not, what was bound in it. *)
SwitchKeymap ==
  /\ MayFail("keymap") \/ (Resting /\ heldKeys = {})
  /\ ~Gone
  /\ keymap' \in Keymaps
  /\ bound' \in {bound, {}}
  /\ UNCHANGED <<desktop, ledgers, asked, call, faults, touchReady>>

-----------------------------------------------------------------------------
StartCall ==
  \/ \E b \in Buttons, mods \in SUBSET ModifierKeys :
       \/ \E n \in 1 .. MaxRepeat : Click(b, mods, n)
       \/ ButtonDown(b, mods)
       \/ Stroke(b, mods)
  \/ \E b \in Buttons : ButtonUp(b)
  \/ \E mods \in SUBSET ModifierKeys, n \in 1 .. MaxRepeat : Scroll(mods, n)
  \/ \E k \in Keys : KeyDown(k) \/ KeyUp(k)
  \/ \E c \in Chords : HoldChord(c) \/ \E n \in 1 .. MaxRepeat : TapChord(c, n)
  \/ \E text \in Texts, enter \in BOOLEAN : TypeText(text, enter)
  \/ \E kind \in GestureKinds, fingers \in FingerCounts,
        mods \in SUBSET ModifierKeys, native \in BOOLEAN :
       Gesture(kind, fingers, mods, native)
  \/ ReleaseAll
  \/ Shutdown

TakeStep ==
  \/ GuardPress \/ GuardRelease \/ Leave
  \/ PressButton \/ ReleaseButton
  \/ TapDown \/ TapUp \/ HoldDown \/ HoldUp
  \/ TypeChar \/ TypeReturn \/ TypeReturnUp \/ TypeRestore \/ TypeDone
  \/ TouchBegin \/ TouchMove \/ TouchLift

Next == StartCall \/ TakeStep \/ SwitchKeymap

(* The one thread of the server runs the call it is in to its end. *)
Spec == Init /\ [][Next]_vars /\ WF_vars(TakeStep)

-----------------------------------------------------------------------------
(* Type correctness of the backend and of the desktop. *)
TypeOK ==
  /\ CallTypeOK
  /\ LedgersTypeOK
  /\ keysDown \subseteq Codes
  /\ buttonsDown \subseteq Buttons \cup {"wheel"}
  /\ touching \subseteq 0 .. Slots - 1
  /\ keymap \in Keymaps
  /\ bound \subseteq Spares
  /\ touchReady \in BOOLEAN
  /\ call.op = "type_text" => call.spare \in Spares

CodesOf(held) == {keymap[k] : k \in held \cap Keys}
KeymapStable == ~MayFail("keymap")
FramesReach  == ~MayFail("begin") /\ ~MayFail("lift")

(***************************************************************************)
(* "Every held button, key and touch contact is released on shutdown"      *)
(* (README): once release_all has run for the last time nothing this       *)
(* process pressed is still down.                                          *)
(***************************************************************************)
ShutdownLeavesNothingDown ==
  Gone => /\ KeymapStable => keysDown = {}
          /\ buttonsDown = {}
          /\ FramesReach => touching = {}

(***************************************************************************)
(* Between calls the only things down are those the client asked to be     *)
(* held: whatever a click, a chord, a text or a gesture pressed on its way *)
(* it has let go of, on every path out of it.                              *)
(***************************************************************************)
OnlyAskedForStaysDown ==
  Resting => /\ KeymapStable => keysDown \subseteq CodesOf(asked)
             /\ buttonsDown \subseteq asked
             /\ FramesReach => touching = {}

(***************************************************************************)
(* A modifier named in a click, a scroll or a stroke is down as long as    *)
(* the button is ("Held for the duration of the action").                  *)
(***************************************************************************)
ModifiersSpanThePress ==
  KeymapStable /\ At({"click", "scroll", "stroke"}, "release") =>
    \A m \in call.mods : OnKeymap(m) => keymap[m] \in keysDown

(***************************************************************************)
(* A call lets go of no key and no button but those its own arguments      *)
(* name, so what the client holds survives every unrelated call.           *)
(***************************************************************************)
Named == call.mods \cup {call.keys[i] : i \in DOMAIN call.keys}
                   \cup (IF call.op = "type_text" THEN {Return} ELSE {})
LetsGoOnlyOfWhatItNames ==
  [][~Resting => /\ keysDown \ keysDown' \subseteq CodesOf(Named)
                 /\ buttonsDown \ buttonsDown' \subseteq {call.button}]_vars

(***************************************************************************)
(* type_text hands the keycode it borrowed back, unless it gave up at a    *)
(* newline because the keymap had no Return at that moment.                *)
(***************************************************************************)
SpareIsHandedBack ==
  [][call.op = "type_text" /\ call' = NoCall /\ call.spare \in bound'
       => ~OnKeymap(Return)]_vars

(* Every call returns: no step of it waits for anything but the next one. *)
CallsReturn == (~Resting /\ ~Gone) ~> Resting
=============================================================================
