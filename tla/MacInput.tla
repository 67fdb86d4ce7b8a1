------------------------------ MODULE MacInput ------------------------------
(***************************************************************************)
(* src/platform/macos/input_macos.cpp: CGEvents posted to the HID tap.     *)
(*                                                                         *)
(* No key is pressed for a modifier here: every event carries its flags,   *)
(* those of the call, which leave no trace, and those of held_modifiers_,  *)
(* in which the keys the client holds are noted, left and right alike.  A  *)
(* flag is named by the left-hand key of cc::Modifier.  There are no       *)
(* contacts either.                                                        *)
(*                                                                         *)
(* Posting an event cannot fail, creating one can: "press" and "release"   *)
(* events of a key or a button, "scroll" those of the wheel, "last" those  *)
(* that release_all creates.  A call is in each case left where it is.     *)
(***************************************************************************)
EXTENDS InputBackend

CONSTANTS
  Unmapped,   \* the keys for which to_cgkeycode has no code
  CodeZero,   \* the key whose code is 0, which the events of a text carry
  FlagOf,     \* modifier_for_key, a function on the modifier keys
  SwipeChords \* what gesture_spaces_swipe taps

ASSUME MacAssumption ==
  /\ Unmapped \subseteq Keys \ {Return}
  /\ CodeZero \in Keys \ Unmapped
  /\ FlagOf \in [DOMAIN FlagOf -> ModifierKeys]
  /\ ModifierKeys \subseteq DOMAIN FlagOf /\ DOMAIN FlagOf \subseteq Keys
  /\ \A m \in ModifierKeys : FlagOf[m] = m
  /\ SwipeChords \subseteq Chords

VARIABLES
  heldModifiers, \* held_modifiers_
  scrolling      \* the desktop: a phased scroll has begun and not ended

vars == <<desktop, ledgers, asked, call, faults, heldModifiers, scrolling>>

Init == InputInit /\ heldModifiers = {} /\ scrolling = FALSE

NoContacts == UNCHANGED <<touching, contactsDown>>
Flags == UNCHANGED <<heldModifiers, scrolling>>
Step == UNCHANGED <<asked, faults>>
Goto(pc) == call' = [call EXCEPT !.pc = pc]
Finish == call' = NoCall
At(ops, pc) == call.op \in ops /\ call.pc = pc
HasCode(k) == k \notin Unmapped

-----------------------------------------------------------------------------
(***************************************************************************)
(* The calls.  The motion that leads up to one is events too: a call that  *)
(* cannot create them returns before it has pressed anything.              *)
(***************************************************************************)
Begin(c) == Start([c EXCEPT !.mods = {}, !.todo = {}]) /\ Flags

Click(b, n) == Begin(Pointing("click", b, {}, n))
ButtonDown(b) == Begin(Pointing("button_down", b, {}, 1))
ButtonUp(b) ==
  Begin([Pointing("button_up", b, {}, 1) EXCEPT !.pc = "release"])
Stroke(b) == Begin(Pointing("stroke", b, {}, 1))
LongPress == Begin(Pointing("long_press", "left", {}, 1))
TapChord(c, n) == Begin(Chording("tap_chord", c, n))
HoldChord(c) == Begin(Chording("hold_chord", c, 1))

(* A phased scroll: begin, changes, end.  A plain one has only the middle. *)
Scroll(n, phased) ==
  Begin([Pointing("scroll", "wheel", {}, n) EXCEPT !.pc = IF phased THEN "press" ELSE "pressed"])

(* key_down notes the flag before, and the key after, the event is posted. *)
KeyDown(k) ==
  /\ Resting
  /\ HasCode(k)
  /\ heldModifiers' =
       IF k \in DOMAIN FlagOf THEN heldModifiers \cup {FlagOf[k]}
                              ELSE heldModifiers
  /\ keysDown' = keysDown \cup {k}
  /\ heldKeys' = heldKeys \cup {k}
  /\ asked' = asked \cup {k}
  /\ UNCHANGED <<buttonsDown, heldButtons, call, faults, scrolling>>
  /\ NoContacts

(* Mutant of StrikeOff: the flag stays. *)
StrikeOffKeepsFlag(k) ==
  /\ heldKeys' = heldKeys \ {k}
  /\ \/ keysDown' = keysDown \ {k}
     \/ MayFail("release") /\ UNCHANGED keysDown
  /\ UNCHANGED <<buttonsDown, heldButtons>>
  /\ NoContacts /\ Flags

(* key_up strikes the key off before it tries to create the event. *)
StrikeOff(k) ==
  /\ heldModifiers' =
       IF k \in DOMAIN FlagOf THEN heldModifiers \ {FlagOf[k]}
                              ELSE heldModifiers
  /\ heldKeys' = heldKeys \ {k}
  /\ \/ keysDown' = keysDown \ {k}
     \/ MayFail("release") /\ UNCHANGED keysDown
  /\ UNCHANGED <<buttonsDown, heldButtons, scrolling>>
  /\ NoContacts

KeyUp(k) ==
  /\ Resting
  /\ HasCode(k)
  /\ StrikeOff(k)
  /\ asked' = asked \ {k}
  /\ UNCHANGED <<call, faults>>

(***************************************************************************)
(* type_text.  The two events of a chunk are created together and posted   *)
(* back to back, with a Unicode string and the key code 0; a newline is    *)
(* just another character.  The text may stop at any chunk.                *)
(***************************************************************************)
TypeText(text, enter) ==
  /\ Resting
  /\ keysDown' = IF text = <<>> THEN keysDown ELSE keysDown \ {CodeZero}
  /\ call' = IF enter THEN [NoCall EXCEPT !.op = "tap_chord", !.pc = "key",
                                          !.keys = <<Return>>, !.left = 1]
                      ELSE call
  /\ UNCHANGED <<buttonsDown, heldKeys, heldButtons>>
  /\ NoContacts /\ Flags /\ Step

(***************************************************************************)
(* gesture_support and gesture.  A pan along a path is a stroke.           *)
(***************************************************************************)
Native(kind, fingers) ==
  \/ kind \in {"swipe", "pan"} /\ fingers <= 2
  \/ kind \in {"tap", "long_press"} /\ fingers <= 1

Gesture(kind, fingers, native, path) ==
  /\ native => Native(kind, fingers)
  /\ \/ /\ kind = "tap"
        /\ \E b \in Buttons :
             /\ (b = "left") = (fingers # 2)
             /\ Click(b, 1)
     \/ kind \in {"long_press", "force_press"} /\ LongPress
     \/ /\ kind \in {"pinch", "smart_zoom"}
        /\ \E n \in 1 .. MaxRepeat : Scroll(n, FALSE)
     \/ kind = "pan" /\ path /\ Stroke("left")
     \/ /\ kind \in {"swipe", "edge_swipe", "pan"}
        /\ kind = "pan" => ~path
        /\ IF fingers >= 3
           THEN \E c \in SwipeChords : TapChord(c, 1)
           ELSE \E n \in 1 .. MaxSteps : Scroll(n, TRUE)

-----------------------------------------------------------------------------
(***************************************************************************)
(* The steps of a call.  What a click presses is in no ledger.             *)
(***************************************************************************)
Pressers == {"click", "button_down", "stroke", "long_press"}
Ledgered == Pressers \ {"click"}

PressButton ==
  /\ At(Pressers, "press")
  /\ \/ /\ buttonsDown' = buttonsDown \cup {call.button}
        /\ heldButtons' = IF call.op \in Ledgered
                          THEN heldButtons \cup {call.button} ELSE heldButtons
        /\ IF call.op = "button_down"
           THEN Finish /\ asked' = asked \cup {call.button}
           ELSE Goto("release") /\ UNCHANGED asked
     \/ /\ MayFail("press")
        /\ UNCHANGED <<buttonsDown, heldButtons, asked>>
        /\ Finish
  /\ UNCHANGED <<keysDown, heldKeys, faults>>
  /\ NoContacts /\ Flags

(* A stroke strikes its button off even if it could not be released. *)
ReleaseButton ==
  /\ At(Pressers \cup {"button_up"}, "release")
  /\ \/ /\ buttonsDown' = buttonsDown \ {call.button}
        /\ heldButtons' = IF call.op = "click"
                          THEN heldButtons ELSE heldButtons \ {call.button}
        /\ asked' = IF call.op = "button_up"
                    THEN asked \ {call.button} ELSE asked
        /\ call' = IF call.left > 1
                   THEN [call EXCEPT !.pc = "press", !.left = @ - 1]
                   ELSE NoCall
     \/ /\ MayFail("release")
        /\ heldButtons' = IF call.op = "stroke"
                          THEN heldButtons \ {call.button} ELSE heldButtons
        /\ UNCHANGED <<buttonsDown, asked>>
        /\ Finish
  /\ UNCHANGED <<keysDown, heldKeys, faults>>
  /\ NoContacts /\ Flags

(***************************************************************************)
(* Scrolling.  The first of the left events of a phased one is its begin;  *)
(* when one of them cannot be created the call returns without the end.    *)
(***************************************************************************)
ScrollBegin ==
  /\ At({"scroll"}, "press")
  /\ \/ /\ scrolling' = TRUE
        /\ call' = [call EXCEPT !.pc = IF call.left > 1 THEN "key" ELSE "key_up",
                                !.left = @ - 1]
     \/ MayFail("scroll") /\ UNCHANGED scrolling /\ Finish
  /\ UNCHANGED <<desktop, ledgers, heldModifiers>>
  /\ Step

(* Mutant of ScrollChange: the last change is taken for the end. *)
ScrollChangeEnds ==
  /\ At({"scroll"}, "key")
  /\ \/ call' = IF call.left > 1 THEN [call EXCEPT !.left = @ - 1] ELSE NoCall
     \/ MayFail("scroll") /\ Finish
  /\ UNCHANGED <<desktop, ledgers>>
  /\ Flags /\ Step

ScrollChange ==
  /\ At({"scroll"}, "key")
  /\ \/ call' = [call EXCEPT !.pc = IF call.left > 1 THEN @ ELSE "key_up",
                             !.left = @ - 1]
     \/ MayFail("scroll") /\ Finish
  /\ UNCHANGED <<desktop, ledgers>>
  /\ Flags /\ Step

ScrollEnd ==
  /\ At({"scroll"}, "key_up")
  /\ \/ scrolling' = FALSE
     \/ MayFail("scroll") /\ UNCHANGED scrolling
  /\ Finish
  /\ UNCHANGED <<desktop, ledgers, heldModifiers>>
  /\ Step

TurnWheel ==
  /\ At({"scroll"}, "pressed")
  /\ \/ call' = IF call.left > 1 THEN [call EXCEPT !.left = @ - 1] ELSE NoCall
     \/ MayFail("scroll") /\ Finish
  /\ UNCHANGED <<desktop, ledgers>>
  /\ Flags /\ Step

(***************************************************************************)
(* The chords post their own events, past the ledger.  A tap creates both  *)
(* of its events before it posts either.                                   *)
(***************************************************************************)
Current == call.keys[call.at]
KeysOnly == UNCHANGED <<buttonsDown, heldButtons>> /\ NoContacts

TapDown ==
  /\ At({"tap_chord"}, "key")
  /\ \/ /\ HasCode(Current)
        /\ keysDown' = keysDown \cup {Current}
        /\ Goto("key_up")
     \/ /\ ~HasCode(Current) \/ MayFail("press")
        /\ UNCHANGED keysDown
        /\ Finish
  /\ UNCHANGED heldKeys
  /\ KeysOnly /\ Flags /\ Step

TapUp ==
  /\ At({"tap_chord"}, "key_up")
  /\ keysDown' = keysDown \ {Current}
  /\ call' = IF call.at < Len(call.keys)
             THEN [call EXCEPT !.pc = "key", !.at = @ + 1]
             ELSE IF call.left > 1
             THEN [call EXCEPT !.pc = "key", !.at = 1, !.left = @ - 1]
             ELSE NoCall
  /\ UNCHANGED heldKeys
  /\ KeysOnly /\ Flags /\ Step

(* Mutant of HoldDown: a key without a code returns at once. *)
HoldDownReturns ==
  /\ At({"hold_chord"}, "key")
  /\ IF call.at > Len(call.keys) THEN UNCHANGED keysDown /\ Goto("key_up")
     ELSE \/ /\ HasCode(Current)
             /\ keysDown' = keysDown \cup {Current}
             /\ call' = [call EXCEPT !.at = @ + 1]
          \/ /\ ~HasCode(Current) \/ MayFail("press")
             /\ UNCHANGED keysDown
             /\ Finish
  /\ UNCHANGED heldKeys
  /\ KeysOnly /\ Flags /\ Step

(* The keys pressed so far are keys[1 .. at - 1]. *)
HoldDown ==
  /\ At({"hold_chord"}, "key")
  /\ IF call.at > Len(call.keys) THEN UNCHANGED keysDown /\ Goto("key_up")
     ELSE \/ /\ HasCode(Current)
             /\ keysDown' = keysDown \cup {Current}
             /\ call' = [call EXCEPT !.at = @ + 1]
          \/ ~HasCode(Current) /\ UNCHANGED keysDown /\ Goto("unguard")
          \/ MayFail("press") /\ UNCHANGED keysDown /\ Finish
  /\ UNCHANGED heldKeys
  /\ KeysOnly /\ Flags /\ Step

HoldUp ==
  /\ At({"hold_chord"}, "key_up")
  /\ IF call.at = 1 THEN UNCHANGED keysDown /\ Finish
     ELSE /\ \/ keysDown' = keysDown \ {call.keys[call.at - 1]}
             \/ MayFail("release") /\ UNCHANGED keysDown
          /\ call' = [call EXCEPT !.at = @ - 1]
  /\ UNCHANGED heldKeys
  /\ KeysOnly /\ Flags /\ Step

(* An unmapped key undoes the ones before it with key_up, ledger and all. *)
HoldUndo ==
  /\ At({"hold_chord"}, "unguard")
  /\ IF call.at = 1
     THEN UNCHANGED <<keysDown, heldKeys>> /\ KeysOnly /\ Flags /\ Finish
     ELSE /\ StrikeOff(call.keys[call.at - 1])
          /\ call' = [call EXCEPT !.at = @ - 1]
  /\ Step

-----------------------------------------------------------------------------
(* release_all: button_up and key_up for each entry, whatever they return. *)
Lost(ledger) == IF MayFail("last") THEN SUBSET ledger ELSE {{}}

(* Mutant of LetGoOfLedger: the loop over the keys stops after one. *)
LetGoOfOneKey ==
  /\ \/ \E k \in heldKeys : keysDown' = keysDown \ {k}
     \/ heldKeys = {} /\ UNCHANGED keysDown
  /\ \E lost \in Lost(heldButtons) :
       buttonsDown' = buttonsDown \ (heldButtons \ lost)
  /\ heldKeys' = {} /\ heldButtons' = {} /\ heldModifiers' = {}
  /\ asked' = {}
  /\ UNCHANGED <<faults, scrolling>>
  /\ NoContacts

LetGoOfLedger ==
  /\ \E lost \in Lost(heldKeys) : keysDown' = keysDown \ (heldKeys \ lost)
  /\ \E lost \in Lost(heldButtons) :
       buttonsDown' = buttonsDown \ (heldButtons \ lost)
  /\ heldKeys' = {} /\ heldButtons' = {} /\ heldModifiers' = {}
  /\ asked' = {}
  /\ UNCHANGED <<faults, scrolling>>
  /\ NoContacts

ReleaseAll == Resting /\ LetGoOfLedger /\ UNCHANGED call

(* ~MacInput, when the session goes. *)
Shutdown == Resting /\ LetGoOfLedger /\ Goto("gone")

StartCall ==
  \/ \E b \in Buttons :
       \/ \E n \in 1 .. MaxRepeat : Click(b, n)
       \/ ButtonDown(b)
       \/ ButtonUp(b)
       \/ Stroke(b)
  \/ \E n \in 1 .. MaxRepeat, phased \in BOOLEAN : Scroll(n, phased)
  \/ \E k \in Keys : KeyDown(k) \/ KeyUp(k)
  \/ \E c \in Chords : HoldChord(c) \/ \E n \in 1 .. MaxRepeat : TapChord(c, n)
  \/ \E text \in Texts, enter \in BOOLEAN : TypeText(text, enter)
  \/ \E kind \in GestureKinds, fingers \in FingerCounts,
        native, path \in BOOLEAN : Gesture(kind, fingers, native, path)
  \/ ReleaseAll
  \/ Shutdown

TakeStep ==
  \/ PressButton \/ ReleaseButton
  \/ ScrollBegin \/ ScrollChange \/ ScrollEnd \/ TurnWheel
  \/ TapDown \/ TapUp \/ HoldDown \/ HoldUp \/ HoldUndo

Next == StartCall \/ TakeStep

(* The one thread of the server runs the call it is in to its end. *)
Spec == Init /\ [][Next]_vars /\ WF_vars(TakeStep)

-----------------------------------------------------------------------------
(* Type correctness of the backend and of the desktop. *)
TypeOK ==
  /\ call \in Calls
  /\ LedgersTypeOK
  /\ keysDown \subseteq Keys /\ buttonsDown \subseteq Buttons /\ touching = {}
  /\ heldModifiers \subseteq ModifierKeys
  /\ scrolling \in BOOLEAN

Delivered(events) == events \cap faults = {}

(***************************************************************************)
(* After the last release_all nothing is down, as long as the events the   *)
(* backend relies on can be created: releases always, and presses where a  *)
(* chord is held, because hold_chord returns on one it cannot create       *)
(* without undoing those before it.                                        *)
(***************************************************************************)
ShutdownLeavesNothingDown ==
  Gone => /\ Delivered({"press", "release", "last"}) => keysDown = {}
          /\ Delivered({"release", "last"}) => buttonsDown = {}

(* Between calls only what the client asked for is down, on the same terms. *)
OnlyAskedForStaysDown ==
  Resting =>
    /\ Delivered({"press", "release", "last"}) => keysDown \subseteq asked
    /\ Delivered({"release", "last"}) => buttonsDown \subseteq asked

(***************************************************************************)
(* No flag of held_modifiers_ outlives the last key that stands for it in  *)
(* the ledger: nothing typed later is a shortcut nobody asked for.         *)
(***************************************************************************)
NoPhantomModifier ==
  heldModifiers \subseteq {FlagOf[k] : k \in heldKeys \cap DOMAIN FlagOf}

(***************************************************************************)
(* A phased scroll that has begun is ended before the call returns, so an  *)
(* application is not left waiting for more of a gesture, unless one of    *)
(* its events could not be created.                                        *)
(***************************************************************************)
PhasedScrollIsClosed ==
  Resting /\ Delivered({"scroll"}) => ~scrolling
=============================================================================
