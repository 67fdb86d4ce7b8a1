---------------------------- MODULE InputBackend ----------------------------
(***************************************************************************)
(* The mouse, keyboard and touch backend of one platform, as include/cc/   *)
(* input.hpp declares it: what the desktop sees held down, the ledgers in  *)
(* which the backend records what it owes the desktop, and the call it is  *)
(* serving.  The server is single-threaded, so there is one call at a      *)
(* time; the platforms' modules (LinuxInput, WindowsInput, MacInput) give  *)
(* each call its steps, one per event sent, because an event may fail, and *)
(* the user may act, between two of them.                                  *)
(***************************************************************************)
EXTENDS Integers, Sequences, FiniteSets

CONSTANTS
  Keys,          \* the values of cc::Key in play
  ModifierKeys,  \* the left-hand keys that press the flags of cc::Modifier
  Return,        \* Key::Return
  Buttons,       \* the values of MouseButton in play
  Chords,        \* what parse_chord yields: records of modifiers and keys
  MaxRepeat,     \* bound on clicks of a click, detents of a scroll, repeats
  MaxSteps,      \* bound on the move frames of a touch gesture
  Texts,         \* texts to type, as sequences of "char" and "newline"
  FingerCounts,  \* values of the gesture tool's fingers argument
  FaultSets      \* the sets of things that may go wrong, see faults

(***************************************************************************)
(* The touch devices of both platforms that have one offer ten slots       *)
(* (open_touch asks for ten, kMaxContacts is ten).                         *)
(***************************************************************************)
Slots == 10

TextItems == {"char", "newline", "restore"}

ASSUME KeysAssumption ==
  /\ Return \in Keys
  /\ ModifierKeys \subseteq Keys
  /\ "left" \in Buttons
  /\ "wheel" \notin Buttons
  /\ Keys \cap (Buttons \cup {"wheel"}) = {}
ASSUME ChordsAssumption ==
  \A c \in Chords : /\ c.mods \subseteq ModifierKeys
                    /\ c.keys \in Seq(Keys) \ {<<>>}
ASSUME BoundsAssumption ==
  /\ MaxRepeat \in Nat \ {0}
  /\ MaxSteps \in Nat
  /\ Texts \subseteq Seq({"char", "newline"})
  /\ FingerCounts \subseteq Int

VARIABLES
  keysDown,      \* the desktop: physical keys pressed by this process
  buttonsDown,   \* the desktop: mouse buttons pressed by this process
  touching,      \* the desktop: slots with a contact on the glass
  heldKeys,      \* held_keys_
  heldButtons,   \* held_buttons_
  contactsDown,  \* contacts_down_
  asked,         \* history: keys and buttons the client has asked to hold
  call,          \* the call in progress
  faults         \* rigid: what may go wrong in this behaviour

desktop == <<keysDown, buttonsDown, touching>>
ledgers == <<heldKeys, heldButtons, contactsDown>>

(***************************************************************************)
(* The frame of a call: op and pc name the function and the point reached  *)
(* in it, mods is the modifiers argument and todo the part of it that the  *)
(* constructor of ModifierGuard has still to press, guard what its         *)
(* destructor will release.  keys, at and left are the chord, the position *)
(* in it and the rounds left; text and spare belong to type_text, points   *)
(* (the slots in use) and fingers to a gesture made of contacts.           *)
(***************************************************************************)
NoCall ==
  [op |-> "none", pc |-> "idle", button |-> "left", mods |-> {}, todo |-> {},
   guard |-> {}, keys |-> <<>>, at |-> 1, left |-> 0, text |-> <<>>,
   spare |-> 0, points |-> {}, fingers |-> 0]

Resting == call.pc = "idle"
Gone    == call.pc = "gone"

InputInit ==
  /\ keysDown = {} /\ buttonsDown = {} /\ touching = {}
  /\ heldKeys = {} /\ heldButtons = {} /\ contactsDown = 0
  /\ asked = {}
  /\ call = NoCall
  /\ faults \in FaultSets

MayFail(what) == what \in faults

Clamp(n, lo, hi) == IF n < lo THEN lo ELSE IF n > hi THEN hi ELSE n

(***************************************************************************)
(* motion::finger_layout: a pinch, a rotation and a smart zoom are two     *)
(* contacts whatever was asked, anything else at most five.                *)
(***************************************************************************)
GestureKinds ==
  {"tap", "swipe", "pan", "pinch", "rotate", "smart_zoom", "force_press",
   "edge_swipe", "long_press"}

Layout(kind, fingers) ==
  IF kind \in {"pinch", "rotate", "smart_zoom"} THEN 0 .. 1
  ELSE 0 .. Clamp(fingers, 1, 5) - 1

(***************************************************************************)
(* The calls a client can make while none is in progress.  Their arguments *)
(* are those that get past the dispatcher.                                 *)
(***************************************************************************)
Start(c) ==
  /\ Resting
  /\ call' = c
  /\ UNCHANGED <<desktop, ledgers, asked, faults>>

Pointing(op, b, mods, n) ==
  [NoCall EXCEPT !.op = op, !.pc = "press", !.button = b, !.mods = mods,
                 !.todo = mods, !.left = n]

Chording(op, c, n) ==
  [NoCall EXCEPT !.op = op, !.pc = "key", !.mods = c.mods, !.todo = c.mods,
                 !.keys = c.keys, !.left = n]

Touching(kind, fingers, n) ==
  [NoCall EXCEPT !.op = "inject", !.pc = "touch_begin", !.left = n,
                 !.points = Layout(kind, fingers),
                 !.fingers = Clamp(fingers, 1, Slots)]

(***************************************************************************)
(* Typing ends by handing back what it borrowed and, if asked to, with a   *)
(* Return of its own.                                                      *)
(***************************************************************************)
Typing(text, enter) ==
  [NoCall EXCEPT !.op = "type_text", !.pc = "type",
                 !.text = text \o <<"restore">>
                               \o (IF enter THEN <<"newline">> ELSE <<>>)]

-----------------------------------------------------------------------------
CallOps ==
  {"none", "click", "button_down", "scroll", "stroke", "long_press",
   "button_up", "tap_chord", "hold_chord", "type_text", "inject"}

CallPoints ==
  {"idle", "gone", "press", "pressed", "release", "released", "unguard",
   "key", "key_up", "type", "return_up", "touch_begin", "touch_move", "touch_lift"}

Calls ==
  [op : CallOps, pc : CallPoints, button : Buttons \cup {"wheel"},
   mods : SUBSET ModifierKeys, todo : SUBSET ModifierKeys,
   guard : SUBSET ModifierKeys, keys : Seq(Keys), at : Nat \ {0}, left : Nat,
   text : Seq(TextItems), spare : Nat, points : SUBSET (0 .. Slots - 1),
   fingers : 0 .. Slots]

(***************************************************************************)
(* The frame of a call is well formed: the position in a chord is within   *)
(* the chord, the rounds left do not run below zero, only a scroll turns   *)
(* the wheel, typing and contacts have no modifiers, and a call that is    *)
(* over has left nothing of its frame.                                     *)
(***************************************************************************)
FrameOK(c) ==
  /\ c \in Calls
  /\ c.at <= Len(c.keys) + 1
  /\ c.op = "tap_chord" => c.at <= Len(c.keys)
  /\ c.op # "scroll" => c.button \in Buttons
  /\ c.pc \in {"press", "release", "touch_begin", "touch_move"} => c.left > 0
  /\ c.op \in {"none", "type_text", "inject"} => c.todo = {} /\ c.guard = {}
  /\ c.pc = "return_up" => c.text # <<>>
  /\ c.pc = "idle" => c = NoCall
  /\ c.pc = "gone" => c = [NoCall EXCEPT !.pc = "gone"]

CallTypeOK == FrameOK(call)

LedgersTypeOK ==
  /\ heldKeys \subseteq Keys
  /\ heldButtons \subseteq Buttons
  /\ contactsDown \in 0 .. Slots
  /\ asked \subseteq Keys \cup Buttons
=============================================================================
