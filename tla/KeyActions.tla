----------------------------- MODULE KeyActions -----------------------------
(***************************************************************************)
(* The key actions a configuration assigns to keys (key_action.h), and the *)
(* events that carry keys through the program (struct input_event).        *)
(*                                                                         *)
(* A configured keymap is total: fill_map() has replaced every missing     *)
(* entry, so a lookup always finds a SIMPLE, MACRO, DUAL or MAP action     *)
(* (GrabsAreComplete in Keymaps).                                          *)
(***************************************************************************)
EXTENDS Integers, Sequences

CONSTANTS
  Keys,          \* the key codes in use, all below KEY_MAX
  ModifierKeys,  \* KEY_LEFTCTRL, KEY_LEFTSHIFT and the six others in resolve()
  Keymaps,       \* the names of the keymaps of the configuration
  KeymapOf       \* keymap name -> key -> key action

KEY_MAX == 767

\* a value in release_map that no key code can have
RESET_KEYMAP == KEY_MAX + 1

\* code 0 is KEY_RESERVED: no device sends it, but release_map yields it
Codes == Keys \cup {0}

Modes == {"TAP_ON_ROLLOVER", "HOLD_ON_ROLLOVER", "TIMEOUT_ONLY"}

SimpleAction == [type : {"SIMPLE"}, simple : Codes]
MacroAction  == [type : {"MACRO"}, macro : Seq([code : Codes, press : BOOLEAN])]
MapAction    == [type : {"MAP"}, map : Keymaps]

\* what do_keypress() accepts: everything but a dual key
PlainAction == SimpleAction \cup MacroAction \cup MapAction

\* dual_key() refuses a dual key in either place, and a keymap as the tap
DualAction == [type : {"DUAL"}, tap : SimpleAction \cup MacroAction,
               hold : PlainAction, mode : Modes, hold_ms : Nat \ {0},
               double_tap_ms : Nat \cup {-1}]

KeyAction == PlainAction \cup DualAction

ASSUME KeysAssumption ==
  /\ Keys \subseteq 1..(KEY_MAX - 1)
  /\ ModifierKeys \subseteq Keys

ASSUME KeymapAssumption == KeymapOf \in [Keymaps -> [Keys -> KeyAction]]

Num(P) == IF P THEN 1 ELSE 0

\* a macro releases what it has pressed, and nothing before it has pressed it
LeavesNothingDown(macro) ==
  \A c \in Keys : \E down \in [0..Len(macro) -> Nat] :
    /\ down[0] = 0 /\ down[Len(macro)] = 0
    /\ \A i \in 1..Len(macro) :
         down[i] + Num(macro[i].code = c /\ ~macro[i].press)
           = down[i - 1] + Num(macro[i].code = c /\ macro[i].press)

\* key_action_get(): the current keymap is always a KT_MAP, so the loop over
\* references returns its entry on the first try
key_action_get(map, code) == KeymapOf[map][code]

-----------------------------------------------------------------------------
\* Events.  value is 0 for a release, 1 for a press and 2 for a repeat.

EventTypes == {"EV_KEY", "EV_SYN", "EV_OTHER"}
Values     == 0..2

\* an event on its way out; the times of outgoing events are never read
Event == [type : EventTypes, code : Codes, value : Values]

KeyEvent(code, value) == [type |-> "EV_KEY", code |-> code, value |-> value]
SynEvent              == [type |-> "EV_SYN", code |-> 0, value |-> 0]

\* an event on its way in carries the time the kernel stamped on it
TimedEvent ==
  [type : {"EV_KEY"}, code : Keys, value : Values, time : Nat] \cup
  [type : {"EV_SYN", "EV_OTHER"}, code : Codes, value : Values, time : Nat]

Stamped(ev, t) == [type |-> ev.type, code |-> ev.code, value |-> ev.value, time |-> t]

IsPress(ev)   == ev.type = "EV_KEY" /\ ev.value = 1
IsRelease(ev) == ev.type = "EV_KEY" /\ ev.value = 0

=============================================================================
