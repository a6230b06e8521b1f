------------------------------ MODULE MCInput ------------------------------
(***************************************************************************)
(* Instances of Input for TLC: a table of four entries, the first one of   *)
(* handle_keypress, two types of events and two callbacks besides.         *)
(***************************************************************************)
EXTENDS Input

(* A letter, an extended key, the modifiers (one of them with both of its  *)
(* keys) and the shift code that is none.                                  *)
AllKeys == {KeyA, KeyEnd, KeyLShift, KeyLCtl, KeyRCtl, KeyCaps, FakeShift}

MCEventTypes == {"key_press", "other"}
MCCallbacks == {"second", "third"}
MCArgs == {"x", "y"}
MCFirst == Entry("key_press", "handle_keypress", NULL)
=============================================================================
