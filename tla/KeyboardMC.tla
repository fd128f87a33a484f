----------------------------- MODULE KeyboardMC -----------------------------
(* An instance of Keyboard for TLC.  Nobody prints; ENTER, which is like the *)
(* other characters, and the left Alt key are not pressed.                   *)
EXTENDS Keyboard

MCKeys == AllKeys \ {"ENTER", "ALT_L"}
=============================================================================
