----------------------------- MODULE MCKeymaps ------------------------------
(***************************************************************************)
(* A small configuration language for Keymaps: two keys, a number where a  *)
(* name should be, a modifier, and the ways in which dual_key() is called. *)
(***************************************************************************)
EXTENDS Keymaps

MCCodeOf == [KEY_A |-> 1, KEY_B |-> 2, number |-> 0]

MCOptionOf == [MODE |-> "MODE", HOLD_MS |-> "HOLD_MS", HOLD |-> "HOLD_MS",
               DOUBLE_TAP_MS |-> "DOUBLE_TAP_MS", TAP_MS |-> "unknown"]

Table(options) == [type |-> "table", options |-> options]

MCConfigs ==
  {[type |-> "absent"], Nil, IntegerOf(0), IntegerOf(3),
   Table([MODE |-> IntegerOf(3)]),
   Table([HOLD_MS |-> IntegerOf(0)]),
   Table([DOUBLE_TAP_MS |-> IntegerOf(-2)]),
   Table([TAP_MS |-> IntegerOf(1)]),
   Table([MODE |-> IntegerOf(0), HOLD |-> IntegerOf(2), HOLD_MS |-> IntegerOf(2),
          DOUBLE_TAP_MS |-> IntegerOf(-1)])}

MCPatterns == {{"kb1"}, {"kb1", "kb2"}}

=============================================================================
