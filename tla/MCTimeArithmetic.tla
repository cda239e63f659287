--------------------------- MODULE MCTimeArithmetic ---------------------------
(* TimeArithmetic with a us of 2 ns, a ms of 4, a second of 8, a minute of 12 *)
(* seconds, an hour of two minutes and a day of two hours; floats of four     *)
(* binary digits.                                                             *)
EXTENDS TimeArithmetic

MCDecimals ==
  [negative : BOOLEAN, whole : {0, 10}, tenths : {0, 49, 79}]
MCNumbers   == {-3, -1, 0, 1, 2, 3, 7, 97}
MCFractions == {<<1, 2>>, <<11, 16>>}
==============================================================================
