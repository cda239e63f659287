------------------------------ MODULE MCUseCases ------------------------------
(* UseCases with three leap seconds, the first a jump of three as in 1972, a  *)
(* second of two milliseconds and times on both sides of every jump.          *)
EXTENDS UseCases

MCLeapTable   == <<<<6, 3>>, <<12, 4>>, <<18, 5>>>>
MCSeconds     == {0, 5, 6, 9, 12, 18}
MCInstants    == 0 .. 3
MCMillis      == {-3, -1, 0, 11, 12, 13, 24}
MCForeignKeys == {<<"Flex", "1.0">>, <<"Aviation", "1.0">>, <<"UTC", "1.0">>}
MCUnknownKeys == {<<"Cosmic", "1.0">>}
==============================================================================
