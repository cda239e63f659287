--------------------------- MODULE MCClassBStepper ---------------------------
(* ClassBStepper on intervals of up to 18 ns, 3.5 units of error per ns. *)
EXTENDS ClassBStepper

MCTime      == {-1, 0, 17}
MCMaxStepNs == {0, 7, 50}
MCMaxSteps  == {0, 5, 20, 38}
MCSmooth    == {0, 3, 4}
\* after the interval, at its end, and a gap within it
MCRefusals  == {(104 * 17 + 1)..(104 * 18), {104 * 17}, (104 * 5 + 1)..(104 * 6)}
MCErr       == {0, 1, 5, 57}
==============================================================================
