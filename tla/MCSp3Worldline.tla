---------------------------- MODULE MCSp3Worldline ----------------------------
(* Sp3Worldline on files of up to five epochs, unsorted and repeated ones     *)
(* included; times in half grid intervals.                                    *)
EXTENDS Sp3Worldline, Sp3Grid

CONSTANTS sat, other

MCTime == {0, 1, 2, 4, 6}

Block(time, sats) ==
  [tTaiNs |-> time, sats |-> [s \in sats |-> [v |-> FALSE]]]

\* Files in which the block at position absent lacks the satellite.
Files(n, absent) ==
  {[i \in 1..n |-> Block(ts[i], IF i = absent THEN {other} ELSE {sat})] :
     ts \in [1..n -> MCTime]}

MCViews ==
  {ViewOf(b, 2, Undefined, sat) : b \in Files(5, 0) \union Files(4, 2)}
  \union {ViewOf(b, 2, 2, sat) : b \in Files(3, 0)}
  \union {[ViewOf(b, -2, Undefined, sat) EXCEPT !.hasRecords = TRUE] :
            b \in Files(3, 0)}

MCPoints == {1, 2, 3, 4}
MCQuery  == -1..7
==============================================================================
