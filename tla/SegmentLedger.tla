---------------------------- MODULE SegmentLedger ----------------------------
(***************************************************************************)
(* What an allocator of CGUAS addresses promises, whatever its storage: an *)
(* address is granted to at most one segment, a segment is granted a       *)
(* non-empty set of addresses in one step, and revoking a segment never    *)
(* frees its addresses for somebody else.  A ledger that lives in process  *)
(* memory may be lost as a whole (Forget); nothing else is ever undone.    *)
(***************************************************************************)
CONSTANTS Address, Id

VARIABLES
  holders,   \* holders[a]: the ids of the segments that contain address a
  live       \* ids of the segments that are granted and not revoked

ledgerVars == <<holders, live>>

Empty == [a \in Address |-> {}]

Init == holders = Empty /\ live = {}

\* id has never been granted and gets the free addresses R, all at once.
Grant(id) ==
  /\ id \notin live
  /\ live' = live \union {id}
  /\ \E R \in SUBSET Address :
       /\ R # {}
       /\ \A a \in R : holders[a] = {}
       /\ holders' = [a \in Address |-> IF a \in R THEN {id} ELSE holders[a]]

Retire(id) ==
  /\ id \in live
  /\ live' = live \ {id}
  /\ UNCHANGED holders

Forget == holders' = Empty /\ live' = {}

Next == (\E id \in Id : Grant(id) \/ Retire(id)) \/ Forget

Spec == Init /\ [][Next]_ledgerVars
==============================================================================
