---------------------------- MODULE LifecycleStore ----------------------------
(***************************************************************************)
(* What the insert-only storage promises about domains and files, whatever *)
(* keeps them: a domain is drafted once and published at most once, a file *)
(* is stored and may then be marked as gone, and nothing goes back.  A     *)
(* volatile store may forget everything at once; a database may not.       *)
(***************************************************************************)
CONSTANTS
  Domain,    \* names with version
  Cgfi,      \* file ids
  Volatile   \* whether the store may forget: TRUE or FALSE

VARIABLES domainState, fileState

storeVars == <<domainState, fileState>>

Init ==
  /\ domainState = [d \in Domain |-> "absent"]
  /\ fileState = [f \in Cgfi |-> "absent"]

MoveDomain(d, from, to) ==
  /\ domainState[d] = from
  /\ domainState' = [domainState EXCEPT ![d] = to]
  /\ UNCHANGED fileState

MoveFile(f, from, to) ==
  /\ fileState[f] = from
  /\ fileState' = [fileState EXCEPT ![f] = to]
  /\ UNCHANGED domainState

Forget ==
  /\ Volatile
  /\ domainState' = [d \in Domain |-> "absent"]
  /\ fileState' = [f \in Cgfi |-> "absent"]

Next ==
  \/ \E d \in Domain : \/ MoveDomain(d, "absent", "draft")
                       \/ MoveDomain(d, "draft", "published")
  \/ \E f \in Cgfi : \/ MoveFile(f, "absent", "stored")
                     \/ MoveFile(f, "stored", "gone")
  \/ Forget

Spec == Init /\ [][Next]_storeVars
==============================================================================
