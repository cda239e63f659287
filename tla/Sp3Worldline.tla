----------------------------- MODULE Sp3Worldline -----------------------------
(***************************************************************************)
(* sp3Worldline of packages/cg-engine/src/sp3.ts: a worldline interpolated *)
(* from the epochs of one satellite, and stateAt, which looks up the nodes *)
(* around a time by binary search and refuses windows that are incomplete  *)
(* or not equidistant.  Nothing sorts the epochs: they come in the order   *)
(* of the file.                                                            *)
(*                                                                         *)
(* Times are in a unit that divides ns and the rational t of stateAt, all  *)
(* of whose comparisons are exact.  The value of the polynomial is left    *)
(* out: what matters of it is the window it is built on.                   *)
(***************************************************************************)
EXTENDS Integers, Sequences

CONSTANTS
  Views,    \* what files contain of a satellite (Sp3Grid!ViewOf)
  Points,   \* the points of options: nodes of a window
  Query     \* times t that stateAt is asked for

View == [times : Seq(Int), hasRecords : BOOLEAN,
         intervalNs : Int \ {0}, gaps : SUBSET Int]

ASSUME ViewsAssumption == Views \subseteq View
ASSUME PointsAssumption == Points \subseteq Nat \ {0}
ASSUME QueryAssumption == Query \subseteq Int

VARIABLES
  view,             \* the file, from the point of view of the satellite
  points,           \* nodes of a window
  source,           \* where the velocity comes from, once constructed
  phase,            \* "new", "ready", "search", or how a call ended
  t,                \* the time asked for
  lo, hi            \* bounds of the binary search, indices from 0

worldlineVars == <<view, points, source, phase, t, lo, hi>>

times(k) == view.times[k + 1]
last     == Len(view.times) - 1
half     == (points - 1) \div 2

\* The window around node lo is complete for kMin <= lo <= kMax.
kMin == half
kMax == last - (points - 1 - half)

------------------------------------------------------------------------------
(* Construction *)

WorldlineInit ==
  /\ view \in Views
  /\ points \in Points
  /\ source = "none"
  /\ phase = "new"
  /\ t = 0 /\ lo = 0 /\ hi = 0

\* sp3Worldline; a worldline that has been built never changes.
Construct(velocitySource) ==
  /\ phase = "new"
  /\ \/ /\ Len(view.times) < points
        /\ phase' = "tooFewEpochs"
        /\ UNCHANGED source
     \/ /\ Len(view.times) >= points
        /\ velocitySource = "records" /\ ~ view.hasRecords
        /\ phase' = "missingField"
        /\ UNCHANGED source
     \/ /\ Len(view.times) >= points
        /\ velocitySource # "records" \/ view.hasRecords
        /\ phase' = "ready"
        /\ source' = IF velocitySource # "derivative" /\ view.hasRecords
                     THEN "records" ELSE "derivative"
  /\ UNCHANGED <<view, points, t, lo, hi>>

------------------------------------------------------------------------------
(* stateAt *)

\* A call, up to the search: times outside the file are refused.
Ask(tNs) ==
  /\ phase = "ready"
  /\ t' = tNs
  /\ \/ /\ tNs < times(0) \/ tNs > times(last)
        /\ phase' = "outsideFile"
        /\ UNCHANGED <<lo, hi>>
     \/ /\ times(0) <= tNs /\ tNs <= times(last)
        /\ phase' = "search"
        /\ lo' = 0 /\ hi' = last
  /\ UNCHANGED <<view, points, source>>

midDown == (lo + hi) \div 2
mid     == (lo + hi + 1) \div 2

SearchPastNode ==
  /\ phase = "search" /\ lo < hi
  /\ \/ times(mid) <= t /\ lo' = mid + 1 /\ UNCHANGED hi
     \/ times(mid) > t /\ hi' = mid - 1 /\ UNCHANGED lo
  /\ UNCHANGED <<view, points, source, phase, t>>
\* One turn of the search for the largest k with times[k] <= t.
Search ==
  /\ phase = "search" /\ lo < hi
  /\ \/ /\ times(mid) <= t
        /\ lo' = mid
        /\ UNCHANGED hi
     \/ /\ times(mid) > t
        /\ hi' = mid - 1
        /\ UNCHANGED lo
  /\ UNCHANGED <<view, points, source, phase, t>>

\* Node i of the window that begins with node start.
NodeFits(start, i) == times(start + i) - times(start) = i * view.intervalNs

EquidistantButFirst(start) == \A i \in 2..(points - 1) : NodeFits(start, i)
Equidistant(start) == \A i \in 1..(points - 1) : NodeFits(start, i)

InOpenCore == kMin <= lo /\ lo < kMax
\* The window exists as a whole; it is never shifted (K-3).
InCore == kMin <= lo /\ lo <= kMax

\* After the search: edge, equidistance, and lagrangeValueAndDerivative, which
\* refuses fewer than two nodes.
Finish ==
  /\ phase = "search" /\ lo >= hi
  /\ phase' = IF ~ InCore THEN "edge"
           ELSE IF ~ Equidistant(lo - half) THEN "notEquidistant"
           ELSE IF points < 2 THEN "invalidMathExpr"
           ELSE "answered"
  /\ UNCHANGED <<view, points, source, t, lo, hi>>

Outcomes ==
  {"outsideFile", "edge", "notEquidistant", "invalidMathExpr", "answered"}

\* The caller has the state, or the error, and may ask again; the variables of
\* the call are gone.
Return ==
  /\ phase \in Outcomes
  /\ phase' = "ready"
  /\ t' = 0 /\ lo' = 0 /\ hi' = 0
  /\ UNCHANGED <<view, points, source>>

\* There is no worldline to ask.
Failed == phase \in {"tooFewEpochs", "missingField"} /\ UNCHANGED worldlineVars

Evaluate == Search \/ Finish

WorldlineNext ==
  \/ \E velocitySource \in {"auto", "records", "derivative"} :
       Construct(velocitySource)
  \/ \E tNs \in Query : Ask(tNs)
  \/ Evaluate \/ Return
  \/ Failed

WorldlineSpec == WorldlineInit /\ [][WorldlineNext]_worldlineVars

\* stateAt runs synchronously; whether it is called again is up to the caller.
FairSpec == WorldlineSpec /\ WF_worldlineVars(Evaluate)

------------------------------------------------------------------------------
(* Properties *)

\* Types; the search stays within the file, and the nodes it is asked for
\* exist.
WorldlineTypeOK ==
  /\ view \in View /\ points \in Points
  /\ source \in {"none", "records", "derivative"}
  /\ phase \in {"new", "tooFewEpochs", "missingField", "ready", "search"}
              \union Outcomes
  /\ t \in Int
  /\ lo \in Nat /\ hi \in Nat
  /\ source # "none" => points <= Len(view.times)
  /\ source = "records" => view.hasRecords
  /\ phase \in {"ready", "search"} \union Outcomes => source # "none"
  /\ phase = "search" => lo <= hi /\ hi <= last

\* k is where a state at t can be interpolated: t lies between node k and the
\* next one, and the window centred there is complete and equidistant.
Usable(k) ==
  /\ k \in kMin..kMax
  /\ Equidistant(k - half)
  /\ times(k) <= t /\ t < times(k + 1)

\* K-1 and K-3: a state is only returned from nodes that lie in the grid with
\* t between the two in the middle, in whatever order the epochs stand in the
\* file and however often they do: the search needs no sorted epochs for it.
AnsweredFromCentredWindow ==
  phase = "answered" =>
    /\ Usable(lo)
    /\ times(lo + 1) - times(lo) = view.intervalNs

Ascending ==
  \A i, j \in 0..last : i < j => times(i) < times(j)

\* If the epochs ascend, a state that can be interpolated is: no binary search
\* that ends one node off makes stateAt refuse it.
AnswersWhereItCan ==
  /\ Ascending /\ points > 1
  /\ phase \in {"outsideFile", "edge", "notEquidistant"}
  => \A k \in kMin..kMax : ~ Usable(k)

\* Every evaluation ends, in any order of epochs.
SearchEnds == phase = "search" ~> phase \in Outcomes
==============================================================================
