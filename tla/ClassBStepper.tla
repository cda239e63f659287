----------------------------- MODULE ClassBStepper -----------------------------
(***************************************************************************)
(* The step size control of executeClassBMapping                           *)
(* (packages/cg-engine/src/relativistik.ts): an embedded Runge-Kutta 4(5)  *)
(* integration of the clock rate along a worldline, in whole nanoseconds.  *)
(*                                                                         *)
(* The six stages and the two sums of a step are abstracted to what the    *)
(* control sees of them, the error estimate err, which the worldline       *)
(* decides: any member of Err.  Worldlines are classed by the step size    *)
(* smooth up to which an error always stays within its tolerance, and by   *)
(* the times at which they refuse to answer: an SP3 worldline throws at    *)
(* its edges and gaps, the clock rate where |v| >= c or |r| = 0.           *)
(***************************************************************************)
EXTENDS Integers

CONSTANTS
  Time,       \* TAI times in ns that requests name
  MaxStepNs,  \* the maxStepNs of requests, Default when they name none
  Default,    \* stands for an absent maxStepNs
  MaxSteps,   \* the maxSteps of requests
  Smooth,     \* step sizes below which worldlines behave; 0: never
  Refusals,   \* the sets of times, in NodeDen-ths of a ns, refused
  Err,        \* error estimates, in units of the accumulator
  TolNum,     \* tolerance per ns of step size, in units of the accumulator:
  TolDen      \* the rational TolNum / TolDen

ASSUME TimeAssumption == Time \subseteq Int
ASSUME MaxStepAssumption == MaxStepNs \subseteq Int /\ Default \notin Int
ASSUME CountAssumption == MaxSteps \subseteq Int /\ Smooth \subseteq Nat
ASSUME RefusalAssumption == \A times \in Refusals : times \subseteq Int
ASSUME ErrAssumption ==
  /\ Err \subseteq Nat
  /\ 0 \in Err
  /\ TolNum \in Nat /\ TolDen \in Nat \ {0}

Request ==
  [worldline : BOOLEAN, t0 : Time, t1 : Time,
   maxStepNs : MaxStepNs \union {Default}, maxSteps : MaxSteps, smooth : Smooth,
   refused : Refusals]

VARIABLES
  req,            \* the request
  pc,             \* "called", "running", "returned" or the error thrown
  tCur, h,        \* integrated up to tCur; the step size preferred next
  steps,          \* accepted steps
  rejected,       \* rejected steps
  minStepHits,    \* accepted at 1 ns although the tolerance is violated
  maxLocalError,  \* largest error estimate accepted
  errSum          \* sum of the accepted estimates, minStepHits apart

vars ==
  <<req, pc, tCur, h, steps, rejected, minStepHits, maxLocalError, errSum>>

------------------------------------------------------------------------------
(* Arithmetic of the control *)

span == req.t1 - req.t0

AtMost(x, y) == IF x < y THEN x ELSE y
AtLeast(x, y) == IF x < y THEN y ELSE x

hMax ==
  AtMost(AtLeast(IF req.maxStepNs = Default THEN span \div 16
                 ELSE req.maxStepNs, 1), span)

tolYOfInterval(stepNs) == (2 * span * TolNum + TolDen) \div (2 * TolDen)
\* ratRoundToScale(tolRate, hStep * ACC_DEN): half away from zero
tolY(stepNs) == (2 * stepNs * TolNum + TolDen) \div (2 * TolDen)

remaining == req.t1 - tCur
hStepUnclamped == h
hStep == AtMost(h, remaining)

\* The nodes of a step over their common denominator.  The second node of
\* the tableau, 1/4, has no weight and is skipped.
NodeDen == 104
Nodes == {0, 39, 96, 104, 52}   \* 0, 3/8, 12/13, 1 and 1/2

\* A node of this step lies where the worldline cannot answer.
StageRefused == \E node \in Nodes : NodeDen * tCur + node * hStep \in req.refused

\* The estimates the worldline of the request can produce for this step.
Estimates ==
  {err \in Err : ~ StageRefused /\ (hStep <= req.smooth => err <= tolY(hStep))}

------------------------------------------------------------------------------
(* Steps *)

Init ==
  /\ req \in Request
  /\ pc = "called"
  /\ tCur = 0 /\ h = 0
  /\ steps = 0 /\ rejected = 0 /\ minStepHits = 0
  /\ maxLocalError = 0 /\ errSum = 0

\* Everything before the loop, the three early exits included.
Begin ==
  /\ pc = "called"
  /\ \/ /\ ~ req.worldline
        /\ pc' = "missingRefPoint"
        /\ UNCHANGED <<tCur, h>>
     \/ /\ req.worldline /\ span < 0
        /\ pc' = "mappingConstraintViolated"
        /\ UNCHANGED <<tCur, h>>
     \/ /\ req.worldline /\ span = 0
        /\ pc' = "returned"
        /\ tCur' = req.t0
        /\ UNCHANGED h
     \/ /\ req.worldline /\ span > 0
        /\ pc' = "running"
        /\ tCur' = req.t0
        /\ h' = hMax
  /\ UNCHANGED <<req, steps, rejected, minStepHits, maxLocalError, errSum>>

TooManySteps == steps + rejected >= req.maxSteps

\* maxSteps is checked before every step, accepted or rejected.
Abort ==
  /\ pc = "running"
  /\ TooManySteps
  /\ pc' = "maxStepsExceeded"
  /\ UNCHANGED <<req, tCur, h, steps, rejected, minStepHits, maxLocalError,
                 errSum>>

\* stateAt or properTimeRateScaled throws in a stage: nothing catches it.
StageThrows ==
  /\ pc = "running" /\ ~ TooManySteps /\ StageRefused
  /\ pc' = "worldlineRefuses"
  /\ UNCHANGED <<req, tCur, h, steps, rejected, minStepHits, maxLocalError,
                 errSum>>

\* The step size after an accepted step.
Grown(err) ==
  AtMost(IF err * 16 <= tolY(hStep) THEN hStep * 2 ELSE hStep, hMax)

Accepts(err) == err <= tolY(hStep) \/ hStep = 1

Accept(err) ==
  /\ pc = "running" /\ ~ TooManySteps /\ Accepts(err)
  /\ tCur' = tCur + hStep
  /\ steps' = steps + 1
  /\ minStepHits' = IF err > tolY(hStep) THEN minStepHits + 1 ELSE minStepHits
  /\ errSum' = IF err > tolY(hStep) THEN errSum ELSE errSum + err
  /\ maxLocalError' = AtLeast(maxLocalError, err)
  /\ h' = Grown(err)
  /\ pc' = IF tCur' < req.t1 THEN "running" ELSE "returned"
  /\ UNCHANGED <<req, rejected>>

Quartered == AtLeast(hStep \div 4, 1)
LessOne == AtLeast(hStep - 1, 1)
Halved == AtLeast(hStep \div 2, 1)

RejectAndRetry(err) ==
  /\ pc = "running" /\ ~ TooManySteps /\ ~ Accepts(err)
  /\ rejected' = rejected + 1
  /\ UNCHANGED <<req, pc, tCur, h, steps, minStepHits, maxLocalError, errSum>>
Reject(err) ==
  /\ pc = "running" /\ ~ TooManySteps /\ ~ Accepts(err)
  /\ rejected' = rejected + 1
  /\ h' = Halved
  /\ UNCHANGED <<req, pc, tCur, steps, minStepHits, maxLocalError, errSum>>

Ended == pc \notin {"called", "running"} /\ UNCHANGED vars

Next ==
  \/ Begin \/ Abort \/ StageThrows
  \/ \E err \in Estimates : Accept(err) \/ Reject(err)
  \/ Ended

Spec == Init /\ [][Next]_vars

\* The function runs synchronously: nothing keeps it from its next step.
FairSpec == Spec /\ WF_vars(Next)

------------------------------------------------------------------------------
(* Properties *)

Errors ==
  {"missingRefPoint", "mappingConstraintViolated", "maxStepsExceeded",
   "worldlineRefuses"}

\* Types; the integration never leaves [t0, t1], returns only at t1, and its
\* step size stays a step size.
TypeOK ==
  /\ req \in Request
  /\ pc \in {"called", "running", "returned"} \union Errors
  /\ tCur \in Int /\ h \in Nat
  /\ steps \in Nat /\ rejected \in Nat /\ minStepHits \in 0..steps
  /\ maxLocalError \in Nat /\ errSum \in Nat
  /\ pc = "running" =>
       req.worldline /\ req.t0 <= tCur /\ tCur < req.t1 /\ h \in 1..hMax
  /\ pc = "returned" =>
       req.worldline /\ req.t0 <= req.t1 /\ tCur = req.t1

\* The smallest step size the control can arrive at on a worldline that
\* behaves for every step of at most req.smooth.
hFloor == AtLeast(AtMost(hMax, (req.smooth + 1) \div 2), 1)

\* Halving stops where the worldline behaves: the control does not creep at
\* tiny steps after a difficult stretch, and reaches 1 ns only on worldlines
\* that misbehave down there.
StepSizeHasFloor ==
  pc = "running" =>
    /\ hFloor <= h
    /\ steps * hFloor <= tCur - req.t0
    /\ req.smooth > 0 => minStepHits = 0

\* The comment at relativistik.ts:343, with the rounding of tolY: the errors
\* accepted within tolerance add up to at most tolRate * (tCur - t0) and half
\* a unit per step; no larger single error is accepted except at 1 ns.
ErrorWithinBudget ==
  pc \in {"running", "returned"} /\ span > 0 =>
    /\ 2 * TolDen * errSum <= 2 * TolNum * (tCur - req.t0) + TolDen * steps
    /\ maxLocalError <= tolY(hMax) \/ minStepHits > 0

\* The most steps of at least hFloor that fit in the interval.
longest == (span + hFloor - 1) \div hFloor
\* How often hMax can be halved before it arrives at the floor.
halvings == CHOOSE k \in 0..hMax :
              2^k * hFloor <= hMax /\ hMax < 2^(k + 1) * hFloor

\* The maxSteps that suffices for the request, whatever the worldline does
\* above its req.smooth.
Sufficient == req.maxSteps > 2 * (longest - 1) + halvings

\* maxSteps stops no integration it has room for, however errors alternate.
NoNeedlessAbort == pc = "maxStepsExceeded" => ~ Sufficient

\* The worldline answers at every time of the interval asked for.
Answers == req.refused \cap (NodeDen * req.t0)..(NodeDen * req.t1) = {}

\* A request for an interval that maxSteps has room for ends with the result
\* (relativistik.ts:229, "Sicherung gegen Nichtterminierung", is not what ends
\* it), or with the worldline's refusal; and that only if the worldline refuses
\* a time of the interval: no stage looks outside of it, also not the stages of
\* a step that was cut at its end, halved or doubled.
Completes ==
  pc = "called" /\ req.worldline /\ span > 0 /\ Sufficient
    ~> pc = "returned" \/ (pc = "worldlineRefuses" /\ ~ Answers)
==============================================================================
