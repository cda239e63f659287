---------------------------- MODULE NumericsProofs ----------------------------
(***************************************************************************)
(* ClassBStepper for every request, every tolerance and every set of error *)
(* estimates: types, the floor of the step size, the error budget and the  *)
(* number of steps.  TimeArithmetic for every unit, number and length of   *)
(* chain: types with decoding, and the drift of a chain.                   *)
(*                                                                         *)
(* TypeOK is inductive.  The floor needs it for the last step, which may   *)
(* be cut below the floor: after it the integration is not running.  The   *)
(* budget adds up what tolY, rounded half away from zero, allows per step. *)
(* The number of steps follows from Pace: an accepted step at most doubles *)
(* the step size and a rejected one at least halves it, above the floor,   *)
(* so there are at most halvings more rejected steps than accepted ones.   *)
(*                                                                         *)
(* Carried is what every operation of a chain preserves.  Each has a lemma *)
(* about two numbers no further apart than drift: quotients toward zero,   *)
(* remainders, rounded fractions, and powers, whose difference is at most  *)
(* the slope of the power between them.  The recursion of Pow is shown to  *)
(* define a function first; induction takes the least counterexample.      *)
(***************************************************************************)
EXTENDS ClassBStepper, TimeArithmetic, FiniteSetTheorems, WellFoundedInduction, TLAPS

LEMMA RequestTypes ==
  ASSUME req \in Request
  PROVE  /\ req.t0 \in Int /\ req.t1 \in Int /\ span \in Int
         /\ req.smooth \in Nat /\ req.maxSteps \in Int
         /\ req.maxStepNs # Default => req.maxStepNs \in Int
  <1>1. /\ req.t0 \in Time /\ req.t1 \in Time /\ req.smooth \in Smooth
        /\ req.maxSteps \in MaxSteps
        /\ req.maxStepNs \in MaxStepNs \union {Default}
    BY DEF Request
  <1>2. req.t0 \in Int /\ req.t1 \in Int
    BY <1>1, TimeAssumption
  <1>3. req.smooth \in Nat /\ req.maxSteps \in Int
    BY <1>1, CountAssumption
  <1>4. req.maxStepNs # Default => req.maxStepNs \in Int
    BY <1>1, MaxStepAssumption
  <1> QED
    BY <1>2, <1>3, <1>4 DEF span

\* The first step size is a step size of the interval.
LEMMA HMaxType ==
  ASSUME req \in Request, span > 0
  PROVE  hMax \in Int /\ 1 <= hMax /\ hMax <= span
  <1> DEFINE wish == IF req.maxStepNs = Default THEN span \div 16
                     ELSE req.maxStepNs
  <1>1. span \in Int /\ wish \in Int
    BY RequestTypes
  <1> HIDE DEF wish
  <1>2. hMax = AtMost(AtLeast(wish, 1), span)
    BY DEF hMax, wish
  <1> QED
    BY <1>1, <1>2 DEF AtMost, AtLeast

LEMMA HFloorType ==
  ASSUME req \in Request, span > 0
  PROVE  hFloor \in Int /\ 1 <= hFloor /\ hFloor <= hMax
  BY HMaxType, RequestTypes DEF hFloor, AtMost, AtLeast

\* What one running step may take for granted.
LEMMA Running ==
  ASSUME TypeOK, pc = "running"
  PROVE  /\ req \in Request /\ req.t0 \in Int /\ req.t1 \in Int
         /\ span \in Int /\ span > 0
         /\ tCur \in Int /\ req.t0 <= tCur /\ tCur < req.t1
         /\ h \in Int /\ 1 <= h /\ h <= hMax /\ hMax \in Int
         /\ hStep \in Int /\ 1 <= hStep /\ hStep <= h
         /\ tCur + hStep <= req.t1
         /\ tCur + hStep < req.t1 => hStep = h
  <1>1. /\ req \in Request /\ req.t0 \in Int /\ req.t1 \in Int
        /\ tCur \in Int /\ req.t0 <= tCur /\ tCur < req.t1
        /\ span \in Int /\ span > 0 /\ h \in Nat /\ h \in 1..hMax
    BY RequestTypes DEF TypeOK, span
  <1>2. hMax \in Int
    BY <1>1, HMaxType
  <1>3. h \in Int /\ 1 <= h /\ h <= hMax
    BY <1>1, <1>2
  <1> QED
    BY <1>1, <1>2, <1>3 DEF hStep, AtMost, remaining

LEMMA ErrTypes == \A err \in Estimates : err \in Nat
  BY ErrAssumption DEF Estimates

------------------------------------------------------------------------------
(* Types *)

LEMMA BeginTypes == ASSUME TypeOK, Begin PROVE TypeOK'
  <1>1. CASE req.worldline /\ span > 0 /\ pc' = "running"
    <2>1. hMax \in Int /\ 1 <= hMax /\ hMax <= span
      BY <1>1, HMaxType DEF TypeOK
    <2>2. tCur' = req.t0 /\ h' = hMax /\ req' = req
      BY <1>1 DEF Begin
    <2>3. hMax' = hMax
      BY <2>2 DEF hMax, span
    <2> QED
      BY <1>1, <2>1, <2>2, <2>3, RequestTypes DEF TypeOK, Begin, span
  <1>2. CASE req.worldline /\ span = 0 /\ pc' = "returned"
    BY <1>2, RequestTypes DEF TypeOK, Begin, span
  <1>3. CASE pc' \in {"missingRefPoint", "mappingConstraintViolated"}
    BY <1>3 DEF TypeOK, Begin, Errors
  <1> QED
    BY <1>1, <1>2, <1>3 DEF Begin

LEMMA AcceptTypes ==
  ASSUME TypeOK, NEW err \in Estimates, Accept(err)
  PROVE  TypeOK'
  <1>1. pc = "running" /\ req' = req
    BY DEF Accept
  <1>2. hMax' = hMax
    BY <1>1 DEF hMax, span
  <1>3. /\ Grown(err) \in Int /\ 1 <= Grown(err) /\ Grown(err) <= hMax
    BY <1>1, Running DEF Grown, AtMost
  <1>4. /\ req.worldline
        /\ steps \in Nat /\ rejected \in Nat /\ minStepHits \in 0..steps
        /\ maxLocalError \in Nat /\ errSum \in Nat /\ err \in Nat
    BY <1>1, ErrTypes DEF TypeOK
  <1>5. /\ tCur' = tCur + hStep /\ h' = Grown(err)
        /\ steps' = steps + 1 /\ rejected' = rejected
        /\ minStepHits' \in {minStepHits, minStepHits + 1}
        /\ errSum' \in {errSum, errSum + err}
        /\ maxLocalError' \in {maxLocalError, err}
        /\ pc' = IF tCur' < req.t1 THEN "running" ELSE "returned"
    BY DEF Accept, AtLeast
  <1>6. /\ steps' \in Nat /\ rejected' \in Nat /\ minStepHits' \in 0..steps'
        /\ maxLocalError' \in Nat /\ errSum' \in Nat
    BY <1>4, <1>5
  <1> QED
    BY <1>1, <1>2, <1>3, <1>4, <1>5, <1>6, Running DEF TypeOK

LEMMA RejectTypes ==
  ASSUME TypeOK, NEW err \in Estimates, Reject(err)
  PROVE  TypeOK'
  <1>1. pc = "running" /\ req' = req /\ h' = Halved
    BY DEF Reject
  <1>2. hMax' = hMax
    BY <1>1 DEF hMax, span
  <1>3. Halved \in Int /\ 1 <= Halved /\ Halved <= hMax
    BY <1>1, Running DEF Halved, AtLeast
  <1> QED
    BY <1>1, <1>2, <1>3 DEF TypeOK, Reject

LEMMA InitTypes == Init => TypeOK
  BY DEF Init, TypeOK

LEMMA UnchangedTypes == TypeOK /\ UNCHANGED vars => TypeOK'
  BY DEF TypeOK, vars, hMax, span

LEMMA NextTypes == TypeOK /\ [Next]_vars => TypeOK'
  <1> SUFFICES ASSUME TypeOK, [Next]_vars PROVE TypeOK'
    OBVIOUS
  <1>1. CASE Abort \/ StageThrows
    BY <1>1 DEF Abort, StageThrows, TypeOK, Errors
  <1> QED
    BY <1>1, BeginTypes, AcceptTypes, RejectTypes, UnchangedTypes
    DEF Next, Ended

\* The integration never leaves its interval, returns only at its end, and
\* its step size stays between 1 and hMax.
THEOREM TypeCorrect == Spec => []TypeOK
  BY InitTypes, NextTypes, PTL DEF Spec

------------------------------------------------------------------------------
(* The floor of the step size *)

\* hFloor is a constant of the request; no step below it is ever rejected.
LEMMA FloorStep ==
  ASSUME TypeOK, pc = "running", StepSizeHasFloor, NEW err \in Estimates
  PROVE  /\ hFloor \in Int /\ 1 <= hFloor /\ hFloor <= h
         /\ Accepts(err) \/ hFloor <= hStep \div 2
  <1>1. hFloor \in Int /\ 1 <= hFloor
    BY Running, HFloorType
  <1>2. hFloor <= h
    BY DEF StepSizeHasFloor
  <1>3. ASSUME ~ Accepts(err) PROVE hFloor <= hStep \div 2
    <2>1. hStep \in Int /\ hStep >= 2
      BY <1>3, Running DEF Accepts
    <2>2. req.smooth \in Nat /\ hMax \in Int
      BY Running, RequestTypes
    <2>3. hStep > req.smooth
      BY <1>3, <2>1, <2>2 DEF Estimates, Accepts
    <2> QED
      BY <2>1, <2>2, <2>3 DEF hFloor, AtMost, AtLeast
  <1> QED
    BY <1>1, <1>2, <1>3

LEMMA AcceptFloor ==
  ASSUME TypeOK, StepSizeHasFloor, NEW err \in Estimates, Accept(err)
  PROVE  StepSizeHasFloor'
  <1> SUFFICES ASSUME pc' = "running" PROVE StepSizeHasFloor'
    BY DEF StepSizeHasFloor
  <1>1. /\ pc = "running" /\ req' = req /\ steps' = steps + 1
        /\ tCur' = tCur + hStep /\ tCur' < req.t1 /\ h' = Grown(err)
    BY DEF Accept
  <1>2. hFloor' = hFloor
    BY <1>1 DEF hFloor, hMax, span
  <1>3. /\ hFloor \in Int /\ 1 <= hFloor /\ hFloor <= h /\ hFloor <= hMax
        /\ hStep = h /\ hStep \in Int /\ hMax \in Int /\ 1 <= hStep
    BY <1>1, Running, FloorStep, HFloorType
  <1>4. hFloor <= h'
    BY <1>1, <1>3 DEF Grown, AtMost
  <1>5. steps' * hFloor <= tCur' - req.t0
    <2>1. steps \in Nat /\ tCur \in Int /\ req.t0 \in Int
      BY <1>1, Running DEF TypeOK
    <2>2. steps * hFloor <= tCur - req.t0
      BY <1>1 DEF StepSizeHasFloor
    <2>3. (steps + 1) * hFloor = steps * hFloor + hFloor
      BY <1>3, <2>1
    <2>4. steps * hFloor \in Int
      BY <1>3, <2>1
    <2> QED
      BY <1>1, <1>3, <2>1, <2>2, <2>3, <2>4
  <1>6. ASSUME req.smooth > 0 PROVE minStepHits' = 0
    <2>1. err <= tolY(hStep)
      <3>1. CASE hStep <= req.smooth
        BY <3>1 DEF Estimates
      <3>2. CASE hStep > req.smooth
        BY <1>3, <1>6, <3>2, RequestTypes DEF Accept, Accepts, TypeOK
      <3> QED
        BY <1>3, <3>1, <3>2, RequestTypes DEF TypeOK
    <2>2. err \in Int /\ minStepHits = 0
      BY <1>1, <1>6, ErrTypes DEF StepSizeHasFloor
    <2>3. tolY(hStep) \in Int
      BY <1>3, ErrAssumption DEF tolY
    <2> QED
      BY <2>1, <2>2, <2>3 DEF Accept
  <1> QED
    BY <1>1, <1>2, <1>4, <1>5, <1>6 DEF StepSizeHasFloor

LEMMA RejectFloor ==
  ASSUME TypeOK, StepSizeHasFloor, NEW err \in Estimates, Reject(err)
  PROVE  StepSizeHasFloor'
  <1>1. /\ pc = "running" /\ req' = req /\ steps' = steps /\ tCur' = tCur
        /\ h' = Halved /\ minStepHits' = minStepHits /\ ~ Accepts(err)
    BY DEF Reject
  <1>2. hFloor' = hFloor
    BY <1>1 DEF hFloor, hMax, span
  <1>3. hFloor \in Int /\ hFloor <= hStep \div 2 /\ hStep \in Int
    BY <1>1, FloorStep, Running
  <1>4. hFloor <= Halved
    BY <1>3 DEF Halved, AtLeast
  <1> QED
    BY <1>1, <1>2, <1>4 DEF StepSizeHasFloor

LEMMA BeginFloor ==
  ASSUME TypeOK, pc = "called" => steps = 0 /\ minStepHits = 0, Begin
  PROVE  StepSizeHasFloor'
  <1> SUFFICES ASSUME pc' = "running" PROVE StepSizeHasFloor'
    BY DEF StepSizeHasFloor
  <1>1. /\ pc = "called" /\ req' = req /\ span > 0 /\ tCur' = req.t0 /\ h' = hMax
        /\ steps' = 0 /\ minStepHits' = 0
    BY DEF Begin
  <1>2. hFloor' = hFloor
    BY <1>1 DEF hFloor, hMax, span
  <1>3. hFloor \in Int /\ hFloor <= hMax /\ req.t0 \in Int
    BY <1>1, HFloorType, RequestTypes DEF TypeOK
  <1>4. steps' * hFloor' <= tCur' - req.t0
    BY <1>1, <1>2, <1>3
  <1> QED
    BY <1>1, <1>2, <1>3, <1>4 DEF StepSizeHasFloor

\* Nothing is counted or summed before the loop.
Fresh ==
  pc = "called" =>
    steps = 0 /\ minStepHits = 0 /\ errSum = 0 /\ maxLocalError = 0

LEMMA NextFresh == Fresh /\ [Next]_vars => Fresh'
  BY DEF Fresh, Next, Begin, Abort, StageThrows, Accept, Reject, Ended, vars

\* The step size never falls below half the step size the worldline bears.
THEOREM FloorHolds == Spec => []StepSizeHasFloor
  <1>1. Init => Fresh /\ StepSizeHasFloor
    BY DEF Init, Fresh, StepSizeHasFloor
  <1>2. TypeOK /\ Fresh /\ StepSizeHasFloor /\ [Next]_vars => StepSizeHasFloor'
    <2> SUFFICES ASSUME TypeOK, Fresh, StepSizeHasFloor, [Next]_vars
                 PROVE  StepSizeHasFloor'
      OBVIOUS
    <2>1. CASE Begin
      BY <2>1, BeginFloor DEF Fresh
    <2>2. CASE Abort \/ StageThrows
      BY <2>2 DEF Abort, StageThrows, StepSizeHasFloor
    <2>3. ASSUME NEW err \in Estimates, Accept(err) PROVE StepSizeHasFloor'
      BY <2>3, AcceptFloor
    <2>4. ASSUME NEW err \in Estimates, Reject(err) PROVE StepSizeHasFloor'
      BY <2>4, RejectFloor
    <2>5. CASE UNCHANGED vars
      BY <2>5 DEF vars, StepSizeHasFloor, hFloor, hMax, span
    <2> QED
      BY <2>1, <2>2, <2>3, <2>4, <2>5 DEF Next, Ended
  <1> QED
    BY <1>1, <1>2, NextFresh, TypeCorrect, PTL DEF Spec

------------------------------------------------------------------------------
(* Refusals *)

\* The nodes of a running step lie in the interval of the request.
LEMMA NodesInside ==
  ASSUME TypeOK, pc = "running", NEW node \in Nodes
  PROVE  NodeDen * tCur + node * hStep \in (NodeDen * req.t0)..(NodeDen * req.t1)
  <1>1. /\ req.t0 \in Int /\ req.t1 \in Int /\ tCur \in Int /\ hStep \in Int
        /\ req.t0 <= tCur /\ 1 <= hStep /\ tCur + hStep <= req.t1
    BY Running
  <1>2. node \in {0, 39, 96, 104, 52}
    BY DEF Nodes
  <1>3. /\ node * hStep \in Int /\ 0 <= node * hStep
        /\ node * hStep <= 104 * hStep
    BY <1>1, <1>2
  <1> QED
    BY <1>1, <1>3 DEF NodeDen

\* An integration ends with the worldline's refusal only if the worldline
\* refuses a time of the interval asked for.
THEOREM RefusalIsReal == Spec => [](pc = "worldlineRefuses" => ~ Answers)
  <1> DEFINE Real == pc = "worldlineRefuses" => ~ Answers
  <1>1. Init => Real
    BY DEF Init
  <1>2. TypeOK /\ Real /\ [Next]_vars => Real'
    <2> SUFFICES ASSUME TypeOK, Real, [Next]_vars, pc' = "worldlineRefuses"
                 PROVE  ~ Answers'
      OBVIOUS
    <2>1. req' = req
      BY DEF Next, Begin, Abort, StageThrows, Accept, Reject, Ended, vars
    <2>2. CASE StageThrows
      <3>1. PICK node \in Nodes : NodeDen * tCur + node * hStep \in req.refused
        BY <2>2 DEF StageThrows, StageRefused
      <3>2. NodeDen * tCur + node * hStep
              \in (NodeDen * req.t0)..(NodeDen * req.t1)
        BY <2>2, NodesInside DEF StageThrows
      <3> QED
        BY <2>1, <3>1, <3>2 DEF Answers
    <2>3. CASE pc = "worldlineRefuses"
      BY <2>1, <2>3 DEF Answers
    <2>4. StageThrows \/ pc = "worldlineRefuses"
      BY DEF Next, Begin, Abort, Accept, Reject, Ended, vars
    <2> QED
      BY <2>2, <2>3, <2>4
  <1> QED
    BY <1>1, <1>2, TypeCorrect, PTL DEF Spec

------------------------------------------------------------------------------
(* The error budget *)

LEMMA Division ==
  ASSUME NEW a \in Nat, NEW b \in Nat, b > 0
  PROVE  /\ a \div b \in Nat
         /\ b * (a \div b) <= a
         /\ a < b * (a \div b) + b
  OBVIOUS

LEMMA Distribute ==
  ASSUME NEW a \in Int, NEW b \in Int, NEW c \in Int
  PROVE  a * (b + c) = a * b + a * c
  OBVIOUS

LEMMA MultiplyOrder ==
  ASSUME NEW a \in Nat, NEW b \in Int, NEW c \in Int, b <= c
  PROVE  a * b <= a * c
  OBVIOUS

\* Rounded half away from zero, a tolerance is at most half a unit too large.
LEMMA TolYBound ==
  ASSUME NEW x \in Nat
  PROVE  /\ tolY(x) \in Nat
         /\ (2 * TolDen) * tolY(x) <= (2 * TolNum) * x + TolDen
  <1> DEFINE a == 2 * x * TolNum + TolDen
             b == 2 * TolDen
  <1>1. a \in Nat /\ b \in Nat /\ b > 0
    BY ErrAssumption
  <1>2. a = (2 * TolNum) * x + TolDen
    BY ErrAssumption
  <1>3. tolY(x) = a \div b
    BY DEF tolY
  <1> HIDE DEF a
  <1>4. tolY(x) \in Nat /\ b * tolY(x) <= a
    <2> HIDE DEF b
    <2> QED
      BY <1>1, <1>3, Division
  <1> QED
    BY <1>2, <1>4

\* A longer step has no smaller tolerance.
LEMMA TolYMonotone ==
  ASSUME NEW x \in Nat, NEW y \in Nat, x <= y
  PROVE  tolY(x) <= tolY(y)
  <1> DEFINE a == 2 * x * TolNum + TolDen
             c == 2 * y * TolNum + TolDen
             b == 2 * TolDen
             p == a \div b
             q == c \div b
  <1>1. a \in Nat /\ c \in Nat /\ b \in Nat /\ b > 0
    BY ErrAssumption
  <1>2. a <= c
    <2>1. TolNum * x <= TolNum * y
      BY ErrAssumption, MultiplyOrder
    <2> QED
      BY <2>1, ErrAssumption
  <1>3. tolY(x) = p /\ tolY(y) = q
    BY DEF tolY
  <1> HIDE DEF a, b, c
  <1>4. p \in Nat /\ q \in Nat /\ b * p <= a /\ c < b * q + b
    BY <1>1, Division
  <1> HIDE DEF p, q
  <1>5. ASSUME q + 1 <= p PROVE FALSE
    <2>1. b * (q + 1) <= b * p
      BY <1>1, <1>4, <1>5, MultiplyOrder
    <2>2. b * (q + 1) = b * q + b
      BY <1>1, <1>4
    <2>3. b * q \in Int /\ b * p \in Int
      BY <1>1, <1>4
    <2> QED
      BY <1>1, <1>2, <1>4, <2>1, <2>2, <2>3
  <1> QED
    BY <1>3, <1>4, <1>5

Budget ==
  (2 * TolDen) * errSum <= (2 * TolNum) * (tCur - req.t0) + TolDen * steps
LargestError == maxLocalError <= tolY(hMax) \/ minStepHits > 0

LEMMA AcceptBudget ==
  ASSUME TypeOK, Budget, LargestError, NEW err \in Estimates, Accept(err)
  PROVE  Budget' /\ LargestError'
  <1>1. /\ pc = "running" /\ req' = req /\ steps' = steps + 1
        /\ tCur' = tCur + hStep
        /\ minStepHits' = IF err > tolY(hStep) THEN minStepHits + 1 ELSE minStepHits
        /\ errSum' = IF err > tolY(hStep) THEN errSum ELSE errSum + err
        /\ maxLocalError' = IF maxLocalError < err THEN err ELSE maxLocalError
    BY DEF Accept, AtLeast
  <1>2. /\ hStep \in Nat /\ hMax \in Nat /\ hStep <= hMax
        /\ tCur \in Int /\ req.t0 \in Int
        /\ steps \in Nat /\ errSum \in Nat /\ err \in Nat
        /\ minStepHits \in Nat /\ maxLocalError \in Nat
        /\ TolNum \in Nat /\ TolDen \in Nat
    BY <1>1, Running, ErrTypes, ErrAssumption DEF TypeOK
  <1>3. /\ tolY(hStep) \in Nat
        /\ (2 * TolDen) * tolY(hStep) <= (2 * TolNum) * hStep + TolDen
        /\ tolY(hStep) <= tolY(hMax) /\ tolY(hMax) \in Nat
    BY <1>2, TolYBound, TolYMonotone
  <1>4. Budget'
    <2> DEFINE D == 2 * TolDen
               N == 2 * TolNum
               x == tCur - req.t0
    <2>1. D \in Nat /\ N \in Nat /\ x \in Int
      BY <1>2
    <2>2. D * errSum <= N * x + TolDen * steps
      BY DEF Budget
    <2>3. tCur' - req'.t0 = x + hStep
      BY <1>1, <1>2
    <2>4. N * (x + hStep) = N * x + N * hStep
      BY <1>2, <2>1, Distribute
    <2>5. TolDen * (steps + 1) = TolDen * steps + TolDen
      BY <1>2
    <2>6. /\ D * tolY(hStep) <= N * hStep + TolDen
          /\ D * tolY(hStep) \in Nat /\ N * hStep \in Nat
          /\ N * x \in Int /\ TolDen * steps \in Nat /\ D * errSum \in Nat
      BY <1>2, <1>3, <2>1
    <2> HIDE DEF D, N, x
    <2>7. D * errSum' <= N * (x + hStep) + TolDen * (steps + 1)
      <3>1. CASE err > tolY(hStep)
        BY <1>1, <1>2, <2>2, <2>4, <2>5, <2>6, <3>1
      <3>2. CASE err <= tolY(hStep)
        <4>1. D * err <= D * tolY(hStep)
          BY <1>2, <1>3, <2>1, <3>2, MultiplyOrder
        <4>2. D * (errSum + err) = D * errSum + D * err
          BY <1>2, <2>1, Distribute
        <4>3. D * err \in Int
          BY <1>2, <2>1
        <4> QED
          BY <1>1, <1>2, <1>3, <2>2, <2>4, <2>5, <2>6, <3>2, <4>1, <4>2, <4>3
      <3> QED
        BY <1>2, <1>3, <3>1, <3>2
    <2> QED
      BY <1>1, <2>3, <2>7 DEF Budget, D, N, x
  <1>5. LargestError'
    <2>1. hMax' = hMax /\ tolY(hMax)' = tolY(hMax)
      BY <1>1 DEF hMax, span, tolY
    <2> QED
      BY <1>1, <1>2, <1>3, <2>1 DEF LargestError
  <1> QED
    BY <1>4, <1>5

\* The accepted errors stay within tolRate per nanosecond and half a unit of
\* rounding per step, for every worldline and every tolerance.
THEOREM BudgetHolds == Spec => []ErrorWithinBudget
  <1> DEFINE Inv == pc \in {"running", "returned"} => Budget /\ LargestError
  <1>1. Init => Fresh /\ Inv
    BY DEF Init, Fresh
  <1>2. TypeOK /\ Fresh /\ Inv /\ [Next]_vars => Inv'
    <2> SUFFICES ASSUME TypeOK, Fresh, Inv, [Next]_vars PROVE Inv'
      OBVIOUS
    <2>1. CASE Begin
      <3> SUFFICES ASSUME pc' \in {"running", "returned"}
                   PROVE  Budget' /\ LargestError'
        OBVIOUS
      <3>1. /\ errSum' = 0 /\ steps' = 0 /\ maxLocalError' = 0
            /\ tCur' - req'.t0 = 0 /\ req' = req /\ span >= 0
            /\ req.t0 \in Int /\ req \in Request /\ span \in Int
        BY <2>1, RequestTypes DEF Begin, Fresh, TypeOK
      <3>2. Budget'
        BY <3>1, ErrAssumption DEF Budget
      <3>3. hMax' \in Nat /\ hMax' = hMax
        <4>1. hMax' = hMax
          BY <3>1 DEF hMax, span
        <4>2. CASE span > 0
          BY <3>1, <4>1, <4>2, HMaxType
        <4>3. CASE span = 0
          BY <3>1, <4>1, <4>3, RequestTypes DEF hMax, AtMost, AtLeast
        <4> QED
          BY <3>1, <4>1, <4>2, <4>3
      <3>4. tolY(hMax)' \in Nat
        BY <3>3, TolYBound DEF tolY
      <3>5. LargestError'
        BY <3>1, <3>4 DEF LargestError
      <3> QED
        BY <3>2, <3>5
    <2>2. CASE Abort \/ StageThrows
      BY <2>2 DEF Abort, StageThrows
    <2>3. ASSUME NEW err \in Estimates, Accept(err) PROVE Inv'
      BY <2>3, AcceptBudget DEF Accept
    <2>4. ASSUME NEW err \in Estimates, Reject(err) PROVE Inv'
      BY <2>4 DEF Reject, Budget, LargestError, hMax, span, tolY
    <2>5. CASE UNCHANGED vars
      BY <2>5 DEF vars, Budget, LargestError, hMax, span, tolY
    <2> QED
      BY <2>1, <2>2, <2>3, <2>4, <2>5 DEF Next, Ended
  <1>3. Inv => ErrorWithinBudget
    BY DEF ErrorWithinBudget, Budget, LargestError
  <1> QED
    BY <1>1, <1>2, <1>3, NextFresh, TypeCorrect, PTL DEF Spec

------------------------------------------------------------------------------
(* Powers of two *)

\* The provers have no arithmetic for ^: what is known of it here comes from
\* the number of subsets of an interval.
Pow2(n) == 2^n

LEMMA Subsets ==
  ASSUME NEW n \in Nat
  PROVE  /\ IsFiniteSet(SUBSET (1 .. n))
         /\ Cardinality(SUBSET (1 .. n)) = Pow2(n)
         /\ Pow2(n) \in Nat
  <1>1. IsFiniteSet(1 .. n) /\ Cardinality(1 .. n) = n
    <2>1. IsFiniteSet(1 .. n) /\ Cardinality(1 .. n) = IF 1 > n THEN 0 ELSE n - 1 + 1
      BY FS_Interval
    <2> QED
      BY <2>1
  <1>2. /\ IsFiniteSet(SUBSET (1 .. n))
        /\ Cardinality(SUBSET (1 .. n)) = 2^Cardinality(1 .. n)
    BY <1>1, FS_SUBSET, Zenon
  <1>3. Cardinality(SUBSET (1 .. n)) = Pow2(n)
    BY <1>1, <1>2, Zenon DEF Pow2
  <1>4. Cardinality(SUBSET (1 .. n)) \in Nat
    BY <1>2, FS_CardinalityType, Zenon
  <1> QED
    BY <1>2, <1>3, <1>4

LEMMA PowZero == Pow2(0) = 1
  <1>1. SUBSET (1 .. 0) = {{}}
    <2>1. 1 .. 0 = {}
      OBVIOUS
    <2> QED
      BY <2>1
  <1>2. Cardinality({{}}) = 1
    BY FS_Singleton
  <1>3. Cardinality(SUBSET (1 .. 0)) = Pow2(0)
    BY Subsets
  <1> QED
    BY <1>1, <1>2, <1>3, Zenon

\* Half of the subsets of 1 .. n + 1 hold n + 1.
LEMMA PowStep ==
  ASSUME NEW n \in Nat
  PROVE  Pow2(n + 1) = 2 * Pow2(n)
  <1> DEFINE S == SUBSET (1 .. n)
             T == {X \in SUBSET (1 .. n + 1) : n + 1 \in X}
             f == [X \in S |-> X \union {n + 1}]
  <1>1. /\ IsFiniteSet(S) /\ Cardinality(S) = Pow2(n) /\ Pow2(n) \in Nat
        /\ Cardinality(SUBSET (1 .. n + 1)) = Pow2(n + 1)
    BY Subsets
  <1>2. SUBSET (1 .. n + 1) = S \union T
    <2>1. 1 .. n + 1 = (1 .. n) \union {n + 1}
      OBVIOUS
    <2> QED
      BY <2>1
  <1>3. S \cap T = {}
    <2>1. n + 1 \notin 1 .. n
      OBVIOUS
    <2> QED
      BY <2>1
  <1>4. ExistsBijection(S, T)
    <2>1. n + 1 \notin 1 .. n /\ 1 .. n + 1 = (1 .. n) \union {n + 1}
      OBVIOUS
    <2>2. f \in [S -> T]
      BY <2>1
    <2>3. \A X, Y \in S : f[X] = f[Y] => X = Y
      <3> SUFFICES ASSUME NEW X \in S, NEW Y \in S,
                          X \union {n + 1} = Y \union {n + 1}
                   PROVE  X = Y
        OBVIOUS
      <3>1. n + 1 \notin X /\ n + 1 \notin Y
        BY <2>1
      <3> QED
        BY <3>1
    <2>4. \A Y \in T : \E X \in S : f[X] = Y
      <3> SUFFICES ASSUME NEW Y \in T PROVE \E X \in S : f[X] = Y
        OBVIOUS
      <3>1. Y \ {n + 1} \in S /\ (Y \ {n + 1}) \union {n + 1} = Y
        BY <2>1
      <3> QED
        BY <3>1
    <2> HIDE DEF S, T, f
    <2>5. f \in Bijection(S, T)
      BY <2>2, <2>3, <2>4 DEF Bijection, Injection, Surjection, IsInjective
    <2> QED
      BY <2>5 DEF ExistsBijection
  <1> HIDE DEF S, T, f
  <1>5. IsFiniteSet(T) /\ Cardinality(T) = Pow2(n)
    BY <1>1, <1>4, FS_Bijection
  <1>6. Cardinality(S \union T) = Cardinality(S) + Cardinality(T) - Cardinality({})
    BY <1>1, <1>3, <1>5, FS_Union
  <1>7. Cardinality(S \union T) = Cardinality(SUBSET (1 .. n + 1))
    BY <1>2, Zenon
  <1> QED
    BY <1>1, <1>5, <1>6, <1>7, FS_EmptySet

LEMMA PowPositive ==
  ASSUME NEW n \in Nat
  PROVE  Pow2(n) \in Nat /\ Pow2(n) >= 1
  <1>1. /\ IsFiniteSet(SUBSET (1 .. n)) /\ Cardinality(SUBSET (1 .. n)) = Pow2(n)
        /\ Pow2(n) \in Nat
    BY Subsets
  <1>2. SUBSET (1 .. n) # {}
    OBVIOUS
  <1>3. Pow2(n) # 0
    BY <1>1, <1>2, FS_EmptySet
  <1> QED
    BY <1>1, <1>3

\* The least number of a set of numbers.
LEMMA LeastOf ==
  ASSUME NEW S \in SUBSET Nat, S # {}
  PROVE  \E x \in S : \A y \in S : x <= y
  <1>1. PICK x \in S : \A y \in S : ~ (<<y, x>> \in OpToRel(<, Nat))
    BY NatLessThanWellFounded, WFMin, Zenon
  <1>2. \A y \in S : ~ (y < x)
    BY <1>1 DEF OpToRel
  <1> QED
    BY <1>2

LEMMA PowExceeds ==
  ASSUME NEW n \in Nat
  PROVE  n < Pow2(n)
  <1> DEFINE S == {k \in Nat : ~ (k < Pow2(k))}
  <1> SUFFICES ASSUME S # {} PROVE FALSE
    OBVIOUS
  <1>1. PICK k \in S : \A j \in S : k <= j
    <2>1. S \in SUBSET Nat
      OBVIOUS
    <2> HIDE DEF S
    <2> QED
      BY <2>1, LeastOf
  <1>2. k \in Nat /\ k # 0 /\ Pow2(k) <= k
    BY <1>1, PowZero, PowPositive
  <1>3. k - 1 \in Nat /\ k - 1 \notin S
    BY <1>1, <1>2
  <1>4. k - 1 < Pow2(k - 1) /\ Pow2(k - 1) \in Nat
    BY <1>3, PowPositive
  <1>5. Pow2((k - 1) + 1) = 2 * Pow2(k - 1)
    BY <1>3, PowStep
  <1>6. (k - 1) + 1 = k
    BY <1>2
  <1> QED
    BY <1>2, <1>4, <1>5, <1>6

------------------------------------------------------------------------------
(* The number of steps *)

\* The CHOOSE of halvings has something to choose.
LEMMA HalvingsIs ==
  ASSUME req \in Request, span > 0
  PROVE  halvings \in Nat /\ hMax < hFloor * Pow2(halvings + 1)
  <1> DEFINE Is(k) == Pow2(k) * hFloor <= hMax /\ hMax < Pow2(k + 1) * hFloor
             S == {k \in Nat : hMax < Pow2(k + 1) * hFloor}
  <1>1. /\ hMax \in Nat /\ hFloor \in Nat /\ 1 <= hFloor /\ hFloor <= hMax
    BY HMaxType, HFloorType
  <1>2. \A k \in Nat : k < Pow2(k) * hFloor
    <2> TAKE k \in Nat
    <2>1. k < Pow2(k) /\ Pow2(k) \in Nat
      BY PowExceeds, PowPositive
    <2>2. Pow2(k) * 1 <= Pow2(k) * hFloor
      BY <1>1, <2>1, MultiplyOrder
    <2>3. Pow2(k) * hFloor \in Int /\ Pow2(k) * 1 = Pow2(k)
      BY <1>1, <2>1
    <2> QED
      BY <2>1, <2>2, <2>3
  <1>3. hMax \in S
    <2>1. hMax + 1 < Pow2(hMax + 1) * hFloor
      BY <1>1, <1>2
    <2>2. Pow2(hMax + 1) * hFloor \in Int
      BY <1>1, PowPositive
    <2> QED
      BY <1>1, <2>1, <2>2
  <1>4. PICK k \in S : \A j \in S : k <= j
    <2>1. S \in SUBSET Nat
      OBVIOUS
    <2> HIDE DEF S
    <2> QED
      BY <1>3, <2>1, LeastOf
  <1>5. Pow2(k) * hFloor <= hMax
    <2>1. CASE k = 0
      BY <1>1, <2>1, PowZero
    <2>2. CASE k # 0
      <3>1. k - 1 \in Nat /\ k - 1 \notin S /\ (k - 1) + 1 = k
        BY <1>4, <2>2
      <3>2. ~ (hMax < Pow2(k) * hFloor)
        BY <3>1
      <3>3. Pow2(k) * hFloor \in Int
        BY <1>1, <1>4, PowPositive
      <3> QED
        BY <1>1, <3>2, <3>3
    <2> QED
      BY <2>1, <2>2
  <1>6. k \in 0 .. hMax
    <2>1. k < Pow2(k) * hFloor /\ Pow2(k) * hFloor \in Int /\ k \in Nat
      BY <1>1, <1>2, <1>4, PowPositive
    <2> QED
      BY <1>1, <1>5, <2>1
  <1>7. Is(k)
    BY <1>4, <1>5
  <1>8. halvings = CHOOSE j \in 0 .. hMax : Is(j)
    BY DEF halvings, Pow2
  <1> HIDE DEF Is
  <1>9. halvings \in 0 .. hMax /\ Is(halvings)
    BY <1>6, <1>7, <1>8
  <1>10. halvings \in Nat /\ hMax < Pow2(halvings + 1) * hFloor
    BY <1>1, <1>9 DEF Is
  <1>11. Pow2(halvings + 1) \in Nat
    BY <1>10, PowPositive
  <1> QED
    BY <1>1, <1>10, <1>11

\* The rejected steps the integration could still take before it arrives at
\* the floor bound the step size it prefers.
Slack == halvings + steps - rejected
Pace ==
  pc = "running" => Slack \in Nat /\ h < hFloor * Pow2(Slack + 1)

LEMMA HalfBelow ==
  ASSUME NEW x \in Int, NEW y \in Int, NEW q \in Int, 2 * x <= y, y < 2 * q
  PROVE  x < q
  OBVIOUS

LEMMA BeginPace == ASSUME TypeOK, Begin, rejected = 0, steps = 0 PROVE Pace'
  <1> SUFFICES ASSUME pc' = "running" PROVE Pace'
    BY DEF Pace
  <1>1. /\ req' = req /\ span > 0 /\ h' = hMax /\ steps' = 0 /\ rejected' = 0
        /\ req \in Request
    BY DEF Begin, TypeOK
  <1>2. hFloor' = hFloor /\ halvings' = halvings
    BY <1>1 DEF hFloor, hMax, span, halvings
  <1>3. halvings \in Nat /\ hMax < hFloor * Pow2(halvings + 1)
    BY <1>1, HalvingsIs
  <1>4. Slack' = halvings
    BY <1>1, <1>2, <1>3 DEF Slack
  <1> QED
    BY <1>1, <1>2, <1>3, <1>4 DEF Pace

\* An accepted step at most doubles the step size.
LEMMA AcceptPace ==
  ASSUME TypeOK, Pace, NEW err \in Estimates, Accept(err)
  PROVE  Pace'
  <1>1. /\ pc = "running" /\ req' = req /\ steps' = steps + 1
        /\ rejected' = rejected /\ h' = Grown(err)
    BY DEF Accept
  <1>2. hFloor' = hFloor /\ halvings' = halvings
    BY <1>1 DEF hFloor, hMax, span, halvings
  <1>3. /\ steps \in Nat /\ rejected \in Nat /\ halvings \in Nat
        /\ Slack \in Nat /\ h < hFloor * Pow2(Slack + 1)
        /\ hFloor \in Nat
    BY <1>1, Running, HalvingsIs, HFloorType DEF TypeOK, Pace
  <1>4. Slack' = Slack + 1
    BY <1>1, <1>2, <1>3 DEF Slack
  <1>5. h' \in Int /\ h' <= 2 * h /\ h \in Int
    BY <1>1, Running DEF Grown, AtMost
  <1>6. Pow2((Slack + 1) + 1) = 2 * Pow2(Slack + 1) /\ Pow2(Slack + 1) \in Nat
    BY <1>3, PowStep, PowPositive
  <1>7. h' < hFloor * Pow2((Slack + 1) + 1)
    <2> DEFINE p == Pow2(Slack + 1)
    <2>1. hFloor * (2 * p) = 2 * (hFloor * p) /\ hFloor * p \in Int
      BY <1>3, <1>6
    <2> QED
      BY <1>3, <1>5, <1>6, <2>1
  <1> QED
    BY <1>2, <1>3, <1>4, <1>7 DEF Pace

\* A rejected step is at least twice the floor and at least halved.
LEMMA RejectPace ==
  ASSUME TypeOK, StepSizeHasFloor, Pace, NEW err \in Estimates, Reject(err)
  PROVE  Pace'
  <1>1. /\ pc = "running" /\ req' = req /\ steps' = steps
        /\ rejected' = rejected + 1 /\ h' = Halved /\ ~ Accepts(err)
    BY DEF Reject
  <1>2. hFloor' = hFloor /\ halvings' = halvings
    BY <1>1 DEF hFloor, hMax, span, halvings
  <1>3. /\ steps \in Nat /\ rejected \in Nat /\ halvings \in Nat
        /\ Slack \in Nat /\ h < hFloor * Pow2(Slack + 1)
        /\ hFloor \in Nat /\ 1 <= hFloor
    BY <1>1, Running, HalvingsIs, HFloorType DEF TypeOK, Pace
  <1>4. /\ hFloor <= hStep \div 2 /\ hStep <= h /\ hStep \in Int /\ h \in Int
    BY <1>1, FloorStep, Running
  <1>5. h \in Int /\ h' \in Int /\ 2 * h' <= h /\ 2 * hFloor <= h
    <2>1. hStep \div 2 >= 1
      BY <1>3, <1>4
    <2> QED
      BY <1>1, <1>3, <1>4, <2>1 DEF Halved, AtLeast
  <1>6. Pow2(Slack + 1) = 2 * Pow2(Slack) /\ Pow2(Slack) \in Nat
    BY <1>3, PowStep, PowPositive
  <1>7. Slack # 0
    <2>1. CASE Slack = 0
      <3>1. Pow2(Slack) = 1
        BY <2>1, PowZero, Zenon
      <3> HIDE DEF Slack
      <3>2. h < hFloor * 2
        BY <1>3, <1>6, <3>1
      <3> QED
        BY <1>3, <1>4, <1>5, <3>2
    <2> QED
      BY <2>1
  <1>8. h' < hFloor * Pow2(Slack)
    <2> DEFINE p == Pow2(Slack)
    <2>1. hFloor * (2 * p) = 2 * (hFloor * p) /\ hFloor * p \in Int
      BY <1>3, <1>6
    <2>2. h < hFloor * (2 * p)
      BY <1>3, <1>6, Zenon
    <2>3. h < 2 * (hFloor * p)
      BY <2>1, <2>2, Zenon
    <2> QED
      BY <1>5, <2>1, <2>3, HalfBelow
  <1>9. Slack' = Slack - 1 /\ Slack - 1 \in Nat /\ (Slack - 1) + 1 = Slack
    BY <1>1, <1>2, <1>3, <1>7 DEF Slack
  <1> QED
    BY <1>2, <1>8, <1>9 DEF Pace

\* The interval has no room for another step of the floor's size.
LEMMA StepsFit ==
  ASSUME TypeOK, StepSizeHasFloor, pc = "running"
  PROVE  steps \in Nat /\ longest \in Nat /\ steps <= longest - 1
  <1> DEFINE a == span + hFloor - 1
  <1>1. /\ hFloor \in Nat /\ 1 <= hFloor /\ steps \in Nat
        /\ span \in Int /\ span > 0 /\ a \in Nat
    BY Running, HFloorType DEF TypeOK
  <1>2. steps * hFloor < span
    <2>1. /\ tCur \in Int /\ req.t0 \in Int /\ req.t1 \in Int /\ tCur < req.t1
          /\ steps * hFloor <= tCur - req.t0 /\ steps * hFloor \in Int
      BY <1>1, Running DEF StepSizeHasFloor
    <2> QED
      BY <2>1 DEF span
  <1>3. longest = a \div hFloor
    BY DEF longest
  <1>4. longest \in Nat /\ a < hFloor * longest + hFloor
    <2> HIDE DEF a
    <2> QED
      BY <1>1, <1>3, Division
  <1>5. span <= hFloor * longest
    <2>1. hFloor * longest \in Int
      BY <1>1, <1>4
    <2> QED
      BY <1>1, <1>4, <2>1
  <1>6. ASSUME longest <= steps PROVE FALSE
    <2>1. hFloor * longest <= hFloor * steps
      BY <1>1, <1>4, <1>6, MultiplyOrder
    <2>2. hFloor * steps = steps * hFloor
          /\ hFloor * steps \in Int /\ hFloor * longest \in Int
      BY <1>1, <1>4
    <2> QED
      BY <1>1, <1>2, <1>5, <2>1, <2>2
  <1> QED
    BY <1>1, <1>4, <1>6

\* An integration that maxSteps has room for is never stopped by it, whatever
\* the error estimates above req.smooth are and however they alternate.
THEOREM AbortIsNeeded == Spec => []NoNeedlessAbort
  <1> DEFINE Started == pc = "called" => steps = 0 /\ rejected = 0
  <1>1. Init => Started /\ Pace /\ NoNeedlessAbort
    BY DEF Init, Pace, NoNeedlessAbort
  <1>2. TypeOK /\ StepSizeHasFloor /\ Started /\ Pace /\ [Next]_vars
          => Started' /\ Pace'
    <2> SUFFICES ASSUME TypeOK, StepSizeHasFloor, Started, Pace, [Next]_vars
                 PROVE  Started' /\ Pace'
      OBVIOUS
    <2>1. CASE Begin
      BY <2>1, BeginPace DEF Begin
    <2>2. CASE Abort \/ StageThrows
      BY <2>2 DEF Abort, StageThrows, Pace
    <2>3. ASSUME NEW err \in Estimates, Accept(err) PROVE Started' /\ Pace'
      <3>1. pc' # "called"
        BY <2>3 DEF Accept
      <3> QED
        BY <2>3, <3>1, AcceptPace
    <2>4. ASSUME NEW err \in Estimates, Reject(err) PROVE Started' /\ Pace'
      <3>1. pc' # "called"
        BY <2>4 DEF Reject
      <3> QED
        BY <2>4, <3>1, RejectPace
    <2>5. CASE UNCHANGED vars
      <3>1. /\ UNCHANGED <<pc, h, steps, rejected>> /\ hFloor' = hFloor
            /\ Slack' = Slack
        BY <2>5 DEF vars, hFloor, hMax, span, Slack, halvings
      <3> QED
        BY <3>1 DEF Pace
    <2> QED
      BY <2>1, <2>2, <2>3, <2>4, <2>5 DEF Next, Ended
  <1>3. TypeOK /\ StepSizeHasFloor /\ Pace /\ NoNeedlessAbort /\ [Next]_vars
          => NoNeedlessAbort'
    <2> SUFFICES ASSUME TypeOK, StepSizeHasFloor, Pace, NoNeedlessAbort,
                        [Next]_vars, pc' = "maxStepsExceeded"
                 PROVE  ~ Sufficient'
      BY DEF NoNeedlessAbort
    <2>1. req' = req
      BY DEF Next, Begin, Abort, StageThrows, Accept, Reject, Ended, vars
    <2>2. Sufficient' = Sufficient
      BY <2>1 DEF Sufficient, longest, halvings, hFloor, hMax, span
    <2>3. CASE pc = "maxStepsExceeded"
      BY <2>2, <2>3 DEF NoNeedlessAbort
    <2>4. CASE pc # "maxStepsExceeded"
      <3>1. pc = "running" /\ TooManySteps
        BY <2>4 DEF Next, Begin, Abort, StageThrows, Accept, Reject, Ended, vars
      <3>2. steps \in Nat /\ longest \in Nat /\ steps <= longest - 1
        BY <3>1, StepsFit
      <3>3. /\ halvings \in Nat /\ rejected \in Nat /\ req.maxSteps \in Int
            /\ rejected <= halvings + steps
        BY <3>1, <3>2, Running, HalvingsIs, RequestTypes DEF TypeOK, Pace, Slack
      <3>4. ~ Sufficient
        BY <3>1, <3>2, <3>3 DEF TooManySteps, Sufficient
      <3> QED
        BY <2>2, <3>4
    <2> QED
      BY <2>3, <2>4
  <1> QED
    BY <1>1, <1>2, <1>3, TypeCorrect, FloorHolds, PTL DEF Spec

------------------------------------------------------------------------------
(* TimeArithmetic: integers *)

LEMMA FloorOf ==
  ASSUME NEW a \in Int, NEW d \in Nat, d > 0
  PROVE  /\ a \div d \in Int
         /\ d * (a \div d) <= a
         /\ a < d * (a \div d) + d
         /\ a % d = a - d * (a \div d)
  OBVIOUS

\* Multiples of d are at least d apart.
LEMMA MultiplesApart ==
  ASSUME NEW d \in Nat, NEW p \in Int, NEW q \in Int, p < q
  PROVE  /\ d * p \in Int /\ d * q \in Int
         /\ d * p + d <= d * q
  <1>1. d * (p + 1) <= d * q
    <2>1. p + 1 \in Int /\ p + 1 <= q
      OBVIOUS
    <2> QED
      BY <2>1, MultiplyOrder
  <1>2. d * (p + 1) = d * p + d * 1 /\ d * 1 = d
    BY Distribute
  <1> QED
    BY <1>1, <1>2

\* The only quotient with a remainder below d.
LEMMA FloorUnique ==
  ASSUME NEW a \in Int, NEW d \in Nat, d > 0, NEW q \in Int,
         d * q <= a, a < d * q + d
  PROVE  a \div d = q /\ a % d = a - d * q
  <1> DEFINE p == a \div d
  <1>1. p \in Int /\ d * p <= a /\ a < d * p + d /\ a % d = a - d * p
    BY FloorOf
  <1> HIDE DEF p
  <1>2. d * p \in Int /\ d * q \in Int
    BY <1>1
  <1>3. ~ (p < q) /\ ~ (q < p)
    <2>1. ASSUME p < q PROVE FALSE
      BY <1>1, <1>2, <2>1, MultiplesApart
    <2>2. ASSUME q < p PROVE FALSE
      BY <1>1, <1>2, <2>2, MultiplesApart
    <2> QED
      BY <2>1, <2>2
  <1>4. p = q
    BY <1>1, <1>3
  <1> QED
    BY <1>1, <1>4 DEF p

LEMMA MultipleLeavesNothing ==
  ASSUME NEW d \in Nat, d > 0, NEW q \in Int
  PROVE  (q * d) % d = 0
  <1>1. q * d = d * q /\ d * q \in Int
    OBVIOUS
  <1>2. (d * q) % d = d * q - d * q
    BY <1>1, FloorUnique
  <1> QED
    BY <1>1, <1>2

\* What CeilDiv says, and that it is never negative.
LEMMA Ceiling ==
  ASSUME NEW n \in Nat, NEW d \in Nat, d > 0
  PROVE  CeilDiv(n, d) \in Nat /\ n <= d * CeilDiv(n, d)
  <1> DEFINE c == (n + d - 1) \div d
  <1>1. /\ c \in Int /\ d * c <= n + d - 1 /\ n + d - 1 < d * c + d
    <2>1. n + d - 1 \in Int
      OBVIOUS
    <2> HIDE DEF c
    <2> QED
      BY <2>1, FloorOf DEF c
  <1>2. CeilDiv(n, d) = c
    BY DEF CeilDiv
  <1> HIDE DEF c
  <1>3. d * c \in Int /\ n <= d * c
    BY <1>1
  <1>4. ~ (c < 0)
    <2> SUFFICES ASSUME c < 0 PROVE FALSE
      OBVIOUS
    <2>1. d * c + d <= d * 0 /\ d * 0 = 0
      BY <1>1, MultiplesApart
    <2> QED
      BY <1>3, <2>1
  <1> QED
    BY <1>1, <1>2, <1>3, <1>4

\* Floors are no further apart than what they are taken of.
LEMMA FloorsClose ==
  ASSUME NEW a \in Int, NEW b \in Int, NEW k \in Nat, k > 0,
         NEW c \in Int, a - b <= k * c
  PROVE  a \div k - b \div k <= c
  <1> DEFINE p == a \div k
             q == b \div k
  <1>1. /\ p \in Int /\ k * p <= a
        /\ q \in Int /\ b < k * q + k
    BY FloorOf
  <1> HIDE DEF p, q
  <1>2. k * p \in Int /\ k * q \in Int /\ k * c \in Int
    BY <1>1
  <1>3. k * (q + c) = k * q + k * c
    BY <1>1, Distribute
  <1>4. ~ (q + c < p)
    <2> SUFFICES ASSUME q + c < p PROVE FALSE
      OBVIOUS
    <2>1. k * (q + c) + k <= k * p
      BY <1>1, MultiplesApart
    <2> QED
      BY <1>1, <1>2, <1>3, <2>1
  <1> QED
    BY <1>1, <1>4 DEF p, q

\* Division toward zero.
LEMMA QuotientBounds ==
  ASSUME NEW n \in Int, NEW d \in Int, d # 0
  PROVE  /\ Quotient(n, d) \in Int /\ d * Quotient(n, d) \in Int
         /\ n >= 0 => /\ 0 <= d * Quotient(n, d) /\ d * Quotient(n, d) <= n
                      /\ n < d * Quotient(n, d) + Abs(d)
         /\ n <= 0 => /\ d * Quotient(n, d) <= 0 /\ n <= d * Quotient(n, d)
                      /\ d * Quotient(n, d) < n + Abs(d)
         /\ n >= 0 /\ d > 0 => Quotient(n, d) >= 0
  <1> DEFINE a == Abs(n)
             b == Abs(d)
             q == a \div b
  <1>1. a \in Nat /\ b \in Nat /\ b > 0
    BY DEF Abs
  <1>2. /\ q \in Int /\ b * q <= a /\ a < b * q + b
    <2> HIDE DEF a, b
    <2> QED
      BY <1>1, FloorOf
  <1>3. Quotient(n, d) = IF (n < 0) = (d < 0) THEN q ELSE -q
    BY DEF Quotient
  <1>4. b * q \in Int /\ q >= 0
    <2> HIDE DEF a, b, q
    <2>1. ~ (q < 0)
      <3> SUFFICES ASSUME q < 0 PROVE FALSE
        OBVIOUS
      <3>1. b * q + b <= b * 0 /\ b * 0 = 0
        BY <1>1, <1>2, MultiplesApart
      <3> QED
        BY <1>1, <1>2, <3>1
    <2> QED
      BY <1>1, <1>2, <2>1
  <1>5. b * q >= 0
    <2> HIDE DEF a, b, q
    <2> QED
      BY <1>1, <1>2, <1>4
  <1> HIDE DEF q
  <1>6. CASE n >= 0 /\ d > 0
    <2>1. a = n /\ b = d /\ Quotient(n, d) = q
      BY <1>3, <1>6 DEF Abs
    <2> HIDE DEF a, b
    <2> QED
      BY <1>1, <1>2, <1>4, <1>5, <1>6, <2>1 DEF Abs
  <1>7. CASE n >= 0 /\ d < 0
    <2>1. a = n /\ b = -d /\ Quotient(n, d) = -q
      BY <1>3, <1>7 DEF Abs
    <2>2. d * (-q) = (-d) * q
      BY <1>2
    <2> HIDE DEF a
    <2> QED
      BY <1>1, <1>2, <1>4, <1>5, <1>7, <2>1, <2>2
  <1>8. CASE n < 0 /\ d > 0
    <2>1. a = -n /\ b = d /\ Quotient(n, d) = -q
      BY <1>3, <1>8 DEF Abs
    <2>2. d * (-q) = -(d * q)
      BY <1>2
    <2> HIDE DEF a
    <2> QED
      BY <1>1, <1>2, <1>4, <1>5, <1>8, <2>1, <2>2
  <1>9. CASE n < 0 /\ d < 0
    <2>1. a = -n /\ b = -d /\ Quotient(n, d) = q
      BY <1>3, <1>9 DEF Abs
    <2>2. d * q = -((-d) * q)
      BY <1>2
    <2> HIDE DEF a
    <2> QED
      BY <1>1, <1>2, <1>4, <1>5, <1>9, <2>1, <2>2
  <1> QED
    BY <1>6, <1>7, <1>8, <1>9

LEMMA QuotientsCloseUp ==
  ASSUME NEW v \in Int, NEW e \in Int, NEW x \in Nat, x > 0,
         NEW c \in Nat, v - e <= x * c
  PROVE  Quotient(v, x) - Quotient(e, x) <= c
  <1> DEFINE p == Quotient(v, x)
             q == Quotient(e, x)
  <1>1. /\ p \in Int /\ x * p \in Int /\ q \in Int /\ x * q \in Int
        /\ v >= 0 => 0 <= x * p /\ x * p <= v /\ v < x * p + x
        /\ v <= 0 => x * p <= 0 /\ v <= x * p /\ x * p < v + x
        /\ e >= 0 => 0 <= x * q /\ x * q <= e /\ e < x * q + x
        /\ e <= 0 => x * q <= 0 /\ e <= x * q /\ x * q < e + x
    <2>1. x \in Int /\ x # 0 /\ Abs(x) = x
      BY DEF Abs
    <2>2. /\ p \in Int /\ x * p \in Int
          /\ v >= 0 => 0 <= x * p /\ x * p <= v /\ v < x * p + Abs(x)
          /\ v <= 0 => x * p <= 0 /\ v <= x * p /\ x * p < v + Abs(x)
      BY <2>1, QuotientBounds, Zenon
    <2>3. /\ q \in Int /\ x * q \in Int
          /\ e >= 0 => 0 <= x * q /\ x * q <= e /\ e < x * q + Abs(x)
          /\ e <= 0 => x * q <= 0 /\ e <= x * q /\ x * q < e + Abs(x)
      BY <2>1, QuotientBounds, Zenon
    <2> HIDE DEF p, q
    <2> QED
      BY <2>1, <2>2, <2>3
  <1> HIDE DEF p, q
  <1>2. x * c \in Int /\ x * c >= 0 /\ x * (q + c) = x * q + x * c
    BY <1>1, Distribute
  <1>3. ~ (q + c < p)
    <2> SUFFICES ASSUME q + c < p PROVE FALSE
      OBVIOUS
    <2>1. x * (q + c) + x <= x * p
      BY <1>1, MultiplesApart
    <2> QED
      BY <1>1, <1>2, <2>1
  <1> QED
    BY <1>1, <1>3 DEF p, q

LEMMA RemainderBounds ==
  ASSUME NEW n \in Int, NEW d \in Int, d # 0
  PROVE  /\ Remainder(n, d) \in Int
         /\ n >= 0 => 0 <= Remainder(n, d) /\ Remainder(n, d) < Abs(d)
         /\ n <= 0 => -Abs(d) < Remainder(n, d) /\ Remainder(n, d) <= 0
  <1> DEFINE m == d * Quotient(n, d)
  <1>1. Remainder(n, d) = n - m /\ Abs(d) \in Int
    BY DEF Remainder, Abs
  <1>2. /\ m \in Int
        /\ n >= 0 => 0 <= m /\ m <= n /\ n < m + Abs(d)
        /\ n <= 0 => m <= 0 /\ n <= m /\ m < n + Abs(d)
    BY QuotientBounds, Zenon
  <1> HIDE DEF m
  <1> QED
    BY <1>1, <1>2

\* The result of modulo lies between zero and the divisor.
LEMMA ModBounds ==
  ASSUME NEW n \in Int, NEW d \in Int, d # 0
  PROVE  /\ NonNegativeMod(n, d) \in Int
         /\ d > 0 => 0 <= NonNegativeMod(n, d) /\ NonNegativeMod(n, d) < d
         /\ d < 0 => d < NonNegativeMod(n, d) /\ NonNegativeMod(n, d) <= 0
  <1> DEFINE r == Remainder(n, d)
             s == r + d
  <1>1. r \in Int /\ -Abs(d) < r /\ r < Abs(d)
    BY RemainderBounds DEF Abs
  <1>2. NonNegativeMod(n, d) = Remainder(s, d)
    BY DEF NonNegativeMod
  <1> HIDE DEF r
  <1>3. s \in Int /\ (d > 0 => s >= 0) /\ (d < 0 => s <= 0)
    BY <1>1 DEF Abs
  <1> HIDE DEF s
  <1> QED
    BY <1>2, <1>3, RemainderBounds DEF Abs

\* The precisions are whole numbers of ns.
LEMMA PrecisionType ==
  ASSUME NEW p \in PrecisionClass
  PROVE  PRECISION_NS[p] \in Nat \ {0} /\ Rounding(p) \in Nat
  <1>1. PRECISION_NS[p] \in Nat \ {0}
    BY UnitAssumption DEF PrecisionClass, PRECISION_NS
  <1> QED
    BY <1>1 DEF Rounding

\* A rounded value is a whole number of units, nearer than one unit to what was
\* rounded, and on the same side of zero.
LEMMA Rounded ==
  ASSUME NEW ns \in Int, NEW p \in PrecisionClass
  PROVE  /\ applyPrecision(ns, p) \in Int
         /\ applyPrecision(ns, p) % PRECISION_NS[p] = 0
         /\ applyPrecision(ns, p) - ns <= Rounding(p)
         /\ ns - applyPrecision(ns, p) <= Rounding(p)
         /\ ns >= 0 => applyPrecision(ns, p) >= 0
  <1> DEFINE P == PRECISION_NS[p]
             q == Quotient(ns, P)
             r == P * q
  <1>1. P \in Nat /\ P > 0 /\ P # 0 /\ P \in Int /\ Abs(P) = P /\ Rounding(p) = P - 1
    BY PrecisionType DEF Rounding, Abs
  <1>2. applyPrecision(ns, p) = q * P
    BY DEF applyPrecision
  <1> HIDE DEF P
  <1>3. /\ q \in Int /\ r \in Int
        /\ ns >= 0 => 0 <= r /\ r <= ns /\ ns < r + Abs(P)
        /\ ns <= 0 => r <= 0 /\ ns <= r /\ r < ns + Abs(P)
    BY <1>1, QuotientBounds, Zenon
  <1> HIDE DEF q
  <1>4. q * P = r
    BY <1>1, <1>3
  <1>5. (q * P) % P = 0
    BY <1>1, <1>3, MultipleLeavesNothing
  <1> HIDE DEF r
  <1>6. /\ r - ns <= Rounding(p) /\ ns - r <= Rounding(p)
        /\ ns >= 0 => r >= 0
    BY <1>1, <1>3
  <1>7. applyPrecision(ns, p) = r
    BY <1>2, <1>4, Zenon
  <1>8. applyPrecision(ns, p) % P = 0
    BY <1>2, <1>5, Zenon
  <1> QED
    BY <1>3, <1>6, <1>7, <1>8 DEF P

------------------------------------------------------------------------------
(* TimeArithmetic: powers *)

\* The first n powers of b.
Powers(b, n) ==
  {g \in [0 .. n -> Int] : /\ g[0] = 1
                           /\ \A i \in 1 .. n : g[i] = b * g[i - 1]}

LEMMA PowersExist ==
  ASSUME NEW b \in Int, NEW n \in Nat
  PROVE  Powers(b, n) # {}
  <1> DEFINE S == {m \in Nat : Powers(b, m) = {}}
  <1> SUFFICES ASSUME S # {} PROVE FALSE
    OBVIOUS
  <1>1. PICK m \in S : \A k \in S : m <= k
    <2>1. S \in SUBSET Nat
      OBVIOUS
    <2> HIDE DEF S
    <2> QED
      BY <2>1, LeastOf
  <1>2. m \in Nat /\ Powers(b, m) = {}
    OBVIOUS
  <1>3. CASE m = 0
    <2> DEFINE g == [i \in 0 .. 0 |-> 1]
    <2>1. g \in Powers(b, 0)
      BY DEF Powers
    <2> QED
      BY <1>2, <1>3, <2>1
  <1>4. CASE m # 0
    <2>1. m - 1 \in Nat /\ m - 1 \notin S
      BY <1>1, <1>2, <1>4
    <2>2. PICK q \in Powers(b, m - 1) : TRUE
      BY <2>1
    <2>3. /\ q \in [0 .. m - 1 -> Int] /\ q[0] = 1
          /\ \A i \in 1 .. m - 1 : q[i] = b * q[i - 1]
      BY <2>2 DEF Powers
    <2> DEFINE g == [i \in 0 .. m |-> IF i = m THEN b * q[m - 1] ELSE q[i]]
    <2>4. q[m - 1] \in Int
      BY <2>1, <2>3
    <2>5. g \in [0 .. m -> Int]
      <3> SUFFICES ASSUME NEW i \in 0 .. m PROVE g[i] \in Int
        OBVIOUS
      <3>1. CASE i = m
        BY <2>4, <3>1
      <3>2. CASE i # m
        BY <2>3, <3>2, <1>2
      <3> QED
        BY <3>1, <3>2
    <2>6. g[0] = 1
      BY <1>2, <1>4, <2>3
    <2>7. \A i \in 1 .. m : g[i] = b * g[i - 1]
      <3> SUFFICES ASSUME NEW i \in 1 .. m PROVE g[i] = b * g[i - 1]
        OBVIOUS
      <3>1. i \in 0 .. m /\ i - 1 \in 0 .. m /\ i - 1 # m
        BY <1>2
      <3>2. g[i - 1] = q[i - 1]
        BY <3>1
      <3>3. CASE i = m
        BY <3>1, <3>2, <3>3
      <3>4. CASE i # m
        <4>1. i \in 1 .. m - 1
          BY <1>2, <3>4
        <4> QED
          BY <2>3, <3>1, <3>2, <3>4, <4>1
      <3> QED
        BY <3>3, <3>4
    <2> HIDE DEF g
    <2>8. g \in Powers(b, m)
      BY <2>5, <2>6, <2>7 DEF Powers
    <2> QED
      BY <1>2, <2>8
  <1> QED
    BY <1>3, <1>4

LEMMA PowersAgree ==
  ASSUME NEW b \in Int, NEW n \in Nat, NEW m \in Nat,
         NEW g \in Powers(b, n), NEW q \in Powers(b, m), NEW i \in Nat, i <= n, i <= m
  PROVE  g[i] = q[i]
  <1> DEFINE S == {j \in Nat : j <= n /\ j <= m /\ g[j] # q[j]}
  <1> SUFFICES ASSUME S # {} PROVE FALSE
    OBVIOUS
  <1>1. PICK j \in S : \A k \in S : j <= k
    <2>1. S \in SUBSET Nat
      OBVIOUS
    <2> HIDE DEF S
    <2> QED
      BY <2>1, LeastOf
  <1>2. j \in Nat /\ j <= n /\ j <= m /\ g[j] # q[j]
    OBVIOUS
  <1>3. j # 0
    BY <1>2 DEF Powers
  <1>4. g[j - 1] = q[j - 1]
    <2>1. j - 1 \in Nat /\ j - 1 \notin S /\ j - 1 <= n /\ j - 1 <= m
      BY <1>1, <1>2, <1>3
    <2> QED
      BY <2>1
  <1>5. j \in 1 .. n /\ j \in 1 .. m
    BY <1>2, <1>3
  <1>6. g[j] = b * g[j - 1] /\ q[j] = b * q[j - 1]
    BY <1>5 DEF Powers
  <1> QED
    BY <1>2, <1>4, <1>6

\* The recursion of Pow defines a function.
LEMMA PowIs ==
  ASSUME NEW b \in Int
  PROVE  /\ Pow(b, 0) = 1
         /\ \A n \in Nat : Pow(b, n + 1) = b * Pow(b, n)
         /\ \A n \in Nat : Pow(b, n) \in Int
  <1> DEFINE first(n) == CHOOSE g \in Powers(b, n) : TRUE
             F == [n \in Nat |-> first(n)[n]]
             Solves(g) == g = [i \in Nat |-> IF i = 0 THEN 1 ELSE b * g[i - 1]]
             raised == CHOOSE g : Solves(g)
  <1>1. \A n \in Nat : first(n) \in Powers(b, n)
    BY PowersExist
  <1> HIDE DEF first
  <1>2. \A n \in Nat : F[n] \in Int
    <2> SUFFICES ASSUME NEW n \in Nat PROVE first(n)[n] \in Int
      OBVIOUS
    <2>1. first(n) \in [0 .. n -> Int]
      BY <1>1 DEF Powers
    <2> QED
      BY <2>1
  <1>3. Solves(F)
    <2> SUFFICES ASSUME NEW n \in Nat
                 PROVE  F[n] = IF n = 0 THEN 1 ELSE b * F[n - 1]
      OBVIOUS
    <2>1. CASE n = 0
      BY <1>1, <2>1 DEF Powers
    <2>2. CASE n # 0
      <3>1. n - 1 \in Nat /\ n \in 1 .. n /\ n - 1 <= n
        BY <2>2
      <3>2. first(n)[n] = b * first(n)[n - 1]
        BY <1>1, <3>1 DEF Powers
      <3>3. first(n)[n - 1] = first(n - 1)[n - 1]
        BY <1>1, <3>1, PowersAgree
      <3> QED
        BY <2>2, <3>1, <3>2, <3>3
    <2> QED
      BY <2>1, <2>2
  <1> HIDE DEF F
  <1>4. Solves(raised)
    <2> HIDE DEF Solves
    <2> QED
      BY <1>3
  <1>5. \A n \in Nat : Pow(b, n) = raised[n]
    BY DEF Pow
  <1> HIDE DEF raised
  <1>6. /\ raised[0] = 1
        /\ \A n \in Nat : raised[n + 1] = b * raised[n]
    <2>1. \A i \in Nat : raised[i] = IF i = 0 THEN 1 ELSE b * raised[i - 1]
      BY <1>4
    <2> HIDE DEF Solves
    <2>2. \A n \in Nat : n + 1 \in Nat /\ n + 1 # 0 /\ (n + 1) - 1 = n
      OBVIOUS
    <2> QED
      BY <2>1, <2>2
  <1> HIDE DEF Solves
  <1>7. \A n \in Nat : raised[n] \in Int
    <2> DEFINE S == {n \in Nat : raised[n] \notin Int}
    <2> SUFFICES ASSUME S # {} PROVE FALSE
      OBVIOUS
    <2>1. PICK m \in S : \A k \in S : m <= k
      <3>1. S \in SUBSET Nat
        OBVIOUS
      <3> HIDE DEF S
      <3> QED
        BY <3>1, LeastOf
    <2>2. m \in Nat /\ raised[m] \notin Int /\ m # 0
      BY <1>6
    <2>3. m - 1 \in Nat /\ m - 1 \notin S /\ (m - 1) + 1 = m
      BY <2>1, <2>2
    <2>4. raised[m - 1] \in Int /\ raised[m] = b * raised[m - 1]
      BY <1>6, <2>3
    <2> QED
      BY <2>2, <2>4
  <1> QED
    BY <1>5, <1>6, <1>7

LEMMA AbsIs ==
  ASSUME NEW n \in Int
  PROVE  /\ Abs(n) \in Nat /\ n <= Abs(n) /\ -n <= Abs(n)
         /\ \A m \in Int : Abs(n) <= m <=> n <= m /\ -n <= m
  BY DEF Abs

LEMMA ProductBound ==
  ASSUME NEW a \in Int, NEW b \in Int, NEW A \in Nat, NEW B \in Nat,
         Abs(a) <= A, Abs(b) <= B
  PROVE  a * b \in Int /\ A * B \in Nat /\ Abs(a * b) <= A * B
  <1> DEFINE x == Abs(a)
             y == Abs(b)
  <1>1. Abs(a * b) = x * y
    <2>1. CASE a < 0 /\ b < 0
      BY <2>1 DEF Abs
    <2>2. CASE a < 0 /\ b >= 0
      BY <2>2 DEF Abs
    <2>3. CASE a >= 0 /\ b < 0
      BY <2>3 DEF Abs
    <2>4. CASE a >= 0 /\ b >= 0
      BY <2>4 DEF Abs
    <2> QED
      BY <2>1, <2>2, <2>3, <2>4
  <1>2. x \in Nat /\ y \in Nat /\ x <= A /\ y <= B
    BY AbsIs
  <1> HIDE DEF x, y
  <1>3. x * y <= x * B /\ B * x <= B * A
    BY <1>2, MultiplyOrder
  <1>4. x * y \in Int /\ x * B \in Int /\ A * B \in Nat /\ x * B = B * x /\ A * B = B * A
    BY <1>2
  <1>5. a * b \in Int
    OBVIOUS
  <1> QED
    BY <1>1, <1>3, <1>4, <1>5

LEMMA PowBound ==
  ASSUME NEW b \in Int, NEW M \in Nat, Abs(b) <= M
  PROVE  \A n \in Nat : Pow(M, n) \in Nat /\ Abs(Pow(b, n)) <= Pow(M, n)
  <1> DEFINE Bounded(n) == Pow(M, n) \in Nat /\ Abs(Pow(b, n)) <= Pow(M, n)
             S == {n \in Nat : ~ Bounded(n)}
  <1> SUFFICES ASSUME S # {} PROVE FALSE
    OBVIOUS
  <1>1. PICK m \in S : \A k \in S : m <= k
    <2>1. S \in SUBSET Nat
      OBVIOUS
    <2> HIDE DEF S
    <2> QED
      BY <2>1, LeastOf
  <1>2. m \in Nat /\ ~ Bounded(m)
    OBVIOUS
  <1>3. m # 0
    <2>1. Pow(M, 0) = 1 /\ Pow(b, 0) = 1
      BY PowIs
    <2>2. Bounded(0)
      BY <2>1 DEF Abs
    <2> QED
      BY <1>2, <2>2
  <1>4. m - 1 \in Nat /\ Bounded(m - 1) /\ (m - 1) + 1 = m
    BY <1>1, <1>2, <1>3
  <1>5. /\ Pow(M, m) = M * Pow(M, m - 1) /\ Pow(b, m) = b * Pow(b, m - 1)
        /\ Pow(b, m - 1) \in Int /\ M \in Int
    <2>1. M \in Int
      OBVIOUS
    <2> QED
      BY <1>4, <2>1, PowIs
  <1>6. /\ M * Pow(M, m - 1) \in Nat
        /\ Abs(b * Pow(b, m - 1)) <= M * Pow(M, m - 1)
    BY <1>4, <1>5, ProductBound
  <1> QED
    BY <1>2, <1>5, <1>6

\* A power steepens a difference by no more than its slope.
LEMMA PowsClose ==
  ASSUME NEW v \in Int, NEW e \in Int, NEW M \in Nat, NEW D \in Nat,
         Abs(v) <= M, Abs(e) <= M, Abs(v - e) <= D
  PROVE  \A n \in Nat : Abs(Pow(v, n + 1) - Pow(e, n + 1)) <= (n + 1) * Pow(M, n) * D
  <1> DEFINE Close(n) == Abs(Pow(v, n + 1) - Pow(e, n + 1)) <= (n + 1) * Pow(M, n) * D
             S == {n \in Nat : ~ Close(n)}
  <1> SUFFICES ASSUME S # {} PROVE FALSE
    OBVIOUS
  <1>1. PICK m \in S : \A k \in S : m <= k
    <2>1. S \in SUBSET Nat
      OBVIOUS
    <2> HIDE DEF S
    <2> QED
      BY <2>1, LeastOf
  <1>2. m \in Nat /\ ~ Close(m)
    OBVIOUS
  <1>3. m # 0
    <2>1. /\ Pow(v, 0) = 1 /\ Pow(e, 0) = 1 /\ Pow(M, 0) = 1
          /\ Pow(v, 0 + 1) = v * Pow(v, 0) /\ Pow(e, 0 + 1) = e * Pow(e, 0)
      <3>1. 0 \in Nat /\ M \in Int
        OBVIOUS
      <3> QED
        BY <3>1, PowIs
    <2>2. v * 1 = v /\ e * 1 = e /\ (0 + 1) * 1 * D = D
      OBVIOUS
    <2>3. Close(0)
      BY <2>1, <2>2, Zenon
    <2> QED
      BY <1>2, <2>3
  <1> DEFINE n == m - 1
  <1>4. n \in Nat /\ Close(n) /\ n + 1 = m
    BY <1>1, <1>2, <1>3
  <1> HIDE DEF n
  <1> DEFINE V == Pow(v, m)
             E == Pow(e, m)
             P == Pow(M, n)
             Q == Pow(M, m)
             T == m * P * D
  <1>5. /\ V \in Int /\ E \in Int /\ P \in Nat /\ Q \in Nat /\ Abs(E) <= Q
        /\ Q = M * P
        /\ Pow(v, m + 1) = v * V /\ Pow(e, m + 1) = e * E
    <2>1. M \in Int
      OBVIOUS
    <2> QED
      BY <1>2, <1>4, <2>1, PowIs, PowBound
  <1>6. Abs(V - E) <= T
    BY <1>4, Zenon
  <1>7. ~ (Abs(Pow(v, m + 1) - Pow(e, m + 1)) <= (m + 1) * Q * D)
    BY <1>2
  <1> HIDE DEF V, E, P, Q, Close, S
  <1>8. T \in Nat
    BY <1>2, <1>5
  <1>9. (m + 1) * Q * D = M * T + D * Q
    <2>1. (m + 1) * Q * D = m * Q * D + Q * D
      BY <1>2, <1>5
    <2>2. m * (M * P) * D = M * (m * P * D)
      BY <1>2, <1>5
    <2>3. Q * D = D * Q
      BY <1>5
    <2> QED
      BY <1>5, <2>1, <2>2, <2>3, Zenon
  <1> HIDE DEF T
  <1>10. v * V - e * E = v * (V - E) + (v - e) * E
    BY <1>5
  <1>11. /\ v * (V - E) \in Int /\ M * T \in Nat
         /\ Abs(v * (V - E)) <= M * T
    <2>1. V - E \in Int
      BY <1>5
    <2> QED
      BY <1>6, <1>8, <2>1, ProductBound
  <1>12. /\ (v - e) * E \in Int /\ D * Q \in Nat
         /\ Abs((v - e) * E) <= D * Q
    <2>1. v - e \in Int
      OBVIOUS
    <2> QED
      BY <1>5, <2>1, ProductBound
  <1> DEFINE a == v * (V - E)
             b == (v - e) * E
             A == M * T
             B == D * Q
  <1>13. /\ a \in Int /\ b \in Int /\ A \in Nat /\ B \in Nat
         /\ Abs(a) <= A /\ Abs(b) <= B
    BY <1>11, <1>12
  <1>14. ~ (Abs(a + b) <= A + B)
    BY <1>5, <1>7, <1>9, <1>10, Zenon
  <1> HIDE DEF a, b, A, B
  <1> QED
    BY <1>13, <1>14 DEF Abs

------------------------------------------------------------------------------
(* TimeArithmetic: what a chain carries *)

\* A value as the constructors leave it.
Fits(v) ==
  /\ v \in ArithValue
  /\ v.ns % PRECISION_NS[v.precision] = 0
  /\ v.arithKind = "duration" => v.ns >= 0

\* It comes from rawNs by rounding to its precision.
Near(v, rawNs) == Abs(v.ns - rawNs) <= Rounding(v.precision)

Carried ==
  /\ Fits(value) /\ exact \in Int /\ drift \in Nat
  /\ operations \in 0 .. MaxOperations + 1
  /\ error \in {"none"} \union {e.error : e \in ArithErrors}
  /\ ChainDrift

LEMMA MadeFits ==
  ASSUME NEW rawNs \in Int, NEW kind \in ArithKind, NEW p \in PrecisionClass,
         NEW approx \in Int,
         NEW v, v = [ns |-> applyPrecision(rawNs, p), arithKind |-> kind,
                     precision |-> p, approx |-> approx],
         kind = "duration" => applyPrecision(rawNs, p) >= 0
  PROVE  Fits(v) /\ Near(v, rawNs)
  <1> DEFINE ns == applyPrecision(rawNs, p)
  <1>1. /\ ns \in Int /\ ns % PRECISION_NS[p] = 0
        /\ ns - rawNs <= Rounding(p) /\ rawNs - ns <= Rounding(p)
    BY Rounded
  <1>2. /\ v.ns = ns /\ v.arithKind = kind /\ v.precision = p /\ v \in ArithValue
    BY <1>1 DEF ArithValue
  <1> HIDE DEF ns
  <1>3. Abs(ns - rawNs) <= Rounding(p)
    BY <1>1, PrecisionType DEF Abs
  <1>4. kind = "duration" => ns >= 0
    BY DEF ns
  <1> QED
    BY <1>1, <1>2, <1>3, <1>4, Zenon DEF Fits, Near

LEMMA FromNsFits ==
  ASSUME NEW rawNs \in Int, NEW kind \in ArithKind, NEW p \in PrecisionClass,
         ~ Thrown(fromNs(rawNs, kind, p))
  PROVE  Fits(fromNs(rawNs, kind, p)) /\ Near(fromNs(rawNs, kind, p), rawNs)
  <1> DEFINE v == [ns |-> applyPrecision(rawNs, p), arithKind |-> kind,
                   precision |-> p, approx |-> NoApprox]
  <1>1. rawNs # NotBigInt
    BY InputAssumption
  <1>2. /\ ~ (kind = "duration" /\ applyPrecision(rawNs, p) < 0)
        /\ fromNs(rawNs, kind, p) = v
    BY <1>1, Zenon DEF fromNs, Thrown, ArithErrors
  <1>3. kind = "duration" => applyPrecision(rawNs, p) >= 0
    BY <1>2, Rounded
  <1>4. NoApprox \in Int
    BY DEF NoApprox
  <1> QED
    BY <1>2, <1>3, <1>4, MadeFits, Zenon

LEMMA IrrationalFits ==
  ASSUME NEW c \in Nat, NEW f \in Int, NEW kind \in ArithKind, NEW p \in PrecisionClass,
         ~ Thrown(arithIrrational(c, f, kind, p))
  PROVE  /\ Fits(arithIrrational(c, f, kind, p))
         /\ Near(arithIrrational(c, f, kind, p), c * f)
  <1> DEFINE raw == c * f
             v == [ns |-> applyPrecision(raw, p), arithKind |-> kind,
                   precision |-> p, approx |-> Abs(f)]
  <1>1. raw \in Int /\ Abs(f) \in Int
    BY AbsIs
  <1>2. /\ ~ (kind = "duration" /\ raw < 0)
        /\ arithIrrational(c, f, kind, p) = v
    BY Zenon DEF arithIrrational, Thrown, ArithErrors
  <1> HIDE DEF raw
  <1>3. kind = "duration" => applyPrecision(raw, p) >= 0
    BY <1>1, <1>2, Rounded
  <1>4. Fits(v) /\ Near(v, raw)
    BY <1>1, <1>3, MadeFits, Zenon
  <1> QED
    BY <1>2, <1>4, Zenon DEF raw

\* The values of the table are values.
LEMMA TableFits ==
  ASSUME NEW v \in ARITH
  PROVE  ~ Thrown(v) => Fits(v)
  <1> SUFFICES ASSUME ~ Thrown(v) PROVE Fits(v)
    OBVIOUS
  <1>1. "duration" \in ArithKind /\ "P-NS" \in PrecisionClass
    BY DEF ArithKind, PrecisionClass
  <1>2. ASSUME NEW n \in Int, v = fromNs(n, "duration", "P-NS")
        PROVE  Fits(v)
    BY <1>1, <1>2, FromNsFits, Zenon
  <1>3. ASSUME NEW c \in IrrationalNs, v = arithIrrational(c, 1, "duration", "P-NS")
        PROVE  Fits(v)
    <2>1. c \in Nat /\ 1 \in Int
      BY InputAssumption
    <2> QED
      BY <1>1, <1>3, <2>1, IrrationalFits, Zenon
  <1>4. \/ \E n \in {1, NsPerUs, NsPerMs, NsPerSec, NsPerMin, NsPerHour, NsPerDay} :
             v = fromNs(n, "duration", "P-NS")
        \/ \E c \in IrrationalNs : v = arithIrrational(c, 1, "duration", "P-NS")
    BY Zenon DEF ARITH
  <1>5. {1, NsPerUs, NsPerMs, NsPerSec, NsPerMin, NsPerHour, NsPerDay} \subseteq Int
    BY UnitAssumption
  <1> QED
    BY <1>2, <1>3, <1>4, <1>5, Zenon

\* It cannot be thrown either, so that callers may read its ns.
LEMMA TableNotThrown ==
  ASSUME NEW v \in ARITH
  PROVE  ~ Thrown(v)
  <1>1. ASSUME NEW n \in Int, n >= 0, v = fromNs(n, "duration", "P-NS")
        PROVE  ~ Thrown(v)
    <2>1. n # NotBigInt /\ "P-NS" \in PrecisionClass
      BY InputAssumption DEF PrecisionClass
    <2>2. ~ (applyPrecision(n, "P-NS") < 0)
      BY <1>1, <2>1, Rounded
    <2>3. v = [ns |-> applyPrecision(n, "P-NS"), arithKind |-> "duration",
               precision |-> "P-NS", approx |-> NoApprox]
      BY <1>1, <2>1, <2>2, Zenon DEF fromNs
    <2> QED
      BY <2>3 DEF Thrown, ArithErrors, ExtentError, InvariantError, ConstraintError, RangeError, Error
  <1>2. ASSUME NEW c \in IrrationalNs, v = arithIrrational(c, 1, "duration", "P-NS")
        PROVE  ~ Thrown(v)
    <2>1. ~ (c * 1 < 0)
      BY InputAssumption
    <2>2. v = [ns |-> applyPrecision(c * 1, "P-NS"), arithKind |-> "duration",
               precision |-> "P-NS", approx |-> Abs(1)]
      BY <1>2, <2>1, Zenon DEF arithIrrational
    <2> QED
      BY <2>2 DEF Thrown, ArithErrors, ExtentError, InvariantError, ConstraintError, RangeError, Error
  <1>3. \/ \E n \in {1, NsPerUs, NsPerMs, NsPerSec, NsPerMin, NsPerHour, NsPerDay} :
             v = fromNs(n, "duration", "P-NS")
        \/ \E c \in IrrationalNs : v = arithIrrational(c, 1, "duration", "P-NS")
    BY Zenon DEF ARITH
  <1>4. \A n \in {1, NsPerUs, NsPerMs, NsPerSec, NsPerMin, NsPerHour, NsPerDay} :
          n \in Int /\ n >= 0
    BY UnitAssumption
  <1> QED
    BY <1>1, <1>2, <1>3, <1>4, Zenon

\* A period is never thrown: every operand of a sum is a value.
LEMMA OperandFits ==
  ASSUME NEW v \in Operands
  PROVE  Fits(v)
  <1>1. ASSUME NEW n \in Numbers, NEW p \in PrecisionClass,
               v = fromNs(n, "period", p)
        PROVE  Fits(v)
    <2>1. n \in Int /\ n # NotBigInt /\ "period" \in ArithKind
      BY InputAssumption DEF ArithKind
    <2>2. v = [ns |-> applyPrecision(n, p), arithKind |-> "period",
               precision |-> p, approx |-> NoApprox]
      BY <1>1, <2>1, Zenon DEF fromNs
    <2>3. ~ Thrown(v)
      BY <2>2 DEF Thrown, ArithErrors, ExtentError, InvariantError,
                  ConstraintError, RangeError, Error
    <2> QED
      BY <1>1, <2>1, <2>3, FromNsFits, Zenon
  <1>2. v \in ARITH \/ \E n \in Numbers, p \in PrecisionClass : v = fromNs(n, "period", p)
    <2>1. v \in ARITH \/ v \in {fromNs(n, "period", p) : n \in Numbers, p \in PrecisionClass}
      BY DEF Operands
    <2> QED
      BY <2>1
  <1> QED
    BY <1>1, <1>2, TableFits, TableNotThrown, Zenon

LEMMA MakeCarries ==
  ASSUME Carried, NEW v, NEW rawNs \in Int, Make(v, rawNs),
         ~ Thrown(v) => Fits(v) /\ Near(v, rawNs)
  PROVE  Carried'
  <1>1. operations' = 1 /\ 1 \in 0 .. MaxOperations + 1
    BY BoundAssumption DEF Make
  <1>2. CASE Thrown(v)
    <2>1. error' = v.error /\ UNCHANGED <<value, exact, drift>>
      BY <1>2, Zenon DEF Make
    <2>2. error' \in {e.error : e \in ArithErrors}
      BY <1>2, <2>1, Zenon DEF Thrown
    <2> QED
      BY <1>1, <2>1, <2>2 DEF Carried, ChainDrift, Fits
  <1>3. CASE ~ Thrown(v)
    <2>1. /\ value' = v /\ exact' = rawNs /\ drift' = Rounding(v.precision)
          /\ error' = error
      BY <1>3, Zenon DEF Make
    <2>2. Rounding(v.precision) \in Nat
      BY <1>3, PrecisionType DEF Fits, ArithValue
    <2>3. Fits(value)' /\ ChainDrift'
      BY <1>3, <2>1, Zenon DEF Fits, Near, ChainDrift
    <2> QED
      BY <1>1, <2>1, <2>2, <2>3 DEF Carried
  <1> QED
    BY <1>2, <1>3

LEMMA ReturnCarries ==
  ASSUME Carried, Ready, NEW r, NEW e, NEW d, Return(r, e, d),
         ~ Thrown(r) =>
           /\ Fits(r) /\ e \in Int /\ d \in Nat
           /\ \E rawNs \in Int : Near(r, rawNs) /\ Abs(rawNs - e) <= d
  PROVE  Carried'
  <1>1. operations' \in 0 .. MaxOperations + 1
    BY BoundAssumption DEF Return, Ready
  <1>2. CASE Thrown(r)
    <2>1. error' = r.error /\ UNCHANGED <<value, exact, drift>>
      BY <1>2, Zenon DEF Return
    <2>2. error' \in {c.error : c \in ArithErrors}
      BY <1>2, <2>1, Zenon DEF Thrown
    <2> QED
      BY <1>1, <2>1, <2>2 DEF Carried, ChainDrift, Fits
  <1>3. CASE ~ Thrown(r)
    <2>1. /\ value' = r /\ exact' = e /\ drift' = d + Rounding(r.precision)
          /\ error' = error
      BY <1>3, Zenon DEF Return
    <2>2. Rounding(r.precision) \in Nat /\ r.ns \in Int
      BY <1>3, PrecisionType DEF Fits, ArithValue
    <2>3. Abs(r.ns - e) <= d + Rounding(r.precision)
      <3>1. PICK rawNs \in Int : Near(r, rawNs) /\ Abs(rawNs - e) <= d
        BY <1>3
      <3> QED
        BY <1>3, <2>2, <3>1 DEF Near, Abs
    <2>4. Fits(value)' /\ ChainDrift'
      BY <1>3, <2>1, <2>3, Zenon DEF Fits, ChainDrift
    <2> QED
      BY <1>1, <1>3, <2>1, <2>2, <2>4 DEF Carried
  <1> QED
    BY <1>2, <1>3

------------------------------------------------------------------------------
(* TimeArithmetic: the operations *)

LEMMA CarriedIs ==
  ASSUME Carried
  PROVE  /\ value.ns \in Int /\ value.arithKind \in ArithKind
         /\ value.precision \in PrecisionClass
         /\ exact \in Int /\ drift \in Nat /\ Abs(value.ns - exact) <= drift
         /\ value.ns - exact \in Int
         /\ value.ns - exact <= drift /\ exact - value.ns <= drift
  <1>1. /\ value.ns \in Int /\ value.arithKind \in ArithKind
        /\ value.precision \in PrecisionClass
        /\ exact \in Int /\ drift \in Nat /\ Abs(value.ns - exact) <= drift
    BY DEF Carried, Fits, ArithValue, ChainDrift
  <1> QED
    BY <1>1 DEF Abs

\* An operation that rounds rawNs, which is d away from e at full resolution.
LEMMA OperationCarries ==
  ASSUME Carried, Ready, NEW rawNs \in Int, NEW p \in PrecisionClass,
         NEW e \in Int, NEW d \in Nat, Abs(rawNs - e) <= d,
         NEW r, r = fromNs(rawNs, value.arithKind, p),
         Return(r, e, d) \/ (Thrown(r) /\ Return(r, exact, drift))
  PROVE  Carried'
  <1>1. ~ Thrown(r) => Fits(r) /\ Near(r, rawNs)
    BY CarriedIs, FromNsFits, Zenon
  <1>2. Return(r, e, d) \/ (Thrown(r) /\ Return(r, exact, drift))
    OBVIOUS
  <1>3. CASE Return(r, e, d)
    BY <1>1, <1>3, ReturnCarries, Zenon
  <1>4. CASE Thrown(r) /\ Return(r, exact, drift)
    BY <1>4, ReturnCarries, Zenon
  <1> QED
    BY <1>2, <1>3, <1>4, Zenon

\* An operation that throws before it computes anything.
LEMMA ErrorCarries ==
  ASSUME Carried, Ready, NEW r, Thrown(r), NEW e, NEW d, Return(r, e, d)
  PROVE  Carried'
  BY ReturnCarries, Zenon

Choice(r, e, d) ==
  IF Thrown(r) THEN Return(r, exact, drift) ELSE Return(r, e, d)

\* A sum of the current value and one whose ns is x.
LEMMA AddCarries ==
  ASSUME Carried, Ready, NEW b, b.ns \in Int, b.precision \in PrecisionClass,
         \/ Return(add(value, b), exact + b.ns, drift)
         \/ Choice(add(value, b), exact + b.ns, drift)
  PROVE  Carried'
  <1> DEFINE x == b.ns
             p == IF value.precision = "P-NS" THEN b.precision ELSE value.precision
             r == add(value, b)
  <1>1. r = fromNs(value.ns + x, value.arithKind, p)
    BY DEF add
  <1>2. p \in PrecisionClass /\ value.ns + x \in Int /\ exact + x \in Int /\ drift \in Nat
    BY CarriedIs
  <1>3. Abs((value.ns + x) - (exact + x)) <= drift
    <2>1. (value.ns + x) - (exact + x) = value.ns - exact
      BY CarriedIs
    <2> QED
      BY <2>1, CarriedIs, Zenon
  <1>4. Return(r, exact + x, drift) \/ (Thrown(r) /\ Return(r, exact, drift))
    BY Zenon DEF Choice
  <1> HIDE DEF x, p
  <1> QED
    BY <1>1, <1>2, <1>3, <1>4, OperationCarries, Zenon

LEMMA SubtractCarries ==
  ASSUME Carried, Ready, NEW b, b.ns \in Int,
         \/ Return(subtract(value, b), exact - b.ns, drift)
         \/ Choice(subtract(value, b), exact - b.ns, drift)
  PROVE  Carried'
  <1> DEFINE x == b.ns
             r == subtract(value, b)
  <1>1. r = fromNs(value.ns - x, value.arithKind, value.precision)
    BY DEF subtract
  <1>2. value.precision \in PrecisionClass /\ value.ns - x \in Int /\ exact - x \in Int
        /\ drift \in Nat
    BY CarriedIs
  <1>3. Abs((value.ns - x) - (exact - x)) <= drift
    <2>1. (value.ns - x) - (exact - x) = value.ns - exact
      BY CarriedIs
    <2> QED
      BY <2>1, CarriedIs, Zenon
  <1>4. Return(r, exact - x, drift) \/ (Thrown(r) /\ Return(r, exact, drift))
    BY Zenon DEF Choice
  <1> HIDE DEF x
  <1> QED
    BY <1>1, <1>2, <1>3, <1>4, OperationCarries, Zenon

LEMMA MultiplyCarries ==
  ASSUME Carried, Ready, NEW x \in Int,
         Choice(multiply(value, x), exact * x, drift * x)
  PROVE  Carried'
  <1>1. CASE x < 0
    <2>1. Thrown(multiply(value, x))
      BY <1>1 DEF multiply, Thrown, ArithErrors
    <2> QED
      BY <2>1, ErrorCarries, Zenon DEF Choice
  <1>2. CASE x >= 0
    <2> DEFINE v == value.ns
               raw == v * x
               r == multiply(value, x)
    <2>1. r = fromNs(raw, value.arithKind, value.precision)
      BY <1>2 DEF multiply
    <2>2. v \in Int /\ x \in Nat /\ exact \in Int /\ drift \in Nat /\ Abs(x) <= x
          /\ v - exact \in Int /\ Abs(v - exact) <= drift
          /\ value.precision \in PrecisionClass
      BY <1>2, CarriedIs DEF Abs
    <2>3. Return(r, exact * x, drift * x) \/ (Thrown(r) /\ Return(r, exact, drift))
      BY Zenon DEF Choice
    <2> HIDE DEF v
    <2>4. Abs((v - exact) * x) <= drift * x /\ drift * x \in Nat
      BY <2>2, ProductBound
    <2>5. (v - exact) * x = raw - exact * x /\ raw \in Int /\ exact * x \in Int
      BY <2>2
    <2>6. Abs(raw - exact * x) <= drift * x
      BY <2>4, <2>5, Zenon
    <2> HIDE DEF raw
    <2> QED
      BY <2>1, <2>2, <2>3, <2>4, <2>5, <2>6, OperationCarries, Zenon
  <1> QED
    BY <1>1, <1>2

LEMMA DivideCarries ==
  ASSUME Carried, Ready, NEW x \in Int,
         Choice(divide(value, x), Quotient(exact, x), CeilDiv(drift, x))
  PROVE  Carried'
  <1>1. CASE x <= 0
    <2>1. Thrown(divide(value, x))
      BY <1>1 DEF divide, Thrown, ArithErrors
    <2> QED
      BY <2>1, ErrorCarries, Zenon DEF Choice
  <1>2. CASE x > 0
    <2> DEFINE v == value.ns
               raw == Quotient(v, x)
               e == Quotient(exact, x)
               d == CeilDiv(drift, x)
               r == divide(value, x)
    <2>1. r = fromNs(raw, value.arithKind, value.precision)
      BY <1>2 DEF divide
    <2>2. v \in Int /\ x \in Nat /\ x # 0 /\ exact \in Int /\ drift \in Nat
          /\ v - exact <= drift /\ exact - v <= drift
          /\ value.precision \in PrecisionClass
      BY <1>2, CarriedIs
    <2>3. Return(r, e, d) \/ (Thrown(r) /\ Return(r, exact, drift))
      BY Zenon DEF Choice
    <2>4. d \in Nat /\ drift <= x * d
      BY <1>2, <2>2, Ceiling
    <2> HIDE DEF v
    <2>5. raw \in Int /\ e \in Int
      BY <2>2, QuotientBounds
    <2> HIDE DEF d
    <2>6. v - exact <= x * d /\ exact - v <= x * d
      <3>1. x * d \in Int
        BY <2>2, <2>4
      <3> QED
        BY <2>2, <2>4, <3>1
    <2>7. raw - e <= d /\ e - raw <= d
      BY <1>2, <2>2, <2>4, <2>6, QuotientsCloseUp
    <2> HIDE DEF raw, e
    <2>8. Abs(raw - e) <= d
      BY <2>4, <2>5, <2>7 DEF Abs
    <2> QED
      BY <2>1, <2>2, <2>3, <2>4, <2>5, <2>8, OperationCarries, Zenon
  <1> QED
    BY <1>1, <1>2

LEMMA ModuloCarries ==
  ASSUME Carried, Ready, NEW x \in Int,
         Choice(modulo(value, x), NonNegativeMod(exact, x),
                IF drift = 0 THEN 0 ELSE Abs(x) - 1)
  PROVE  Carried'
  <1>1. CASE x = 0
    <2>1. Thrown(modulo(value, x))
      BY <1>1 DEF modulo, Thrown, ArithErrors
    <2> QED
      BY <2>1, ErrorCarries, Zenon DEF Choice
  <1>2. CASE x # 0
    <2> DEFINE v == value.ns
               raw == NonNegativeMod(v, x)
               e == NonNegativeMod(exact, x)
               d == IF drift = 0 THEN 0 ELSE Abs(x) - 1
               r == modulo(value, x)
    <2>1. r = fromNs(raw, value.arithKind, value.precision)
      BY <1>2 DEF modulo
    <2>2. v \in Int /\ exact \in Int /\ drift \in Nat
          /\ v - exact <= drift /\ exact - v <= drift
          /\ value.precision \in PrecisionClass
      BY CarriedIs
    <2>3. Return(r, e, d) \/ (Thrown(r) /\ Return(r, exact, drift))
      BY Zenon DEF Choice
    <2> HIDE DEF v
    <2>4. /\ raw \in Int /\ e \in Int
          /\ x > 0 => 0 <= raw /\ raw < x /\ 0 <= e /\ e < x
          /\ x < 0 => x < raw /\ raw <= 0 /\ x < e /\ e <= 0
      BY <1>2, <2>2, ModBounds
    <2>5. drift = 0 => raw = e
      <3>1. drift = 0 => v = exact
        BY <2>2
      <3> QED
        BY <3>1, Zenon
    <2> HIDE DEF raw, e
    <2>6. d \in Nat /\ Abs(raw - e) <= d
      BY <1>2, <2>4, <2>5 DEF Abs
    <2> HIDE DEF d
    <2> QED
      BY <2>1, <2>2, <2>3, <2>4, <2>6, OperationCarries, Zenon
  <1> QED
    BY <1>1, <1>2

LEMMA PowerCarries ==
  ASSUME Carried, Ready, NEW x \in Int,
         Choice(power(value, x), Pow(exact, x),
                IF x = 0 \/ drift = 0 THEN 0
                ELSE x * Pow(Larger(Abs(exact), Abs(value.ns)), x - 1) * drift)
  PROVE  Carried'
  <1>1. CASE x < 0
    <2>1. Thrown(power(value, x))
      BY <1>1 DEF power, Thrown, ArithErrors
    <2> QED
      BY <2>1, ErrorCarries, Zenon DEF Choice
  <1>2. CASE x >= 0
    <2> DEFINE v == value.ns
               M == Larger(Abs(exact), Abs(v))
               raw == Pow(v, x)
               e == Pow(exact, x)
               d == IF x = 0 \/ drift = 0 THEN 0 ELSE x * Pow(M, x - 1) * drift
               r == power(value, x)
    <2>1. r = fromNs(raw, value.arithKind, value.precision)
      BY <1>2 DEF power
    <2>2. v \in Int /\ exact \in Int /\ drift \in Nat /\ Abs(v - exact) <= drift
          /\ v - exact <= drift /\ exact - v <= drift
          /\ value.precision \in PrecisionClass
      BY CarriedIs
    <2>3. Return(r, e, d) \/ (Thrown(r) /\ Return(r, exact, drift))
      BY Zenon DEF Choice
    <2> HIDE DEF v
    <2>4. M \in Nat /\ Abs(v) <= M /\ Abs(exact) <= M
      BY <2>2 DEF Larger, Abs
    <2> HIDE DEF M
    <2>5. raw \in Int /\ e \in Int
      BY <1>2, <2>2, PowIs
    <2>6. d \in Nat /\ Abs(raw - e) <= d
      <3>1. CASE drift = 0 \/ x = 0
        <4>1. raw = e
          <5>1. drift = 0 => v = exact
            BY <2>2
          <5>2. x = 0 => raw = 1 /\ e = 1
            BY <2>2, PowIs
          <5> QED
            BY <3>1, <5>1, <5>2
        <4> HIDE DEF raw, e
        <4> QED
          BY <2>5, <3>1, <4>1 DEF Abs
      <3>2. CASE drift # 0 /\ x # 0
        <4> DEFINE n == x - 1
        <4>1. n \in Nat /\ n + 1 = x
          BY <1>2, <3>2
        <4> HIDE DEF n
        <4>2. Pow(M, n) \in Nat
          BY <2>4, <2>2, <4>1, PowBound
        <4>3. Abs(Pow(v, n + 1) - Pow(exact, n + 1)) <= (n + 1) * Pow(M, n) * drift
          BY <2>2, <2>4, <4>1, PowsClose
        <4>4. (n + 1) * Pow(M, n) * drift \in Nat
          BY <2>2, <4>1, <4>2
        <4>5. d = (n + 1) * Pow(M, n) * drift
          BY <3>2, <4>1 DEF n
        <4> QED
          BY <4>1, <4>3, <4>4, <4>5
      <3> QED
        BY <3>1, <3>2
    <2> HIDE DEF raw, e, d
    <2> QED
      BY <2>1, <2>2, <2>3, <2>5, <2>6, OperationCarries, Zenon
  <1> QED
    BY <1>1, <1>2

------------------------------------------------------------------------------
(* TimeArithmetic: floats *)

LEMMA TwoPowers ==
  ASSUME NEW n \in Nat
  PROVE  Pow(2, n) \in Nat /\ n < Pow(2, n)
  <1> DEFINE Bad(k) == ~ (Pow(2, k) \in Nat /\ k < Pow(2, k))
             S == {k \in Nat : Bad(k)}
  <1>1. /\ Pow(2, 0) = 1
        /\ \A k \in Nat : Pow(2, k + 1) = 2 * Pow(2, k)
    BY PowIs
  <1>2. ASSUME S # {} PROVE FALSE
    <2>1. PICK k \in S : \A j \in S : k <= j
      <3>1. S \in SUBSET Nat
        OBVIOUS
      <3> HIDE DEF S
      <3> QED
        BY <1>2, <3>1, LeastOf
    <2>2. k \in Nat /\ Bad(k)
      OBVIOUS
    <2>3. k # 0
      BY <1>1, <2>2
    <2>4. k - 1 \in Nat /\ k - 1 \notin S /\ (k - 1) + 1 = k
      BY <2>1, <2>2, <2>3
    <2>5. Pow(2, k - 1) \in Nat /\ k - 1 < Pow(2, k - 1)
      BY <2>4
    <2>6. Pow(2, k) = 2 * Pow(2, k - 1)
      BY <1>1, <2>4
    <2> QED
      BY <2>2, <2>4, <2>5, <2>6
  <1>3. n \notin S
    BY <1>2, Zenon
  <1> QED
    BY <1>3

\* The CHOOSE of FloatUnit has something to choose.
LEMMA UnitIs ==
  ASSUME NEW a \in Nat
  PROVE  /\ FloatUnit(a) \in Nat /\ FloatUnit(a) > 0
         /\ FloatUnit(a) = 1 \/ FloatLimit * FloatUnit(a) <= 2 * a
         /\ a < FloatLimit => FloatUnit(a) = 1
  <1> DEFINE L == FloatLimit
             Is(k) == /\ a < L * Pow(2, k)
                      /\ k = 0 \/ L * Pow(2, k) <= 2 * a
             S == {k \in Nat : a < L * Pow(2, k)}
             c == CHOOSE k \in 0 .. a : Is(k)
  <1>1. L \in Nat /\ L > 0
    BY InputAssumption
  <1>2. /\ Pow(2, 0) = 1
        /\ \A k \in Nat : Pow(2, k + 1) = 2 * Pow(2, k)
        /\ \A k \in Nat : Pow(2, k) \in Nat /\ k < Pow(2, k)
    BY PowIs, TwoPowers
  <1>3. a \in S
    <2>1. Pow(2, a) \in Nat /\ a < Pow(2, a)
      BY <1>2
    <2>2. Pow(2, a) * 1 <= Pow(2, a) * L
      BY <1>1, <2>1, MultiplyOrder
    <2>3. Pow(2, a) * L = L * Pow(2, a) /\ Pow(2, a) * 1 = Pow(2, a)
          /\ L * Pow(2, a) \in Nat
      BY <1>1, <2>1
    <2> QED
      BY <2>1, <2>2, <2>3
  <1>4. PICK k \in S : \A j \in S : k <= j
    <2>1. S \in SUBSET Nat /\ S # {}
      BY <1>3
    <2> HIDE DEF S
    <2> QED
      BY <2>1, LeastOf
  <1>5. k \in 0 .. a /\ a < L * Pow(2, k)
    BY <1>3, <1>4
  <1>6. ASSUME k # 0 PROVE L * Pow(2, k) <= 2 * a
    <2>1. k - 1 \in Nat /\ k - 1 \notin S /\ (k - 1) + 1 = k
      BY <1>4, <1>5, <1>6
    <2>2. ~ (a < L * Pow(2, k - 1)) /\ Pow(2, k - 1) \in Nat
      BY <1>2, <2>1
    <2>3. Pow(2, k) = 2 * Pow(2, k - 1)
      BY <1>2, <2>1
    <2>4. L * (2 * Pow(2, k - 1)) = 2 * (L * Pow(2, k - 1))
          /\ L * Pow(2, k - 1) \in Nat
      BY <1>1, <2>2
    <2> QED
      BY <2>2, <2>3, <2>4
  <1>7. Is(k)
    BY <1>5, <1>6
  <1>8. c \in 0 .. a /\ Is(c)
    <2> HIDE DEF Is
    <2> QED
      BY <1>5, <1>7
  <1>9. FloatUnit(a) = Pow(2, c)
    BY DEF FloatUnit
  <1> HIDE DEF c
  <1>10. c \in Nat /\ Pow(2, c) \in Nat /\ Pow(2, c) > 0
    BY <1>2, <1>8
  <1>11. c = 0 => Pow(2, c) = 1
    BY <1>2
  <1>12. ASSUME a < L PROVE c = 0
    <2> SUFFICES ASSUME c # 0 PROVE FALSE
      OBVIOUS
    <2>1. Pow(2, c) >= 2 /\ L * Pow(2, c) <= 2 * a
      BY <1>2, <1>8, <1>10
    <2>2. L * 2 <= L * Pow(2, c)
      BY <1>1, <1>10, <2>1, MultiplyOrder
    <2> QED
      BY <1>1, <1>10, <1>12, <2>1, <2>2
  <1> QED
    BY <1>8, <1>9, <1>10, <1>11, <1>12

\* A float is half a unit away at most.
LEMMA NearestFloat ==
  ASSUME NEW a \in Nat
  PROVE  /\ FloatAbs(a) \in Nat
         /\ FloatLimit * Abs(FloatAbs(a) - a) <= a
         /\ a < FloatLimit => FloatAbs(a) = a
  <1> DEFINE u == FloatUnit(a)
             q == a \div u
             r == a % u
  <1>1. /\ u \in Nat /\ u > 0
        /\ u = 1 \/ FloatLimit * u <= 2 * a
        /\ a < FloatLimit => u = 1
    BY UnitIs
  <1>2. FloatAbs(a) = IF 2 * r < u \/ (2 * r = u /\ q % 2 = 0) THEN q * u
                      ELSE (q + 1) * u
    BY DEF FloatAbs
  <1> HIDE DEF u
  <1>3. q \in Int /\ u * q <= a /\ a < u * q + u /\ r = a - u * q
    BY <1>1, FloorOf
  <1>4. q >= 0
    <2> HIDE DEF q, r
    <2> SUFFICES ASSUME q < 0 PROVE FALSE
      BY <1>3
    <2>1. u * q + u <= u * 0 /\ u * 0 = 0
      BY <1>1, <1>3, MultiplesApart
    <2> QED
      BY <1>1, <1>3, <2>1
  <1> DEFINE x == q * u
             f == FloatAbs(a)
  <1>5. x = u * q /\ x \in Nat /\ (q + 1) * u = x + u
    <2> HIDE DEF q
    <2> QED
      BY <1>1, <1>3, <1>4
  <1>6. /\ f \in {x, x + u} /\ r \in Int
        /\ f = x => 2 * r <= u
        /\ f = x + u => 2 * r >= u
    <2>1. r \in Int
      BY <1>1, <1>3
    <2> HIDE DEF q, r
    <2>2. (2 * r < u \/ (2 * r = u /\ q % 2 = 0)) => f = x
      BY <1>2
    <2>3. ~ (2 * r < u \/ (2 * r = u /\ q % 2 = 0)) => f = x + u
      BY <1>2, <1>5
    <2> HIDE DEF f, x
    <2> QED
      BY <1>1, <1>5, <2>1, <2>2, <2>3
  <1> HIDE DEF q, x, f
  <1>10. r = a - x /\ a < x + u /\ x <= a
    BY <1>3, <1>5
  <1> HIDE DEF r
  <1>7. f \in Nat /\ Abs(f - a) \in Nat /\ 2 * Abs(f - a) <= u
    BY <1>1, <1>5, <1>6, <1>10 DEF Abs
  <1>8. u = 1 => f = a
    BY <1>7 DEF Abs
  <1>9. FloatLimit * Abs(f - a) <= a
    <2> DEFINE y == Abs(f - a)
    <2>1. FloatLimit \in Nat /\ y \in Nat /\ 2 * y <= u
      BY <1>7, InputAssumption
    <2> HIDE DEF y
    <2>2. CASE u = 1
      <3>1. y = 0
        BY <2>1, <2>2
      <3> QED
        BY <2>1, <3>1 DEF y
    <2>3. CASE FloatLimit * u <= 2 * a
      <3>1. FloatLimit * (2 * y) <= FloatLimit * u
        BY <1>1, <2>1, MultiplyOrder
      <3>2. FloatLimit * (2 * y) = 2 * (FloatLimit * y) /\ FloatLimit * y \in Nat
            /\ FloatLimit * u \in Nat
        BY <1>1, <2>1
      <3>3. FloatLimit * y <= a
        BY <2>3, <3>1, <3>2
      <3> QED
        BY <3>3 DEF y
    <2> QED
      BY <1>1, <2>2, <2>3
  <1> QED
    BY <1>1, <1>7, <1>8, <1>9 DEF f

LEMMA FloatIs ==
  ASSUME NEW m \in Int
  PROVE  /\ Float(m) \in Int /\ Abs(m) \in Nat
         /\ FloatLimit * Abs(Float(m) - m) <= Abs(m)
         /\ Abs(m) < FloatLimit => Float(m) = m
  <1>1. CASE m < 0
    <2> DEFINE a == -m
               f == FloatAbs(a)
    <2>1. /\ a \in Nat /\ f \in Nat /\ FloatLimit * Abs(f - a) <= a
          /\ a < FloatLimit => f = a
      BY <1>1, NearestFloat
    <2>2. Float(m) = -f /\ Abs(m) = a
      BY <1>1 DEF Float, Abs
    <2> HIDE DEF f
    <2>3. Abs(-f - m) = Abs(f - a)
      BY <2>1 DEF Abs
    <2> QED
      BY <2>1, <2>2, <2>3
  <1>2. CASE m >= 0
    BY <1>2, NearestFloat DEF Float, Abs
  <1> QED
    BY <1>1, <1>2

\* What the rounding of v and of its product with n lose together.
LEMMA ProductLoss ==
  ASSUME NEW v \in Int, NEW n \in Nat
  PROVE  /\ n * Abs(v) \in Nat /\ FloatLoss(n * Abs(v)) \in Nat
         /\ Float(n * Float(v)) \in Int
         /\ Abs(Float(n * Float(v)) - n * v) <= FloatLoss(n * Abs(v))
  <1> DEFINE L == FloatLimit
             w == Float(v)
             y == n * w
             z == Float(y)
             a == n * Abs(v)
             dv == Abs(w - v)
             dy == Abs(z - y)
  <1>1. L \in Nat /\ L > 0
    BY InputAssumption
  <1>2. /\ w \in Int /\ Abs(v) \in Nat /\ dv \in Nat
        /\ L * dv <= Abs(v) /\ (Abs(v) < L => w = v)
    <2>1. w \in Int /\ w - v \in Int
      BY FloatIs
    <2>2. dv \in Nat
      BY <2>1, AbsIs
    <2> QED
      BY <2>1, <2>2, FloatIs
  <1>3. a \in Nat
    BY <1>2
  <1>4. /\ y \in Int /\ z \in Int /\ Abs(y) \in Nat /\ dy \in Nat
        /\ L * dy <= Abs(y) /\ (Abs(y) < L => z = y)
    <2> HIDE DEF w
    <2>1. y \in Int
      BY <1>2
    <2> HIDE DEF y
    <2>2. z \in Int /\ z - y \in Int
      BY <2>1, FloatIs
    <2>3. dy \in Nat
      BY <2>2, AbsIs
    <2> QED
      BY <2>1, <2>2, <2>3, FloatIs
  <1>5. Abs(n * v) = a /\ n * v \in Int
    <2> DEFINE nv == n * v
    <2>1. nv \in Int
      OBVIOUS
    <2>2. CASE v < 0
      <3>1. a = n * (-v)
        BY <2>2 DEF Abs
      <3>2. n * (-v) = -nv /\ 0 <= n * (-v)
        BY <2>2
      <3> HIDE DEF nv, a
      <3> QED
        BY <2>1, <3>1, <3>2 DEF Abs, nv
    <2>3. CASE v >= 0
      <3>1. a = nv
        BY <2>3 DEF Abs
      <3>2. 0 <= nv
        BY <2>3
      <3> HIDE DEF nv, a
      <3> QED
        BY <2>1, <3>1, <3>2 DEF Abs, nv
    <2> QED
      BY <2>1, <2>2, <2>3
  <1>6. CASE a < L
    <2>1. FloatLoss(a) = 0
      BY <1>6 DEF FloatLoss
    <2>2. y = n * v
      <3>1. CASE n = 0
        BY <1>2, <3>1
      <3>2. CASE n > 0
        <4>1. Abs(v) * 1 <= Abs(v) * n
          BY <1>2, <3>2, MultiplyOrder
        <4>2. Abs(v) < L
          <5>1. Abs(v) * n = a /\ Abs(v) * 1 = Abs(v)
            BY <1>2
          <5> QED
            BY <1>1, <1>2, <1>3, <1>6, <4>1, <5>1
        <4> QED
          BY <1>2, <4>2
      <3> QED
        BY <3>1, <3>2
    <2>3. z = n * v
      BY <1>4, <1>5, <1>6, <2>2
    <2>4. Abs(z - n * v) = 0
      BY <1>5, <2>3 DEF Abs
    <2> QED
      BY <1>3, <1>4, <2>1, <2>4
  <1>7. CASE ~ (a < L)
    <2> DEFINE c == CeilDiv(3 * a, L)
    <2>1. FloatLoss(a) = c
      BY <1>7 DEF FloatLoss
    <2>2. c \in Nat /\ 3 * a <= L * c
      <3>1. 3 * a \in Nat
        BY <1>3
      <3> QED
        BY <1>1, <3>1, Ceiling
    <2>3. n * dv \in Nat /\ L * (n * dv) <= a
      <3>1. n * (L * dv) <= n * Abs(v)
        <4>1. L * dv \in Int
          BY <1>1, <1>2
        <4> QED
          BY <1>2, <4>1, MultiplyOrder
      <3>2. n * (L * dv) = L * (n * dv) /\ n * dv \in Nat
        BY <1>1, <1>2
      <3> QED
        BY <3>1, <3>2
    <2>4. Abs(y - n * v) = n * dv
      <3> HIDE DEF w
      <3>1. y - n * v = n * (w - v)
        BY <1>2
      <3>2. CASE w < v
        BY <1>2, <3>1, <3>2 DEF Abs
      <3>3. CASE w >= v
        BY <1>2, <3>1, <3>3 DEF Abs
      <3> QED
        BY <1>2, <3>2, <3>3
    <2> DEFINE t == n * dv
    <2>5. t <= a
      <3>1. t * 1 <= t * L
        BY <1>1, <2>3, MultiplyOrder
      <3>2. t * L = L * t /\ t * 1 = t /\ L * t \in Nat
        BY <1>1, <2>3
      <3> HIDE DEF t
      <3> QED
        BY <1>3, <2>3, <3>1, <3>2 DEF t
    <2>6. t \in Nat /\ L * t <= a /\ Abs(y - n * v) = t
      BY <2>3, <2>4
    <2> HIDE DEF t
    <2> DEFINE nv == n * v
    <2>7. nv \in Int /\ Abs(nv) = a
      BY <1>5
    <2> HIDE DEF nv, y, z, a, c
    <2>8. Abs(y) <= 2 * a
      BY <1>3, <1>4, <2>5, <2>6, <2>7 DEF Abs, nv
    <2>9. Abs(z - nv) <= dy + t /\ Abs(z - nv) \in Nat
      BY <1>4, <2>6, <2>7 DEF Abs, nv
    <2>10. L * (dy + t) = L * dy + L * t /\ L * dy \in Nat /\ L * t \in Nat
      <3> HIDE DEF dy
      <3> QED
        BY <1>1, <1>4, <2>6
    <2>11. L * (dy + t) <= L * c
      <3>1. L * c \in Nat
        BY <1>1, <2>2
      <3> QED
        BY <1>3, <1>4, <2>2, <2>6, <2>8, <2>10, <3>1
    <2>12. dy + t <= c
      <3> DEFINE s == dy + t
      <3>1. s \in Nat
        BY <1>4, <2>6
      <3> HIDE DEF s, dy
      <3> SUFFICES ASSUME c < s PROVE FALSE
        BY <2>2, <3>1 DEF s
      <3>2. L * c + L <= L * s /\ L * c \in Int /\ L * s \in Int
        BY <1>1, <2>2, <3>1, MultiplesApart
      <3>3. L * s <= L * c
        BY <2>11 DEF s
      <3> QED
        BY <1>1, <3>2, <3>3
    <2>13. Abs(z - nv) <= c
      BY <1>4, <2>2, <2>6, <2>9, <2>12
    <2> QED
      BY <1>3, <1>4, <2>1, <2>2, <2>13 DEF nv, z, y, a
  <1> QED
    BY <1>6, <1>7

\* Math.round of two quotients.
LEMMA RoundsClose ==
  ASSUME NEW v \in Int, NEW e \in Int, NEW D \in Nat, v - e <= D,
         NEW k \in Nat, k > 0
  PROVE  RoundQuotient(v, k) - RoundQuotient(e, k) <= CeilDiv(D, k)
  <1> DEFINE a == 2 * v + k
             b == 2 * e + k
             c == CeilDiv(D, k)
  <1>1. a \in Int /\ b \in Int /\ 2 * k \in Nat /\ 2 * k > 0
    OBVIOUS
  <1>2. c \in Nat /\ D <= k * c
    BY Ceiling
  <1>3. a - b = 2 * (v - e)
    OBVIOUS
  <1> HIDE DEF c
  <1>4. (2 * k) * c = 2 * (k * c) /\ k * c \in Int
    BY <1>2
  <1> HIDE DEF a, b
  <1>5. a - b <= (2 * k) * c
    BY <1>1, <1>2, <1>3, <1>4
  <1>6. a \div (2 * k) - b \div (2 * k) <= c
    BY <1>1, <1>2, <1>5, FloorsClose
  <1> QED
    BY <1>6 DEF RoundQuotient, a, b, c

LEMMA RoundType ==
  ASSUME NEW m \in Int, NEW k \in Nat, k > 0
  PROVE  RoundQuotient(m, k) \in Int
  <1>1. 2 * m + k \in Int /\ 2 * k \in Nat /\ 2 * k > 0
    OBVIOUS
  <1>2. (2 * m + k) \div (2 * k) \in Int
    BY <1>1, FloorOf
  <1> QED
    BY <1>2 DEF RoundQuotient

\* A float's fraction of the value and the exact one of the chain.
LEMMA FractionsClose ==
  ASSUME NEW v \in Int, NEW e \in Int, NEW D \in Nat, v - e <= D, e - v <= D,
         NEW n \in Nat, NEW k \in Nat, k > 0
  PROVE  LET f == TimesFraction(v, n, k)
             g == RoundQuotient(n * e, k)
             c == CeilDiv(D * n + FloatLoss(n * Abs(v)), k)
         IN  f \in Int /\ g \in Int /\ c \in Nat /\ f - g <= c /\ g - f <= c
  <1> DEFINE z == Float(n * Float(v))
             l == FloatLoss(n * Abs(v))
             x == n * v
             y == n * e
             t == D * n
  <1>1. z \in Int /\ l \in Nat /\ Abs(z - x) <= l
    BY ProductLoss
  <1>2. x \in Int /\ y \in Int /\ t \in Nat
    OBVIOUS
  <1>3. x - y <= t /\ y - x <= t
    <2>1. n * (v - e) <= n * D /\ n * (e - v) <= n * D
      <3>1. v - e \in Int /\ e - v \in Int
        OBVIOUS
      <3> QED
        BY <3>1, MultiplyOrder
    <2>2. n * (v - e) = x - y /\ n * (e - v) = y - x /\ n * D = t
      OBVIOUS
    <2> QED
      BY <2>1, <2>2
  <1>4. TimesFraction(v, n, k) = RoundQuotient(z, k)
    BY DEF TimesFraction
  <1> HIDE DEF z, l, x, y, t
  <1>5. z - y <= t + l /\ y - z <= t + l /\ t + l \in Nat
    BY <1>1, <1>2, <1>3 DEF Abs
  <1>6. /\ RoundQuotient(z, k) - RoundQuotient(y, k) <= CeilDiv(t + l, k)
        /\ RoundQuotient(y, k) - RoundQuotient(z, k) <= CeilDiv(t + l, k)
    BY <1>1, <1>2, <1>5, RoundsClose
  <1>7. /\ RoundQuotient(z, k) \in Int /\ RoundQuotient(y, k) \in Int
        /\ CeilDiv(t + l, k) \in Nat
    BY <1>1, <1>2, <1>5, RoundType, Ceiling
  <1> QED
    BY <1>4, <1>6, <1>7 DEF l, y, t

LEMMA NumberCarries ==
  ASSUME Carried, NEW w, w \in Int \/ w = NotFinite,
         NEW n \in Nat, NEW k \in Nat, k > 0, MultiplyByNumber(w, n, k)
  PROVE  Carried'
  <1> DEFINE v == value.ns
             s == TimesFraction(v, n, k)
             t == RoundQuotient(n * exact, k)
             c == CeilDiv(drift * n + FloatLoss(n * Abs(v)), k)
             raw == v * w + s
             e == exact * w + t
             d == drift * w + c
             r == multiplyByNumber(value, w, n, k)
  <1>1. Ready /\ Choice(r, e, d)
    BY Zenon DEF MultiplyByNumber, Choice
  <1>2. CASE w = NotFinite \/ w < 0
    <2>1. w = NotFinite => r = RangeError
      BY DEF multiplyByNumber
    <2>2. w # NotFinite /\ w < 0 => r = ConstraintError
      BY DEF multiplyByNumber
    <2>3. Thrown(r)
      BY <1>2, <2>1, <2>2, Zenon DEF Thrown, ArithErrors
    <2> HIDE DEF r
    <2>4. Return(r, exact, drift)
      BY <1>1, <2>3, Zenon DEF Choice
    <2> QED
      BY <1>1, <2>3, <2>4, ErrorCarries, Zenon
  <1>3. CASE w # NotFinite /\ ~ (w < 0)
    <2>1. r = fromNs(raw, value.arithKind, value.precision)
      BY <1>3, Zenon DEF multiplyByNumber
    <2>2. v \in Int /\ w \in Nat /\ exact \in Int /\ drift \in Nat /\ Abs(w) <= w
          /\ v - exact \in Int /\ Abs(v - exact) <= drift
          /\ v - exact <= drift /\ exact - v <= drift
          /\ value.precision \in PrecisionClass
      BY <1>3, CarriedIs DEF Abs
    <2> HIDE DEF v
    <2>3. /\ s \in Int /\ t \in Int /\ c \in Nat
          /\ s - t <= c /\ t - s <= c
      BY <2>2, FractionsClose, Zenon
    <2>4. /\ Abs((v - exact) * w) <= drift * w /\ drift * w \in Nat
          /\ (v - exact) * w \in Int
      BY <2>2, ProductBound
    <2>5. v * w - exact * w = (v - exact) * w /\ v * w \in Int /\ exact * w \in Int
      BY <2>2
    <2> DEFINE x == v * w
               y == exact * w
               z == drift * w
    <2>6. x \in Int /\ y \in Int /\ z \in Nat /\ Abs(x - y) <= z
      BY <2>4, <2>5, Zenon
    <2>7. raw = x + s /\ e = y + t /\ d = z + c
      OBVIOUS
    <2> HIDE DEF x, y, z, s, t, c, raw, e, d, r
    <2>8. raw \in Int /\ e \in Int /\ d \in Nat /\ Abs(raw - e) <= d
      BY <2>3, <2>6, <2>7 DEF Abs
    <2> QED
      <3>1. Ready /\ value.precision \in PrecisionClass
        BY <1>1, <2>2
      <3>2. Return(r, e, d) \/ (Thrown(r) /\ Return(r, exact, drift))
        BY <1>1, Zenon DEF Choice
      <3> QED
        BY <2>1, <2>8, <3>1, <3>2, OperationCarries, Zenon
  <1> QED
    BY <1>2, <1>3

------------------------------------------------------------------------------
(* TimeArithmetic: decoding *)

\* A remainder of a multiple of the unit keeps the remainder of the unit.
LEMMA RemaindersNest ==
  ASSUME NEW x \in Nat, NEW w \in Nat, w > 0, NEW u \in Nat, u > 0, w % u = 0
  PROVE  (x % w) % u = x % u
  <1> DEFINE m == w \div u
             a == x \div w
             y == x % w
             b == y \div u
  <1>1. m \in Int /\ w = u * m
    <2>1. /\ m \in Int /\ u * m \in Int /\ w % u = w - u * m
      BY FloorOf
    <2> HIDE DEF m
    <2> QED
      BY <2>1
  <1>2. a \in Int /\ y = x - w * a /\ y \in Int
    <2>1. a \in Int /\ y = x - w * a
      BY FloorOf
    <2> HIDE DEF a, y
    <2> QED
      BY <2>1
  <1> HIDE DEF m, a, y
  <1>3. /\ b \in Int /\ u * b <= y /\ y < u * b + u /\ y % u = y - u * b
    BY <1>2, FloorOf
  <1> HIDE DEF b
  <1>4. /\ m * a + b \in Int /\ u * b \in Int /\ w * a \in Int
        /\ u * (m * a + b) = w * a + u * b
    BY <1>1, <1>2, <1>3
  <1>5. /\ u * (m * a + b) <= x /\ x < u * (m * a + b) + u
        /\ x - u * (m * a + b) = y - u * b
    BY <1>2, <1>3, <1>4
  <1> DEFINE q == m * a + b
  <1>6. q \in Int /\ u * q <= x /\ x < u * q + u /\ x - u * q = y % u
    BY <1>3, <1>4, <1>5
  <1> HIDE DEF q
  <1>7. y % u = x % u
    <2>1. x \in Int
      OBVIOUS
    <2>2. x % u = x - u * q
      BY <1>6, <2>1, FloorUnique, Zenon
    <2> QED
      BY <1>6, <2>2, Zenon
  <1> QED
    BY <1>7 DEF y

LEMMA UnitsAre ==
  /\ \A i \in 1 .. 7 : Units[i] \in Nat /\ Units[i] > 0
  /\ \A i \in 2 .. 7 : Units[i - 1] % Units[i] = 0
  /\ Units[7] = 1
  <1>1. /\ Units[1] = NsPerDay /\ Units[2] = NsPerHour /\ Units[3] = NsPerMin
        /\ Units[4] = NsPerSec /\ Units[5] = NsPerMs /\ Units[6] = NsPerUs
        /\ Units[7] = 1
    BY DEF Units
  <1>2. NsPerUs % 1 = 0
    <2>1. NsPerUs \in Nat
      BY UnitAssumption
    <2> QED
      BY <2>1
  <1>3. \A i \in 1 .. 7 : Units[i] \in Nat /\ Units[i] > 0
    <2> SUFFICES ASSUME NEW i \in 1 .. 7 PROVE Units[i] \in Nat /\ Units[i] > 0
      OBVIOUS
    <2>1. i = 1 \/ i = 2 \/ i = 3 \/ i = 4 \/ i = 5 \/ i = 6 \/ i = 7
      OBVIOUS
    <2>2. \A n \in Nat \ {0} : n \in Nat /\ n > 0
      OBVIOUS
    <2>3. 1 \in Nat \ {0}
      OBVIOUS
    <2> QED
      BY <1>1, <2>1, <2>2, <2>3, UnitAssumption, Zenon
  <1>4. \A i \in 2 .. 7 : Units[i - 1] % Units[i] = 0
    <2> SUFFICES ASSUME NEW i \in 2 .. 7 PROVE Units[i - 1] % Units[i] = 0
      OBVIOUS
    <2>1. \/ i = 2 /\ i - 1 = 1
          \/ i = 3 /\ i - 1 = 2
          \/ i = 4 /\ i - 1 = 3
          \/ i = 5 /\ i - 1 = 4
          \/ i = 6 /\ i - 1 = 5
          \/ i = 7 /\ i - 1 = 6
      OBVIOUS
    <2> QED
      BY <1>1, <1>2, <2>1, UnitAssumption, Zenon
  <1> QED
    BY <1>1, <1>3, <1>4, Zenon

\* What each unit takes is what its remainder falls short of that of the larger
\* unit.
LEMMA PartsAre ==
  ASSUME NEW x \in Nat
  PROVE  LET parts == Split(x)
         IN  /\ \A i \in 1 .. 7 : parts[i] \in Nat /\ x % Units[i] \in Nat
             /\ parts[1] * Units[1] = x - (x % Units[1])
             /\ \A i \in 2 .. 7 : /\ parts[i] * Units[i] = (x % Units[i - 1]) - (x % Units[i])
                                  /\ parts[i] * Units[i] < Units[i - 1]
  <1> DEFINE parts == Split(x)
  <1>1. ASSUME NEW y \in Nat, NEW u \in Nat, u > 0
        PROVE  /\ y \div u \in Nat /\ y % u \in Nat /\ y % u < u
               /\ (y \div u) * u = y - (y % u)
    <2> DEFINE q == y \div u
               s == y % u
               m == u * q
    <2>1. q \in Int /\ m <= y /\ y < m + u /\ s = y - m
      <3>1. y \in Int
        OBVIOUS
      <3> QED
        BY <1>1, <3>1, FloorOf, Zenon
    <2>2. q \in Nat
      BY <1>1
    <2> HIDE DEF q, s
    <2>3. m \in Int /\ q * u = m
      BY <2>1
    <2> HIDE DEF m
    <2>4. s \in Nat /\ s < u /\ m = y - s
      BY <2>1, <2>3
    <2>5. q \in Nat /\ s \in Nat /\ s < u /\ q * u = y - s
      BY <2>2, <2>3, <2>4, Zenon
    <2> QED
      BY <2>5, Zenon DEF q, s
  <1>2. /\ parts[1] = x \div Units[1]
        /\ \A i \in 2 .. 7 : parts[i] = (x % Units[i - 1]) \div Units[i]
    BY DEF Split
  <1>3. \A i \in 1 .. 7 : x % Units[i] \in Nat /\ x % Units[i] < Units[i]
    BY <1>1, UnitsAre
  <1>4. parts[1] \in Nat /\ parts[1] * Units[1] = x - (x % Units[1])
    <2>1. Units[1] \in Nat /\ Units[1] > 0
      BY UnitsAre
    <2> QED
      BY <1>1, <1>2, <2>1, Zenon
  <1>5. ASSUME NEW i \in 2 .. 7
        PROVE  /\ parts[i] \in Nat
               /\ parts[i] * Units[i] = (x % Units[i - 1]) - (x % Units[i])
               /\ parts[i] * Units[i] < Units[i - 1]
    <2> DEFINE w == Units[i - 1]
               u == Units[i]
               y == x % w
    <2>1. i - 1 \in 1 .. 7 /\ i \in 1 .. 7
      OBVIOUS
    <2>2. w \in Nat /\ w > 0 /\ u \in Nat /\ u > 0 /\ w % u = 0 /\ y \in Nat /\ y < w
      BY <1>3, <2>1, UnitsAre, Zenon
    <2>3. parts[i] = y \div u
      BY <1>2, Zenon
    <2> HIDE DEF w, u
    <2>4. y % u = x % u
      BY <2>2, RemaindersNest, Zenon
    <2> HIDE DEF y
    <2>5. /\ y \div u \in Nat /\ y % u \in Nat
          /\ (y \div u) * u = y - (y % u)
      BY <1>1, <2>2, Zenon
    <2> HIDE DEF parts
    <2>6. /\ parts[i] \in Nat /\ parts[i] * u = y - (y % u)
          /\ y % u \in Nat
      BY <2>3, <2>5, Zenon
    <2> DEFINE z == parts[i] * u
               s == y % u
    <2>7. z = y - s /\ s \in Nat
      BY <2>6
    <2> HIDE DEF z, s
    <2>8. z < w
      BY <2>2, <2>7
    <2> QED
      BY <2>4, <2>6, <2>7, <2>8, Zenon DEF w, u, y, z, s
  <1>6. \A i \in 1 .. 7 : parts[i] \in Nat
    <2>1. \A i \in 1 .. 7 : i = 1 \/ i \in 2 .. 7
      OBVIOUS
    <2> QED
      BY <1>4, <1>5, <2>1, Zenon
  <1> HIDE DEF parts
  <1>7. /\ \A i \in 1 .. 7 : parts[i] \in Nat /\ x % Units[i] \in Nat
        /\ parts[1] * Units[1] = x - (x % Units[1])
        /\ \A i \in 2 .. 7 : /\ parts[i] * Units[i] = (x % Units[i - 1]) - (x % Units[i])
                             /\ parts[i] * Units[i] < Units[i - 1]
    BY <1>3, <1>4, <1>5, <1>6, Zenon
  <1> QED
    BY <1>7, Zenon DEF parts

LEMMA PartsAddUp ==
  ASSUME NEW x \in Nat
  PROVE  Joined(Split(x)) = x
  <1> DEFINE parts == Split(x)
             r(i) == x % Units[i]
             d(i) == parts[i] * Units[i]
  <1>1. /\ \A i \in 1 .. 7 : r(i) \in Nat
        /\ d(1) = x - r(1)
        /\ \A i \in 2 .. 7 : d(i) = r(i - 1) - r(i)
    <2>1. /\ \A i \in 1 .. 7 : parts[i] \in Nat /\ x % Units[i] \in Nat
          /\ parts[1] * Units[1] = x - (x % Units[1])
          /\ \A i \in 2 .. 7 : /\ parts[i] * Units[i] = (x % Units[i - 1]) - (x % Units[i])
                               /\ parts[i] * Units[i] < Units[i - 1]
      BY PartsAre, Zenon
    <2> QED
      BY <2>1, Zenon
  <1>2. r(7) = 0
    BY UnitsAre
  <1>3. Joined(parts) = d(1) + d(2) + d(3) + d(4) + d(5) + d(6) + d(7)
    BY DEF Joined
  <1> HIDE DEF parts, r, d
  <1>4. /\ d(2) = r(1) - r(2) /\ d(3) = r(2) - r(3) /\ d(4) = r(3) - r(4)
        /\ d(5) = r(4) - r(5) /\ d(6) = r(5) - r(6) /\ d(7) = r(6) - r(7)
    BY <1>1
  <1>5. /\ r(1) \in Nat /\ r(2) \in Nat /\ r(3) \in Nat /\ r(4) \in Nat
        /\ r(5) \in Nat /\ r(6) \in Nat /\ r(7) \in Nat
    BY <1>1
  <1>6. Joined(parts) = x
    BY <1>1, <1>2, <1>3, <1>4, <1>5
  <1> QED
    BY <1>6 DEF parts

\* The text keeps the seconds unless it cuts zeros off them.
LEMMA SecondsKept ==
  ASSUME NEW parts, parts[4] % 10 # 0, buildISO8601(parts) # NoSeconds
  PROVE  buildISO8601(parts)[1] = parts[4]
  BY DEF buildISO8601, CutZeros

LEMMA DecodeIs ==
  ASSUME Fits(value)
  PROVE  LET t == decode(value)
         IN  /\ Joined(t.parts) = Abs(value.ns)
             /\ \A i \in 2 .. 7 : t.parts[i] * Units[i] < Units[i - 1]
             /\ \A i \in 1 .. 7 : t.parts[i] > 0 => <<t.parts[i], Units[i]>> \in t.label_de
             /\ t.iso8601 # NoSeconds /\ t.parts[4] % 10 # 0 => t.iso8601[1] = t.parts[4]
  <1> DEFINE t == decode(value)
             x == Abs(value.ns)
  <1>1. x \in Nat
    BY AbsIs DEF Fits, ArithValue
  <1>2. t.parts = Split(x) /\ t.label_de = buildLabelDe(t.parts)
        /\ t.iso8601 = buildISO8601(t.parts)
    BY DEF decode
  <1> HIDE DEF t, x
  <1>3. Joined(t.parts) = x /\ \A i \in 2 .. 7 : t.parts[i] * Units[i] < Units[i - 1]
    BY <1>1, <1>2, PartsAre, PartsAddUp, Zenon
  <1>4. \A i \in 1 .. 7 : t.parts[i] > 0 => <<t.parts[i], Units[i]>> \in t.label_de
    BY <1>2, Zenon DEF buildLabelDe
  <1>5. t.iso8601 # NoSeconds /\ t.parts[4] % 10 # 0 => t.iso8601[1] = t.parts[4]
    BY <1>2, SecondsKept, Zenon
  <1> QED
    BY <1>3, <1>4, <1>5, Zenon DEF t, x

------------------------------------------------------------------------------
(* TimeArithmetic: theorems *)

LEMMA InitCarries == ArithInit => Carried
  <1> SUFFICES ASSUME ArithInit PROVE Carried
    OBVIOUS
  <1>1. /\ value.ns = 0 /\ value.precision = "P-NS" /\ value \in ArithValue
        /\ exact = 0 /\ drift = 0 /\ operations = 0 /\ error = "none"
    BY DEF ArithInit, NoValue, ArithValue, ArithKind, PrecisionClass
  <1>2. 0 % PRECISION_NS["P-NS"] = 0
    <2>1. PRECISION_NS["P-NS"] \in Nat \ {0}
      BY PrecisionType DEF PrecisionClass
    <2> QED
      BY <2>1
  <1>3. Fits(value)
    BY <1>1, <1>2 DEF Fits
  <1>4. ChainDrift
    BY <1>1 DEF ChainDrift, Abs
  <1> QED
    BY <1>1, <1>3, <1>4, BoundAssumption DEF Carried

LEMMA ChainCarries ==
  ASSUME Carried, NEW op \in Ops, NEW x \in Int, ChainStep(op, x)
  PROVE  Carried'
  <1> DEFINE b == [value EXCEPT !.ns = x]
  <1>1. Ready
    BY DEF ChainStep
  <1>2. b.ns = x /\ b.precision = value.precision /\ value.precision \in PrecisionClass
    BY DEF Carried, Fits, ArithValue
  <1>3. CASE op = "add"
    <2>1. Choice(add(value, b), exact + x, drift)
      BY <1>3 DEF ChainStep, Choice, Exactly, DriftAfter
    <2> HIDE DEF b
    <2> QED
      BY <1>1, <1>2, <2>1, AddCarries
  <1>4. CASE op = "subtract"
    <2>1. Choice(subtract(value, b), exact - x, drift)
      BY <1>4 DEF ChainStep, Choice, Exactly, DriftAfter
    <2> HIDE DEF b
    <2> QED
      BY <1>1, <1>2, <2>1, SubtractCarries
  <1>5. CASE op = "multiply"
    <2>1. Choice(multiply(value, x), exact * x, drift * x)
      BY <1>5 DEF ChainStep, Choice, Exactly, DriftAfter
    <2> QED
      BY <1>1, <2>1, MultiplyCarries
  <1>6. CASE op = "divide"
    <2>1. Choice(divide(value, x), Quotient(exact, x), CeilDiv(drift, x))
      BY <1>6 DEF ChainStep, Choice, Exactly, DriftAfter
    <2> QED
      BY <1>1, <2>1, DivideCarries
  <1>7. CASE op = "modulo"
    <2>1. Choice(modulo(value, x), NonNegativeMod(exact, x),
                 IF drift = 0 THEN 0 ELSE Abs(x) - 1)
      BY <1>7 DEF ChainStep, Choice, Exactly, DriftAfter
    <2> QED
      BY <1>1, <2>1, ModuloCarries
  <1>8. CASE op = "power"
    <2>1. Choice(power(value, x), Pow(exact, x),
                 IF x = 0 \/ drift = 0 THEN 0
                 ELSE x * Pow(Larger(Abs(exact), Abs(value.ns)), x - 1) * drift)
      BY <1>8 DEF ChainStep, Choice, Exactly, DriftAfter
    <2> QED
      BY <1>1, <2>1, PowerCarries
  <1>9. CASE op = "other"
    <2>1. Return(ExtentError, exact, drift)
      BY <1>9 DEF ChainStep, Thrown, ArithErrors
    <2>2. Thrown(ExtentError)
      BY DEF Thrown, ArithErrors
    <2> QED
      BY <1>1, <2>1, <2>2, ErrorCarries, Zenon
  <1> QED
    BY <1>3, <1>4, <1>5, <1>6, <1>7, <1>8, <1>9 DEF Ops

LEMMA SecType ==
  ASSUME NEW s \in Decimals
  PROVE  secToNs(s) \in Int
  <1>1. s.whole \in Nat /\ s.tenths \in Nat /\ s.negative \in BOOLEAN
    BY InputAssumption
  <1> DEFINE a == s.whole * NsPerSec
             b == NsOfTenths(s.tenths)
  <1>2. a \in Int /\ b \in Int
    BY <1>1, UnitAssumption DEF NsOfTenths
  <1>3. secToNs(s) = IF s.negative THEN -(a + b) ELSE a + b
    BY DEF secToNs
  <1> HIDE DEF a, b
  <1> QED
    BY <1>2, <1>3

LEMMA NextCarries == Carried /\ [ArithNext]_arithVars => Carried'
  <1> SUFFICES ASSUME Carried, [ArithNext]_arithVars PROVE Carried'
    OBVIOUS
  <1>1. ASSUME NEW s \in Decimals, NEW kind \in ArithKind, NEW p \in PrecisionClass,
               FromSec(s, kind, p)
        PROVE  Carried'
    <2>1. secToNs(s) \in Int
      BY SecType
    <2>2. Make(fromNs(secToNs(s), kind, p), secToNs(s))
      BY <1>1 DEF FromSec, fromSec
    <2> QED
      BY <2>1, <2>2, FromNsFits, MakeCarries, Zenon
  <1>2. ASSUME NEW n \in Numbers \union {NotBigInt}, NEW kind \in ArithKind,
               NEW p \in PrecisionClass, FromNs(n, kind, p)
        PROVE  Carried'
    <2>1. Make(fromNs(n, kind, p), n)
      BY <1>2 DEF FromNs
    <2>2. CASE n \in Numbers
      <3>1. n \in Int
        BY <2>2, InputAssumption
      <3> QED
        BY <2>1, <3>1, FromNsFits, MakeCarries, Zenon
    <2>3. CASE n = NotBigInt
      <3>1. Thrown(fromNs(n, kind, p))
        BY <2>3, Zenon DEF fromNs, Thrown, ArithErrors
      <3>2. /\ operations' = 1 /\ error' = fromNs(n, kind, p).error
            /\ UNCHANGED <<value, exact, drift>>
        BY <2>1, <3>1, Zenon DEF Make
      <3>3. error' \in {e.error : e \in ArithErrors}
        BY <3>1, <3>2, Zenon DEF Thrown
      <3> QED
        BY <3>2, <3>3, BoundAssumption DEF Carried, Fits, ChainDrift
    <2> QED
      BY <2>2, <2>3
  <1>3. ASSUME NEW c \in IrrationalNs, NEW f \in Numbers, NEW kind \in ArithKind,
               NEW p \in PrecisionClass, Irrational(c, f, kind, p)
        PROVE  Carried'
    <2>1. c \in Nat /\ f \in Int
      BY InputAssumption
    <2>2. c * f \in Int
      BY <2>1
    <2>3. Make(arithIrrational(c, f, kind, p), c * f)
      BY <1>3 DEF Irrational
    <2> QED
      BY <2>1, <2>2, <2>3, IrrationalFits, MakeCarries, Zenon
  <1>4. ASSUME NEW v \in ARITH, FromTable(v) PROVE Carried'
    <2>1. Fits(v)
      BY TableFits, TableNotThrown
    <2>2. v.ns \in Int /\ Near(v, v.ns)
      <3>1. v.ns \in Int /\ v.precision \in PrecisionClass
        BY <2>1 DEF Fits, ArithValue
      <3>2. Abs(v.ns - v.ns) = 0
        BY <3>1 DEF Abs
      <3> QED
        BY <3>1, <3>2, PrecisionType DEF Near
    <2> QED
      BY <1>4, <2>1, <2>2, MakeCarries, Zenon DEF FromTable
  <1>5. ASSUME NEW op \in Ops, NEW x \in Numbers, ChainStep(op, x) PROVE Carried'
    <2>1. x \in Int
      BY InputAssumption
    <2> QED
      BY <1>5, <2>1, ChainCarries
  <1>6. ASSUME NEW b \in Operands, AddValue(b) \/ SubtractValue(b) PROVE Carried'
    <2>1. b.ns \in Int /\ b.precision \in PrecisionClass
      BY OperandFits DEF Fits, ArithValue
    <2>2. CASE AddValue(b)
      BY <2>1, <2>2, AddCarries DEF AddValue
    <2>3. CASE SubtractValue(b)
      BY <2>1, <2>3, SubtractCarries DEF SubtractValue
    <2> QED
      BY <1>6, <2>2, <2>3
  <1>7. ASSUME NEW w \in Numbers \union {NotFinite}, NEW f \in Fractions,
               MultiplyByNumber(w, f[1], f[2])
        PROVE  Carried'
    <2>1. (w \in Int \/ w = NotFinite) /\ f[1] \in Nat /\ f[2] \in Nat /\ f[2] > 0
      BY InputAssumption
    <2> QED
      BY <1>7, <2>1, NumberCarries
  <1>8. CASE UNCHANGED arithVars
    BY <1>8 DEF arithVars, Carried, Fits, ChainDrift
  <1> QED
    BY <1>1, <1>2, <1>3, <1>4, <1>5, <1>6, <1>7, <1>8 DEF ArithNext

\* Values are whole numbers of their precision, durations never negative, and
\* decode loses nothing (cg-zeitarithmetik.ts).
THEOREM ArithTypeCorrect == ArithSpec => []ArithTypeOK
  <1>1. Carried => ArithTypeOK
    <2> SUFFICES ASSUME Carried PROVE ArithTypeOK
      OBVIOUS
    <2> QED
      BY DecodeIs, Zenon DEF Carried, Fits, ArithTypeOK
  <1> QED
    BY <1>1, InitCarries, NextCarries, PTL DEF ArithSpec

\* A chain stays as near to itself at full resolution as its roundings allow,
\* whatever the operations, operands and precisions (executeArithChain).
THEOREM DriftBounded == ArithSpec => []ChainDrift
  <1>1. Carried => ChainDrift
    BY DEF Carried
  <1> QED
    BY <1>1, InitCarries, NextCarries, PTL DEF ArithSpec
================================================================================
