---------------------------- MODULE TimeArithmetic ----------------------------
(***************************************************************************)
(* The time arithmetic of packages/cg-engine/src/cg-zeitarithmetik.ts:     *)
(* values in whole nanoseconds with a kind and a precision, the operations *)
(* on them, chains of operations, and the decoding into days to ns.        *)
(*                                                                         *)
(* One caller makes a value and applies operations to it, the result of    *)
(* one being the input of the next, as executeArithChain does and as the   *)
(* callers of the single functions do by hand.  Beside the chain the same  *)
(* operations run at full resolution ("exact"), and "drift" is what the    *)
(* roundings so far can account for: history variables, read by nothing.   *)
(*                                                                         *)
(* The units are parameters, so that a minute may have twelve seconds.     *)
(* A decimal text is its sign, its whole seconds and its fraction in       *)
(* tenths of a nanosecond.  A number is a bigint, or a float: its whole    *)
(* part and a fraction <<n, d>>.  Floats are rounded to as many binary     *)
(* digits as make FloatLimit; none of those here comes near to infinity.   *)
(***************************************************************************)
EXTENDS Integers, Sequences

CONSTANTS
  NsPerUs, NsPerMs, NsPerSec, NsPerMin, NsPerHour, NsPerDay,
  IrrationalNs,  \* the ns of the irrational constants
  Decimals,      \* decimal texts callers pass to fromSec
  Numbers,       \* bigints callers pass: ns, factors, divisors, exponents
  NotBigInt,     \* a value of another type, which tsc would not let pass
  Fractions,     \* the fractions <<n, d>> of number factors
  NotFinite,     \* the factor NaN or Infinity
  FloatLimit,    \* 2^53: the integers below it are floats
  MaxExponent,   \* bound: exponents applied
  MaxOperations, \* bound: operations on a value
  MaxNs          \* bound: size of the values followed

ASSUME UnitAssumption ==
  /\ NsPerUs \in Nat \ {0} /\ NsPerMs \in Nat \ {0} /\ NsPerSec \in Nat \ {0}
  /\ NsPerMin \in Nat \ {0} /\ NsPerHour \in Nat \ {0} /\ NsPerDay \in Nat \ {0}
  /\ NsPerMs % NsPerUs = 0 /\ NsPerSec % NsPerMs = 0 /\ NsPerMin % NsPerSec = 0
  /\ NsPerHour % NsPerMin = 0 /\ NsPerDay % NsPerHour = 0
ASSUME InputAssumption ==
  /\ IrrationalNs \subseteq Nat /\ Numbers \subseteq Int
  /\ Decimals \subseteq [negative : BOOLEAN, whole : Nat, tenths : Nat]
  /\ Fractions \subseteq Nat \X (Nat \ {0})
  /\ NotBigInt \notin Int /\ NotFinite \notin Int
  /\ FloatLimit \in Nat \ {0}
ASSUME BoundAssumption ==
  MaxExponent \in Nat /\ MaxOperations \in Nat /\ MaxNs \in Nat

ArithKind == {"duration", "period"}
PrecisionClass == {"P-SEC", "P-MS", "P-NS", "P-PS"}
PRECISION_NS ==
  [p \in PrecisionClass |->
    CASE p = "P-SEC" -> NsPerSec [] p = "P-MS" -> NsPerMs [] OTHER -> 1]

NoApprox == -1
ArithValue ==
  [ns : Int, arithKind : ArithKind, precision : PrecisionClass, approx : Int]

Error(code) == [error |-> code]
ExtentError == Error("CG-E-003")
InvariantError == Error("CG-E-006")
ConstraintError == Error("CG-E-008")
RangeError == Error("RangeError")   \* BigInt of NaN or Infinity
ArithErrors == {ExtentError, InvariantError, ConstraintError, RangeError}
Thrown(r) == r \in ArithErrors

VARIABLES value, exact, drift, operations, error
arithVars == <<value, exact, drift, operations, error>>

------------------------------------------------------------------------------
(* Integer arithmetic of BigInt: division and remainder toward zero *)

Abs(n) == IF n < 0 THEN -n ELSE n
Quotient(n, d) ==
  IF (n < 0) = (d < 0) THEN Abs(n) \div Abs(d) ELSE -(Abs(n) \div Abs(d))
Remainder(n, d) == n - d * Quotient(n, d)
Pow(b, n) ==
  LET raised[i \in Nat] == IF i = 0 THEN 1 ELSE b * raised[i - 1] IN raised[n]
CeilDiv(n, d) == (n + d - 1) \div d
Larger(a, b) == IF a < b THEN b ELSE a

\* Numbers of 53 binary digits: the distance of those next to a, the nearest,
\* the even one of two.
FloatUnit(a) ==
  Pow(2, CHOOSE k \in 0 .. a :
           /\ a < FloatLimit * Pow(2, k)
           /\ k = 0 \/ FloatLimit * Pow(2, k) <= 2 * a)
FloatAbs(a) ==
  LET u == FloatUnit(a)
      q == a \div u
      r == a % u
  IN  IF 2 * r < u \/ (2 * r = u /\ q % 2 = 0) THEN q * u ELSE (q + 1) * u
Float(m) == IF m < 0 THEN -FloatAbs(-m) ELSE FloatAbs(m)

\* Math.round of m / d: a half goes up.
RoundQuotient(m, d) == (2 * m + d) \div (2 * d)

\* A fraction of a float is one: n has its digits, and d moves the point.
ASSUME FractionAssumption ==
  \A f \in Fractions : /\ f[1] < FloatLimit /\ f[1] < f[2]
                        /\ \E k \in 0 .. f[2] : f[2] = Pow(2, k)

------------------------------------------------------------------------------
(* Making values *)

NsOfTenths(t) == t \div 10
secToNs(s) ==
  LET abs == s.whole * NsPerSec + NsOfTenths(s.tenths)
  IN  IF s.negative THEN -abs ELSE abs

applyPrecisionUpToMs(ns, p) ==
  IF p = "P-SEC" THEN Quotient(ns, NsPerSec)
  ELSE Quotient(ns, PRECISION_NS[p]) * PRECISION_NS[p]
applyPrecision(ns, p) == Quotient(ns, PRECISION_NS[p]) * PRECISION_NS[p]

\* A value that is not a bigint is refused by assertBigInt; the result is
\* guarded after it is rounded.
fromNsUnguarded(ns, kind, p) ==
  IF ns = NotBigInt THEN InvariantError
  ELSE [ns |-> applyPrecision(ns, p), arithKind |-> kind, precision |-> p,
        approx |-> NoApprox]
fromNs(ns, kind, p) ==
  IF ns = NotBigInt THEN InvariantError
  ELSE LET adjusted == applyPrecision(ns, p)
       IN  IF kind = "duration" /\ adjusted < 0 THEN ExtentError
           ELSE [ns |-> adjusted, arithKind |-> kind, precision |-> p,
                 approx |-> NoApprox]
fromSec(s, kind, p) == fromNs(secToNs(s), kind, p)

\* Here the guard comes before the rounding.
arithIrrational(c, factor, kind, p) ==
  IF kind = "duration" /\ c * factor < 0 THEN ExtentError
  ELSE [ns |-> applyPrecision(c * factor, p), arithKind |-> kind,
        precision |-> p, approx |-> Abs(factor)]

\* The values of the ARITH table that these units have.
ARITH ==
  {fromNs(n, "duration", "P-NS") :
     n \in {1, NsPerUs, NsPerMs, NsPerSec, NsPerMin, NsPerHour, NsPerDay}}
  \union {arithIrrational(c, 1, "duration", "P-NS") : c \in IrrationalNs}

------------------------------------------------------------------------------
(* Decoding *)

Units ==
  <<NsPerDay, NsPerHour, NsPerMin, NsPerSec, NsPerMs, NsPerUs, 1>>

\* How often each unit fits into what the larger ones leave.
Split(absNs) ==
  [i \in 1 .. 7 |->
    IF i = 1 THEN absNs \div Units[1] ELSE (absNs % Units[i - 1]) \div Units[i]]

\* The label names the units that occur, "0 sec" when none does.
buildLabelDe(parts) == {<<parts[i], Units[i]>> : i \in {j \in 1 .. 7 : parts[j] > 0}}

\* The seconds of the ISO text: none, or <<digits before the point, us>>.
\* toFixed writes whole seconds without a point, and the zeros cut at the end
\* are then those of the seconds themselves: 10 becomes 1, 0 becomes nothing.
NoSeconds == <<>>
CutZeros(s) == IF s % 10 = 0 THEN s \div 10 ELSE s
buildISO8601(parts) ==
  LET us    == parts[5] * (NsPerMs \div NsPerUs) + parts[6]
      large == \E i \in 1 .. 3 : parts[i] > 0
  IN  IF parts[4] > 0 \/ us > 0 \/ ~large
      THEN IF us = 0 THEN <<CutZeros(parts[4]), 0>> ELSE <<parts[4], us>>
      ELSE NoSeconds

decode(v) ==
  LET parts == Split(Abs(v.ns))
  IN  [negative |-> v.ns < 0, parts |-> parts,
       label_de |-> buildLabelDe(parts), iso8601 |-> buildISO8601(parts)]

------------------------------------------------------------------------------
(* Operations: a value or the error thrown *)

add(a, b) ==
  fromNs(a.ns + b.ns, a.arithKind,
         IF a.precision = "P-NS" THEN b.precision ELSE a.precision)

subtract(a, b) == fromNs(a.ns - b.ns, a.arithKind, a.precision)

multiply(a, factor) ==
  IF factor < 0 THEN ConstraintError
  ELSE fromNs(a.ns * factor, a.arithKind, a.precision)

\* A float factor w + n/d.  Its whole part is a bigint, its fraction is
\* multiplied as a float: Number(a.ns) and the product are rounded.
TimesFraction(ns, n, d) == RoundQuotient(Float(n * Float(ns)), d)
multiplyAsFloat(a, w, n, d) ==
  IF w = NotFinite THEN RangeError
  ELSE IF w < 0 THEN ConstraintError
  ELSE fromNs(TimesFraction(a.ns, w * d + n, d), a.arithKind, a.precision)
multiplyByNumber(a, w, n, d) ==
  IF w = NotFinite THEN RangeError
  ELSE IF w < 0 THEN ConstraintError
  ELSE fromNs(a.ns * w + TimesFraction(a.ns, n, d), a.arithKind, a.precision)

divide(a, divisor) ==
  IF divisor = 0 THEN ExtentError
  ELSE IF divisor < 0 THEN ConstraintError
  ELSE fromNs(Quotient(a.ns, divisor), a.arithKind, a.precision)

NonNegativeMod(n, d) == Remainder(Remainder(n, d) + d, d)
modulo(a, divisor) ==
  IF divisor = 0 THEN ExtentError
  ELSE fromNs(NonNegativeMod(a.ns, divisor), a.arithKind, a.precision)

power(a, exponent) ==
  IF exponent < 0 THEN ExtentError
  ELSE fromNs(Pow(a.ns, exponent), a.arithKind, a.precision)

compare(a, b) ==
  IF a.ns < b.ns THEN "less" ELSE IF a.ns > b.ns THEN "greater" ELSE "equal"

------------------------------------------------------------------------------
(* What an operation does at full resolution, and how far apart the two may *)
(* then be                                                                  *)

Rounding(p) == PRECISION_NS[p] - 1

Exactly(op, e, x) ==
  CASE op = "add" -> e + x
    [] op = "subtract" -> e - x
    [] op = "multiply" -> e * x
    [] op = "divide" -> Quotient(e, x)
    [] op = "modulo" -> NonNegativeMod(e, x)
    [] op = "power" -> Pow(e, x)

\* What the two roundings of a product of size a may lose: nothing as long as
\* it is below FloatLimit.
FloatLoss(a) == IF a < FloatLimit THEN 0 ELSE CeilDiv(3 * a, FloatLimit)

\* "multiply" and a difference scale, a quotient shrinks it, a remainder is
\* only known up to its divisor, and a power steepens it.
DriftAfter(op, x) ==
  CASE op \in {"add", "subtract"} -> drift
    [] op = "multiply" -> drift * x
    [] op = "divide" -> CeilDiv(drift, x)
    [] op = "modulo" -> IF drift = 0 THEN 0 ELSE Abs(x) - 1
    [] op = "power" ->
         IF x = 0 \/ drift = 0 THEN 0
         ELSE x * Pow(Larger(Abs(exact), Abs(value.ns)), x - 1) * drift

------------------------------------------------------------------------------
(* Actions *)

NoValue == [ns |-> 0, arithKind |-> "duration", precision |-> "P-NS", approx |-> 0]
New == operations = 0 /\ error = "none"
Ready == operations \in 1 .. MaxOperations /\ error = "none"

\* The constructor returns v, made from rawNs, or throws.
Make(v, rawNs) ==
  /\ New
  /\ operations' = 1
  /\ IF Thrown(v)
     THEN error' = v.error /\ UNCHANGED <<value, exact, drift>>
     ELSE /\ Abs(v.ns) <= MaxNs
          /\ value' = v
          /\ exact' = rawNs
          /\ drift' = Rounding(v.precision)
          /\ UNCHANGED error

FromSec(s, kind, p) == Make(fromSec(s, kind, p), secToNs(s))
FromNs(n, kind, p) == Make(fromNs(n, kind, p), n)
Irrational(c, f, kind, p) == Make(arithIrrational(c, f, kind, p), c * f)
FromTable(v) == Make(v, v.ns)

\* The operation returns r, or throws and ends the chain.
Return(r, e, d) ==
  /\ operations' = operations + 1
  /\ IF Thrown(r)
     THEN error' = r.error /\ UNCHANGED <<value, exact, drift>>
     ELSE /\ Abs(r.ns) <= MaxNs /\ Abs(e) <= MaxNs /\ d <= MaxNs
          /\ value' = r
          /\ exact' = e
          /\ drift' = d + Rounding(r.precision)
          /\ UNCHANGED error

\* A step of executeArithChain: sums take the operand as a value like the
\* current one, which is not rounded.
ChainStep(op, x) ==
  LET b == [value EXCEPT !.ns = x]
      r == CASE op = "add" -> add(value, b)
             [] op = "subtract" -> subtract(value, b)
             [] op = "multiply" -> multiply(value, x)
             [] op = "divide" -> divide(value, x)
             [] op = "modulo" -> modulo(value, x)
             [] op = "power" -> power(value, x)
             [] OTHER -> ExtentError
  IN  /\ Ready
      /\ op = "power" => x <= MaxExponent
      /\ IF Thrown(r) THEN Return(r, exact, drift)
         ELSE Return(r, Exactly(op, exact, x), DriftAfter(op, x))

\* Sums of two values with kinds and precisions of their own; add and subtract
\* do not look at the kind of the second.
Operands ==
  ARITH \union {fromNs(n, "period", p) : n \in Numbers, p \in PrecisionClass}
AddValue(b) ==
  /\ Ready
  /\ Return(add(value, b), exact + b.ns, drift)
SubtractValue(b) ==
  /\ Ready
  /\ Return(subtract(value, b), exact - b.ns, drift)

MultiplyByNumber(w, n, d) ==
  LET r == multiplyByNumber(value, w, n, d)
  IN  /\ Ready
      /\ IF Thrown(r) THEN Return(r, exact, drift)
         ELSE Return(r, exact * w + RoundQuotient(n * exact, d),
                     drift * w
                       + CeilDiv(drift * n + FloatLoss(n * Abs(value.ns)), d))

ArithInit ==
  /\ value = NoValue
  /\ exact = 0 /\ drift = 0 /\ operations = 0
  /\ error = "none"

Ops == {"add", "subtract", "multiply", "divide", "modulo", "power", "other"}

ArithNext ==
  \/ \E s \in Decimals, kind \in ArithKind, p \in PrecisionClass : FromSec(s, kind, p)
  \/ \E n \in Numbers \union {NotBigInt}, kind \in ArithKind, p \in PrecisionClass :
       FromNs(n, kind, p)
  \/ \E c \in IrrationalNs, f \in Numbers, kind \in ArithKind, p \in PrecisionClass :
       Irrational(c, f, kind, p)
  \/ \E v \in ARITH : FromTable(v)
  \/ \E op \in Ops, x \in Numbers : ChainStep(op, x)
  \/ \E b \in Operands : AddValue(b)
  \/ \E b \in Operands : SubtractValue(b)
  \/ \E w \in Numbers \union {NotFinite}, f \in Fractions :
       MultiplyByNumber(w, f[1], f[2])

ArithSpec == ArithInit /\ [][ArithNext]_arithVars

------------------------------------------------------------------------------
(* Properties *)

\* The ns of the parts decode tells.
Joined(parts) ==
  LET ns(i) == parts[i] * Units[i]
  IN  ns(1) + ns(2) + ns(3) + ns(4) + ns(5) + ns(6) + ns(7)

\* The value is a whole number of its precision's unit, a duration is never
\* negative whatever was rounded on the way (C-ARITH-001), and what decode
\* tells of it, field by field and as a label, adds up to it.
ArithTypeOK ==
  /\ value \in ArithValue
  /\ value.ns % PRECISION_NS[value.precision] = 0
  /\ value.arithKind = "duration" => value.ns >= 0
  /\ LET t == decode(value)
     IN  /\ Joined(t.parts) = Abs(value.ns)
         /\ \A i \in 2 .. 7 : t.parts[i] * Units[i] < Units[i - 1]
         /\ \A i \in 1 .. 7 : t.parts[i] > 0 => <<t.parts[i], Units[i]>> \in t.label_de
         /\ t.iso8601 # NoSeconds /\ t.parts[4] % 10 # 0 => t.iso8601[1] = t.parts[4]
  /\ exact \in Int /\ drift \in Nat /\ operations \in 0 .. MaxOperations + 1
  /\ error \in {"none"} \union {e.error : e \in ArithErrors}

\* Rounding after every operation of a chain, and the guard that follows it,
\* never move the value further from the chain at full resolution than one
\* unit of precision per operation, scaled by the operations that came later;
\* a float factor adds what floats lose of its fraction's product, above 2^53,
\* and nothing of the product with its whole part (cg-zeitarithmetik.ts:406-418).
ChainDrift == Abs(value.ns - exact) <= drift
==============================================================================
