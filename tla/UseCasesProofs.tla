---------------------------- MODULE UseCasesProofs ----------------------------
(***************************************************************************)
(* Engine and UseCases for every table of leap seconds that satisfies       *)
(* LeapAssumption, all times, keys and numbers of calls.                    *)
(*                                                                         *)
(* Engine: TAI is strictly monotone in UTC, three corrections (two, in      *)
(* fact) find UTC back, and allenRelation answers, for proper intervals of  *)
(* integers, the only relation that Allen's definitions allow.  UseCases:   *)
(* types, the order of absolute values, and the Allen relations.            *)
(*                                                                         *)
(* TaiKeepsOrder is not inductive: it says nothing of how a value came to   *)
(* be.  AsAsked adds that every timepoint issued has the absolute value its *)
(* function computes; the order then follows from the monotony of utcToTai  *)
(* and of the scaling to milliseconds and nanoseconds.                      *)
(***************************************************************************)
EXTENDS UseCases, WellFoundedInduction, SequenceTheorems, TLAPS

------------------------------------------------------------------------------
(* Leap seconds and intervals *)

N == Len(LeapTable)
Start(i) == LeapTable[i][1]

\* The offset after k rows; 0 before the first.
Offset(k) == IF k = 0 THEN 0 ELSE LeapTable[k][2]

LEMMA Table ==
  /\ N \in Nat /\ N > 0
  /\ \A i \in 1 .. N : Start(i) \in Int /\ LeapTable[i][2] \in Nat \ {0}
  /\ CURRENT_TAI_MINUS_UTC = Offset(N) /\ CURRENT_TAI_MINUS_UTC \in Nat
  /\ \A i, j \in 1 .. N :
       i < j => Start(i) + CURRENT_TAI_MINUS_UTC < Start(j)
                /\ LeapTable[i][2] < LeapTable[j][2]
  BY LeapAssumption DEF N, Start, Offset, Rows, CURRENT_TAI_MINUS_UTC

\* Offsets grow from row to row and never exceed the current one.
LEMMA Offsets ==
  ASSUME NEW j \in 0 .. N, NEW k \in 0 .. N, j <= k
  PROVE  /\ Offset(j) \in Nat /\ Offset(j) <= Offset(k)
         /\ Offset(k) <= CURRENT_TAI_MINUS_UTC
  BY Table DEF Offset

\* What RowsPassed asks of k.
Passed(utc, k) ==
  /\ k \in 0 .. N
  /\ \A i \in 1 .. k : Start(i) <= utc
  /\ k < N => utc < Start(k + 1)

\* There is such a k: the row before the first that is later than utc.
LEMMA PassedExists ==
  ASSUME NEW utc \in Int
  PROVE  \E k \in 0 .. N : Passed(utc, k)
  <1> DEFINE Later == {i \in 1 .. N : utc < Start(i)}
  <1>1. CASE Later = {}
    <2>1. Passed(utc, N)
      BY <1>1, Table DEF Passed
    <2> QED
      BY <2>1, Table
  <1>2. CASE Later # {}
    <2>1. Later \subseteq Nat
      BY Table
    <2>2. PICK x \in Later : \A y \in Later : ~ (<<y, x>> \in OpToRel(<, Nat))
      <3> HIDE DEF Later
      <3> QED
        BY <1>2, <2>1, NatLessThanWellFounded, WFMin, Zenon
    <2>3. \A y \in Later : ~ (y < x)
      BY <2>1, <2>2 DEF OpToRel
    <2>4. Passed(utc, x - 1)
      BY <2>3, Table DEF Passed
    <2> QED
      BY <2>4, Table
  <1> QED
    BY <1>1, <1>2

LEMMA PassedIs ==
  ASSUME NEW utc \in Int
  PROVE  /\ RowsPassed(utc) \in 0 .. N
         /\ Passed(utc, RowsPassed(utc))
         /\ taiMinusUtcAt(utc) = Offset(RowsPassed(utc))
  <1>1. RowsPassed(utc) = CHOOSE k \in 0 .. N : Passed(utc, k)
    BY DEF RowsPassed, Passed, N, Start
  <1>2. PICK k \in 0 .. N : Passed(utc, k)
    BY PassedExists
  <1> QED
    BY <1>1, <1>2 DEF taiMinusUtcAt, Offset

\* A later time has not passed fewer rows.
LEMMA RowsMonotone ==
  ASSUME NEW u \in Int, NEW v \in Int, u <= v
  PROVE  RowsPassed(u) <= RowsPassed(v)
  <1> DEFINE j == RowsPassed(u)
             k == RowsPassed(v)
  <1>1. Passed(u, j) /\ Passed(v, k) /\ j \in 0 .. N /\ k \in 0 .. N
    BY PassedIs
  <1> HIDE DEF j, k
  <1>2. ASSUME k < j PROVE FALSE
    <2>1. k + 1 \in 1 .. j /\ k < N /\ k + 1 \in 1 .. N
      BY <1>1, <1>2, Table
    <2>2. v < Start(k + 1) /\ Start(k + 1) <= u
      BY <1>1, <2>1 DEF Passed
    <2> QED
      BY <2>1, <2>2, Table
  <1>3. j <= k
    BY <1>1, <1>2, Table
  <1> QED
    BY <1>3 DEF j, k

LEMMA OffsetAt ==
  ASSUME NEW u \in Int
  PROVE  taiMinusUtcAt(u) \in 0 .. CURRENT_TAI_MINUS_UTC
  BY PassedIs, Offsets, Table

\* taiMinusUtcAt never decreases.
LEMMA OffsetMonotone ==
  ASSUME NEW u \in Int, NEW v \in Int, u <= v
  PROVE  taiMinusUtcAt(u) <= taiMinusUtcAt(v)
  BY PassedIs, RowsMonotone, Offsets

\* utcToTai of mapping.ts keeps the order of times, through every leap second.
THEOREM TaiIsMonotone ==
  ASSUME NEW u \in Int, NEW v \in Int
  PROVE  /\ utcToTai(u) \in Int
         /\ u < v <=> utcToTai(u) < utcToTai(v)
  BY OffsetAt, OffsetMonotone, Table DEF utcToTai

\* A time after u, and by less than the offset, has the offset of u if a leap
\* second is close before u.
LEMMA NoSecondRow ==
  ASSUME NEW u \in Int, NEW g \in Int, NEW v \in Int,
         g <= u, u <= v, v <= g + CURRENT_TAI_MINUS_UTC,
         taiMinusUtcAt(g) # taiMinusUtcAt(u)
  PROVE  taiMinusUtcAt(v) = taiMinusUtcAt(u)
  <1> DEFINE j == RowsPassed(g)
             k == RowsPassed(u)
             l == RowsPassed(v)
  <1>1. /\ j \in 0 .. N /\ k \in 0 .. N /\ l \in 0 .. N
        /\ Passed(g, j) /\ Passed(u, k) /\ Passed(v, l)
        /\ j <= k /\ k <= l
        /\ taiMinusUtcAt(g) = Offset(j) /\ taiMinusUtcAt(u) = Offset(k)
        /\ taiMinusUtcAt(v) = Offset(l)
    BY PassedIs, RowsMonotone
  <1> HIDE DEF j, k, l
  <1>2. j < k
    BY <1>1, Table
  <1>3. g < Start(k)
    <2>1. j + 1 \in 1 .. k /\ j + 1 \in 1 .. N /\ k \in 1 .. N /\ j < N
      BY <1>1, <1>2, Table
    <2>2. g < Start(j + 1)
      BY <1>1, <2>1 DEF Passed
    <2>3. Start(j + 1) <= Start(k)
      BY <1>1, <2>1, Table
    <2> QED
      BY <2>1, <2>2, <2>3, Table
  <1>4. ASSUME k < l PROVE FALSE
    <2>1. k \in 1 .. N /\ k + 1 \in 1 .. l /\ k + 1 \in 1 .. N
      BY <1>1, <1>2, <1>4, Table
    <2>2. Start(k + 1) <= v
      BY <1>1, <2>1 DEF Passed
    <2>3. Start(k) + CURRENT_TAI_MINUS_UTC < Start(k + 1)
      BY <2>1, Table
    <2> QED
      BY <1>3, <2>1, <2>2, <2>3, Table
  <1> QED
    BY <1>1, <1>4, Table

\* taiToUtc of mapping.ts finds back every UTC time (I-R1).
THEOREM UtcComesBack ==
  ASSUME NEW u \in Int
  PROVE  taiToUtc(utcToTai(u)) = u
  <1> DEFINE tai == utcToTai(u)
             d   == taiMinusUtcAt(u)
             g0  == tai - CURRENT_TAI_MINUS_UTC
             g1  == Refine(tai, g0)
             g2  == Refine(tai, g1)
  <1>1. tai = u + d /\ d \in 0 .. CURRENT_TAI_MINUS_UTC
        /\ CURRENT_TAI_MINUS_UTC \in Nat
    BY OffsetAt, Table DEF utcToTai
  <1> HIDE DEF tai, d
  <1>2. g0 \in Int /\ g0 <= u
    BY <1>1
  <1> DEFINE e == taiMinusUtcAt(g0)
  <1>3. e \in 0 .. CURRENT_TAI_MINUS_UTC /\ e <= d
    BY <1>2, OffsetAt, OffsetMonotone DEF d
  <1>4. g1 = u + d - e
    BY <1>1, <1>3 DEF Refine
  <1> HIDE DEF g0, e
  <1>5. g1 \in Int /\ u <= g1 /\ g1 <= g0 + CURRENT_TAI_MINUS_UTC
    BY <1>1, <1>3, <1>4 DEF g0
  <1>6. taiMinusUtcAt(g1) = d
    <2>1. CASE e = d
      BY <1>1, <1>4, <2>1 DEF d
    <2>2. CASE e # d
      BY <1>2, <1>5, <2>2, NoSecondRow DEF d, e
    <2> QED
      BY <2>1, <2>2
  <1>7. g2 = u
    BY <1>1, <1>6 DEF Refine
  <1>8. Refine(tai, g2) = u
    BY <1>1, <1>7 DEF Refine, d
  <1> QED
    BY <1>8 DEF taiToUtc, g0, tai

------------------------------------------------------------------------------
(* Allen's relations *)

AllenBounds(i) == i.start \in Int /\ i.end \in Int

\* The definitions, spelled out for all thirteen names.
LEMMA AllenMembers ==
  ASSUME NEW a, NEW b, NEW r
  PROVE  r \in AllenRelations(a, b) <=>
           \/ AllenDefinition(r, a, b)
           \/ r = "AFTER" /\ b.end < a.start
           \/ r = "MET_BY" /\ b.end = a.start
           \/ r = "OVERLAPPED_BY" /\ b.start < a.start /\ a.start < b.end /\ b.end < a.end
           \/ r = "STARTED_BY" /\ b.start = a.start /\ b.end < a.end
           \/ r = "CONTAINS" /\ a.start < b.start /\ b.end < a.end
           \/ r = "FINISHED_BY" /\ a.start < b.start /\ b.end = a.end
           \/ r = "EQUALS" /\ b.start = a.start /\ b.end = a.end
  <1>1. DOMAIN Converse =
          {"BEFORE", "MEETS", "OVERLAPS", "STARTS", "DURING", "FINISHES", "EQUALS"}
    BY DEF Converse
  <1>2. \A q, x, y : AllenDefinition(q, x, y) => q \in DOMAIN Converse
    BY <1>1 DEF AllenDefinition
  <1>3. r \in AllenRelations(a, b) <=>
          \/ AllenDefinition(r, a, b)
          \/ \E q : AllenDefinition(q, b, a) /\ r = Converse[q]
    BY <1>2 DEF AllenRelations
  <1>4. /\ Converse["BEFORE"] = "AFTER" /\ Converse["MEETS"] = "MET_BY"
        /\ Converse["OVERLAPS"] = "OVERLAPPED_BY"
        /\ Converse["STARTS"] = "STARTED_BY" /\ Converse["DURING"] = "CONTAINS"
        /\ Converse["FINISHES"] = "FINISHED_BY" /\ Converse["EQUALS"] = "EQUALS"
    BY DEF Converse
  <1> QED
    BY <1>3, <1>4 DEF AllenDefinition

\* allenRelation answers the one relation that holds, whichever of its
\* branches overlap.
THEOREM AllenIsUnique ==
  ASSUME NEW a, NEW b, AllenBounds(a), AllenBounds(b), Proper(a), Proper(b)
  PROVE  AllenRelations(a, b) = {allenRelation(a, b)}
  <1>1. \A r : r \in AllenRelations(a, b) <=> r = allenRelation(a, b)
    BY AllenMembers DEF AllenBounds, Proper, allenRelation, AllenDefinition
  <1> QED
    BY <1>1

------------------------------------------------------------------------------
(* Types *)

MachineIds == {t.machine_id : t \in issued}

\* TypeOK without photons and chains, which only some calls change.
CoreOK ==
  /\ BUILTIN_DOMAINS \subseteq DOMAIN reg /\ DOMAIN reg \subseteq Keys
  /\ \A k \in DOMAIN reg : reg[k] \in Semantics
  /\ loaded \in BOOLEAN /\ (loaded => UC_DOMAINS \subseteq DOMAIN reg)
  /\ \A t \in issued :
       restarts = 0 => t.key \in DOMAIN reg /\ reg[t.key] = "time"
  /\ calls \in 0 .. MaxCalls /\ restarts \in 0 .. MaxRestarts

LEMMA TypeParts ==
  /\ TypeOK <=> CoreOK /\ photonIndex \subseteq MachineIds /\ chains \subseteq Seq(MachineIds)
  /\ TypeOK' <=> CoreOK' /\ (photonIndex \subseteq MachineIds)'
                 /\ (chains \subseteq Seq(MachineIds))'
  BY DEF TypeOK, CoreOK, MachineIds

LEMMA InitTypes == Init => TypeOK
  <1> SUFFICES ASSUME Init PROVE TypeOK
    OBVIOUS
  <1>1. reg = [k \in BUILTIN_DOMAINS |-> "time"] /\ loaded = FALSE
    BY DEF Init, EngineLoaded
  <1>2. photonIndex = {} /\ chains = {} /\ issued = {} /\ calls = 0 /\ restarts = 0
    BY DEF Init
  <1>3. BUILTIN_DOMAINS \subseteq Keys /\ "time" \in Semantics
    BY DEF Keys, Semantics
  <1>4. DOMAIN reg = BUILTIN_DOMAINS /\ \A k \in DOMAIN reg : reg[k] = "time"
    BY <1>1
  <1>5. calls \in 0 .. MaxCalls /\ restarts \in 0 .. MaxRestarts
    BY <1>2, InputAssumption
  <1> QED
    BY <1>1, <1>2, <1>3, <1>4, <1>5 DEF TypeOK

\* What every call that issues a timepoint does to the types.
LEMMA IssueTypes ==
  ASSUME TypeOK, NEW key, NEW value, NEW via, NEW when, Issue(key, value, via, when)
  PROVE  /\ CoreOK'
         /\ MachineIds \subseteq MachineIds'
         /\ Timepoint(key, value, via, when).machine_id \in MachineIds'
         /\ Seq(MachineIds) \subseteq Seq(MachineIds')
  <1> DEFINE new == Timepoint(key, value, via, when)
  <1>1. issued' = issued \union {new}
    BY DEF Issue
  <1>2. new.key = key
    BY DEF Timepoint
  <1>3. key \in DOMAIN reg /\ reg[key] = "time"
    BY DEF Issue, Issuable, Known, Registered
  <1>4. calls' \in 0 .. MaxCalls
    BY InputAssumption DEF Issue, TypeOK
  <1> HIDE DEF new
  <1>5. CoreOK'
    BY <1>1, <1>2, <1>3, <1>4 DEF Issue, CoreOK, TypeOK
  <1>6. MachineIds \subseteq MachineIds' /\ new.machine_id \in MachineIds'
    BY <1>1 DEF MachineIds
  <1>7. Seq(MachineIds) \subseteq Seq(MachineIds')
    BY <1>6, SeqMonotonic
  <1> QED
    BY <1>5, <1>6, <1>7 DEF new

LEMMA PlainIssueTypes ==
  ASSUME TypeOK, NEW key, NEW value, NEW via, NEW when, Issue(key, value, via, when),
         UNCHANGED <<photonIndex, chains>>
  PROVE  TypeOK'
  BY IssueTypes, TypeParts

LEMMA LegalTypes ==
  ASSUME TypeOK, NEW v \in Seconds, NEW c \in chains \union {<<>>},
         CreateLegalTimepoint(v, c)
  PROVE  TypeOK'
  <1> DEFINE id == Timepoint(DOMAIN_LEGAL_AT, utcToTai(v), "uc2", v).machine_id
  <1>1. /\ Issue(DOMAIN_LEGAL_AT, utcToTai(v), "uc2", v)
        /\ chains' = chains \union {Append(c, id)}
        /\ photonIndex' = photonIndex
    BY DEF CreateLegalTimepoint
  <1>2. /\ CoreOK' /\ id \in MachineIds' /\ MachineIds \subseteq MachineIds'
        /\ Seq(MachineIds) \subseteq Seq(MachineIds')
    BY <1>1, IssueTypes
  <1> HIDE DEF id
  <1>3. c \in Seq(MachineIds')
    BY <1>2, TypeParts, EmptySeq
  <1>4. Append(c, id) \in Seq(MachineIds')
    BY <1>2, <1>3, AppendProperties
  <1> QED
    BY <1>1, <1>2, <1>4, TypeParts

LEMMA PhotonTypes ==
  ASSUME TypeOK, NEW v \in Seconds, CreatePhotonTimepoint(v)
  PROVE  TypeOK'
  <1> DEFINE id == Timepoint(DOMAIN_QKD_PHOTON, v, "uc5", v).machine_id
  <1>1. /\ Issue(DOMAIN_QKD_PHOTON, v, "uc5", v)
        /\ photonIndex' = photonIndex \union {id}
        /\ chains' = chains
    BY DEF CreatePhotonTimepoint
  <1>2. /\ CoreOK' /\ id \in MachineIds' /\ MachineIds \subseteq MachineIds'
        /\ Seq(MachineIds) \subseteq Seq(MachineIds')
    BY <1>1, IssueTypes
  <1> HIDE DEF id
  <1> QED
    BY <1>1, <1>2, TypeParts

\* New keys leave the semantics of those that are there.
LEMMA WithDomainsTypes ==
  ASSUME TypeOK, NEW keys, NEW semantics \in Semantics, keys \subseteq Keys,
         reg' = WithDomains(keys, semantics),
         UNCHANGED <<photonIndex, issued, chains, relations, calls, restarts>>,
         loaded' \in BOOLEAN, loaded' => loaded \/ UC_DOMAINS \subseteq keys
  PROVE  TypeOK'
  <1>1. DOMAIN reg' = DOMAIN reg \union keys
    BY DEF WithDomains
  <1>2. \A k \in DOMAIN reg' : reg'[k] = IF k \in DOMAIN reg THEN reg[k] ELSE semantics
    BY <1>1 DEF WithDomains, Registered
  <1> QED
    BY <1>1, <1>2 DEF TypeOK

LEMMA RestartTypes == ASSUME TypeOK, Restart PROVE TypeOK'
  <1>1. reg' = [k \in BUILTIN_DOMAINS |-> "time"] /\ loaded' = FALSE
    BY DEF Restart, EngineLoaded
  <1>2. restarts' \in 0 .. MaxRestarts /\ restarts' # 0
    BY InputAssumption DEF Restart, TypeOK
  <1> QED
    BY <1>1, <1>2 DEF TypeOK, Restart, Keys, Semantics

LEMMA NextTypes == TypeOK /\ [Next]_vars => TypeOK'
  <1> SUFFICES ASSUME TypeOK, [Next]_vars PROVE TypeOK'
    OBVIOUS
  <1>1. ASSUME NEW k \in ForeignKeys, NEW s \in Semantics, RegisterDomain(k, s)
        PROVE  TypeOK'
    BY <1>1, WithDomainsTypes DEF RegisterDomain, Keys, TypeOK
  <1>2. CASE ImportUseCases
    BY <1>2, WithDomainsTypes DEF ImportUseCases, Keys, Semantics
  <1>3. ASSUME NEW k, NEW v, CreateTimepoint(k, v) PROVE TypeOK'
    BY <1>3, PlainIssueTypes DEF CreateTimepoint
  <1>4. ASSUME NEW v \in Seconds, CreateAviationTimepoint(v) PROVE TypeOK'
    BY <1>4, PlainIssueTypes DEF CreateAviationTimepoint
  <1>5. ASSUME NEW v \in Seconds, NEW c \in chains \union {<<>>},
               CreateLegalTimepoint(v, c)
        PROVE  TypeOK'
    BY <1>5, LegalTypes
  <1>6. ASSUME NEW v \in Millis, CreateEnergyTimepoint(v) PROVE TypeOK'
    BY <1>6, PlainIssueTypes DEF CreateEnergyTimepoint
  <1>7. ASSUME NEW v \in Seconds, CreateCosmicTimepoint(v) PROVE TypeOK'
    BY <1>7, PlainIssueTypes DEF CreateCosmicTimepoint
  <1>8. ASSUME NEW v \in Seconds, CreatePhotonTimepoint(v) PROVE TypeOK'
    BY <1>8, PhotonTypes
  <1>9. CASE ResetPhotonIndex
    BY <1>9 DEF ResetPhotonIndex, TypeOK
  <1>10. ASSUME NEW a, NEW b, ComputeRelation(a, b) PROVE TypeOK'
    BY <1>10, InputAssumption DEF ComputeRelation, TypeOK
  <1>11. CASE Restart
    BY <1>11, RestartTypes
  <1>12. CASE UNCHANGED vars
    BY <1>12 DEF vars, TypeOK
  <1> QED
    BY <1>1, <1>2, <1>3, <1>4, <1>5, <1>6, <1>7, <1>8, <1>9, <1>10, <1>11, <1>12
    DEF Next

\* Types of the registry and of what callers hold: built-in domains are never
\* lost, photons and acts are issued timepoints, and no timepoint is of a
\* domain of durations (engine.ts, uc1.ts .. uc5.ts).
THEOREM TypeCorrect == Spec => []TypeOK
  BY InitTypes, NextTypes, PTL DEF Spec

------------------------------------------------------------------------------
(* The order of absolute values *)

LEMMA MultiplyOrder ==
  ASSUME NEW a \in Nat, NEW b \in Int, NEW c \in Int, b <= c
  PROVE  a * b \in Int /\ a * c \in Int /\ a * b <= a * c
  OBVIOUS

LEMMA MultiplyStrict ==
  ASSUME NEW a \in Nat \ {0}, NEW b \in Int, NEW c \in Int
  PROVE  /\ b * a \in Int /\ c * a \in Int
         /\ b < c <=> b * a < c * a
  OBVIOUS

LEMMA Division ==
  ASSUME NEW n \in Nat, NEW d \in Nat \ {0}
  PROVE  /\ n \div d \in Nat
         /\ d * (n \div d) <= n
         /\ n < d * (n \div d) + d
  OBVIOUS

\* The quotient grows with the number divided, also through zero.
LEMMA QuotientMonotone ==
  ASSUME NEW m \in Int, NEW n \in Int, NEW d \in Nat \ {0}, m <= n
  PROVE  /\ Quotient(m, d) \in Int /\ Quotient(n, d) \in Int
         /\ Quotient(m, d) <= Quotient(n, d)
  <1>1. ASSUME NEW x \in Nat, NEW y \in Nat, x <= y
        PROVE  x \div d \in Nat /\ y \div d \in Nat /\ x \div d <= y \div d
    <2> DEFINE p == x \div d
               q == y \div d
    <2>1. /\ p \in Nat /\ d * p <= x
          /\ q \in Nat /\ y < d * q + d
      BY Division
    <2> HIDE DEF p, q
    <2>2. ASSUME q < p PROVE FALSE
      <3>1. d * (q + 1) <= d * p
        BY <2>1, <2>2, MultiplyOrder
      <3>2. d * (q + 1) = d * q + d
        BY <2>1
      <3> QED
        BY <1>1, <2>1, <3>1, <3>2
    <2>3. p <= q
      BY <2>1, <2>2
    <2> QED
      BY <2>1, <2>3 DEF p, q
  <1>2. CASE 0 <= m
    BY <1>1, <1>2 DEF Quotient
  <1>3. CASE n < 0
    <2>1. (-n) \div d \in Nat /\ (-m) \div d \in Nat /\ (-n) \div d <= (-m) \div d
      BY <1>1, <1>3
    <2> QED
      BY <1>3, <2>1 DEF Quotient
  <1>4. CASE m < 0 /\ 0 <= n
    <2>1. (-m) \div d \in Nat /\ n \div d \in Nat
      BY <1>1, <1>4
    <2> QED
      BY <1>4, <2>1 DEF Quotient
  <1> QED
    BY <1>2, <1>3, <1>4

LEMMA SecondOffset ==
  ASSUME NEW x \in Int
  PROVE  /\ MsPerSec \in Nat /\ Quotient(x, MsPerSec) \in Int
         /\ taiMinusUtcAt(Quotient(x, MsPerSec)) \in Int
  <1>1. MsPerSec \in Nat /\ Quotient(x, MsPerSec) \in Int
    BY QuotientMonotone, ScaleAssumption
  <1> QED
    BY <1>1, OffsetAt, Table

\* The value of CreateEnergyTimepoint in milliseconds: the time asked for and
\* the offset of its second.
EnergyMs(utcMs) == taiSecs(utcMs) * MsPerSec + Remainder(utcMs, MsPerSec)

LEMMA EnergyMonotone ==
  ASSUME NEW u \in Int, NEW v \in Int
  PROVE  /\ EnergyMs(u) \in Int
         /\ u < v => EnergyMs(u) < EnergyMs(v)
  <1>1. ASSUME NEW x \in Int
        PROVE  EnergyMs(x) = x + MsPerSec * taiMinusUtcAt(Quotient(x, MsPerSec))
    <2> DEFINE q == Quotient(x, MsPerSec)
               o == taiMinusUtcAt(q)
    <2>1. q \in Int /\ o \in Int /\ MsPerSec \in Nat
      BY SecondOffset
    <2>2. EnergyMs(x) = (q + o) * MsPerSec + (x - MsPerSec * q)
      BY DEF EnergyMs, taiSecs, utcToTai, Remainder
    <2> HIDE DEF q, o
    <2>3. (q + o) * MsPerSec = MsPerSec * q + MsPerSec * o
      BY <2>1
    <2>4. MsPerSec * q \in Int /\ MsPerSec * o \in Int
      BY <2>1, MultiplyOrder
    <2>5. EnergyMs(x) = x + MsPerSec * o
      BY <2>2, <2>3, <2>4
    <2> QED
      BY <2>5 DEF o, q
  <1> DEFINE p == taiMinusUtcAt(Quotient(u, MsPerSec))
             q == taiMinusUtcAt(Quotient(v, MsPerSec))
  <1>2. EnergyMs(u) = u + MsPerSec * p /\ EnergyMs(v) = v + MsPerSec * q
    BY <1>1
  <1>3. p \in Int /\ q \in Int
    BY SecondOffset
  <1>4. u < v => p <= q
    <2>1. u < v => Quotient(u, MsPerSec) <= Quotient(v, MsPerSec)
      BY QuotientMonotone, ScaleAssumption
    <2> QED
      BY <2>1, SecondOffset, OffsetMonotone
  <1> HIDE DEF p, q
  <1>5. /\ MsPerSec * p \in Int /\ MsPerSec * q \in Int
        /\ u < v => MsPerSec * p <= MsPerSec * q
    BY <1>3, <1>4, MultiplyOrder, ScaleAssumption
  <1> QED
    BY <1>2, <1>5

\* absoluteValue for each scale.
LEMMA Scales ==
  ASSUME NEW v \in Int
  PROVE  /\ absoluteValue("UTC", v) = utcToTai(v)
         /\ absoluteValue("Unix", v) = utcToTai(v + UnixEpoch)
         /\ absoluteValue("GPS", v) = gpsToTai(v)
         /\ \A name : name \notin {"UTC", "Unix", "GPS"} => absoluteValue(name, v) = v
  BY DEF absoluteValue, TargetFound, Convertible, convertValue

\* Every timepoint has the value that its function computes.
Asked(t) ==
  /\ t.when \in Int
  /\ \/ t.via = "createTimepoint" /\ t.absolute_value = absoluteValue(t.key[1], t.when)
     \/ /\ t.via = "uc1" /\ t.key = DOMAIN_AVIATION
        /\ t.absolute_value = utcToTai(t.when) * MsPerSec
     \/ /\ t.via = "uc2" /\ t.key = DOMAIN_LEGAL_AT
        /\ t.absolute_value = utcToTai(t.when)
     \/ /\ t.via = "uc3" /\ t.key = DOMAIN_IEC61850
        /\ t.absolute_value = EnergyMs(t.when) * NsPerMs
     \/ /\ t.via = "uc4" /\ t.key = <<"Cosmic", "1.1">>
        /\ t.absolute_value = t.when
     \/ /\ t.via = "uc5" /\ t.key = DOMAIN_QKD_PHOTON
        /\ t.absolute_value = t.when

AsAsked == \A t \in issued : Asked(t)

LEMMA IssueAsked ==
  ASSUME AsAsked, NEW key, NEW value, NEW via, NEW when, Issue(key, value, via, when),
         Asked(Timepoint(key, value, via, when))
  PROVE  AsAsked'
  <1>1. issued' = issued \union {Timepoint(key, value, via, when)}
    BY DEF Issue
  <1>2. \A t \in issued' : Asked(t)
    BY <1>1 DEF AsAsked
  <1> QED
    BY <1>2 DEF AsAsked, Asked

LEMMA TimepointFields ==
  ASSUME NEW key, NEW value, NEW via, NEW when
  PROVE  /\ Timepoint(key, value, via, when).key = key
         /\ Timepoint(key, value, via, when).via = via
         /\ Timepoint(key, value, via, when).when = when
         /\ Timepoint(key, value, via, when).absolute_value = absoluteValue(key[1], value)
  BY DEF Timepoint

LEMMA NextAsked == AsAsked /\ [Next]_vars => AsAsked'
  <1> SUFFICES ASSUME AsAsked, [Next]_vars PROVE AsAsked'
    OBVIOUS
  <1> USE InputAssumption
  <1>1. ASSUME issued' = issued PROVE AsAsked'
    BY <1>1 DEF AsAsked, Asked
  <1>2. ASSUME NEW k, NEW v \in Seconds, CreateTimepoint(k, v) PROVE AsAsked'
    <2>1. Asked(Timepoint(k, v, "createTimepoint", v))
      BY TimepointFields DEF Asked
    <2> QED
      BY <1>2, <2>1, IssueAsked DEF CreateTimepoint
  <1>3. ASSUME NEW v \in Seconds, CreateAviationTimepoint(v) PROVE AsAsked'
    <2> DEFINE value == utcToTai(v) * MsPerSec
    <2>1. value \in Int
      BY TaiIsMonotone, MultiplyStrict, ScaleAssumption
    <2> HIDE DEF value
    <2>2. absoluteValue("Aviation", value) = value
      BY <2>1, Scales
    <2>3. Asked(Timepoint(DOMAIN_AVIATION, value, "uc1", v))
      BY <2>2, TimepointFields DEF Asked, DOMAIN_AVIATION, value
    <2> QED
      BY <1>3, <2>3, IssueAsked DEF CreateAviationTimepoint, value
  <1>4. ASSUME NEW v \in Seconds, NEW c, CreateLegalTimepoint(v, c) PROVE AsAsked'
    <2>1. absoluteValue("LegalAT", utcToTai(v)) = utcToTai(v)
      BY TaiIsMonotone, Scales
    <2>2. Asked(Timepoint(DOMAIN_LEGAL_AT, utcToTai(v), "uc2", v))
      BY <2>1, TimepointFields DEF Asked, DOMAIN_LEGAL_AT
    <2> QED
      BY <1>4, <2>2, IssueAsked DEF CreateLegalTimepoint
  <1>5. ASSUME NEW v \in Millis, CreateEnergyTimepoint(v) PROVE AsAsked'
    <2> DEFINE value == EnergyMs(v) * NsPerMs
    <2>1. value \in Int
      BY EnergyMonotone, MultiplyStrict, ScaleAssumption
    <2> HIDE DEF value
    <2>2. absoluteValue("IEC61850", value) = value
      BY <2>1, Scales
    <2>3. Asked(Timepoint(DOMAIN_IEC61850, value, "uc3", v))
      BY <2>2, TimepointFields DEF Asked, DOMAIN_IEC61850, value
    <2> QED
      BY <1>5, <2>3, IssueAsked DEF CreateEnergyTimepoint, value, EnergyMs
  <1>6. ASSUME NEW v \in Seconds, CreateCosmicTimepoint(v) PROVE AsAsked'
    <2>1. absoluteValue("Cosmic", v) = v
      BY Scales
    <2>2. Asked(Timepoint(<<"Cosmic", "1.1">>, v, "uc4", v))
      BY <2>1, TimepointFields DEF Asked
    <2> QED
      BY <1>6, <2>2, IssueAsked DEF CreateCosmicTimepoint
  <1>7. ASSUME NEW v \in Seconds, CreatePhotonTimepoint(v) PROVE AsAsked'
    <2>1. absoluteValue("QKDPhoton", v) = v
      BY Scales
    <2> DEFINE new == Timepoint(DOMAIN_QKD_PHOTON, v, "uc5", v)
    <2>2. /\ new.key = DOMAIN_QKD_PHOTON /\ new.via = "uc5" /\ new.when = v
          /\ new.absolute_value = v
      BY <2>1, TimepointFields DEF DOMAIN_QKD_PHOTON
    <2>3. Issue(DOMAIN_QKD_PHOTON, v, "uc5", v) /\ v \in Int
      BY <1>7 DEF CreatePhotonTimepoint
    <2>4. Asked(new)
      <3> HIDE DEF new
      <3> QED
        BY <2>2, <2>3 DEF Asked
    <2> QED
      BY <2>3, <2>4, IssueAsked
  <1>8. ASSUME NEW k, NEW s, RegisterDomain(k, s) PROVE issued' = issued
    BY <1>8 DEF RegisterDomain
  <1>9. ASSUME NEW a, NEW b, ComputeRelation(a, b) PROVE issued' = issued
    BY <1>9 DEF ComputeRelation
  <1>10. ImportUseCases \/ ResetPhotonIndex \/ Restart \/ UNCHANGED vars => issued' = issued
    BY DEF ImportUseCases, ResetPhotonIndex, Restart, vars
  <1> QED
    BY <1>1, <1>2, <1>3, <1>4, <1>5, <1>6, <1>7, <1>8, <1>9, <1>10 DEF Next

\* Asked values of one scale are in the order of the times.
LEMMA AskedOrder ==
  ASSUME NEW t, NEW u, Asked(t), Asked(u), SameScale(t, u), t.when < u.when
  PROVE  t.absolute_value < u.absolute_value
  <1>1. t.when \in Int /\ u.when \in Int /\ t.key = u.key /\ t.via = u.via
    BY DEF Asked, SameScale
  <1> DEFINE x == t.when
             y == u.when
  <1>2. CASE t.via = "createTimepoint"
    <2>1. /\ t.absolute_value = absoluteValue(t.key[1], x)
          /\ u.absolute_value = absoluteValue(t.key[1], y)
      BY <1>1, <1>2 DEF Asked
    <2> HIDE DEF x, y
    <2>2. x \in Int /\ y \in Int /\ x < y
      BY <1>1 DEF x, y
    <2>3. utcToTai(x) < utcToTai(y)
      BY <2>2, TaiIsMonotone
    <2>4. utcToTai(x + UnixEpoch) < utcToTai(y + UnixEpoch)
      BY <2>2, TaiIsMonotone, EpochAssumption
    <2>5. gpsToTai(x) < gpsToTai(y)
      BY <2>2, EpochAssumption DEF gpsToTai
    <2> QED
      BY <2>1, <2>2, <2>3, <2>4, <2>5, Scales
  <1>3. CASE t.via = "uc1"
    BY <1>1, <1>3, TaiIsMonotone, MultiplyStrict, ScaleAssumption DEF Asked
  <1>4. CASE t.via = "uc2"
    BY <1>1, <1>4, TaiIsMonotone DEF Asked
  <1>5. CASE t.via = "uc3"
    <2>1. EnergyMs(x) \in Int /\ EnergyMs(y) \in Int /\ EnergyMs(x) < EnergyMs(y)
      BY <1>1, EnergyMonotone
    <2>2. EnergyMs(x) * NsPerMs < EnergyMs(y) * NsPerMs
      BY <2>1, MultiplyStrict, ScaleAssumption
    <2> QED
      BY <1>1, <1>5, <2>2 DEF Asked
  <1>6. CASE t.via = "uc4" \/ t.via = "uc5"
    BY <1>1, <1>6 DEF Asked
  <1> QED
    BY <1>2, <1>3, <1>4, <1>5, <1>6 DEF Asked

LEMMA AskedIsInt == ASSUME NEW t, Asked(t) PROVE t.absolute_value \in Int
  <1>1. t.when \in Int
    BY DEF Asked
  <1>2. utcToTai(t.when) * MsPerSec \in Int /\ EnergyMs(t.when) * NsPerMs \in Int
    BY <1>1, TaiIsMonotone, EnergyMonotone, MultiplyStrict, ScaleAssumption
  <1>3. absoluteValue(t.key[1], t.when) \in Int
    <2>1. utcToTai(t.when) \in Int /\ gpsToTai(t.when) \in Int
      BY <1>1, TaiIsMonotone, EpochAssumption DEF gpsToTai
    <2>2. utcToTai(t.when + UnixEpoch) \in Int
      BY <1>1, TaiIsMonotone, EpochAssumption
    <2> QED
      BY <1>1, <2>1, <2>2, Scales
  <1> QED
    BY <1>1, <1>2, <1>3, TaiIsMonotone DEF Asked

\* A UTC or Unix time is answered with the TAI of its UTC.
LEMMA AskedUtc ==
  ASSUME NEW t, Asked(t), OfUtc(t)
  PROVE  ToUtc(t) \in Int /\ t.absolute_value = utcToTai(ToUtc(t))
  BY Scales, EpochAssumption DEF Asked, OfUtc, ToUtc

LEMMA OrderFollows == AsAsked => TaiKeepsOrder
  <1> SUFFICES ASSUME AsAsked, NEW t \in issued, NEW u \in issued
               PROVE  /\ SameScale(t, u) =>
                           (t.when < u.when <=> t.absolute_value < u.absolute_value)
                      /\ OfUtc(t) /\ OfUtc(u) =>
                           (ToUtc(t) < ToUtc(u) <=> t.absolute_value < u.absolute_value)
                      /\ OfUtc(t) => convertValue(t.absolute_value, "TAI", "UTC") = ToUtc(t)
                      /\ t.key[1] = "GPS" =>
                           convertValue(t.absolute_value, "TAI", "GPS") = t.when
    BY DEF TaiKeepsOrder
  <1>1. /\ Asked(t) /\ Asked(u) /\ t.when \in Int /\ u.when \in Int
        /\ t.absolute_value \in Int /\ u.absolute_value \in Int
    BY AskedIsInt DEF AsAsked, Asked
  <1>2. ASSUME SameScale(t, u)
        PROVE  t.when < u.when <=> t.absolute_value < u.absolute_value
    <2>1. t.when < u.when => t.absolute_value < u.absolute_value
      BY <1>1, <1>2, AskedOrder
    <2>2. u.when < t.when => u.absolute_value < t.absolute_value
      BY <1>1, <1>2, AskedOrder DEF SameScale
    <2>3. t.when = u.when => t.absolute_value = u.absolute_value
      BY <1>1, <1>2 DEF SameScale, Asked
    <2> QED
      BY <1>1, <2>1, <2>2, <2>3
  <1>3. ASSUME OfUtc(t), OfUtc(u)
        PROVE  ToUtc(t) < ToUtc(u) <=> t.absolute_value < u.absolute_value
    BY <1>1, <1>3, AskedUtc, TaiIsMonotone
  <1>4. ASSUME OfUtc(t)
        PROVE  convertValue(t.absolute_value, "TAI", "UTC") = ToUtc(t)
    <2>1. taiToUtc(t.absolute_value) = ToUtc(t)
      BY <1>1, <1>4, AskedUtc, UtcComesBack
    <2> QED
      BY <2>1 DEF convertValue
  <1>5. ASSUME t.key[1] = "GPS"
        PROVE  convertValue(t.absolute_value, "TAI", "GPS") = t.when
    <2>1. t.absolute_value = gpsToTai(t.when)
      BY <1>1, <1>5, Scales
      DEF Asked, DOMAIN_AVIATION, DOMAIN_LEGAL_AT, DOMAIN_IEC61850, DOMAIN_QKD_PHOTON
    <2>2. taiToGps(gpsToTai(t.when)) = t.when
      BY <1>1, EpochAssumption DEF gpsToTai, taiToGps
    <2> QED
      BY <2>1, <2>2 DEF convertValue
  <1> QED
    BY <1>2, <1>3, <1>4, <1>5

\* For every table of leap seconds, all times and any sequence of calls and
\* restarts, absolute values keep the order of times and give them back.
THEOREM OrderKept == Spec => []TaiKeepsOrder
  <1>1. Init => AsAsked
    BY DEF Init, AsAsked
  <1> QED
    BY <1>1, NextAsked, OrderFollows, PTL DEF Spec

------------------------------------------------------------------------------
(* Relations *)

AsComputed ==
  \A r \in relations : /\ r.a \in Interval /\ r.b \in Interval
                       /\ r.relation = allenRelation(r.a, r.b)

LEMMA NextComputed == AsComputed /\ [Next]_vars => AsComputed'
  <1> SUFFICES ASSUME AsComputed, [Next]_vars PROVE AsComputed'
    OBVIOUS
  <1>1. ASSUME relations' = relations PROVE AsComputed'
    BY <1>1 DEF AsComputed
  <1>2. ASSUME NEW a \in Interval, NEW b \in Interval, ComputeRelation(a, b)
        PROVE  AsComputed'
    BY <1>2 DEF ComputeRelation, AsComputed
  <1>3. ASSUME NEW k, NEW v, NEW w, NEW x, Issue(k, v, w, x)
        PROVE  relations' = relations
    BY <1>3 DEF Issue
  <1>4. ASSUME NEW k, NEW s, RegisterDomain(k, s) PROVE relations' = relations
    BY <1>4 DEF RegisterDomain
  <1>5. ImportUseCases \/ ResetPhotonIndex \/ Restart \/ UNCHANGED vars
        => relations' = relations
    BY DEF ImportUseCases, ResetPhotonIndex, Restart, vars
  <1> QED
    BY <1>1, <1>2, <1>3, <1>4, <1>5
    DEF Next, CreateTimepoint, CreateAviationTimepoint, CreateLegalTimepoint,
        CreateEnergyTimepoint, CreateCosmicTimepoint, CreatePhotonTimepoint

\* computeRelation answers the only relation two proper intervals have, and
\* its converse the other way round (allenRelation of engine.ts).
THEOREM RelationsAreAllens == Spec => []AllenConverse
  <1>1. Init => AsComputed
    BY DEF Init, AsComputed
  <1>2. AsComputed => AllenConverse
    <2> SUFFICES ASSUME AsComputed, NEW r \in relations, Proper(r.a), Proper(r.b)
                 PROVE  /\ AllenRelations(r.a, r.b) = {r.relation}
                        /\ AllenRelations(r.b, r.a) = {allenRelation(r.b, r.a)}
      BY DEF AllenConverse
    <2>1. AllenBounds(r.a) /\ AllenBounds(r.b)
      BY InputAssumption DEF AsComputed, Interval, AllenBounds
    <2> QED
      BY <2>1, AllenIsUnique DEF AsComputed
  <1> QED
    BY <1>1, <1>2, NextComputed, PTL DEF Spec
==============================================================================
