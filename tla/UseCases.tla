------------------------------- MODULE UseCases -------------------------------
(***************************************************************************)
(* A process that uses the engine (packages/cg-engine/src/engine.ts) and    *)
(* the use cases built on it (packages/cg-usecases/src/uc1.ts .. uc5.ts):   *)
(* the registry of domains, the timepoints issued, the index of photons,    *)
(* the version chains of legal acts and the relations computed.             *)
(*                                                                         *)
(* Every call is synchronous and runs to its end before the next; one that  *)
(* throws changes nothing, and its condition is missing from the guards     *)
(* only where the code does not check it.  What                             *)
(* survives a restart is what callers were given: issued, chains and        *)
(* relations are their copies; registry and photon index are the process'.  *)
(*                                                                         *)
(* A second has MsPerSec milliseconds of NsPerMs nanoseconds.               *)
(***************************************************************************)
EXTENDS Engine

CONSTANTS
  MsPerSec, NsPerMs,
  Seconds,        \* seconds callers name, in any scale
  Millis,         \* milliseconds measurements carry
  ForeignKeys,    \* <<name, version>> callers register, or try to
  UnknownKeys,    \* and of domains nobody registers
  Instants,       \* bounds of the intervals callers relate
  MaxCalls,       \* bound: timepoints and relations asked for
  MaxRestarts     \* bound: restarts of the process

ASSUME ScaleAssumption == MsPerSec \in Nat \ {0} /\ NsPerMs \in Nat \ {0}
ASSUME InputAssumption ==
  /\ Seconds \subseteq Int /\ Millis \subseteq Int /\ Instants \subseteq Int
  /\ MaxCalls \in Nat /\ MaxRestarts \in Nat

BUILTIN_DOMAINS ==
  {<<"TAI", "1.0">>, <<"UTC", "1.0">>, <<"GPS", "1.0">>, <<"Gregorian", "1.0">>,
   <<"Unix", "1.0">>, <<"Cosmic", "1.1">>}
DOMAIN_AVIATION == <<"Aviation", "1.0">>
DOMAIN_LEGAL_AT == <<"LegalAT", "1.0">>
DOMAIN_IEC61850 == <<"IEC61850", "1.0">>
DOMAIN_QKD_PHOTON == <<"QKDPhoton", "1.0">>
UC_DOMAINS == {DOMAIN_AVIATION, DOMAIN_LEGAL_AT, DOMAIN_IEC61850, DOMAIN_QKD_PHOTON}

Keys == BUILTIN_DOMAINS \union UC_DOMAINS \union ForeignKeys
Semantics == {"time", "relative"}

VARIABLES
  reg,          \* _reg: the semantics of each key registered
  loaded,       \* whether the use cases were imported
  photonIndex,  \* _photonIndex
  issued,       \* the timepoints callers hold
  chains,       \* the version chains callers hold
  relations,    \* the relations callers hold
  calls, restarts
vars ==
  <<reg, loaded, photonIndex, issued, chains, relations, calls, restarts>>

------------------------------------------------------------------------------
(* The registry *)

EngineLoaded == [k \in BUILTIN_DOMAINS |-> "time"]
Registered(key) == key \in DOMAIN reg

\* reg with further keys; a key that is there keeps its semantics.
WithDomains(keys, semantics) ==
  [k \in DOMAIN reg \union keys |-> IF Registered(k) THEN reg[k] ELSE semantics]

RegisterDomain(key, semantics) ==
  /\ ~Registered(key)
  /\ reg' = WithDomains({key}, semantics)
  /\ UNCHANGED <<loaded, photonIndex, issued, chains, relations, calls, restarts>>

\* Each use case registers its domain twice and drops what that throws, so a
\* domain somebody registered under its key before stays.
ImportUseCases ==
  /\ ~loaded
  /\ loaded' = TRUE
  /\ reg' = WithDomains(UC_DOMAINS, "time")
  /\ UNCHANGED <<photonIndex, issued, chains, relations, calls, restarts>>

------------------------------------------------------------------------------
(* Timepoints *)

\* The timepoint createTimepoint makes of a value; "via" and "when" tell who
\* asked for it and which time it was asked for.
Timepoint(key, value, via, when) ==
  LET abs == absoluteValue(key[1], value)
  IN  [key |-> key, value |-> value, absolute_value |-> abs,
       machine_id |-> computeMachineId(key[1], abs, key[2]),
       via |-> via, when |-> when]

\* getDomain finds the key, and its values are not durations.
Known(key) == Registered(key)
Issuable(key) == Known(key) /\ reg[key] = "time"

Issue(key, value, via, when) ==
  /\ calls < MaxCalls
  /\ calls' = calls + 1
  /\ Issuable(key)
  /\ issued' = issued \union {Timepoint(key, value, via, when)}
  /\ UNCHANGED <<reg, loaded, relations, restarts>>

CreateTimepoint(key, value) ==
  /\ Issue(key, value, "createTimepoint", value)
  /\ UNCHANGED <<photonIndex, chains>>

CreateAviationTimepoint(utc) ==
  /\ loaded
  /\ Issue(DOMAIN_AVIATION, utcToTai(utc) * MsPerSec, "uc1", utc)
  /\ UNCHANGED <<photonIndex, chains>>

\* The chain of the act continues the one the caller passes.
CreateLegalTimepoint(utc, previousChain) ==
  LET id == Timepoint(DOMAIN_LEGAL_AT, utcToTai(utc), "uc2", utc).machine_id
  IN  /\ loaded
      /\ Issue(DOMAIN_LEGAL_AT, utcToTai(utc), "uc2", utc)
      /\ chains' = chains \union {Append(previousChain, id)}
      /\ UNCHANGED photonIndex

\* Quotient and remainder of BigInt, toward zero.
Quotient(n, d) == IF n < 0 THEN -((-n) \div d) ELSE n \div d
Remainder(n, d) == n - d * Quotient(n, d)
taiSecs(utcMs) == utcToTai(Quotient(utcMs, MsPerSec))
CreateEnergyTimepoint(utcMs) ==
  /\ loaded
  /\ Issue(DOMAIN_IEC61850,
           (taiSecs(utcMs) * MsPerSec + Remainder(utcMs, MsPerSec)) * NsPerMs, "uc3", utcMs)
  /\ UNCHANGED <<photonIndex, chains>>

CreateCosmicTimepoint(taiSeconds) ==
  /\ loaded
  /\ Issue(<<"Cosmic", "1.1">>, taiSeconds, "uc4", taiSeconds)
  /\ UNCHANGED <<photonIndex, chains>>

\* I-QKD-1: a photon's id is entered once.
CreatePhotonTimepoint(tai_ns) ==
  LET id == Timepoint(DOMAIN_QKD_PHOTON, tai_ns, "uc5", tai_ns).machine_id
  IN  /\ loaded
      /\ Issue(DOMAIN_QKD_PHOTON, tai_ns, "uc5", tai_ns)
      /\ id \notin photonIndex
      /\ photonIndex' = photonIndex \union {id}
      /\ UNCHANGED chains

ResetPhotonIndex ==
  /\ photonIndex' = {}
  /\ UNCHANGED <<reg, loaded, issued, chains, relations, calls, restarts>>

------------------------------------------------------------------------------
(* Relations, and the end of the process *)

Interval == [start : Instants, end : Instants]

ComputeRelation(a, b) ==
  /\ calls < MaxCalls
  /\ calls' = calls + 1
  /\ allenRelation(a, b) # NotClassifiable
  /\ relations' = relations \union {[a |-> a, b |-> b, relation |-> allenRelation(a, b)]}
  /\ UNCHANGED <<reg, loaded, photonIndex, issued, chains, restarts>>

Restart ==
  /\ restarts < MaxRestarts
  /\ restarts' = restarts + 1
  /\ reg' = EngineLoaded
  /\ loaded' = FALSE
  /\ photonIndex' = {}
  /\ UNCHANGED <<issued, chains, relations, calls>>

Init ==
  /\ reg = EngineLoaded
  /\ loaded = FALSE
  /\ photonIndex = {} /\ issued = {} /\ chains = {} /\ relations = {}
  /\ calls = 0 /\ restarts = 0

Next ==
  \/ \E k \in ForeignKeys, s \in Semantics : RegisterDomain(k, s)
  \/ ImportUseCases
  \/ \E k \in Keys \union UnknownKeys, v \in Seconds : CreateTimepoint(k, v)
  \/ \E v \in Seconds : CreateAviationTimepoint(v)
  \/ \E v \in Seconds, c \in chains \union {<<>>} : CreateLegalTimepoint(v, c)
  \/ \E v \in Millis : CreateEnergyTimepoint(v)
  \/ \E v \in Seconds : CreateCosmicTimepoint(v)
  \/ \E v \in Seconds : CreatePhotonTimepoint(v)
  \/ ResetPhotonIndex
  \/ \E a, b \in Interval : ComputeRelation(a, b)
  \/ Restart

Spec == Init /\ [][Next]_vars

------------------------------------------------------------------------------
(* Properties *)

\* The built-in domains are always registered, every photon of the index was
\* issued, every act of a version chain was issued, and no timepoint comes
\* from a domain whose values are durations unless the process that knew it
\* as one is gone.
TypeOK ==
  /\ BUILTIN_DOMAINS \subseteq DOMAIN reg /\ DOMAIN reg \subseteq Keys
  /\ \A k \in DOMAIN reg : reg[k] \in Semantics
  /\ loaded \in BOOLEAN /\ (loaded => UC_DOMAINS \subseteq DOMAIN reg)
  /\ photonIndex \subseteq {t.machine_id : t \in issued}
  /\ chains \subseteq Seq({t.machine_id : t \in issued})
  /\ \A t \in issued :
       restarts = 0 => t.key \in DOMAIN reg /\ reg[t.key] = "time"
  /\ calls \in 0 .. MaxCalls /\ restarts \in 0 .. MaxRestarts

\* The absolute values of a domain are in the order of the times that were
\* asked for, across every leap second and every restart, so that no two
\* times share a machine id; UTC and Unix times are in one order; and UTC, GPS
\* and Unix times come back out of their absolute values (I-R1, I-R2).
SameScale(t, u) == t.key = u.key /\ t.via = u.via
ToUtc(t) == IF t.key[1] = "Unix" THEN t.when + UnixEpoch ELSE t.when
OfUtc(t) == t.key[1] \in {"UTC", "Unix"} /\ t.via = "createTimepoint"
TaiKeepsOrder ==
  \A t, u \in issued :
    /\ SameScale(t, u) =>
         (t.when < u.when <=> t.absolute_value < u.absolute_value)
    /\ OfUtc(t) /\ OfUtc(u) =>
         (ToUtc(t) < ToUtc(u) <=> t.absolute_value < u.absolute_value)
    /\ OfUtc(t) => convertValue(t.absolute_value, "TAI", "UTC") = ToUtc(t)
    /\ t.key[1] = "GPS" => convertValue(t.absolute_value, "TAI", "GPS") = t.when

\* Between two proper intervals the relation answered is the only one of the
\* thirteen that Allen's definitions allow, and asking the other way round
\* answers its converse.
AllenConverse ==
  \A r \in relations :
    Proper(r.a) /\ Proper(r.b) =>
      /\ AllenRelations(r.a, r.b) = {r.relation}
      /\ AllenRelations(r.b, r.a) = {allenRelation(r.b, r.a)}
==============================================================================
