--------------------------- MODULE SegmentRegistry ---------------------------
(***************************************************************************)
(* The in-memory segment registry of packages/cg-cguas: a bump allocator   *)
(* over the CGUAS address space [0, CGUAS_MAX], with resolve, revoke and   *)
(* the address lookup of rule N-CGUAS-001.  JavaScript runs each method to *)
(* its end, so each method is one step.  The registry dies with its        *)
(* process: Restart is a new process with a new, empty registry, while     *)
(* CGUAs handed out before are still in the callers' hands (stale, a       *)
(* history variable that nothing reads).                                   *)
(*                                                                         *)
(* The clock of the host is not set back, and a process does not start     *)
(* within the millisecond in which another one ended.                      *)
(***************************************************************************)
EXTENDS Integers

CONSTANTS
  Holder,       \* names a segment can be granted to
  CGUAS_MAX,    \* last valid address
  SizeNs,       \* sizes callers ask for, negative ones and 0 included
  Clock,        \* values of Date.now()
  MaxRestarts   \* bound: restarts of the process

ASSUME CguasMaxAssumption == CGUAS_MAX \in Nat
ASSUME SizeAssumption     == SizeNs \subseteq Int
ASSUME ClockAssumption    == Clock \subseteq Int
ASSUME RestartsAssumption == MaxRestarts \in Nat

CGUAS_MIN == 0

(* An id is a sha256 digest; two digests are equal iff their inputs are,   *)
(* so the input of the digest stands for the id.                           *)
SegmentId ==
  [granted_by : Holder, base : CGUAS_MIN..CGUAS_MAX, size : SizeNs, now : Clock]

Segment ==
  [id : SegmentId, base_address : Nat, size_ns : Nat \ {0}, granted_by : Holder,
   status : {"active", "revoked"}]

Outcomes == {"none", "granted", "revoked", "invalidSegmentSize",
             "addressOutOfRange", "segmentNotFound", "segmentRevoked"}

VARIABLES
  s,          \* the map of segments, as the set of its values
  n,          \* _n: the first address not granted yet
  reply,      \* how the last call ended
  restarts,   \* restarts of the process so far
  now,        \* Date.now()
  stale       \* ids granted by earlier processes

vars == <<s, n, reply, restarts, now, stale>>

------------------------------------------------------------------------------
(* Helpers *)

\* Map.set keeps one value per id.
Put(m, seg) == {r \in m : r.id # seg.id} \union {seg}

isCGUAValid(address) == CGUAS_MIN <= address /\ address <= CGUAS_MAX

\* cgua_safeAdd throws addressOutOfRange unless the sum is a valid address.
safeAddOk(a, b) == isCGUAValid(a + b)

\* toCGUA(segmentStart, localOffset) throws for a negative offset, too.
toCGUAOk(start, offset) == offset >= 0 /\ safeAddOk(start, offset)

InSegmentClosed(seg, address) ==
  seg.base_address <= address /\ address <= seg.base_address + seg.size_ns
InSegment(seg, address) ==
  seg.base_address <= address /\ address < seg.base_address + seg.size_ns

\* findSegment: the active segments around an address, the smallest wins.
candidates(address) ==
  {seg \in s : seg.status = "active" /\ InSegment(seg, address)}
findSegment(address) ==
  {seg \in candidates(address) :
     \A other \in candidates(address) : seg.size_ns <= other.size_ns}

NewIdWithoutTime(g, base, sz) ==
  [granted_by |-> g, base |-> base, size |-> sz, now |-> CHOOSE t \in Clock : TRUE]
NewId(g, base, sz) ==
  [granted_by |-> g, base |-> base, size |-> sz, now |-> now]

NewSegment(g, sz) ==
  [id |-> NewId(g, n, sz), base_address |-> n, size_ns |-> sz,
   granted_by |-> g, status |-> "active"]

------------------------------------------------------------------------------
(* Operations *)

Init ==
  /\ s = {} /\ n = CGUAS_MIN /\ reply = "none" /\ restarts = 0
  /\ now \in Clock
  /\ stale = {}

AllocateClosed(g, sz) ==
  /\ sz > 0
  /\ safeAddOk(n, sz)
  /\ s' = Put(s, NewSegment(g, sz))
  /\ n' = n + sz - 1
  /\ reply' = "granted"
  /\ UNCHANGED <<restarts, now, stale>>
AllocateUnchecked(g, sz) ==
  /\ sz > 0
  /\ s' = Put(s, NewSegment(g, sz))
  /\ n' = n + sz
  /\ reply' = "granted"
  /\ UNCHANGED <<restarts, now, stale>>
\* allocate(g, sz): both checks come before the first write.
Allocate(g, sz) ==
  /\ sz > 0
  /\ safeAddOk(n, sz)
  /\ s' = Put(s, NewSegment(g, sz))
  /\ n' = n + sz
  /\ reply' = "granted"
  /\ UNCHANGED <<restarts, now, stale>>

AllocateThrows(sz) ==
  /\ \/ sz <= 0 /\ reply' = "invalidSegmentSize"
     \/ sz > 0 /\ ~ safeAddOk(n, sz) /\ reply' = "addressOutOfRange"
  /\ UNCHANGED <<s, n, restarts, now, stale>>

RevokeFrees(id) ==
  \E seg \in s :
    /\ seg.id = id
    /\ seg.status = "active"
    /\ s' = s \ {seg}
    /\ n' = seg.base_address
    /\ reply' = "revoked"
    /\ UNCHANGED <<restarts, now, stale>>
\* revoke(id) resolves first; the entry is replaced by a copy.
Revoke(id) ==
  \E seg \in s :
    /\ seg.id = id
    /\ seg.status = "active"
    /\ s' = Put(s, [seg EXCEPT !.status = "revoked"])
    /\ reply' = "revoked"
    /\ UNCHANGED <<n, restarts, now, stale>>

\* resolve(id), and through it revoke(id), throws and writes nothing.
ResolveThrows(id) ==
  /\ \/ (\A seg \in s : seg.id # id) /\ reply' = "segmentNotFound"
     \/ (\E seg \in s : seg.id = id /\ seg.status = "revoked")
        /\ reply' = "segmentRevoked"
  /\ UNCHANGED <<s, n, restarts, now, stale>>

Tick ==
  /\ now' \in Clock /\ now < now'
  /\ UNCHANGED <<s, n, reply, restarts, stale>>

Restart ==
  /\ restarts < MaxRestarts
  /\ now' \in Clock /\ now < now'
  /\ stale' = stale \union {seg.id : seg \in s}
  /\ restarts' = restarts + 1
  /\ s' = {}
  /\ n' = CGUAS_MIN
  /\ reply' = "none"

Next ==
  \/ \E g \in Holder, sz \in SizeNs : Allocate(g, sz)
  \/ \E sz \in SizeNs : AllocateThrows(sz)
  \/ \E id \in SegmentId : Revoke(id) \/ ResolveThrows(id)
  \/ Tick
  \/ Restart

Spec == Init /\ [][Next]_vars

------------------------------------------------------------------------------
(* Properties *)

\* Types of the state; the map keeps at most one segment per id, and n is
\* an address that can still be reached (cguas.ts, fields s and _n).
TypeOK ==
  /\ s \subseteq Segment
  /\ n \in CGUAS_MIN..CGUAS_MAX
  /\ reply \in Outcomes
  /\ restarts \in 0..MaxRestarts
  /\ now \in Clock /\ stale \subseteq SegmentId
  /\ \A p, q \in s : p.id = q.id => p = q

\* Two segments never share an address, whether active or revoked: what was
\* granted once is not granted again while the registry lives, although
\* allocate checks nothing but its own counter (no overlap test exists).
Disjoint ==
  \A p, q \in s :
    p.id # q.id =>
      \/ p.base_address + p.size_ns <= q.base_address
      \/ q.base_address + q.size_ns <= p.base_address

\* The segments tile [0, n) without a gap: no allocation that failed, was
\* revoked or came from another holder leaks addresses (T-CGUAS-002b).
GapFree ==
  /\ \A a \in CGUAS_MIN..(n - 1) : \E seg \in s : InSegment(seg, a)
  /\ \A seg \in s : seg.base_address + seg.size_ns <= n

\* Allocation is exact: every address below n was granted in exactly one
\* segment, whatever failed, was revoked or came from whom, and none above.
ArenaTiled == Disjoint /\ GapFree

\* Every address built by toCGUA from an active segment and an offset below
\* its size is valid and is found again in exactly that segment, so rule
\* N-CGUAS-001 never has to choose between two holders (T-CGUAS-003).
FindRoundTrip ==
  \A seg \in s :
    seg.status = "active" =>
      \A offset \in 0..(seg.size_ns - 1) :
        /\ toCGUAOk(seg.base_address, offset)
        /\ findSegment(seg.base_address + offset) = {seg}

\* A revoked segment's addresses answer segmentNotFound for good: no active
\* segment takes them over (revoke keeps _n, T-CGUAS-003e).
RevokedUnreachable ==
  \A seg \in s :
    seg.status = "revoked" =>
      \A a \in seg.base_address..(seg.base_address + seg.size_ns - 1) :
        findSegment(a) = {}

\* findSegment answers every address of an active segment with that segment,
\* and every address of a revoked one with nothing, although it looks at
\* addresses and status only and revoked segments stay in the map.
FindExactlyActive == FindRoundTrip /\ RevokedUnreachable

\* A CGUA kept from before a restart names nothing any more: resolve and
\* revoke answer segmentNotFound, although the new process begins at the same
\* addresses again and may grant them to the same holder in the same size.
\* Within a process the base keeps ids apart, between processes the time does.
StaleCguaIsUnknown == \A seg \in s : seg.id \notin stale

\* I-SEG-1: an operation on one segment leaves every other segment as it
\* was, nothing is removed, and a revoked segment stays revoked.
SegmentIsolation ==
  [][restarts' = restarts =>
       /\ \A p \in s : \E q \in s' :
            /\ q.id = p.id
            /\ q = p \/ (p.status = "active"
                         /\ q = [p EXCEPT !.status = "revoked"])
       /\ \A p, q \in s :
            p \notin s' /\ q \notin s' => p = q]_vars

(* The registry implements the ledger. *)
Ledger ==
  INSTANCE SegmentLedger WITH
    Address <- CGUAS_MIN..(CGUAS_MAX - 1),
    Id      <- SegmentId,
    holders <- [a \in CGUAS_MIN..(CGUAS_MAX - 1) |->
                  {seg.id : seg \in {r \in s : InSegment(r, a)}}],
    live    <- {seg.id : seg \in {r \in s : r.status = "active"}}

\* Every behaviour of the registry is one of the abstract ledger: a step
\* grants free addresses to a new id, retires a live id, forgets all, or
\* changes nothing the ledger sees.
ImplementsLedger == Ledger!Spec
==============================================================================
