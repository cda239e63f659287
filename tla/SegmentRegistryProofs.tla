------------------------ MODULE SegmentRegistryProofs ------------------------
(***************************************************************************)
(* SegmentRegistry for every set of holders, sizes and clock values and    *)
(* every CGUAS_MAX: type correctness, disjointness, no gaps, the lookup    *)
(* round trip, the isolation of segments, and that the registry implements *)
(* SegmentLedger.                                                          *)
(*                                                                         *)
(* Disjoint alone is not inductive: that the new segment [n, n + sz) meets *)
(* no old one needs that every old one ends at or below n (GapFree), and   *)
(* that it does not replace an old one under the same id needs that ids    *)
(* carry their base (IdNamesSegment).  That no later process makes an id   *)
(* again needs StaleIsOlder.                                               *)
(***************************************************************************)
EXTENDS SegmentRegistry, TLAPS

IdNamesSegment ==
  \A seg \in s :
    /\ seg.granted_by = seg.id.granted_by
    /\ seg.base_address = seg.id.base
    /\ seg.size_ns = seg.id.size

\* What earlier processes granted is older than this one and all it granted.
StaleIsOlder ==
  /\ \A id \in stale : id.now < now
  /\ \A seg \in s : seg.id.now <= now
  /\ \A id \in stale, seg \in s : id.now < seg.id.now

IInv == TypeOK /\ GapFree /\ Disjoint /\ IdNamesSegment /\ StaleIsOlder

\* NewSegment is a well-typed segment whenever allocate's checks passed.
LEMMA NewSegmentType ==
  ASSUME NEW g \in Holder, NEW sz \in SizeNs, now \in Clock,
         n \in CGUAS_MIN..CGUAS_MAX, sz > 0
  PROVE  /\ NewSegment(g, sz) \in Segment
         /\ NewSegment(g, sz).base_address = n
         /\ NewSegment(g, sz).size_ns = sz
         /\ NewSegment(g, sz).granted_by = g
         /\ NewSegment(g, sz).status = "active"
         /\ NewSegment(g, sz).id = NewId(g, n, sz)
         /\ NewId(g, n, sz) \in SegmentId
  <1>1. sz \in Int /\ n \in Nat
    BY SizeAssumption, CguasMaxAssumption DEF CGUAS_MIN
  <1>2. NewId(g, n, sz) \in SegmentId
    BY <1>1 DEF NewId, SegmentId
  <1> QED
    BY <1>1, <1>2 DEF NewSegment, Segment

\* No segment of the registry has the id allocate is about to use: its base
\* would be n, yet it ends at or below n and is not empty.
LEMMA FreshId ==
  ASSUME IInv,
         NEW g \in Holder, NEW sz \in SizeNs,
         NEW p \in s
  PROVE  p.id # NewId(g, n, sz)
  <1>1. SUFFICES ASSUME p.id = NewId(g, n, sz)
                 PROVE  FALSE
    OBVIOUS
  <1>2. p \in Segment /\ p.base_address + p.size_ns <= n
    BY DEF IInv, TypeOK, GapFree
  <1>3. p.base_address \in Nat /\ p.size_ns \in Nat \ {0}
    BY <1>2 DEF Segment
  <1>4. p.base_address = n
    BY <1>1 DEF IInv, IdNamesSegment, NewId
  <1> QED
    BY <1>2, <1>3, <1>4

\* So allocate only adds.
LEMMA AllocateAdds ==
  ASSUME IInv,
         NEW g \in Holder, NEW sz \in SizeNs,
         Allocate(g, sz)
  PROVE  s' = s \union {NewSegment(g, sz)}
  <1>1. NewSegment(g, sz).id = NewId(g, n, sz)
    BY NewSegmentType DEF IInv, TypeOK, Allocate
  <1> QED
    BY <1>1, FreshId DEF Allocate, Put

\* revoke exchanges one active segment for its revoked copy.
LEMMA RevokeExchanges ==
  ASSUME IInv, NEW id \in SegmentId, Revoke(id)
  PROVE  \E seg \in s :
           LET new == [seg EXCEPT !.status = "revoked"]
           IN  /\ seg.status = "active"
               /\ s' = (s \ {seg}) \union {new}
               /\ new \in Segment
               /\ new.id = seg.id
               /\ new.base_address = seg.base_address
               /\ new.size_ns = seg.size_ns
               /\ new.granted_by = seg.granted_by
               /\ new.status = "revoked"
  <1>1. PICK seg \in s : /\ seg.id = id
                         /\ seg.status = "active"
                         /\ s' = Put(s, [seg EXCEPT !.status = "revoked"])
    BY DEF Revoke
  <1> DEFINE new == [seg EXCEPT !.status = "revoked"]
  <1>2. seg \in Segment
    BY DEF IInv, TypeOK
  <1>3. /\ new \in Segment
        /\ new.id = seg.id
        /\ new.base_address = seg.base_address
        /\ new.size_ns = seg.size_ns
        /\ new.granted_by = seg.granted_by
        /\ new.status = "revoked"
    BY <1>2 DEF Segment
  <1>4. {r \in s : r.id # seg.id} = s \ {seg}
    BY DEF IInv, TypeOK
  <1>5. s' = (s \ {seg}) \union {new}
    BY <1>1, <1>3, <1>4 DEF Put
  <1> QED
    BY <1>1, <1>3, <1>5

------------------------------------------------------------------------------
LEMMA InitIInv == Init => IInv
  BY CguasMaxAssumption, RestartsAssumption
  DEF Init, IInv, TypeOK, GapFree, Disjoint, IdNamesSegment, StaleIsOlder,
      CGUAS_MIN, Outcomes

\* Granting at the present time keeps the order of ids in time.
LEMMA GrantedLater ==
  ASSUME IInv, NEW g \in Holder, NEW sz \in SizeNs,
         s' = s \union {NewSegment(g, sz)}, UNCHANGED <<now, stale>>
  PROVE  StaleIsOlder'
  <1>1. NewSegment(g, sz).id.now = now
    BY DEF NewSegment, NewId
  <1>2. now \in Int /\ \A id \in stale : id.now < now
    BY ClockAssumption DEF IInv, TypeOK, StaleIsOlder
  <1>3. ASSUME NEW seg \in s'
        PROVE  /\ seg.id.now <= now
               /\ \A id \in stale : id.now < seg.id.now
    <2>1. CASE seg \in s
      BY <2>1 DEF IInv, StaleIsOlder
    <2>2. CASE seg = NewSegment(g, sz)
      BY <2>2, <1>1, <1>2
    <2> QED
      BY <2>1, <2>2
  <1> QED
    BY <1>2, <1>3 DEF StaleIsOlder

LEMMA AllocateIInv ==
  ASSUME IInv,
         NEW g \in Holder, NEW sz \in SizeNs,
         Allocate(g, sz)
  PROVE  IInv'
  <1> DEFINE new == NewSegment(g, sz)
  <1>1. /\ sz > 0 /\ sz \in Int /\ n \in Nat /\ CGUAS_MAX \in Nat
        /\ n' = n + sz /\ n' \in CGUAS_MIN..CGUAS_MAX
        /\ reply' \in Outcomes /\ UNCHANGED <<restarts, now, stale>>
    BY SizeAssumption, CguasMaxAssumption
    DEF Allocate, IInv, TypeOK, safeAddOk, isCGUAValid, CGUAS_MIN, Outcomes
  <1>2. s' = s \union {new}
    BY AllocateAdds
  <1>3. /\ new \in Segment
        /\ new.base_address = n
        /\ new.size_ns = sz
        /\ new.granted_by = g
        /\ new.id = NewId(g, n, sz)
    BY <1>1, NewSegmentType DEF IInv, TypeOK
  <1> HIDE DEF new
  <1>4. \A p \in s : /\ p \in Segment
                     /\ p.base_address \in Nat /\ p.size_ns \in Nat
                     /\ p.base_address + p.size_ns <= n
    BY DEF IInv, TypeOK, GapFree, Segment
  <1>5. TypeOK'
    <2>1. \A p, q \in s' : p.id = q.id => p = q
      BY <1>2, <1>3, FreshId DEF IInv, TypeOK
    <2> QED
      BY <1>1, <1>2, <1>3, <2>1 DEF IInv, TypeOK
  <1>6. GapFree'
    <2>1. ASSUME NEW a \in CGUAS_MIN..(n' - 1)
          PROVE  \E seg \in s' : InSegment(seg, a)
      <3>1. CASE a < n
        BY <1>1, <1>2, <3>1 DEF IInv, GapFree, CGUAS_MIN
      <3>2. CASE n <= a
        BY <1>1, <1>2, <1>3, <3>2 DEF InSegment, CGUAS_MIN
      <3> QED
        BY <1>1, <3>1, <3>2 DEF CGUAS_MIN
    <2>2. \A seg \in s' : seg.base_address + seg.size_ns <= n'
      BY <1>1, <1>2, <1>3, <1>4
    <2> QED
      BY <2>1, <2>2 DEF GapFree
  <1>7. Disjoint'
    BY <1>1, <1>2, <1>3, <1>4 DEF IInv, Disjoint
  <1>8. IdNamesSegment'
    BY <1>2, <1>3 DEF IInv, IdNamesSegment, NewId
  <1>9. StaleIsOlder'
    BY <1>1, <1>2, GrantedLater DEF new
  <1> QED
    BY <1>5, <1>6, <1>7, <1>8, <1>9 DEF IInv

LEMMA RevokeIInv ==
  ASSUME IInv, NEW id \in SegmentId, Revoke(id)
  PROVE  IInv'
  <1>1. PICK seg \in s :
          LET new == [seg EXCEPT !.status = "revoked"]
          IN  /\ seg.status = "active"
              /\ s' = (s \ {seg}) \union {new}
              /\ new \in Segment
              /\ new.id = seg.id
              /\ new.base_address = seg.base_address
              /\ new.size_ns = seg.size_ns
              /\ new.granted_by = seg.granted_by
              /\ new.status = "revoked"
    BY RevokeExchanges
  <1> DEFINE new == [seg EXCEPT !.status = "revoked"]
  <1>2. /\ s' = (s \ {seg}) \union {new}
        /\ new \in Segment
        /\ new.id = seg.id
        /\ new.base_address = seg.base_address
        /\ new.size_ns = seg.size_ns
        /\ new.granted_by = seg.granted_by
    BY <1>1
  <1> HIDE DEF new
  <1>3. n' = n /\ reply' \in Outcomes /\ UNCHANGED <<restarts, now, stale>>
    BY DEF Revoke, Outcomes
  <1>4. TypeOK'
    BY <1>2, <1>3 DEF IInv, TypeOK
  <1>5. GapFree'
    BY <1>2, <1>3 DEF IInv, GapFree, InSegment
  <1>6. Disjoint'
    BY <1>2 DEF IInv, Disjoint, TypeOK
  <1>7. IdNamesSegment'
    BY <1>2 DEF IInv, IdNamesSegment
  <1>8. StaleIsOlder'
    <2>1. \A q \in s' : \E p \in s : q.id = p.id
      BY <1>2
    <2> QED
      BY <1>3, <2>1 DEF IInv, StaleIsOlder
  <1> QED
    BY <1>4, <1>5, <1>6, <1>7, <1>8 DEF IInv

LEMMA QuietIInv ==
  ASSUME IInv, UNCHANGED <<s, n, restarts, stale>>, reply' \in Outcomes,
         now' \in Clock, now <= now'
  PROVE  IInv'
  <1>1. /\ TypeOK' /\ GapFree' /\ Disjoint' /\ IdNamesSegment'
    BY DEF IInv, TypeOK, GapFree, Disjoint, IdNamesSegment, InSegment
  <1>2. ASSUME NEW id \in SegmentId PROVE id.now \in Int
    BY ClockAssumption DEF SegmentId
  <1>3. now \in Int /\ now' \in Int
    BY ClockAssumption DEF IInv, TypeOK
  <1>4. \A seg \in s : seg.id \in SegmentId
    BY DEF IInv, TypeOK, Segment
  <1>5. stale \subseteq SegmentId
    BY DEF IInv, TypeOK
  <1>6. StaleIsOlder'
    BY <1>2, <1>3, <1>4, <1>5 DEF IInv, StaleIsOlder
  <1> QED
    BY <1>1, <1>6 DEF IInv

\* A new process has granted nothing yet, and what the others granted is past.
LEMMA RestartIInv == ASSUME IInv, Restart PROVE IInv'
  <1>1. /\ now' \in Clock /\ now < now' /\ now \in Int /\ now' \in Int
        /\ stale' = stale \union {seg.id : seg \in s} /\ s' = {}
    BY ClockAssumption DEF Restart, IInv, TypeOK
  <1>2. \A seg \in s : seg.id \in SegmentId
    BY DEF IInv, TypeOK, Segment
  <1>3. /\ TypeOK' /\ GapFree' /\ Disjoint' /\ IdNamesSegment'
    BY <1>1, <1>2, CguasMaxAssumption, RestartsAssumption
    DEF Restart, IInv, TypeOK, GapFree, Disjoint, IdNamesSegment, CGUAS_MIN, Outcomes
  <1>4. ASSUME NEW id \in stale' PROVE id.now < now'
    <2>1. id \in SegmentId /\ id.now <= now
      <3>1. CASE id \in stale
        <4>1. id \in SegmentId /\ id.now < now
          BY <3>1 DEF IInv, TypeOK, StaleIsOlder
        <4>2. id.now \in Int
          BY <4>1, ClockAssumption DEF SegmentId
        <4> QED
          BY <1>1, <4>1, <4>2
      <3>2. CASE \E seg \in s : id = seg.id
        BY <3>2, <1>2 DEF IInv, StaleIsOlder
      <3> QED
        BY <1>1, <3>1, <3>2
    <2>2. id.now \in Int
      BY <2>1, ClockAssumption DEF SegmentId
    <2> QED
      BY <1>1, <2>1, <2>2
  <1>5. StaleIsOlder'
    BY <1>1, <1>4 DEF StaleIsOlder
  <1> QED
    BY <1>3, <1>5 DEF IInv

LEMMA NextIInv == IInv /\ [Next]_vars => IInv'
  <1> SUFFICES ASSUME IInv, [Next]_vars PROVE IInv'
    OBVIOUS
  <1>7. now \in Clock /\ now \in Int /\ now <= now
    BY ClockAssumption DEF IInv, TypeOK
  <1>1. ASSUME NEW g \in Holder, NEW sz \in SizeNs,
               Allocate(g, sz)
        PROVE  IInv'
    BY <1>1, AllocateIInv
  <1>2. ASSUME NEW sz \in SizeNs, AllocateThrows(sz)
        PROVE  IInv'
    BY <1>2, <1>7, QuietIInv DEF AllocateThrows, Outcomes
  <1>3. ASSUME NEW id \in SegmentId, Revoke(id)
        PROVE  IInv'
    BY <1>3, RevokeIInv
  <1>4. ASSUME NEW id \in SegmentId, ResolveThrows(id)
        PROVE  IInv'
    BY <1>4, <1>7, QuietIInv DEF ResolveThrows, Outcomes
  <1>5. CASE Restart
    BY <1>5, RestartIInv
  <1>6. CASE UNCHANGED vars
    BY <1>6, <1>7, QuietIInv DEF vars, IInv, TypeOK
  <1>8. CASE Tick
    BY <1>8, <1>7, QuietIInv, ClockAssumption DEF Tick, IInv, TypeOK
  <1> QED
    BY <1>1, <1>2, <1>3, <1>4, <1>5, <1>6, <1>8 DEF Next

\* The inductive invariant holds in every reachable state of the registry.
THEOREM Invariance == Spec => []IInv
  BY InitIInv, NextIInv, PTL DEF Spec

\* Type correctness of SegmentRegistry's state (cguas.ts, class SegmentRegistry).
THEOREM TypeCorrect == Spec => []TypeOK
  BY Invariance, PTL DEF IInv

\* allocate never grants an address twice, whatever the sizes, holders and
\* CGUAS_MAX, with revocations in between.
THEOREM NoOverlap == Spec => []Disjoint
  BY Invariance, PTL DEF IInv

\* The granted segments cover [0, _n) without a gap.
THEOREM NoGap == Spec => []GapFree
  BY Invariance, PTL DEF IInv

\* Together: allocate hands out every address below n exactly once.
THEOREM ArenaIsTiled == Spec => []ArenaTiled
  BY NoOverlap, NoGap, PTL DEF ArenaTiled

\* No process makes an id that an earlier one granted, however often the
\* registry is lost and whoever asks for what (repository.ts, the registry
\* lives in its process).
THEOREM StaleCguas == Spec => []StaleCguaIsUnknown
  <1>1. IInv => StaleCguaIsUnknown
    <2> SUFFICES ASSUME IInv, NEW seg \in s, seg.id \in stale PROVE FALSE
      BY DEF StaleCguaIsUnknown
    <2>1. seg.id.now \in Int
      BY ClockAssumption DEF IInv, TypeOK, SegmentId
    <2> QED
      BY <2>1 DEF IInv, StaleIsOlder
  <1> QED
    BY <1>1, Invariance, PTL

------------------------------------------------------------------------------
(* Consequences of the invariant *)

\* Of the segments of the registry at most one contains a given address.
LEMMA OneHolder ==
  ASSUME IInv, NEW p \in s, NEW q \in s, NEW a \in Int,
         InSegment(p, a), InSegment(q, a)
  PROVE  p = q
  <1>1. /\ p.base_address \in Int /\ p.size_ns \in Int
        /\ q.base_address \in Int /\ q.size_ns \in Int
    BY DEF IInv, TypeOK, Segment
  <1>2. p.id = q.id
    BY <1>1 DEF IInv, Disjoint, InSegment
  <1> QED
    BY <1>2 DEF IInv, TypeOK

\* Every address of an active segment is valid and is found in that segment.
THEOREM RoundTrip == Spec => []FindRoundTrip
  <1>1. ASSUME IInv PROVE FindRoundTrip
    <2> SUFFICES ASSUME NEW seg \in s, seg.status = "active",
                        NEW offset \in 0..(seg.size_ns - 1)
                 PROVE  /\ toCGUAOk(seg.base_address, offset)
                        /\ findSegment(seg.base_address + offset) = {seg}
      BY DEF FindRoundTrip
    <2> DEFINE a == seg.base_address + offset
    <2>1. /\ seg.base_address \in Nat /\ seg.size_ns \in Nat /\ offset \in Nat
          /\ offset < seg.size_ns
          /\ seg.base_address + seg.size_ns <= n
          /\ n \in Nat /\ CGUAS_MAX \in Nat /\ n <= CGUAS_MAX
      BY <1>1, CguasMaxAssumption DEF IInv, TypeOK, GapFree, Segment, CGUAS_MIN
    <2>2. toCGUAOk(seg.base_address, offset)
      BY <2>1 DEF toCGUAOk, safeAddOk, isCGUAValid, CGUAS_MIN
    <2>3. InSegment(seg, a) /\ a \in Int
      BY <2>1 DEF InSegment
    <2>4. \A q \in s : InSegment(q, a) => q = seg
      BY <1>1, <2>3, OneHolder
    <2> HIDE DEF a
    <2>5. candidates(a) = {seg}
      BY <2>3, <2>4 DEF candidates
    <2>6. findSegment(a) = {seg}
      BY <2>1, <2>5 DEF findSegment
    <2> QED
      BY <2>2, <2>6 DEF a
  <1> QED
    BY <1>1, Invariance, PTL

\* The addresses of a revoked segment are found in no segment.
THEOREM RevokedStaysUnreachable == Spec => []RevokedUnreachable
  <1>1. ASSUME IInv PROVE RevokedUnreachable
    <2> SUFFICES ASSUME NEW seg \in s, seg.status = "revoked",
                        NEW a \in seg.base_address..(seg.base_address + seg.size_ns - 1)
                 PROVE  findSegment(a) = {}
      BY DEF RevokedUnreachable
    <2>1. seg.base_address \in Int /\ seg.size_ns \in Int
      BY <1>1 DEF IInv, TypeOK, Segment
    <2>2. InSegment(seg, a) /\ a \in Int
      BY <2>1 DEF InSegment
    <2>3. \A q \in s : InSegment(q, a) => q = seg
      BY <1>1, <2>2, OneHolder
    <2>4. candidates(a) = {}
      BY <2>3 DEF candidates
    <2> QED
      BY <2>4 DEF findSegment
  <1> QED
    BY <1>1, Invariance, PTL

\* Together: every address is found in its active segment or not at all.
THEOREM FoundExactly == Spec => []FindExactlyActive
  BY RoundTrip, RevokedStaysUnreachable, PTL DEF FindExactlyActive

\* I-SEG-1 for every step of every behaviour: an operation changes at most
\* one segment, from active to revoked, and removes none.
THEOREM Isolation == Spec => SegmentIsolation
  <1> DEFINE Kept == \A p \in s : \E q \in s' :
                       /\ q.id = p.id
                       /\ q = p \/ (p.status = "active"
                                    /\ q = [p EXCEPT !.status = "revoked"])
             OneChanged == \A p, q \in s : p \notin s' /\ q \notin s' => p = q
             Isolated == restarts' = restarts => Kept /\ OneChanged
  <1>1. ASSUME IInv, [Next]_vars PROVE Isolated \/ UNCHANGED vars
    <2>1. ASSUME s \subseteq s' PROVE Isolated
      BY <2>1
    <2>2. ASSUME NEW g \in Holder, NEW sz \in SizeNs,
                 Allocate(g, sz)
          PROVE  Isolated
      <3>1. s' = s \union {NewSegment(g, sz)}
        BY <1>1, <2>2, AllocateAdds
      <3> QED
        BY <2>1, <3>1
    <2>3. ASSUME NEW id \in SegmentId, Revoke(id)
          PROVE  Isolated
      <3>1. PICK seg \in s :
              LET new == [seg EXCEPT !.status = "revoked"]
              IN  /\ seg.status = "active"
                  /\ s' = (s \ {seg}) \union {new}
                  /\ new.id = seg.id
        BY <1>1, <2>3, RevokeExchanges
      <3> QED
        BY <3>1
    <2>4. ASSUME NEW sz \in SizeNs, AllocateThrows(sz) PROVE Isolated
      BY <2>1, <2>4 DEF AllocateThrows
    <2>5. ASSUME NEW id \in SegmentId, ResolveThrows(id) PROVE Isolated
      BY <2>1, <2>5 DEF ResolveThrows
    <2>6. CASE Restart
      BY <2>6, <1>1, RestartsAssumption DEF Restart, IInv, TypeOK
    <2>7. CASE Tick
      BY <2>1, <2>7 DEF Tick
    <2> QED
      BY <1>1, <2>2, <2>3, <2>4, <2>5, <2>6, <2>7 DEF Next
  <1>2. IInv /\ [Next]_vars => [Isolated]_vars
    BY <1>1
  <1> QED
    BY <1>2, Invariance, PTL DEF Spec, SegmentIsolation

------------------------------------------------------------------------------
(* Refinement of the ledger *)

Address == CGUAS_MIN..(CGUAS_MAX - 1)
HoldersOf(a) == {seg.id : seg \in {r \in s : InSegment(r, a)}}
holders == [a \in Address |-> HoldersOf(a)]
live == {seg.id : seg \in {r \in s : r.status = "active"}}

LEMMA AllocateGrants ==
  ASSUME IInv,
         NEW g \in Holder, NEW sz \in SizeNs,
         Allocate(g, sz)
  PROVE  \E id \in SegmentId : Ledger!Grant(id)
  <1> DEFINE new == NewSegment(g, sz)
             id == NewId(g, n, sz)
             R == n..(n + sz - 1)
  <1>1. /\ sz > 0 /\ sz \in Int /\ n \in Nat /\ CGUAS_MAX \in Nat
        /\ n + sz <= CGUAS_MAX
    BY SizeAssumption, CguasMaxAssumption
    DEF Allocate, IInv, TypeOK, safeAddOk, isCGUAValid, CGUAS_MIN
  <1>2. s' = s \union {new}
    BY AllocateAdds
  <1>3. /\ id \in SegmentId
        /\ new.base_address = n /\ new.size_ns = sz
        /\ new.id = id /\ new.status = "active"
    BY <1>1, NewSegmentType DEF IInv, TypeOK
  <1>4. \A p \in s : /\ p.base_address \in Nat /\ p.size_ns \in Nat
                     /\ p.base_address + p.size_ns <= n
    BY DEF IInv, TypeOK, GapFree, Segment
  <1>5. \A p \in s : p.id # id
    BY FreshId
  <1> HIDE DEF new, id
  <1>6. id \notin live
    BY <1>5 DEF live
  <1>7. live' = live \union {id}
    BY <1>2, <1>3 DEF live
  <1>8. R \in SUBSET Address /\ R # {}
    <2>1. n \in R
      BY <1>1
    <2> QED
      BY <1>1, <2>1 DEF Address, CGUAS_MIN
  <1>9. \A a \in R : HoldersOf(a) = {}
    BY <1>1, <1>4 DEF HoldersOf, InSegment
  <1>10. \A a \in Address : HoldersOf(a)' = IF a \in R THEN {id} ELSE HoldersOf(a)
    <2> SUFFICES ASSUME NEW a \in Address
                 PROVE  HoldersOf(a)' = IF a \in R THEN {id} ELSE HoldersOf(a)
      OBVIOUS
    <2>1. InSegment(new, a) <=> a \in R
      BY <1>1, <1>3 DEF InSegment, Address, CGUAS_MIN
    <2>2. {r \in s' : InSegment(r, a)} =
            {r \in s : InSegment(r, a)} \union (IF a \in R THEN {new} ELSE {})
      BY <1>2, <2>1
    <2>3. HoldersOf(a)' = {r.id : r \in {q \in s' : InSegment(q, a)}}
      BY DEF HoldersOf, InSegment
    <2>4. CASE a \in R
      <3>1. {r \in s : InSegment(r, a)} = {}
        BY <1>9, <2>4 DEF HoldersOf
      <3>2. {r \in s' : InSegment(r, a)} = {new}
        BY <2>2, <2>4, <3>1
      <3> QED
        BY <1>3, <2>3, <2>4, <3>2
    <2>5. CASE a \notin R
      BY <2>2, <2>3, <2>5 DEF HoldersOf
    <2> QED
      BY <2>4, <2>5
  <1> HIDE DEF R
  <1>11. /\ \A a \in R : holders[a] = {}
         /\ holders' = [a \in Address |-> IF a \in R THEN {id} ELSE holders[a]]
    BY <1>8, <1>9, <1>10 DEF holders, Address, CGUAS_MIN
  <1>12. PICK k \in SegmentId : k = id
    BY <1>3
  <1>13. Ledger!Grant(k)
    BY <1>6, <1>7, <1>8, <1>11, <1>12
    DEF Ledger!Grant, holders, live, HoldersOf, Address
  <1> QED
    BY <1>13

LEMMA RevokeRetires ==
  ASSUME IInv, NEW id \in SegmentId, Revoke(id)
  PROVE  \E k \in SegmentId : Ledger!Retire(k)
  <1>1. PICK seg \in s :
          LET new == [seg EXCEPT !.status = "revoked"]
          IN  /\ seg.status = "active"
              /\ s' = (s \ {seg}) \union {new}
              /\ new.id = seg.id
              /\ new.base_address = seg.base_address
              /\ new.size_ns = seg.size_ns
              /\ new.status = "revoked"
    BY RevokeExchanges
  <1> DEFINE new == [seg EXCEPT !.status = "revoked"]
  <1>2. /\ s' = (s \ {seg}) \union {new}
        /\ new.id = seg.id
        /\ new.base_address = seg.base_address
        /\ new.size_ns = seg.size_ns
        /\ new.status = "revoked"
    BY <1>1
  <1> HIDE DEF new
  <1>3. \A p \in s : p.id = seg.id => p = seg
    BY DEF IInv, TypeOK
  <1>4. seg.id \in live /\ live' = live \ {seg.id}
    BY <1>1, <1>2, <1>3 DEF live
  <1>5. ASSUME NEW a \in Address PROVE HoldersOf(a)' = HoldersOf(a)
    <2>1. InSegment(new, a) <=> InSegment(seg, a)
      BY <1>2 DEF InSegment
    <2>2. HoldersOf(a)' = {r.id : r \in {q \in s' : InSegment(q, a)}}
      BY DEF HoldersOf, InSegment
    <2> QED
      BY <1>2, <2>1, <2>2 DEF HoldersOf
  <1>6. holders' = holders
    BY <1>5 DEF holders, Address, CGUAS_MIN
  <1>7. seg.id \in SegmentId
    BY DEF IInv, TypeOK, Segment
  <1> QED
    BY <1>4, <1>6, <1>7 DEF Ledger!Retire, holders, live, HoldersOf, Address

\* Every behaviour of the registry is a behaviour of the ledger.
THEOREM RegistryImplementsLedger == Spec => ImplementsLedger
  <1>1. Init => Ledger!Init
    BY DEF Init, Ledger!Init, Ledger!Empty
  <1>2. IInv /\ [Next]_vars => [Ledger!Next]_<<holders, live>>
    <2> SUFFICES ASSUME IInv, [Next]_vars
                 PROVE  Ledger!Next \/ UNCHANGED <<holders, live>>
      OBVIOUS
    <2>1. ASSUME s' = s PROVE UNCHANGED <<holders, live>>
      BY <2>1 DEF holders, live, HoldersOf, InSegment, Address
    <2>2. ASSUME NEW g \in Holder, NEW sz \in SizeNs,
                 Allocate(g, sz)
          PROVE  Ledger!Next
      BY <2>2, AllocateGrants DEF Ledger!Next
    <2>3. ASSUME NEW id \in SegmentId, Revoke(id)
          PROVE  Ledger!Next
      BY <2>3, RevokeRetires DEF Ledger!Next
    <2>4. ASSUME NEW sz \in SizeNs, AllocateThrows(sz) PROVE s' = s
      BY <2>4 DEF AllocateThrows
    <2>5. ASSUME NEW id \in SegmentId, ResolveThrows(id) PROVE s' = s
      BY <2>5 DEF ResolveThrows
    <2>6. CASE Restart
      BY <2>6 DEF Restart, Ledger!Next, Ledger!Forget, Ledger!Empty
    <2>7. CASE UNCHANGED vars
      BY <2>1, <2>7 DEF vars
    <2>8. CASE Tick
      BY <2>1, <2>8 DEF Tick
    <2> QED
      BY <2>1, <2>2, <2>3, <2>4, <2>5, <2>6, <2>7, <2>8 DEF Next
  <1>3. IInv /\ [Next]_vars => [Ledger!Next]_Ledger!ledgerVars
    BY <1>2 DEF Ledger!ledgerVars, holders, live, HoldersOf, Address
  <1> QED
    BY <1>1, <1>3, Invariance, PTL DEF Spec, ImplementsLedger, Ledger!Spec
==============================================================================
