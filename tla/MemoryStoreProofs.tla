--------------------------- MODULE MemoryStoreProofs ---------------------------
(***************************************************************************)
(* Theorems about MemoryStore, for all keys, page sizes and numbers of      *)
(* restarts: type correctness, the walk that sees every timepoint, and      *)
(* refinement of the volatile LifecycleStore.  The walk is right because a  *)
(* Map never moves an entry: what has been got is the ids of the first      *)
(* entries, in order.                                                       *)
(***************************************************************************)
EXTENDS MemoryStore, SequenceTheorems, TLAPS

Entry == [id : Timepoint, labels : Labels]

Distinct(entries) ==
  \A i, j \in DOMAIN entries : entries[i].id = entries[j].id => i = j

Typed ==
  /\ timepoints \in Seq(Entry) /\ Distinct(timepoints)
  /\ domains \subseteq Domain
  /\ domainEvents \in Seq(Domain) /\ IsInjective(domainEvents)
  /\ ToSet(domainEvents) \subseteq domains
  /\ manifests \subseteq [id : Cgfi, metadata : Metadata]
  /\ \A m, k \in manifests : m.id = k.id => m = k
  /\ fileEvents \in Seq(Cgfi) /\ IsInjective(fileEvents)
  /\ \A f \in ToSet(fileEvents) : Stored(f)
  /\ walk \in [offset : Nat \union {-1, -2}, got : Seq(Timepoint),
               had : SUBSET Timepoint]
  /\ restarts \in 0 .. MaxRestarts

------------------------------------------------------------------------------
(* Maps and pages *)

\* Map.set keeps every entry where it is, or adds one at the end.
LEMMA MapSetKeepsPlaces ==
  ASSUME NEW s \in Seq(Entry), Distinct(s), NEW e \in Entry
  PROVE  /\ MapSet(s, e) \in Seq(Entry) /\ Distinct(MapSet(s, e))
         /\ Len(s) <= Len(MapSet(s, e))
         /\ \A i \in 1 .. Len(s) : MapSet(s, e)[i].id = s[i].id
  <1>1. CASE e.id \in Ids(s)
    <2> DEFINE t == [i \in DOMAIN s |-> IF s[i].id = e.id THEN e ELSE s[i]]
    <2>1. MapSet(s, e) = t
      BY <1>1 DEF MapSet
    <2>2. DOMAIN s = 1 .. Len(s) /\ Len(s) \in Nat /\ \A i \in 1 .. Len(s) : s[i] \in Entry
      OBVIOUS
    <2>3. t \in [1 .. Len(s) -> Entry]
      BY <2>2
    <2>4. t \in Seq(Entry)
      BY <2>2, <2>3, SeqDef
    <2>5. Len(t) = Len(s)
      BY <2>2, <2>3, <2>4
    <2>6. \A i \in 1 .. Len(s) : t[i].id = s[i].id
      BY <2>2
    <2> HIDE DEF t
    <2>7. Distinct(t)
      BY <2>2, <2>4, <2>5, <2>6 DEF Distinct
    <2> QED
      BY <2>1, <2>2, <2>4, <2>5, <2>6, <2>7
  <1>2. CASE e.id \notin Ids(s)
    <2>1. MapSet(s, e) = Append(s, e)
      BY <1>2 DEF MapSet
    <2>2. \A i \in 1 .. Len(s) : s[i].id # e.id
      BY <1>2 DEF Ids, ToSet
    <2> QED
      BY <2>1, <2>2 DEF Distinct
  <1> QED
    BY <1>1, <1>2

LEMMA AppendNew ==
  ASSUME NEW S, NEW s \in Seq(S), NEW e \in S
  PROVE  /\ Append(s, e) \in Seq(S)
         /\ ToSet(Append(s, e)) = ToSet(s) \union {e}
         /\ IsInjective(s) /\ e \notin ToSet(s) => IsInjective(Append(s, e))
  <1>1. \A i \in DOMAIN Append(s, e) :
          Append(s, e)[i] = IF i = Len(s) + 1 THEN e ELSE s[i]
    OBVIOUS
  <1>2. ToSet(Append(s, e)) = ToSet(s) \union {e}
    BY <1>1 DEF ToSet
  <1>3. ASSUME IsInjective(s), e \notin ToSet(s) PROVE IsInjective(Append(s, e))
    <2>1. /\ DOMAIN s = 1 .. Len(s) /\ Len(s) \in Nat
          /\ DOMAIN Append(s, e) = 1 .. Len(s) + 1
      OBVIOUS
    <2>2. \A i \in 1 .. Len(s) : s[i] # e
      BY <1>3, <2>1 DEF ToSet
    <2>3. \A i, j \in 1 .. Len(s) : s[i] = s[j] => i = j
      BY <1>3, <2>1 DEF IsInjective
    <2> QED
      BY <1>1, <2>1, <2>2, <2>3 DEF IsInjective
  <1> QED
    BY <1>2, <1>3

LEMMA PageIs ==
  ASSUME Typed, NEW offset \in Nat, offset <= Len(timepoints)
  PROVE  LET page == ListPage(offset) IN
         /\ page \in Seq(Entry) /\ Len(page) <= Limit
         /\ offset + Len(page) <= Len(timepoints)
         /\ \A i \in 1 .. Len(page) : page[i] = timepoints[offset + i]
         /\ Len(page) < Limit => offset + Len(page) = Len(timepoints)
  <1> DEFINE end == IF offset + Limit < Len(timepoints) THEN offset + Limit
                    ELSE Len(timepoints)
  <1>1. timepoints \in Seq(Entry) /\ Len(timepoints) \in Nat /\ Limit \in Nat
    BY LimitAssumption DEF Typed
  <1>2. /\ end \in Nat /\ offset <= end /\ end <= Len(timepoints)
        /\ end - offset <= Limit
        /\ end - offset < Limit => end = Len(timepoints)
    BY <1>1
  <1> HIDE DEF end
  <1>3. \A i \in offset + 1 .. end : timepoints[i] \in Entry
    BY <1>1, <1>2
  <1>4. /\ SubSeq(timepoints, offset + 1, end) \in Seq(Entry)
        /\ Len(SubSeq(timepoints, offset + 1, end)) = end - offset
        /\ \A i \in 1 .. end - offset :
             SubSeq(timepoints, offset + 1, end)[i] = timepoints[offset + i]
    <2>1. offset + 1 \in Int /\ end \in Int
      BY <1>2
    <2>2. /\ SubSeq(timepoints, offset + 1, end) \in Seq(Entry)
          /\ Len(SubSeq(timepoints, offset + 1, end)) =
               IF offset + 1 <= end THEN end - (offset + 1) + 1 ELSE 0
          /\ \A i \in 1 .. end - (offset + 1) + 1 :
               SubSeq(timepoints, offset + 1, end)[i] = timepoints[(offset + 1) + i - 1]
      BY <1>3, <2>1, SubSeqProperties
    <2>3. end - (offset + 1) + 1 = end - offset
          /\ \A i \in Int : (offset + 1) + i - 1 = offset + i
      BY <1>2
    <2> QED
      BY <1>2, <2>2, <2>3
  <1>5. ListPage(offset) = SubSeq(timepoints, offset + 1, end)
    BY DEF ListPage, end
  <1> QED
    BY <1>1, <1>2, <1>4, <1>5

------------------------------------------------------------------------------
(* The inductive invariant *)

\* What has been got is the ids of the first entries; a walk that is through
\* has got what was there when it began.
Walked ==
  /\ walk.offset \in Nat =>
       /\ walk.offset <= Len(timepoints) /\ Len(walk.got) = walk.offset
       /\ \A i \in 1 .. walk.offset : walk.got[i] = timepoints[i].id
       /\ walk.had \subseteq Ids(timepoints)
  /\ walk.offset = -1 => walk.got = <<>>
  /\ walk.offset = -2 => IsInjective(walk.got) /\ walk.had \subseteq ToSet(walk.got)

IInv == Typed /\ Walked

LEMMA InitIInv == Init => IInv
  <1> SUFFICES ASSUME Init PROVE IInv
    OBVIOUS
  <1>1. /\ ToSet(<<>>) = {} /\ IsInjective(<<>>) /\ Distinct(<<>>)
    BY DEF ToSet, IsInjective, Distinct
  <1> QED
    BY <1>1, RestartsAssumption DEF Init, Empty, IInv, Typed, Walked, NoWalk, Stored

LEMMA PostTimepointIInv ==
  ASSUME IInv, NEW t \in Timepoint, NEW l \in Labels, PostTimepoint(t, l)
  PROVE  IInv'
  <1> DEFINE e == [id |-> t, labels |-> l]
  <1>1. e \in Entry
    BY DEF Entry
  <1> HIDE DEF e
  <1>2. timepoints' = MapSet(timepoints, e)
    BY DEF PostTimepoint, e
  <1>3. /\ timepoints' \in Seq(Entry) /\ Distinct(timepoints')
        /\ Len(timepoints) <= Len(timepoints')
        /\ \A i \in 1 .. Len(timepoints) : timepoints'[i].id = timepoints[i].id
    BY <1>1, <1>2, MapSetKeepsPlaces DEF IInv, Typed
  <1>4. Ids(timepoints) \subseteq Ids(timepoints')
    <2>1. Len(timepoints) \in Nat /\ Len(timepoints') \in Nat
          /\ DOMAIN timepoints = 1 .. Len(timepoints)
          /\ DOMAIN timepoints' = 1 .. Len(timepoints')
      BY <1>3 DEF IInv, Typed
    <2> QED
      BY <1>3, <2>1 DEF Ids, ToSet
  <1>5. Typed'
    BY <1>3 DEF PostTimepoint, IInv, Typed, Distinct, Stored
  <1>6. Walked'
    <2>1. walk' = walk /\ timepoints \in Seq(Entry)
      BY DEF PostTimepoint, IInv, Typed
    <2>2. ASSUME walk.offset \in Nat
          PROVE  /\ walk.offset <= Len(timepoints') /\ Len(walk.got) = walk.offset
                 /\ \A i \in 1 .. walk.offset : walk.got[i] = timepoints'[i].id
                 /\ walk.had \subseteq Ids(timepoints')
      BY <1>3, <1>4, <2>1, <2>2 DEF IInv, Walked
    <2> QED
      BY <2>1, <2>2 DEF IInv, Walked
  <1> QED
    BY <1>5, <1>6 DEF IInv

LEMMA DomainIInv ==
  ASSUME IInv, NEW d \in Domain, PostDomain(d) \/ Publish(d) \/ PublishThrows(d)
  PROVE  IInv'
  <1>1. /\ UNCHANGED <<timepoints, manifests, fileEvents, walk, restarts>>
        /\ domains \subseteq domains' /\ domains' \subseteq Domain
    BY DEF PostDomain, Publish, PublishThrows, tables, IInv, Typed
  <1>2. /\ domainEvents' \in Seq(Domain) /\ IsInjective(domainEvents')
        /\ ToSet(domainEvents') \subseteq domains'
    <2>1. CASE domainEvents' = domainEvents
      BY <1>1, <2>1 DEF IInv, Typed
    <2>2. CASE Publish(d)
      BY <1>1, <2>2, AppendNew DEF Publish, Published, IInv, Typed
    <2> QED
      BY <2>1, <2>2 DEF PostDomain, PublishThrows, tables
  <1> QED
    BY <1>1, <1>2 DEF IInv, Typed, Walked, Stored

LEMMA FileIInv ==
  ASSUME IInv, NEW f \in Cgfi,
         DeleteFile(f) \/ \E md \in Metadata : PostFile(f, md)
  PROVE  IInv'
  <1>1. UNCHANGED <<timepoints, domains, domainEvents, walk, restarts>>
    BY DEF DeleteFile, PostFile
  <1>2. CASE DeleteFile(f)
    <2>1. /\ manifests' = manifests
          /\ \/ fileEvents' = fileEvents
             \/ /\ Stored(f) /\ ~ Tombstoned(f)
                /\ fileEvents' = Append(fileEvents, f)
      BY <1>2 DEF DeleteFile
    <2>2. /\ fileEvents' \in Seq(Cgfi) /\ IsInjective(fileEvents')
          /\ \A x \in ToSet(fileEvents') : Stored(x)
      <3>1. CASE fileEvents' = fileEvents
        BY <3>1 DEF IInv, Typed
      <3>2. CASE /\ Stored(f) /\ ~ Tombstoned(f)
                 /\ fileEvents' = Append(fileEvents, f)
        BY <3>2, AppendNew DEF IInv, Typed, Tombstoned
      <3> QED
        BY <2>1, <3>1, <3>2
    <2> QED
      BY <1>1, <2>1, <2>2 DEF IInv, Typed, Walked, Stored
  <1>3. ASSUME NEW md \in Metadata, PostFile(f, md) PROVE IInv'
    <2> DEFINE new == [id |-> f, metadata |-> md]
    <2>1. new \in [id : Cgfi, metadata : Metadata] /\ new.id = f
      OBVIOUS
    <2> HIDE DEF new
    <2>2. manifests' = {m \in manifests : m.id # f} \union {new}
          /\ fileEvents' = fileEvents
      BY <1>3 DEF PostFile, new
    <2>3. \A m, k \in manifests' : m.id = k.id => m = k
      BY <2>1, <2>2 DEF IInv, Typed
    <2>4. \A x \in Cgfi : Stored(x) => Stored(x)'
      BY <2>1, <2>2 DEF Stored
    <2>5. \A x \in ToSet(fileEvents) : x \in Cgfi
      BY DEF IInv, Typed, ToSet
    <2> QED
      BY <1>1, <2>1, <2>2, <2>3, <2>4, <2>5 DEF IInv, Typed, Walked
  <1> QED
    BY <1>2, <1>3

LEMMA WalkIInv ==
  ASSUME IInv, BeginWalk \/ ListTimepoints \/ EndWalk
  PROVE  IInv'
  <1>1. UNCHANGED <<tables, restarts>>
    BY DEF BeginWalk, ListTimepoints, EndWalk
  <1>2. timepoints \in Seq(Entry) /\ Len(timepoints) \in Nat
        /\ DOMAIN timepoints = 1 .. Len(timepoints)
        /\ \A i \in 1 .. Len(timepoints) : timepoints[i] \in Entry
    BY DEF IInv, Typed
  <1>3. ASSUME walk' \in [offset : Nat \union {-1, -2}, got : Seq(Timepoint),
                          had : SUBSET Timepoint]
        PROVE  Typed'
    BY <1>1, <1>3 DEF IInv, Typed, tables, Stored
  <1>4. CASE BeginWalk
    <2> DEFINE new == [offset |-> 0, got |-> <<>>, had |-> Ids(timepoints)]
    <2>1. Ids(timepoints) \subseteq Timepoint
      BY <1>2 DEF Ids, ToSet, Entry
    <2>2. /\ new \in [offset : Nat \union {-1, -2}, got : Seq(Timepoint),
                      had : SUBSET Timepoint]
          /\ new.offset = 0 /\ Len(new.got) = 0 /\ new.had = Ids(timepoints)
      BY <2>1
    <2> HIDE DEF new
    <2>3. walk' = new /\ timepoints' = timepoints
      BY <1>1, <1>4 DEF BeginWalk, new, tables
    <2>4. Walked'
      BY <1>2, <2>2, <2>3 DEF Walked
    <2> QED
      BY <1>3, <2>2, <2>3, <2>4 DEF IInv
  <1>5. CASE ListTimepoints
    <2> DEFINE page == ListPage(walk.offset)
               ids == [i \in DOMAIN page |-> page[i].id]
    <2>1. /\ walk.offset \in Nat /\ walk.offset <= Len(timepoints)
          /\ Len(walk.got) = walk.offset /\ walk.got \in Seq(Timepoint)
          /\ \A i \in 1 .. walk.offset : walk.got[i] = timepoints[i].id
          /\ walk.had \subseteq Ids(timepoints) /\ walk.had \subseteq Timepoint
      BY <1>5 DEF ListTimepoints, IInv, Typed, Walked
    <2>2. /\ page \in Seq(Entry) /\ Len(page) <= Limit
          /\ walk.offset + Len(page) <= Len(timepoints)
          /\ \A i \in 1 .. Len(page) : page[i] = timepoints[walk.offset + i]
          /\ Len(page) < Limit => walk.offset + Len(page) = Len(timepoints)
      BY <2>1, PageIs DEF IInv
    <2>3. \/ Len(page) = Limit
             /\ walk' = [walk EXCEPT !.offset = @ + Limit, !.got = @ \o ids]
          \/ Len(page) < Limit
             /\ walk' = [walk EXCEPT !.offset = -2, !.got = @ \o ids]
      BY <1>5 DEF ListTimepoints
    <2> HIDE DEF page
    <2>4. /\ ids \in Seq(Timepoint) /\ Len(ids) = Len(page)
          /\ \A i \in 1 .. Len(page) : ids[i] = timepoints[walk.offset + i].id
      <3>1. DOMAIN page = 1 .. Len(page) /\ Len(page) \in Nat
            /\ \A i \in 1 .. Len(page) : page[i].id \in Timepoint
        <4>1. DOMAIN page = 1 .. Len(page) /\ Len(page) \in Nat
              /\ \A i \in 1 .. Len(page) : page[i] \in Entry
          BY <2>2
        <4> QED
          BY <4>1 DEF Entry
      <3>2. ids \in [1 .. Len(page) -> Timepoint]
        BY <3>1
      <3>3. ids \in Seq(Timepoint)
        BY <3>1, <3>2, SeqDef
      <3> QED
        BY <2>2, <3>1, <3>2, <3>3
    <2> HIDE DEF ids
    <2> DEFINE got == walk.got \o ids
    <2>5. /\ got \in Seq(Timepoint) /\ Len(got) = walk.offset + Len(page)
          /\ \A i \in 1 .. walk.offset + Len(page) : got[i] = timepoints[i].id
      <3>1. /\ got \in Seq(Timepoint) /\ Len(got) = Len(walk.got) + Len(ids)
            /\ \A i \in 1 .. Len(walk.got) + Len(ids) :
                 got[i] = IF i <= Len(walk.got) THEN walk.got[i]
                          ELSE ids[i - Len(walk.got)]
        BY <2>1, <2>4, ConcatProperties
      <3>2. ASSUME NEW i \in 1 .. walk.offset + Len(page)
            PROVE  got[i] = timepoints[i].id
        <4> HIDE DEF got
        <4>1. Len(page) \in Nat
          BY <2>2
        <4>2. CASE i <= walk.offset
          BY <2>1, <2>4, <3>1, <4>1, <4>2
        <4>3. CASE i > walk.offset
          <5>1. i - walk.offset \in 1 .. Len(page)
                /\ walk.offset + (i - walk.offset) = i
            BY <2>1, <4>1, <4>3
          <5>2. got[i] = ids[i - walk.offset]
            BY <2>1, <2>4, <3>1, <4>1, <4>3
          <5> QED
            BY <2>4, <5>1, <5>2
        <4> QED
          BY <2>1, <4>1, <4>2, <4>3
      <3> QED
        BY <2>1, <2>4, <3>1, <3>2
    <2> HIDE DEF got
    <2>6. CASE Len(page) = Limit
      <3> DEFINE new == [walk EXCEPT !.offset = @ + Limit, !.got = @ \o ids]
      <3>1. /\ new \in [offset : Nat \union {-1, -2}, got : Seq(Timepoint),
                        had : SUBSET Timepoint]
            /\ new.offset = walk.offset + Limit /\ new.got = got
            /\ new.had = walk.had
        <4>1. walk \in [offset : Nat \union {-1, -2}, got : Seq(Timepoint),
                        had : SUBSET Timepoint]
          BY DEF IInv, Typed
        <4>2. walk.offset + Limit \in Nat
          BY <2>1, LimitAssumption
        <4> QED
          BY <2>5, <4>1, <4>2 DEF got
      <3>2. walk' = new /\ timepoints' = timepoints
        BY <1>1, <2>3, <2>6, LimitAssumption DEF tables
      <3> HIDE DEF new
      <3>3. /\ new.offset = walk.offset + Len(page) /\ new.offset \in Nat
            /\ new.offset <= Len(timepoints) /\ Len(new.got) = new.offset
            /\ \A i \in 1 .. new.offset : new.got[i] = timepoints[i].id
            /\ new.had \subseteq Ids(timepoints)
        <4>1. new.offset = walk.offset + Len(page) /\ new.offset \in Nat
          BY <2>1, <2>6, <3>1, LimitAssumption
        <4>2. new.offset <= Len(timepoints)
          BY <2>2, <4>1
        <4>3. Len(new.got) = new.offset
              /\ \A i \in 1 .. new.offset : new.got[i] = timepoints[i].id
          BY <2>5, <3>1, <4>1
        <4> QED
          BY <2>1, <3>1, <4>1, <4>2, <4>3
      <3>4. Walked'
        BY <3>2, <3>3 DEF Walked
      <3> QED
        BY <1>3, <3>1, <3>2, <3>4 DEF IInv
    <2>7. CASE Len(page) < Limit
      <3> DEFINE new == [walk EXCEPT !.offset = -2, !.got = @ \o ids]
      <3>1. /\ new \in [offset : Nat \union {-1, -2}, got : Seq(Timepoint),
                        had : SUBSET Timepoint]
            /\ new.offset = -2 /\ new.got = got /\ new.had = walk.had
        BY <2>1, <2>5 DEF got, IInv, Typed
      <3>2. walk' = new /\ timepoints' = timepoints
        BY <1>1, <2>2, <2>3, <2>7, LimitAssumption DEF tables
      <3> HIDE DEF new
      <3>3. Len(got) = Len(timepoints) /\ DOMAIN got = 1 .. Len(timepoints)
            /\ \A i \in 1 .. Len(timepoints) : got[i] = timepoints[i].id
        BY <2>2, <2>5, <2>7
      <3>4. IsInjective(got)
        <4>1. Distinct(timepoints)
          BY DEF IInv, Typed
        <4> QED
          BY <1>2, <3>3, <4>1 DEF IsInjective, Distinct
      <3>5. walk.had \subseteq ToSet(got)
        <4> SUFFICES ASSUME NEW x \in walk.had PROVE x \in ToSet(got)
          OBVIOUS
        <4>1. PICK i \in 1 .. Len(timepoints) : x = timepoints[i].id
          BY <1>2, <2>1 DEF Ids, ToSet
        <4> QED
          BY <3>3, <4>1 DEF ToSet
      <3>6. Walked'
        BY <3>1, <3>2, <3>4, <3>5 DEF Walked
      <3> QED
        BY <1>3, <3>1, <3>2, <3>6 DEF IInv
    <2> QED
      BY <2>3, <2>6, <2>7
  <1>6. CASE EndWalk
    <2>1. walk' = NoWalk
      BY <1>6 DEF EndWalk
    <2>2. NoWalk \in [offset : Nat \union {-1, -2}, got : Seq(Timepoint),
                      had : SUBSET Timepoint]
          /\ NoWalk.offset = -1 /\ NoWalk.got = <<>>
      BY DEF NoWalk
    <2> QED
      BY <1>3, <2>1, <2>2 DEF IInv, Walked
  <1> QED
    BY <1>4, <1>5, <1>6

LEMMA RestartIInv ==
  ASSUME IInv, Restart
  PROVE  IInv'
  <1>1. /\ ToSet(<<>>) = {} /\ IsInjective(<<>>) /\ Distinct(<<>>)
    BY DEF ToSet, IsInjective, Distinct
  <1>2. restarts' \in 0 .. MaxRestarts
    BY RestartsAssumption DEF Restart, IInv, Typed
  <1>3. NoWalk \in [offset : Nat \union {-1, -2}, got : Seq(Timepoint),
                    had : SUBSET Timepoint]
        /\ NoWalk.offset = -1 /\ NoWalk.got = <<>>
    BY DEF NoWalk
  <1> QED
    BY <1>1, <1>2, <1>3 DEF Restart, IInv, Typed, Walked, Stored, Distinct

LEMMA NextIInv == IInv /\ [Next]_vars => IInv'
  <1> SUFFICES ASSUME IInv, [Next]_vars PROVE IInv'
    OBVIOUS
  <1>1. CASE UNCHANGED vars
    BY <1>1 DEF vars, IInv, Typed, Walked, Stored
  <1> QED
    BY <1>1, PostTimepointIInv, DomainIInv, FileIInv, WalkIInv, RestartIInv DEF Next

LEMMA Invariance == Spec => []IInv
  BY InitIInv, NextIInv, PTL DEF Spec

------------------------------------------------------------------------------
(* Theorems *)

\* The Maps have one entry per key and their events one entry per fact.
THEOREM TypeCorrect == Spec => []TypeOK
  <1>1. IInv => TypeOK
    <2> SUFFICES ASSUME IInv PROVE TypeOK
      OBVIOUS
    <2>1. ToSet(timepoints) \subseteq Entry
      BY DEF IInv, Typed, ToSet
    <2>2. walk.offset \in Nat \union {-1, -2}
      BY DEF IInv, Typed
    <2> QED
      BY <2>1, <2>2 DEF IInv, Typed, TypeOK, Entry, Distinct
  <1> QED
    BY <1>1, Invariance, PTL

\* A client that pages through the timepoints while others post gets every
\* timepoint that was there when it began, and none twice, for every page size.
THEOREM WalkIsComplete == Spec => []WalkSeesAll
  <1>1. IInv => WalkSeesAll
    <2> SUFFICES ASSUME IInv PROVE WalkSeesAll
      OBVIOUS
    <2>1. CASE walk.offset \in Nat
      <3>1. /\ DOMAIN walk.got = 1 .. walk.offset /\ walk.offset <= Len(timepoints)
            /\ \A i \in 1 .. walk.offset : walk.got[i] = timepoints[i].id
        BY <2>1 DEF IInv, Typed, Walked
      <3>2. DOMAIN timepoints = 1 .. Len(timepoints) /\ Len(timepoints) \in Nat
            /\ Distinct(timepoints)
        BY DEF IInv, Typed
      <3>3. IsInjective(walk.got)
        BY <2>1, <3>1, <3>2 DEF IsInjective, Distinct
      <3> QED
        BY <2>1, <3>3 DEF WalkSeesAll
    <2>2. CASE walk.offset \in {-1, -2}
      BY <2>2 DEF IInv, Walked, WalkSeesAll, IsInjective
    <2> QED
      BY <2>1, <2>2 DEF IInv, Typed
  <1> QED
    BY <1>1, Invariance, PTL

------------------------------------------------------------------------------
(* Refinement *)

stateOfDomain(d) == IF d \notin domains THEN "absent"
                    ELSE IF Published(d) THEN "published" ELSE "draft"
stateOfFile(f)   == IF ~ Stored(f) THEN "absent"
                    ELSE IF Tombstoned(f) THEN "gone" ELSE "stored"

domainState == [d \in Domain |-> stateOfDomain(d)]
fileState   == [f \in Cgfi |-> stateOfFile(f)]

LEMMA DomainMoves ==
  ASSUME IInv, NEW d \in Domain, PostDomain(d) \/ Publish(d)
  PROVE  Store!Next \/ UNCHANGED <<domainState, fileState>>
  <1>1. fileState' = fileState
    BY DEF fileState, stateOfFile, Stored, Tombstoned, PostDomain, Publish
  <1>2. CASE PostDomain(d)
    <2>1. domains' = domains \union {d} /\ domainEvents' = domainEvents
      BY <1>2 DEF PostDomain
    <2>2. CASE d \in domains
      <3>1. domains' = domains
        BY <2>1, <2>2
      <3> QED
        BY <1>1, <2>1, <3>1 DEF domainState, stateOfDomain, Published
    <2>3. CASE d \notin domains
      <3>1. ~ Published(d) /\ ~ Published(d)'
        BY <2>1, <2>3 DEF IInv, Typed, Published
      <3>2. stateOfDomain(d) = "absent" /\ stateOfDomain(d)' = "draft"
            /\ \A e \in Domain \ {d} : stateOfDomain(e)' = stateOfDomain(e)
        BY <2>1, <2>3, <3>1 DEF stateOfDomain, Published
      <3>3. /\ domainState' = [domainState EXCEPT ![d] = "draft"]
            /\ domainState[d] = "absent"
        BY <3>2 DEF domainState
      <3> QED
        BY <1>1, <3>3 DEF Store!Next, Store!MoveDomain, domainState, stateOfDomain,
                          fileState, stateOfFile
    <2> QED
      BY <2>2, <2>3
  <1>3. CASE Publish(d)
    <2>1. /\ domains' = domains /\ d \in domains /\ ~ Published(d)
          /\ ToSet(domainEvents') = ToSet(domainEvents) \union {d}
      BY <1>3, AppendNew DEF Publish, IInv, Typed
    <2>2. Published(d)' /\ \A e \in Domain \ {d} : Published(e)' = Published(e)
      BY <2>1 DEF Published
    <2>3. stateOfDomain(d) = "draft" /\ stateOfDomain(d)' = "published"
          /\ \A e \in Domain \ {d} : stateOfDomain(e)' = stateOfDomain(e)
      BY <2>1, <2>2 DEF stateOfDomain
    <2>4. /\ domainState' = [domainState EXCEPT ![d] = "published"]
          /\ domainState[d] = "draft"
      BY <2>3 DEF domainState
    <2> QED
      BY <1>1, <2>4 DEF Store!Next, Store!MoveDomain, domainState, stateOfDomain,
                        fileState, stateOfFile
  <1> QED
    BY <1>2, <1>3

LEMMA FileMoves ==
  ASSUME IInv, NEW f \in Cgfi,
         DeleteFile(f) \/ \E md \in Metadata : PostFile(f, md)
  PROVE  Store!Next \/ UNCHANGED <<domainState, fileState>>
  <1>1. domainState' = domainState
    BY DEF domainState, stateOfDomain, Published, DeleteFile, PostFile
  \* A step that changes the state of f alone moves it.
  <1>2. ASSUME \A e \in Cgfi \ {f} : stateOfFile(e)' = stateOfFile(e),
               \/ stateOfFile(f) = "absent" /\ stateOfFile(f)' = "stored"
               \/ stateOfFile(f) = "stored" /\ stateOfFile(f)' = "gone"
               \/ stateOfFile(f)' = stateOfFile(f)
        PROVE  Store!Next \/ UNCHANGED <<domainState, fileState>>
    <2>1. /\ fileState' = [fileState EXCEPT ![f] = stateOfFile(f)']
          /\ fileState[f] = stateOfFile(f)
      BY <1>2 DEF fileState
    <2>2. CASE stateOfFile(f)' = stateOfFile(f)
      BY <1>1, <1>2, <2>2 DEF fileState
    <2>3. CASE stateOfFile(f) = "absent" /\ stateOfFile(f)' = "stored"
      BY <1>1, <2>1, <2>3 DEF Store!Next, Store!MoveFile, domainState, stateOfDomain,
                              fileState, stateOfFile
    <2>4. CASE stateOfFile(f) = "stored" /\ stateOfFile(f)' = "gone"
      BY <1>1, <2>1, <2>4 DEF Store!Next, Store!MoveFile, domainState, stateOfDomain,
                              fileState, stateOfFile
    <2> QED
      BY <1>2, <2>2, <2>3, <2>4
  <1>3. CASE DeleteFile(f)
    <2>1. manifests' = manifests
      BY <1>3 DEF DeleteFile
    <2>2. CASE fileEvents' = fileEvents
      BY <1>2, <2>1, <2>2 DEF stateOfFile, Stored, Tombstoned
    <2>3. CASE Stored(f) /\ ~ Tombstoned(f) /\ fileEvents' = Append(fileEvents, f)
      <3>1. ToSet(fileEvents') = ToSet(fileEvents) \union {f}
        BY <2>3, AppendNew DEF IInv, Typed
      <3> QED
        BY <1>2, <2>1, <2>3, <3>1 DEF stateOfFile, Stored, Tombstoned
    <2> QED
      BY <1>3, <2>2, <2>3 DEF DeleteFile
  <1>4. ASSUME NEW md \in Metadata, PostFile(f, md)
        PROVE  Store!Next \/ UNCHANGED <<domainState, fileState>>
    <2> DEFINE new == [id |-> f, metadata |-> md]
    <2>1. new.id = f
      OBVIOUS
    <2>2. manifests' = {m \in manifests : m.id # f} \union {new}
          /\ fileEvents' = fileEvents
      BY <1>4 DEF PostFile
    <2> HIDE DEF new
    <2>3. Stored(f)' /\ \A e \in Cgfi \ {f} : Stored(e)' = Stored(e)
      BY <2>1, <2>2 DEF Stored
    <2>4. Tombstoned(f) => Stored(f)
      BY DEF IInv, Typed, Tombstoned
    <2>5. \A e \in Cgfi : Tombstoned(e)' = Tombstoned(e)
      BY <2>2 DEF Tombstoned
    <2> QED
      BY <1>2, <2>3, <2>4, <2>5 DEF stateOfFile
  <1> QED
    BY <1>3, <1>4

\* Every behaviour of the Maps is one of the abstract store that may forget
\* everything at once, and nothing else: a deleted file stays gone.
THEOREM MapsImplementStore == Spec => ImplementsStore
  <1>1. Init => Store!Init
    BY DEF Init, Empty, Store!Init, Stored
  <1>2. IInv /\ [Next]_vars => [Store!Next]_<<domainState, fileState>>
    <2> SUFFICES ASSUME IInv, [Next]_vars
                 PROVE  Store!Next \/ UNCHANGED <<domainState, fileState>>
      OBVIOUS
    <2>1. ASSUME UNCHANGED <<domains, domainEvents, manifests, fileEvents>>
          PROVE  UNCHANGED <<domainState, fileState>>
      BY <2>1 DEF domainState, fileState, stateOfDomain, stateOfFile, Published,
                  Stored, Tombstoned
    <2>2. CASE \E t \in Timepoint, l \in Labels : PostTimepoint(t, l)
      BY <2>1, <2>2 DEF PostTimepoint
    <2>3. CASE \E d \in Domain : PublishThrows(d)
      BY <2>1, <2>3 DEF PublishThrows, tables
    <2>4. CASE BeginWalk \/ ListTimepoints \/ EndWalk
      BY <2>1, <2>4 DEF BeginWalk, ListTimepoints, EndWalk, tables
    <2>5. CASE Restart
      <3>1. domains' = {} /\ manifests' = {}
        BY <2>5 DEF Restart
      <3> QED
        BY <3>1 DEF Store!Next, Store!Forget, Stored
    <2>6. CASE UNCHANGED vars
      BY <2>1, <2>6 DEF vars
    <2> QED
      BY <2>2, <2>3, <2>4, <2>5, <2>6, DomainMoves, FileMoves DEF Next
  <1>3. IInv /\ [Next]_vars => [Store!Next]_Store!storeVars
    BY <1>2 DEF Store!storeVars, domainState, fileState, stateOfDomain, stateOfFile
  <1> QED
    BY <1>1, <1>3, Invariance, PTL DEF Spec, ImplementsStore, Store!Spec
==============================================================================
