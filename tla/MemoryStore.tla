----------------------------- MODULE MemoryStore -----------------------------
(***************************************************************************)
(* The in-memory repositories of packages/cg-storage/src/repository.ts for *)
(* timepoints, domains and manifests, as the handlers of apps/cg-api use   *)
(* them.  A repository method runs to its end before another starts, so    *)
(* each call is one step.  A client that pages through GET /v1/timepoints  *)
(* makes one call per page; other calls come between.                      *)
(***************************************************************************)
EXTENDS Integers, Sequences, SequencesExt

CONSTANTS
  Timepoint,    \* machine ids: hashes of domain, version and value
  Labels,       \* what a timepoint carries besides what its id is made of
  Domain,       \* names with version
  Cgfi,         \* file ids: hashes of timepoint, content hash and type
  Metadata,     \* what a file carries besides what its id is made of
  Limit,        \* page size of the walk
  MaxRestarts   \* bound: restarts of the process

ASSUME LimitAssumption    == Limit \in Nat \ {0}
ASSUME RestartsAssumption == MaxRestarts \in Nat

VARIABLES
  timepoints,     \* the Map of timepoints: its entries in insertion order
  domains,        \* keys of the Map of domains
  domainEvents,   \* its _events: published domains, in order
  manifests,      \* the Map of manifests, as a set of entries
  fileEvents,     \* its _events: tombstoned files, in order
  reply,          \* how the last call ended
  walk,           \* the client that pages through the timepoints
  restarts        \* restarts of the process so far

tables == <<timepoints, domains, domainEvents, manifests, fileEvents>>
vars   == <<timepoints, domains, domainEvents, manifests, fileEvents,
            reply, walk, restarts>>

------------------------------------------------------------------------------
(* Helpers *)

Ids(entries) == {e.id : e \in ToSet(entries)}

SetAndMove(entries, entry) ==
  Append(SelectSeq(entries, LAMBDA e : e.id # entry.id), entry)
SetTwice(entries, entry) == Append(entries, entry)
\* Map.set: a key that is there keeps its place and gets the new value.
MapSet(entries, entry) ==
  IF entry.id \in Ids(entries)
  THEN [i \in DOMAIN entries |->
          IF entries[i].id = entry.id THEN entry ELSE entries[i]]
  ELSE Append(entries, entry)

\* timepoints.list(l, o): [...s.values()].slice(o, o + l)
ListPage(offset) ==
  SubSeq(timepoints, offset + 1,
         IF offset + Limit < Len(timepoints) THEN offset + Limit
         ELSE Len(timepoints))

Published(d)  == d \in ToSet(domainEvents)
Tombstoned(f) == f \in ToSet(fileEvents)
Stored(f)     == \E m \in manifests : m.id = f

NoWalk == [offset |-> -1, got |-> <<>>, had |-> {}]

------------------------------------------------------------------------------
(* Calls *)

Empty ==
  /\ timepoints = <<>>
  /\ domains = {} /\ domainEvents = <<>>
  /\ manifests = {} /\ fileEvents = <<>>

Init == Empty /\ reply = "none" /\ walk = NoWalk /\ restarts = 0

\* postTimepoints: the entry of a machine id is replaced.
PostTimepoint(t, l) ==
  /\ timepoints' = MapSet(timepoints, [id |-> t, labels |-> l])
  /\ reply' = "created"
  /\ UNCHANGED <<domains, domainEvents, manifests, fileEvents, walk, restarts>>

\* postDomain: insert throws duplicateName.
PostDomain(d) ==
  /\ domains' = domains \union {d}
  /\ reply' = IF d \in domains THEN "duplicateName" ELSE "created"
  /\ UNCHANGED <<timepoints, domainEvents, manifests, fileEvents, walk, restarts>>

Publish(d) ==
  /\ d \in domains /\ ~ Published(d)
  /\ domainEvents' = Append(domainEvents, d)
  /\ reply' = "published"
  /\ UNCHANGED <<timepoints, domains, manifests, fileEvents, walk, restarts>>

PublishThrows(d) ==
  /\ \/ d \notin domains /\ reply' = "versionNotFound"
     \/ d \in domains /\ Published(d) /\ reply' = "wormViolation"
  /\ UNCHANGED <<tables, walk, restarts>>

PostFileAnew(f, md) ==
  /\ manifests' = {m \in manifests : m.id # f} \union {[id |-> f, metadata |-> md]}
  /\ fileEvents' = SelectSeq(fileEvents, LAMBDA e : e # f)
  /\ reply' = "created"
  /\ UNCHANGED <<timepoints, domains, domainEvents, walk, restarts>>
\* postFile: Map.set replaces the manifest; the events are left alone.
PostFile(f, md) ==
  /\ manifests' = {m \in manifests : m.id # f} \union {[id |-> f, metadata |-> md]}
  /\ reply' = "created"
  /\ UNCHANGED <<timepoints, domains, domainEvents, fileEvents, walk, restarts>>

\* deleteFile: the event is appended unless it is there.
DeleteFile(f) ==
  /\ \/ /\ Stored(f)
        /\ fileEvents' = IF Tombstoned(f) THEN fileEvents ELSE Append(fileEvents, f)
        /\ reply' = "tombstoned"
     \/ /\ ~ Stored(f)
        /\ reply' = "fileNotFound"
        /\ UNCHANGED fileEvents
  /\ UNCHANGED <<timepoints, domains, domainEvents, manifests, walk, restarts>>

\* A client begins to page through GET /v1/timepoints.
BeginWalk ==
  /\ walk = NoWalk
  /\ walk' = [offset |-> 0, got |-> <<>>, had |-> Ids(timepoints)]
  /\ UNCHANGED <<tables, reply, restarts>>

\* listTimepoints with the next offset; a page that is not full is the last.
ListTimepoints ==
  LET page == ListPage(walk.offset)
      ids  == [i \in DOMAIN page |-> page[i].id]
  IN  /\ walk.offset >= 0
      /\ \/ /\ Len(page) = Limit
            /\ walk' = [walk EXCEPT !.offset = @ + Limit, !.got = @ \o ids]
         \/ /\ Len(page) < Limit
            /\ walk' = [walk EXCEPT !.offset = -2, !.got = @ \o ids]
      /\ UNCHANGED <<tables, reply, restarts>>

EndWalk ==
  /\ walk.offset = -2
  /\ walk' = NoWalk
  /\ UNCHANGED <<tables, reply, restarts>>

\* A new process: every Map is empty, and walks begin again.
Restart ==
  /\ restarts < MaxRestarts
  /\ restarts' = restarts + 1
  /\ timepoints' = <<>>
  /\ domains' = {} /\ domainEvents' = <<>>
  /\ manifests' = {} /\ fileEvents' = <<>>
  /\ reply' = "none"
  /\ walk' = NoWalk

Next ==
  \/ \E t \in Timepoint, l \in Labels : PostTimepoint(t, l)
  \/ \E d \in Domain : PostDomain(d) \/ Publish(d) \/ PublishThrows(d)
  \/ \E f \in Cgfi : DeleteFile(f) \/ \E md \in Metadata : PostFile(f, md)
  \/ BeginWalk \/ ListTimepoints \/ EndWalk
  \/ Restart

Spec == Init /\ [][Next]_vars

------------------------------------------------------------------------------
(* Properties *)

\* Types of the Maps and of the walk; a Map has one entry per key, and an
\* event is written once at most, of an entry that exists.
TypeOK ==
  /\ ToSet(timepoints) \subseteq [id : Timepoint, labels : Labels]
  /\ \A i, j \in DOMAIN timepoints : timepoints[i].id = timepoints[j].id => i = j
  /\ domains \subseteq Domain
  /\ manifests \subseteq [id : Cgfi, metadata : Metadata]
  /\ \A m, k \in manifests : m.id = k.id => m = k
  /\ IsInjective(domainEvents) /\ ToSet(domainEvents) \subseteq domains
  /\ IsInjective(fileEvents) /\ \A f \in ToSet(fileEvents) : Stored(f)
  /\ walk.offset \in Nat \union {-1, -2}
  /\ restarts \in 0..MaxRestarts

\* A client that pages through the timepoints while others post gets every
\* timepoint that was there when it began, and none twice: nothing moves
\* forward or backward over a page boundary, not even what is replaced.
WalkSeesAll ==
  /\ IsInjective(walk.got)
  /\ walk.offset = -2 => walk.had \subseteq ToSet(walk.got)

(* The repositories implement the volatile store. *)
Store ==
  INSTANCE LifecycleStore WITH
    Volatile    <- TRUE,
    domainState <- [d \in Domain |-> IF d \notin domains THEN "absent"
                                     ELSE IF Published(d) THEN "published"
                                     ELSE "draft"],
    fileState   <- [f \in Cgfi |-> IF ~ Stored(f) THEN "absent"
                                   ELSE IF Tombstoned(f) THEN "gone"
                                   ELSE "stored"]

\* Between restarts nothing goes back: a deleted file that is posted again
\* stays gone, although its manifest is replaced by one without tombstone.
ImplementsStore == Store!Spec
==============================================================================
