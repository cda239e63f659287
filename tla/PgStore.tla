------------------------------- MODULE PgStore -------------------------------
(***************************************************************************)
(* The timepoint, domain and manifest repositories of                      *)
(* packages/cg-storage/src/pg-repository.ts over the tables of schema.sql, *)
(* with the handlers of apps/cg-api that call them.  A row is only ever    *)
(* inserted: publishing a domain and deleting a file append a row to       *)
(* lifecycle_events, and a read derives the state from those rows.         *)
(*                                                                         *)
(* As in PgSegments every pool.query is a transaction of its own, calls    *)
(* interleave between statements, statements fail, callers go away.        *)
(***************************************************************************)
EXTENDS Integers, Sequences

CONSTANTS
  Client,      \* calls under way at once, in any process
  Timepoint,   \* machine ids: hashes of domain, version and value
  Labels,      \* what a timepoint carries besides what its id is made of
  Domain,      \* names with version
  Cgfi,        \* file ids: hashes of timepoint, content hash and type
  MaxCalls,    \* bound: calls made
  MaxFaults    \* bound: statements that fail and callers that go away

ASSUME BoundsAssumption == MaxCalls \in Nat /\ MaxFaults \in Nat

\* Each kind of key has a table of its own; in lifecycle_events, where they
\* meet, entity_type tells them apart.
ASSUME KeysAssumption ==
  /\ Timepoint \intersect Domain = {}
  /\ Timepoint \intersect Cgfi = {}
  /\ Domain \intersect Cgfi = {}

VARIABLES
  timepoints,   \* timepoints[t]: the labels stored, {} while there is no row
  domains,      \* the keys of table domains
  manifests,    \* the keys of table manifests
  published,    \* published[d]: number of 'published' rows of lifecycle_events
  tombstoned,   \* tombstoned[f]: number of 'tombstoned' rows
  pc,           \* pc[c]: the next statement of call c
  call,         \* call[c]: arguments and result of call c
  answers,      \* what callers were answered, errors apart, in that order
  calls,        \* calls made so far
  faults        \* faults so far

db    == <<timepoints, domains, manifests, published, tombstoned>>
trail == <<answers, calls, faults>>
vars  == <<timepoints, domains, manifests, published, tombstoned,
           pc, call, answers, calls, faults>>

------------------------------------------------------------------------------
(* Derived state *)

\* v_domains.is_published and v_manifests.is_tombstoned: a column that every
\* handler inserts as false, or an event.
is_published(d) == published[d] > 0
storedTombstone(f) == FALSE
is_tombstoned(f) == tombstoned[f] > 0

stateOfDomain(d) ==
  IF d \notin domains THEN "absent"
  ELSE IF is_published(d) THEN "published" ELSE "draft"

stateOfFile(f) ==
  IF f \notin manifests THEN "absent"
  ELSE IF is_tombstoned(f) THEN "gone" ELSE "stored"

------------------------------------------------------------------------------
(* Calls *)

NoCall == [op |-> "none"]

Init ==
  /\ timepoints = [t \in Timepoint |-> {}]
  /\ domains = {} /\ manifests = {}
  /\ published = [d \in Domain |-> 0]
  /\ tombstoned = [f \in Cgfi |-> 0]
  /\ pc = [c \in Client |-> "idle"]
  /\ call = [c \in Client |-> NoCall]
  /\ answers = <<>> /\ calls = 0 /\ faults = 0

\* `after`: how many answers had been given when the call started.
Start(c, op, statement, key, labels) ==
  /\ pc[c] = "idle"
  /\ calls < MaxCalls
  /\ calls' = calls + 1
  /\ pc' = [pc EXCEPT ![c] = statement]
  /\ call' = [call EXCEPT ![c] =
       [op |-> op, key |-> key, labels |-> labels, result |-> "none",
        heard |-> TRUE, after |-> Len(answers)]]
  /\ UNCHANGED <<db, answers, faults>>

PostTimepoint(c) ==
  \E t \in Timepoint, l \in Labels :
    Start(c, "postTimepoint", "insertTimepoint", t, {l})
GetTimepoint(c) ==
  \E t \in Timepoint : Start(c, "getTimepoint", "selectTimepoint", t, {})
PostDomain(c) ==
  \E d \in Domain : Start(c, "postDomain", "insertDomain", d, {})
Publish(c) ==
  \E d \in Domain : Start(c, "publish", "domainExists", d, {})
FindDomain(c) ==
  \E d \in Domain : Start(c, "findDomain", "selectDomain", d, {})
PostFile(c) ==
  \E f \in Cgfi : Start(c, "postFile", "insertManifest", f, {})
DeleteFile(c) ==
  \E f \in Cgfi : Start(c, "deleteFile", "manifestExists", f, {})
GetFile(c) ==
  \E f \in Cgfi : Start(c, "getFile", "selectManifest", f, {})

\* The statement before `statement` is through and left the tables alone.
Goto(c, statement) ==
  /\ pc' = [pc EXCEPT ![c] = statement]
  /\ UNCHANGED <<db, call, trail>>

\* The method of call c is through; its answer is on the way.
Finish(c, result) ==
  /\ pc' = [pc EXCEPT ![c] = "answer"]
  /\ call' = [call EXCEPT ![c].result = result]
  /\ UNCHANGED trail

\* The handler's reply reaches the caller, if there still is one.
Answer(c) ==
  /\ pc[c] = "answer"
  /\ answers' =
       IF call[c].heard /\ call[c].result # "error"
       THEN Append(answers,
              [op |-> call[c].op, key |-> call[c].key, labels |-> call[c].labels,
               result |-> call[c].result, after |-> call[c].after])
       ELSE answers
  /\ pc' = [pc EXCEPT ![c] = "idle"]
  /\ call' = [call EXCEPT ![c] = NoCall]
  /\ UNCHANGED <<db, calls, faults>>

------------------------------------------------------------------------------
(* Statements *)

MergeTimepoint(c) ==
  /\ pc[c] = "insertTimepoint"
  /\ timepoints' = [timepoints EXCEPT ![call[c].key] = @ \union call[c].labels]
  /\ Finish(c, "created")
  /\ UNCHANGED <<domains, manifests, published, tombstoned>>
\* INSERT ... ON CONFLICT DO NOTHING: the first row of an id stays.
InsertTimepoint(c) ==
  /\ pc[c] = "insertTimepoint"
  /\ timepoints' = [timepoints EXCEPT ![call[c].key] =
                      IF @ = {} THEN call[c].labels ELSE @]
  /\ Finish(c, "created")
  /\ UNCHANGED <<domains, manifests, published, tombstoned>>

SelectTimepoint(c) ==
  /\ pc[c] = "selectTimepoint"
  /\ pc' = [pc EXCEPT ![c] = "answer"]
  /\ call' = [call EXCEPT ![c].labels = timepoints[call[c].key],
                          ![c].result = IF timepoints[call[c].key] = {}
                                        THEN "absent" ELSE "read"]
  /\ UNCHANGED <<db, trail>>

InsertAnyDomain(c) ==
  /\ pc[c] = "insertDomain"
  /\ domains' = domains \union {call[c].key}
  /\ Finish(c, "created")
  /\ UNCHANGED <<timepoints, manifests, published, tombstoned>>
\* INSERT INTO domains; UNIQUE (name, version) answers duplicateName.
InsertDomain(c) ==
  /\ pc[c] = "insertDomain"
  /\ domains' = domains \union {call[c].key}
  /\ Finish(c, IF call[c].key \in domains THEN "duplicateName" ELSE "created")
  /\ UNCHANGED <<timepoints, manifests, published, tombstoned>>

\* INSERT INTO manifests; the primary key's error is not translated.
InsertManifest(c) ==
  /\ pc[c] = "insertManifest"
  /\ manifests' = manifests \union {call[c].key}
  /\ Finish(c, IF call[c].key \in manifests THEN "error" ELSE "created")
  /\ UNCHANGED <<timepoints, domains, published, tombstoned>>

\* publish, first statement: SELECT 1 FROM domains
DomainExists(c) ==
  /\ pc[c] = "domainExists"
  /\ \/ call[c].key \in domains /\ Goto(c, "alreadyPublished")
     \/ call[c].key \notin domains /\ Finish(c, "notFound") /\ UNCHANGED db

NotPublishedCheck(c) ==
  /\ pc[c] = "alreadyPublished"
  /\ Goto(c, "insertPublished")
\* publish, second statement: SELECT 1 FROM lifecycle_events
AlreadyPublished(c) ==
  /\ pc[c] = "alreadyPublished"
  /\ \/ ~ is_published(call[c].key) /\ Goto(c, "insertPublished")
     \/ is_published(call[c].key) /\ Finish(c, "wormViolation") /\ UNCHANGED db

\* publish, third statement: nothing but the CHECKs of the table guards it.
InsertPublished(c) ==
  /\ pc[c] = "insertPublished"
  /\ published' = [published EXCEPT ![call[c].key] = @ + 1]
  /\ Finish(c, "published")
  /\ UNCHANGED <<timepoints, domains, manifests, tombstoned>>

\* findByNameVersion; list reads the same view of every row.
SelectDomain(c) ==
  /\ pc[c] = "selectDomain"
  /\ Finish(c, stateOfDomain(call[c].key))
  /\ UNCHANGED db

NoManifestCheck(c) ==
  /\ pc[c] = "manifestExists"
  /\ Goto(c, "tombstoneSnapshot")
\* tombstone, first statement: SELECT 1 FROM manifests
ManifestExists(c) ==
  /\ pc[c] = "manifestExists"
  /\ \/ call[c].key \in manifests /\ Goto(c, "tombstoneSnapshot")
     \/ call[c].key \notin manifests /\ Finish(c, "notFound") /\ UNCHANGED db

\* tombstone, second statement: WHERE NOT EXISTS on the statement's snapshot
TombstoneSnapshot(c) ==
  /\ pc[c] = "tombstoneSnapshot"
  /\ \/ ~ is_tombstoned(call[c].key) /\ Goto(c, "insertTombstoned")
     \/ is_tombstoned(call[c].key) /\ Finish(c, "gone") /\ UNCHANGED db

\* tombstone: the row the SELECT produced is committed.
InsertTombstoned(c) ==
  /\ pc[c] = "insertTombstoned"
  /\ tombstoned' = [tombstoned EXCEPT ![call[c].key] = @ + 1]
  /\ Finish(c, "gone")
  /\ UNCHANGED <<timepoints, domains, manifests, published>>

\* findByCGFI, which getFile answers with 404, 410 or 200
SelectManifest(c) ==
  /\ pc[c] = "selectManifest"
  /\ Finish(c, stateOfFile(call[c].key))
  /\ UNCHANGED db

Statement(c) ==
  \/ InsertTimepoint(c) \/ SelectTimepoint(c)
  \/ InsertDomain(c) \/ SelectDomain(c)
  \/ DomainExists(c) \/ AlreadyPublished(c) \/ InsertPublished(c)
  \/ InsertManifest(c) \/ SelectManifest(c)
  \/ ManifestExists(c) \/ TombstoneSnapshot(c) \/ InsertTombstoned(c)

------------------------------------------------------------------------------
(* Faults *)

\* No connection within connectionTimeoutMillis, or the server refuses the
\* statement: the promise rejects and nothing is stored.
StatementFails(c) ==
  /\ pc[c] \notin {"idle", "answer"}
  /\ faults < MaxFaults
  /\ faults' = faults + 1
  /\ pc' = [pc EXCEPT ![c] = "answer"]
  /\ call' = [call EXCEPT ![c].result = "error"]
  /\ UNCHANGED <<db, answers, calls>>

\* The caller, the connection or the process of the call is gone; what was
\* sent to the database may still run there.
CallerGone(c) ==
  /\ pc[c] # "idle"
  /\ call[c].heard
  /\ faults < MaxFaults
  /\ faults' = faults + 1
  /\ call' = [call EXCEPT ![c].heard = FALSE]
  /\ UNCHANGED <<db, pc, answers, calls>>

\* A process that is gone sends no further statement.
Vanish(c) ==
  /\ pc[c] # "idle"
  /\ ~ call[c].heard
  /\ pc' = [pc EXCEPT ![c] = "idle"]
  /\ call' = [call EXCEPT ![c] = NoCall]
  /\ UNCHANGED <<db, trail>>

\* All calls of the bound have been made and have ended.
Rest ==
  /\ calls = MaxCalls
  /\ \A c \in Client : pc[c] = "idle"
  /\ UNCHANGED vars

Next ==
  \/ \E c \in Client :
       \/ PostTimepoint(c) \/ GetTimepoint(c)
       \/ PostDomain(c) \/ Publish(c) \/ FindDomain(c)
       \/ PostFile(c) \/ DeleteFile(c) \/ GetFile(c)
       \/ Statement(c) \/ Answer(c)
       \/ StatementFails(c) \/ CallerGone(c) \/ Vanish(c)
  \/ Rest

Spec == Init /\ [][Next]_vars

------------------------------------------------------------------------------
(* Properties *)

Keys == Timepoint \union Domain \union Cgfi

\* Types of the tables; a call that checks or appends an event names a key
\* of its own table.
TypeOK ==
  /\ timepoints \in [Timepoint -> {{}} \union {{l} : l \in Labels}]
  /\ domains \subseteq Domain
  /\ manifests \subseteq Cgfi
  /\ published \in [Domain -> Nat]
  /\ tombstoned \in [Cgfi -> Nat]
  /\ \A c \in Client :
       /\ pc[c] \in {"insertDomain", "selectDomain", "domainExists",
                     "alreadyPublished", "insertPublished"} =>
            call[c].key \in Domain
       /\ pc[c] \in {"insertManifest", "selectManifest", "manifestExists",
                     "tombstoneSnapshot", "insertTombstoned"} =>
            call[c].key \in Cgfi
       /\ pc[c] \in {"insertTimepoint", "selectTimepoint"} =>
            call[c].key \in Timepoint
       /\ pc[c] = "insertTimepoint" => \E l \in Labels : call[c].labels = {l}
       /\ pc[c] # "idle" => call[c].after \in 0..Len(answers)
  /\ calls \in 0..MaxCalls
  /\ faults \in 0..MaxFaults

\* The answers about `key` given before a call with this `after` started.
Before(key, after) == {a \in {answers[i] : i \in 1..after} : a.key = key}

\* Of all the callers that post one domain (name@version), or one file, at
\* most one is told that it was created.
OneCreator ==
  \A i, j \in DOMAIN answers :
    /\ answers[i].op = answers[j].op
    /\ answers[i].op \in {"postDomain", "postFile"}
    /\ answers[i].key = answers[j].key
    /\ answers[i].result = "created" /\ answers[j].result = "created"
    => i = j

\* A publish that starts when somebody has been told that the domain is
\* published does not succeed (wormViolation, I-S1).
PublishRejectsKnown ==
  \A i \in DOMAIN answers :
    answers[i].op = "publish" /\ answers[i].result = "published" =>
      \A a \in Before(answers[i].key, answers[i].after) : a.result # "published"

\* How far a result shows a domain or a file to have come.
Progress(result) ==
  CASE result \in {"absent", "notFound"}                   -> 0
    [] result \in {"draft", "stored", "created", "duplicateName"} -> 1
    [] result \in {"published", "gone", "wormViolation"}   -> 2

\* No read falls behind an answer given before it started: no 404 after a
\* 201, no 200 after a delete was answered, no draft after a publish, and
\* never other labels of a timepoint than those read before (I-S1), whatever
\* failed, was retried or was posted again in between.
ReadsNeverRegress ==
  \A i \in DOMAIN answers : \A a \in Before(answers[i].key, answers[i].after) :
    /\ answers[i].op \in {"findDomain", "getFile"} =>
         Progress(a.result) <= Progress(answers[i].result)
    /\ answers[i].op = "getTimepoint" =>
         \/ a.op = "postTimepoint" /\ answers[i].result = "read"
         \/ a.op = "getTimepoint" /\ a.result = "absent"
         \/ a.op = "getTimepoint" /\ a.labels = answers[i].labels

(* The tables implement the store that never forgets. *)
Store ==
  INSTANCE LifecycleStore WITH
    Volatile    <- FALSE,
    domainState <- [d \in Domain |-> stateOfDomain(d)],
    fileState   <- [f \in Cgfi |-> stateOfFile(f)]

\* Whatever interleaves and fails, the derived states move as the abstract
\* store's do: an event written twice is a stutter, none precedes its row.
ImplementsStore == Store!Spec
==============================================================================
