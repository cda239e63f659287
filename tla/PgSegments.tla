------------------------------ MODULE PgSegments ------------------------------
(***************************************************************************)
(* PgSegmentRepository (packages/cg-storage/src/pg-repository.ts) over the *)
(* tables segments and lifecycle_events of schema.sql, used at once by the *)
(* HTTP requests of one or more server processes.                          *)
(*                                                                         *)
(* Every pool.query is a transaction of its own, so a method is a sequence *)
(* of statements, and other calls run between them.  INSERT ... SELECT ... *)
(* WHERE NOT EXISTS takes two steps: its snapshot, then its commit.        *)
(***************************************************************************)
EXTENDS Integers, Sequences, FiniteSetsExt

CONSTANTS
  Client,      \* calls under way at once, in any process
  Holder,      \* names a segment can be granted to
  SizeNs,      \* sizes callers ask for; the repository checks none
  Clock,       \* values of Date.now() that enter an id
  UnknownId,   \* an id no segment has
  MaxCalls,    \* bound: calls made
  MaxFaults    \* bound: statements that fail and callers that go away

ASSUME SizesAssumption  == SizeNs \subseteq Int
ASSUME BoundsAssumption == MaxCalls \in Nat /\ MaxFaults \in Nat

VARIABLES
  segments,   \* the rows of table segments
  revoked,    \* entity_id of the 'revoked' rows of lifecycle_events, by seq
  pc,         \* pc[c]: the next statement of call c
  call,       \* call[c]: arguments and intermediate values of call c
  answers,    \* what callers were answered, errors apart, in that order
  calls,      \* calls made so far
  faults      \* faults so far

db   == <<segments, revoked>>
vars == <<segments, revoked, pc, call, answers, calls, faults>>

------------------------------------------------------------------------------
(* Data *)

\* A digest stands for what is hashed: `${g}:${base}:${sz}:${Date.now()}`.
NewId(g, base, sz, now) ==
  [granted_by |-> g, base |-> base, size |-> sz, now |-> now]

Row(g, base, sz, now) ==
  [id |-> NewId(g, base, sz, now), base_address |-> base, size_ns |-> sz,
   granted_by |-> g]

StoredIds == {r.id : r \in segments}

End(r) == r.base_address + r.size_ns

NextAfterLast ==
  IF segments = {} THEN 0
  ELSE End(CHOOSE r \in segments :
             \A q \in segments : q.base_address <= r.base_address)
\* SELECT MAX(base_address+size_ns); NULL, for an empty table, becomes 0n.
_next == IF segments = {} THEN 0 ELSE Max({End(r) : r \in segments})

RevokeEvents(id) == {i \in DOMAIN revoked : revoked[i] = id}

StoredStatus(id) == "active"
\* resolve: effective_status of v_segments before the status stored
effective_status(id) == IF RevokeEvents(id) # {} THEN "revoked" ELSE "active"

NoCall == [op |-> "none"]
\* `after`: how many answers had been given when the call started.
NewCall(op, g, sz, id) ==
  [op |-> op, g |-> g, sz |-> sz, id |-> id, base |-> 0, result |-> "none",
   heard |-> TRUE, after |-> Len(answers)]

\* The answers that were given before a call with this `after` started.
Before(after) == {answers[i] : i \in 1..after}

------------------------------------------------------------------------------
(* Calls *)

Init ==
  /\ segments = {}
  /\ revoked = <<>>
  /\ pc = [c \in Client |-> "idle"]
  /\ call = [c \in Client |-> NoCall]
  /\ answers = <<>>
  /\ calls = 0
  /\ faults = 0

Goto(c, statement) == pc' = [pc EXCEPT ![c] = statement]

Start(c, statement, new) ==
  /\ pc[c] = "idle"
  /\ calls < MaxCalls
  /\ calls' = calls + 1
  /\ Goto(c, statement)
  /\ call' = [call EXCEPT ![c] = new]
  /\ UNCHANGED <<segments, revoked, answers, faults>>

\* postSegment; parent_id is stored and never read.
CallAllocate(c) ==
  \E g \in Holder, sz \in SizeNs :
    Start(c, "next", NewCall("allocate", g, sz, UnknownId))
CallRevoke(c) ==
  \E id \in StoredIds \union {UnknownId} :
    Start(c, "snapshot", NewCall("revoke", "none", 0, id))
CallResolve(c) ==
  \E id \in StoredIds \union {UnknownId} :
    Start(c, "select", NewCall("resolve", "none", 0, id))

\* The method of call c is through; its answer is on the way.
Finish(c, id, result) ==
  /\ Goto(c, "answer")
  /\ call' = [call EXCEPT ![c].id = id, ![c].result = result]
  /\ UNCHANGED <<answers, calls, faults>>

\* The handler's reply reaches the caller, if there still is one.
Answer(c) ==
  /\ pc[c] = "answer"
  /\ answers' =
       IF call[c].heard /\ call[c].result # "error"
       THEN Append(answers, [op |-> call[c].op, id |-> call[c].id,
                             result |-> call[c].result, after |-> call[c].after])
       ELSE answers
  /\ Goto(c, "idle")
  /\ call' = [call EXCEPT ![c] = NoCall]
  /\ UNCHANGED <<segments, revoked, calls, faults>>

------------------------------------------------------------------------------
(* Statements *)

\* allocate: const base = await this._next()
ReadNext(c) ==
  /\ pc[c] = "next"
  /\ Goto(c, "insert")
  /\ call' = [call EXCEPT ![c].base = _next]
  /\ UNCHANGED <<segments, revoked, answers, calls, faults>>

InsertOrIgnore(c) ==
  /\ pc[c] = "insert"
  /\ \E now \in Clock :
       LET row == Row(call[c].g, call[c].base, call[c].sz, now)
       IN  /\ segments' = segments \union {row}
           /\ Finish(c, row.id, "granted")
  /\ UNCHANGED revoked
InsertSwapped(c) ==
  /\ pc[c] = "insert"
  /\ \E now \in Clock :
       LET id == NewId(call[c].g, call[c].base, call[c].sz, now)
       IN  \/ /\ id \notin StoredIds
              /\ segments' = segments \union
                   {[id |-> id, base_address |-> call[c].sz,
                     size_ns |-> call[c].base, granted_by |-> call[c].g]}
              /\ Finish(c, id, "granted")
           \/ /\ id \in StoredIds
              /\ Finish(c, UnknownId, "error")
              /\ UNCHANGED segments
  /\ UNCHANGED revoked
\* allocate: INSERT INTO segments; the primary key refuses an id it has.
InsertSegment(c) ==
  /\ pc[c] = "insert"
  /\ \E now \in Clock :
       LET row == Row(call[c].g, call[c].base, call[c].sz, now)
       IN  \/ /\ row.id \notin StoredIds
              /\ segments' = segments \union {row}
              /\ Finish(c, row.id, "granted")
           \/ /\ row.id \in StoredIds
              /\ Finish(c, UnknownId, "error")
              /\ UNCHANGED segments
  /\ UNCHANGED revoked

\* revoke: WHERE NOT EXISTS, on the snapshot of the statement.  Whether the
\* segment exists is not looked at.
SnapshotRevoked(c) ==
  /\ pc[c] = "snapshot"
  /\ \/ /\ RevokeEvents(call[c].id) = {}
        /\ Goto(c, "append")
        /\ UNCHANGED <<call, answers, calls, faults>>
     \/ /\ RevokeEvents(call[c].id) # {}
        /\ Finish(c, call[c].id, "revoked")
  /\ UNCHANGED db

\* revoke: the row the SELECT produced is committed.
AppendRevoked(c) ==
  /\ pc[c] = "append"
  /\ revoked' = Append(revoked, call[c].id)
  /\ Finish(c, call[c].id, "revoked")
  /\ UNCHANGED segments

\* resolve, and so resolveCGUA
SelectSegment(c) ==
  /\ pc[c] = "select"
  /\ Finish(c, call[c].id,
            IF call[c].id \in StoredIds THEN effective_status(call[c].id)
            ELSE "segmentNotFound")
  /\ UNCHANGED db

------------------------------------------------------------------------------
(* Faults *)

\* No connection within connectionTimeoutMillis, or the server refuses the
\* statement: the promise rejects and nothing is stored.
StatementFails(c) ==
  /\ pc[c] \notin {"idle", "answer"}
  /\ faults < MaxFaults
  /\ faults' = faults + 1
  /\ Goto(c, "answer")
  /\ call' = [call EXCEPT ![c].result = "error"]
  /\ UNCHANGED <<segments, revoked, answers, calls>>

\* The caller, the connection or the process of the call is gone; what was
\* sent to the database may still run there.
CallerGone(c) ==
  /\ pc[c] # "idle"
  /\ call[c].heard
  /\ faults < MaxFaults
  /\ faults' = faults + 1
  /\ call' = [call EXCEPT ![c].heard = FALSE]
  /\ UNCHANGED <<segments, revoked, pc, answers, calls>>

\* A process that is gone sends no further statement.
Vanish(c) ==
  /\ pc[c] # "idle"
  /\ ~ call[c].heard
  /\ Goto(c, "idle")
  /\ call' = [call EXCEPT ![c] = NoCall]
  /\ UNCHANGED <<segments, revoked, answers, calls, faults>>

\* All calls of the bound have been made and have ended.
Rest ==
  /\ calls = MaxCalls
  /\ \A c \in Client : pc[c] = "idle"
  /\ UNCHANGED vars

Next ==
  \/ \E c \in Client :
       \/ CallAllocate(c) \/ CallRevoke(c) \/ CallResolve(c)
       \/ ReadNext(c) \/ InsertSegment(c)
       \/ SnapshotRevoked(c) \/ AppendRevoked(c) \/ SelectSegment(c)
       \/ Answer(c)
       \/ StatementFails(c) \/ CallerGone(c) \/ Vanish(c)
  \/ Rest

Spec == Init /\ [][Next]_vars

------------------------------------------------------------------------------
(* Properties *)

Statements ==
  {"idle", "next", "insert", "snapshot", "append", "select", "answer"}

\* Types of the tables and of the calls; an id names the row it is the key of,
\* whose columns are filled from the parameters $1 to $7 of the INSERT.
TypeOK ==
  /\ \A r \in segments :
       /\ r.granted_by \in Holder
       /\ r.size_ns \in SizeNs
       /\ r.base_address \in Int
       /\ r.id.now \in Clock
       /\ r = Row(r.granted_by, r.base_address, r.size_ns, r.id.now)
  /\ pc \in [Client -> Statements]
  /\ \A c \in Client :
       /\ pc[c] = "idle" <=> call[c] = NoCall
       /\ pc[c] \in {"next", "insert"} => call[c].op = "allocate"
       /\ pc[c] \in {"snapshot", "append"} => call[c].op = "revoke"
       /\ pc[c] # "idle" => call[c].after \in 0..Len(answers)
  /\ calls \in 0..MaxCalls
  /\ faults \in 0..MaxFaults

Grants == {i \in DOMAIN answers : answers[i].result = "granted"}

\* No segment is granted to two callers, not even to two that ask for the
\* same holder and size in the same millisecond, and what was granted is
\* stored whatever fails afterwards.
GrantsAreExclusive ==
  \A i \in Grants :
    /\ answers[i].id \in StoredIds
    /\ \A j \in Grants : answers[i].id = answers[j].id => i = j

\* A segment lies behind every segment that somebody had been granted before
\* its own call began: overlaps need calls that overlap in time.
LaterGrantsLieBehind ==
  \A i \in Grants : \A a \in Before(answers[i].after) :
    a.result = "granted" => a.id.base + a.id.size <= answers[i].id.base

\* Once a caller has been told that a segment is revoked, by revoke or by
\* resolve, no call that starts later sees it active, and no revoke that
\* starts later adds a second event ("Idempotent", pg-repository.ts:285),
\* although the check and the insert of one statement are not one step.
RevocationSticks ==
  /\ \A i \in DOMAIN answers :
       answers[i].result = "active" =>
         \A a \in Before(answers[i].after) :
           a.id = answers[i].id => a.result # "revoked"
  /\ \A c \in Client :
       pc[c] = "append" =>
         \A a \in Before(call[c].after) :
           a.id = call[c].id => a.result # "revoked"

\* T-API-047: two segments registered at the same time do not overlap in the
\* address space.  Stated of segments with a positive size.
ConcurrentGrantsDisjoint ==
  \A p, q \in segments :
    p # q /\ p.size_ns > 0 /\ q.size_ns > 0 =>
      End(p) <= q.base_address \/ End(q) <= p.base_address
==============================================================================
