--------------------------- MODULE PgSegmentsProofs ----------------------------
(***************************************************************************)
(* Theorems about PgSegments, for all clients, holders, sizes, clocks and   *)
(* bounds: type correctness, exclusive grants, later grants that lie behind *)
(* and revocation that sticks.  As in PgStoreProofs an answer, given or on  *)
(* its way, says nothing the tables have not come to; the order of grants   *)
(* rests on MAX being taken after the call began.                           *)
(***************************************************************************)
EXTENDS PgSegments, TLAPS

Ids == [granted_by : Holder, base : Int, size : SizeNs, now : Clock]
Id  == Ids \union {UnknownId}

Results == {"none", "error", "granted", "revoked", "active", "segmentNotFound"}
Ops     == {"allocate", "revoke", "resolve"}

Call ==
  [op : Ops, g : Holder \union {"none"}, sz : SizeNs \union {0}, id : Id,
   base : Int, result : Results, heard : BOOLEAN, after : Nat]
Reply == [op : Ops, id : Id, result : Results, after : Nat]

Segment == [id : Ids, base_address : Int, size_ns : SizeNs, granted_by : Holder]

\* A call that is about to send `statement`, or to be answered.
Fits(statement, r) ==
  /\ r \in Call
  /\ statement \in {"next", "insert"} =>
       r.op = "allocate" /\ r.g \in Holder /\ r.sz \in SizeNs
  /\ statement \in {"snapshot", "append"} => r.op = "revoke"
  /\ statement = "select" => r.op = "resolve"

\* MAX has something to find.
LastEnds ==
  segments # {} => \E r \in segments : \A q \in segments : End(q) <= End(r)

Shape ==
  /\ segments \subseteq Segment
  /\ \A r \in segments :
       r.id = NewId(r.granted_by, r.base_address, r.size_ns, r.id.now)
  /\ LastEnds
  /\ revoked \in Seq(Id)
  /\ pc \in [Client -> Statements]
  /\ call \in [Client -> {NoCall} \union Call]
  /\ \A c \in Client :
       /\ pc[c] = "idle" => call[c] = NoCall
       /\ pc[c] # "idle" => Fits(pc[c], call[c]) /\ call[c].after <= Len(answers)
  /\ answers \in Seq(Reply)
  /\ calls \in 0 .. MaxCalls
  /\ faults \in 0 .. MaxFaults

------------------------------------------------------------------------------
(* Type correctness *)

LEMMA SegmentIs ==
  ASSUME NEW r \in Segment
  PROVE  /\ r.id \in Ids /\ r.base_address \in Int /\ r.size_ns \in Int
         /\ r.size_ns \in SizeNs /\ r.granted_by \in Holder /\ End(r) \in Int
         /\ r.id.now \in Clock
  <1>1. /\ r.id \in Ids /\ r.base_address \in Int
        /\ r.size_ns \in SizeNs /\ r.granted_by \in Holder
    BY DEF Segment
  <1>2. r.size_ns \in Int
    BY <1>1, SizesAssumption
  <1>3. End(r) \in Int
    BY <1>1, <1>2 DEF End
  <1>4. r.id.now \in Clock
    BY <1>1 DEF Ids
  <1> QED
    BY <1>1, <1>2, <1>3, <1>4

\* _next is an end, of the segment that ends last.
LEMMA NextIsMaximum ==
  ASSUME Shape
  PROVE  _next \in Int /\ \A r \in segments : End(r) <= _next
  <1>1. CASE segments = {}
    BY <1>1 DEF _next
  <1>2. CASE segments # {}
    <2> DEFINE ends == {End(r) : r \in segments}
    <2>1. ends \subseteq Int
      BY SegmentIs DEF Shape
    <2>2. \E m \in ends : \A x \in ends : x <= m
      BY <1>2 DEF Shape, LastEnds
    <2> HIDE DEF ends
    <2>3. Max(ends) \in ends /\ \A x \in ends : x <= Max(ends)
      BY <2>1, <2>2 DEF Max
    <2>4. _next = Max(ends)
      BY <1>2 DEF _next, ends
    <2> QED
      BY <2>1, <2>3, <2>4 DEF ends
  <1> QED
    BY <1>1, <1>2

LEMMA InitShape == Init => Shape
  BY BoundsAssumption DEF Init, Shape, Statements, LastEnds

\* What a step of one call does to pc and call.
LEMMA MoveShape ==
  ASSUME Shape, NEW c \in Client, NEW next \in Statements,
         NEW new \in {NoCall} \union Call,
         pc' = [pc EXCEPT ![c] = next], call' = [call EXCEPT ![c] = new],
         next = "idle" => new = NoCall,
         next # "idle" => Fits(next, new) /\ new.after <= Len(answers),
         Len(answers) <= Len(answers'), answers' \in Seq(Reply)
  PROVE  /\ pc' \in [Client -> Statements]
         /\ call' \in [Client -> {NoCall} \union Call]
         /\ \A d \in Client :
              /\ pc'[d] = "idle" => call'[d] = NoCall
              /\ pc'[d] # "idle" =>
                   Fits(pc'[d], call'[d]) /\ call'[d].after <= Len(answers')
         /\ pc'[c] = next /\ call'[c] = new
         /\ \A d \in Client : d # c => pc'[d] = pc[d] /\ call'[d] = call[d]
  <1>1. /\ pc' \in [Client -> Statements]
        /\ call' \in [Client -> {NoCall} \union Call]
        /\ pc'[c] = next /\ call'[c] = new
        /\ \A d \in Client : d # c => pc'[d] = pc[d] /\ call'[d] = call[d]
    BY DEF Shape
  <1>2. Len(answers) \in Nat /\ Len(answers') \in Nat
    BY DEF Shape
  <1>3. ASSUME NEW d \in Client
        PROVE  /\ pc'[d] = "idle" => call'[d] = NoCall
               /\ pc'[d] # "idle" =>
                    Fits(pc'[d], call'[d]) /\ call'[d].after <= Len(answers')
    <2>1. CASE d = c
      <3>1. next # "idle" => new.after \in Nat
        BY DEF Fits, Call
      <3> QED
        BY <1>1, <1>2, <2>1, <3>1
    <2>2. CASE d # c
      <3>1. pc[d] # "idle" => call[d].after \in Nat
        BY DEF Shape, Fits, Call
      <3> QED
        BY <1>1, <1>2, <2>2, <3>1 DEF Shape
    <2> QED
      BY <2>1, <2>2
  <1> QED
    BY <1>1, <1>3

LEMMA StartIs ==
  ASSUME Shape, NEW c \in Client,
         CallAllocate(c) \/ CallRevoke(c) \/ CallResolve(c)
  PROVE  /\ \E next \in {"next", "snapshot", "select"}, new \in Call :
              /\ pc' = [pc EXCEPT ![c] = next] /\ call' = [call EXCEPT ![c] = new]
              /\ Fits(next, new) /\ new.after = Len(answers) /\ new.result = "none"
         /\ UNCHANGED <<segments, revoked, answers, faults>>
         /\ calls' \in 0 .. MaxCalls
  <1>1. StoredIds \union {UnknownId} \subseteq Id
    BY SegmentIs DEF StoredIds, Id, Shape
  <1>2. Len(answers) \in Nat
    BY DEF Shape
  <1>3. ASSUME NEW g \in Holder, NEW sz \in SizeNs
        PROVE  LET new == NewCall("allocate", g, sz, UnknownId) IN
               /\ new \in Call /\ Fits("next", new)
               /\ new.after = Len(answers) /\ new.result = "none"
    BY <1>2 DEF NewCall, Call, Fits, Ops, Results, Id
  <1>4. ASSUME NEW op \in {"revoke", "resolve"},
               NEW id \in StoredIds \union {UnknownId}
        PROVE  LET new == NewCall(op, "none", 0, id) IN
               /\ new \in Call /\ new.op = op
               /\ new.after = Len(answers) /\ new.result = "none"
    BY <1>1, <1>2 DEF NewCall, Call, Ops, Results
  <1>5. UNCHANGED <<segments, revoked, answers, faults>> /\ calls' \in 0 .. MaxCalls
    BY BoundsAssumption
    DEF CallAllocate, CallRevoke, CallResolve, Start, Shape
  <1>6. CASE CallAllocate(c)
    BY <1>3, <1>5, <1>6 DEF CallAllocate, Start, Goto
  <1>7. CASE CallRevoke(c)
    BY <1>4, <1>5, <1>7 DEF CallRevoke, Start, Goto, Fits
  <1>8. CASE CallResolve(c)
    BY <1>4, <1>5, <1>8 DEF CallResolve, Start, Goto, Fits
  <1> QED
    BY <1>6, <1>7, <1>8

\* The call as Finish leaves it.
Finished(c, id, result) == [call[c] EXCEPT !.id = id, !.result = result]

LEMMA FinishIs ==
  ASSUME Shape, NEW c \in Client, pc[c] # "idle", NEW id \in Id,
         NEW result \in Results, Finish(c, id, result)
  PROVE  LET new == Finished(c, id, result) IN
         /\ new \in Call /\ new.op = call[c].op /\ new.id = id
         /\ new.result = result /\ new.base = call[c].base
         /\ new.heard = call[c].heard /\ new.after = call[c].after
         /\ pc' = [pc EXCEPT ![c] = "answer"] /\ call' = [call EXCEPT ![c] = new]
         /\ Fits("answer", new) /\ new.after <= Len(answers)
         /\ UNCHANGED <<answers, calls, faults>>
  <1>1. call[c] \in Call /\ call[c].after <= Len(answers)
    BY DEF Shape, Fits
  <1> DEFINE new == Finished(c, id, result)
  <1>2. /\ new \in Call /\ new.op = call[c].op /\ new.id = id
        /\ new.result = result /\ new.base = call[c].base
        /\ new.heard = call[c].heard /\ new.after = call[c].after
    BY <1>1 DEF Finished, Call
  <1>3. /\ pc' = [pc EXCEPT ![c] = "answer"] /\ call' = [call EXCEPT ![c] = new]
        /\ UNCHANGED <<answers, calls, faults>>
    BY DEF Finish, Goto, Finished
  <1> HIDE DEF new
  <1>4. Fits("answer", new)
    BY <1>2 DEF Fits
  <1> QED
    BY <1>1, <1>2, <1>3, <1>4 DEF new

LEMMA FinishShape ==
  ASSUME Shape, NEW c \in Client, pc[c] # "idle", NEW id \in Id,
         NEW result \in Results, Finish(c, id, result)
  PROVE  /\ pc' \in [Client -> Statements]
         /\ call' \in [Client -> {NoCall} \union Call]
         /\ \A d \in Client :
              /\ pc'[d] = "idle" => call'[d] = NoCall
              /\ pc'[d] # "idle" =>
                   Fits(pc'[d], call'[d]) /\ call'[d].after <= Len(answers')
         /\ pc'[c] = "answer" /\ call'[c] = Finished(c, id, result)
         /\ \A d \in Client : d # c => pc'[d] = pc[d] /\ call'[d] = call[d]
         /\ UNCHANGED <<answers, calls, faults>>
  <1>1. PICK new \in Call : new = Finished(c, id, result)
    BY FinishIs
  <1>2. /\ pc' = [pc EXCEPT ![c] = "answer"] /\ call' = [call EXCEPT ![c] = new]
        /\ Fits("answer", new) /\ new.after <= Len(answers)
        /\ UNCHANGED <<answers, calls, faults>>
    BY <1>1, FinishIs
  <1>3. answers' \in Seq(Reply) /\ Len(answers) <= Len(answers')
    BY <1>2 DEF Shape
  <1> QED
    BY <1>1, <1>2, <1>3, MoveShape DEF Statements

\* The row that an insert adds.
LEMMA RowIs ==
  ASSUME Shape, NEW c \in Client, pc[c] = "insert", NEW now \in Clock
  PROVE  LET row == Row(call[c].g, call[c].base, call[c].sz, now) IN
         /\ row \in Segment /\ row.id \in Ids
         /\ row.id = NewId(row.granted_by, row.base_address, row.size_ns, row.id.now)
         /\ row.id.base = call[c].base
  <1>1. /\ call[c] \in Call /\ call[c].g \in Holder /\ call[c].sz \in SizeNs
        /\ call[c].base \in Int
    BY DEF Shape, Fits, Call
  <1> QED
    BY <1>1 DEF Row, NewId, Segment, Ids

LEMMA InsertShape ==
  ASSUME Shape, NEW c \in Client, InsertSegment(c)
  PROVE  Shape'
  <1>1. pc[c] = "insert" /\ pc[c] # "idle" /\ revoked' = revoked
    BY DEF InsertSegment
  <1>2. PICK now \in Clock :
          LET row == Row(call[c].g, call[c].base, call[c].sz, now) IN
          \/ /\ row.id \notin StoredIds /\ segments' = segments \union {row}
             /\ Finish(c, row.id, "granted")
          \/ /\ Finish(c, UnknownId, "error") /\ UNCHANGED segments
    BY DEF InsertSegment
  <1>3. PICK row \in Segment :
          /\ row = Row(call[c].g, call[c].base, call[c].sz, now)
          /\ row.id \in Ids
          /\ row.id = NewId(row.granted_by, row.base_address, row.size_ns, row.id.now)
    BY <1>1, RowIs
  <1>4. CASE segments' = segments \union {row} /\ Finish(c, row.id, "granted")
    <2>1. /\ segments' \subseteq Segment
          /\ \A r \in segments' :
               r.id = NewId(r.granted_by, r.base_address, r.size_ns, r.id.now)
      BY <1>3, <1>4 DEF Shape
    <2>2. LastEnds'
      <3>1. \A r \in segments' : End(r) \in Int
        BY <2>1, SegmentIs
      <3>2. CASE segments = {}
        BY <1>4, <3>1, <3>2 DEF LastEnds
      <3>3. CASE segments # {}
        <4>1. PICK r \in segments : \A q \in segments : End(q) <= End(r)
          BY <3>3 DEF Shape, LastEnds
        <4>2. CASE End(row) <= End(r)
          BY <1>4, <4>1, <4>2 DEF LastEnds
        <4>3. CASE End(r) <= End(row)
          <5>1. \A q \in segments' : End(q) <= End(row)
            BY <1>4, <3>1, <4>1, <4>3
          <5> QED
            BY <1>4, <5>1 DEF LastEnds
        <4> QED
          BY <1>4, <3>1, <4>2, <4>3
      <3> QED
        BY <3>2, <3>3
    <2> QED
      BY <1>1, <1>3, <1>4, <2>1, <2>2, FinishShape DEF Id, Results, Shape
  <1>5. CASE Finish(c, UnknownId, "error") /\ segments' = segments
    BY <1>1, <1>5, FinishShape DEF Id, Results, Shape, LastEnds
  <1> QED
    BY <1>2, <1>3, <1>4, <1>5

LEMMA QueryShape ==
  ASSUME Shape, NEW c \in Client,
         ReadNext(c) \/ SnapshotRevoked(c) \/ AppendRevoked(c) \/ SelectSegment(c)
  PROVE  Shape'
  <1>1. pc[c] # "idle"
    BY DEF ReadNext, SnapshotRevoked, AppendRevoked, SelectSegment
  <1>2. Fits(pc[c], call[c]) /\ call[c] \in Call /\ call[c].id \in Id
        /\ call[c].after <= Len(answers)
    BY <1>1 DEF Shape, Fits, Call
  <1>3. segments' = segments
    BY DEF ReadNext, SnapshotRevoked, AppendRevoked, SelectSegment, db
  <1>4. CASE ReadNext(c)
    <2> DEFINE new == [call[c] EXCEPT !.base = _next]
    <2>1. /\ new \in Call /\ Fits("insert", new) /\ new.after = call[c].after
      BY <1>2, <1>4, NextIsMaximum DEF ReadNext, Fits, Call
    <2>2. pc' = [pc EXCEPT ![c] = "insert"] /\ call' = [call EXCEPT ![c] = new]
          /\ UNCHANGED <<revoked, answers, calls, faults>>
      BY <1>4 DEF ReadNext, Goto
    <2> HIDE DEF new
    <2>3. answers' \in Seq(Reply) /\ Len(answers) <= Len(answers')
      BY <2>2 DEF Shape
    <2>4. /\ pc' \in [Client -> Statements]
          /\ call' \in [Client -> {NoCall} \union Call]
          /\ \A d \in Client :
               /\ pc'[d] = "idle" => call'[d] = NoCall
               /\ pc'[d] # "idle" =>
                    Fits(pc'[d], call'[d]) /\ call'[d].after <= Len(answers')
      BY <1>2, <2>1, <2>2, <2>3, MoveShape DEF Statements
    <2> QED
      BY <1>3, <2>2, <2>3, <2>4 DEF Shape, LastEnds
  <1>5. CASE SnapshotRevoked(c) /\ Goto(c, "append")
                               /\ UNCHANGED <<call, answers, calls, faults>>
    <2>1. pc' = [pc EXCEPT ![c] = "append"] /\ call' = [call EXCEPT ![c] = call[c]]
          /\ UNCHANGED <<revoked, answers, calls, faults>>
      BY <1>5 DEF SnapshotRevoked, Goto, db, Shape
    <2>2. Fits("append", call[c])
      BY <1>2, <1>5 DEF SnapshotRevoked, Fits
    <2>3. answers' \in Seq(Reply) /\ Len(answers) <= Len(answers')
      BY <2>1 DEF Shape
    <2>4. /\ pc' \in [Client -> Statements]
          /\ call' \in [Client -> {NoCall} \union Call]
          /\ \A d \in Client :
               /\ pc'[d] = "idle" => call'[d] = NoCall
               /\ pc'[d] # "idle" =>
                    Fits(pc'[d], call'[d]) /\ call'[d].after <= Len(answers')
      BY <1>2, <2>1, <2>2, <2>3, MoveShape DEF Statements
    <2> QED
      BY <1>3, <2>1, <2>3, <2>4 DEF Shape, LastEnds
  <1>6. CASE /\ revoked' \in {revoked, Append(revoked, call[c].id)}
             /\ \E result \in Results : Finish(c, call[c].id, result)
    <2>1. revoked' \in Seq(Id)
      BY <1>2, <1>6 DEF Shape
    <2> QED
      BY <1>1, <1>2, <1>3, <1>6, <2>1, FinishShape DEF Shape, LastEnds
  <1>7. SnapshotRevoked(c) \/ AppendRevoked(c) \/ SelectSegment(c) =>
          \/ SnapshotRevoked(c) /\ Goto(c, "append")
                                /\ UNCHANGED <<call, answers, calls, faults>>
          \/ /\ revoked' \in {revoked, Append(revoked, call[c].id)}
             /\ \E result \in Results : Finish(c, call[c].id, result)
    BY DEF SnapshotRevoked, AppendRevoked, SelectSegment, effective_status, db, Results
  <1> QED
    BY <1>4, <1>5, <1>6, <1>7

\* The reply that Answer records.
ReplyOf(r) == [op |-> r.op, id |-> r.id, result |-> r.result, after |-> r.after]

LEMMA AnswerIs ==
  ASSUME Shape, NEW c \in Client, Answer(c)
  PROVE  /\ call[c] \in Call /\ pc[c] = "answer"
         /\ \/ answers' = answers
            \/ /\ call[c].result # "error"
               /\ answers' = Append(answers, ReplyOf(call[c]))
         /\ ReplyOf(call[c]) \in Reply
         /\ pc' = [pc EXCEPT ![c] = "idle"] /\ call' = [call EXCEPT ![c] = NoCall]
         /\ UNCHANGED <<segments, revoked, calls, faults>>
  <1>1. pc[c] = "answer" /\ call[c] \in Call
    BY DEF Answer, Shape, Fits
  <1>2. ReplyOf(call[c]) \in Reply
    BY <1>1 DEF ReplyOf, Call, Reply
  <1>3. answers' = IF call[c].heard /\ call[c].result # "error"
                   THEN Append(answers, ReplyOf(call[c])) ELSE answers
    BY DEF Answer, ReplyOf
  <1>4. \/ answers' = answers
        \/ call[c].result # "error" /\ answers' = Append(answers, ReplyOf(call[c]))
    <2>1. CASE call[c].heard /\ call[c].result # "error"
      BY <1>3, <2>1
    <2>2. CASE ~ (call[c].heard /\ call[c].result # "error")
      BY <1>3, <2>2
    <2> QED
      BY <2>1, <2>2
  <1>5. /\ pc' = [pc EXCEPT ![c] = "idle"] /\ call' = [call EXCEPT ![c] = NoCall]
        /\ UNCHANGED <<segments, revoked, calls, faults>>
    BY DEF Answer, Goto
  <1> QED
    BY <1>1, <1>2, <1>4, <1>5

LEMMA AnswerShape ==
  ASSUME Shape, NEW c \in Client, Answer(c)
  PROVE  Shape'
  <1>1. answers' \in Seq(Reply) /\ Len(answers) <= Len(answers')
    <2>1. answers \in Seq(Reply)
      BY DEF Shape
    <2>2. CASE answers' = answers
      BY <2>1, <2>2
    <2>3. CASE answers' = Append(answers, ReplyOf(call[c]))
      BY <2>1, <2>3, AnswerIs
    <2> QED
      BY <2>2, <2>3, AnswerIs
  <1>2. /\ pc' \in [Client -> Statements]
        /\ call' \in [Client -> {NoCall} \union Call]
        /\ \A d \in Client :
             /\ pc'[d] = "idle" => call'[d] = NoCall
             /\ pc'[d] # "idle" =>
                  Fits(pc'[d], call'[d]) /\ call'[d].after <= Len(answers')
    BY <1>1, AnswerIs, MoveShape DEF Statements
  <1> QED
    BY <1>1, <1>2, AnswerIs DEF Shape, LastEnds

\* What a fault leaves of a call.
LEMMA FaultIs ==
  ASSUME Shape, NEW c \in Client, StatementFails(c) \/ CallerGone(c) \/ Vanish(c)
  PROVE  /\ UNCHANGED <<segments, revoked, answers, calls>>
         /\ faults' \in 0 .. MaxFaults
         /\ \/ pc' = [pc EXCEPT ![c] = "idle"] /\ call' = [call EXCEPT ![c] = NoCall]
            \/ \E new \in Call :
                 /\ new.op = call[c].op /\ new.id = call[c].id
                 /\ new.base = call[c].base /\ new.after = call[c].after
                 /\ call' = [call EXCEPT ![c] = new]
                 /\ call[c].after <= Len(answers)
                 /\ \/ /\ pc' = [pc EXCEPT ![c] = "answer"] /\ new.result = "error"
                       /\ Fits("answer", new)
                    \/ /\ pc' = [pc EXCEPT ![c] = pc[c]] /\ pc[c] # "idle"
                       /\ new.result = call[c].result /\ Fits(pc[c], new)
  <1>1. pc[c] # "idle" => Fits(pc[c], call[c]) /\ call[c] \in Call
                          /\ call[c].after <= Len(answers)
    BY DEF Shape, Fits
  <1>2. UNCHANGED <<segments, revoked, answers, calls>> /\ faults' \in 0 .. MaxFaults
    BY BoundsAssumption DEF StatementFails, CallerGone, Vanish, Shape
  <1>3. CASE StatementFails(c)
    <2> DEFINE new == [call[c] EXCEPT !.result = "error"]
    <2>1. /\ new \in Call /\ new.op = call[c].op /\ new.id = call[c].id
          /\ new.base = call[c].base /\ new.after = call[c].after
          /\ new.result = "error" /\ Fits("answer", new)
      BY <1>1, <1>3 DEF StatementFails, Call, Results, Fits
    <2>2. pc' = [pc EXCEPT ![c] = "answer"] /\ call' = [call EXCEPT ![c] = new]
          /\ pc[c] # "idle"
      BY <1>3 DEF StatementFails, Goto
    <2> HIDE DEF new
    <2> QED
      BY <1>1, <1>2, <2>1, <2>2
  <1>4. CASE CallerGone(c)
    <2> DEFINE new == [call[c] EXCEPT !.heard = FALSE]
    <2>1. /\ new \in Call /\ new.op = call[c].op /\ new.id = call[c].id
          /\ new.base = call[c].base /\ new.after = call[c].after
          /\ new.result = call[c].result /\ new.g = call[c].g /\ new.sz = call[c].sz
      BY <1>1, <1>4 DEF CallerGone, Call
    <2>2. pc' = [pc EXCEPT ![c] = pc[c]] /\ call' = [call EXCEPT ![c] = new]
          /\ pc[c] # "idle"
      BY <1>4 DEF CallerGone, Shape
    <2> HIDE DEF new
    <2>3. Fits(pc[c], new)
      BY <1>1, <2>1, <2>2 DEF Fits
    <2> QED
      BY <1>1, <1>2, <2>1, <2>2, <2>3
  <1>5. CASE Vanish(c)
    BY <1>2, <1>5 DEF Vanish, Goto
  <1> QED
    BY <1>3, <1>4, <1>5

LEMMA OtherShape ==
  ASSUME Shape, NEW c \in Client,
         \/ CallAllocate(c) \/ CallRevoke(c) \/ CallResolve(c)
         \/ StatementFails(c) \/ CallerGone(c) \/ Vanish(c)
  PROVE  Shape'
  <1>1. /\ UNCHANGED <<segments, revoked, answers>>
        /\ calls' \in 0 .. MaxCalls /\ faults' \in 0 .. MaxFaults
    BY StartIs, FaultIs DEF Shape
  <1>2. PICK next \in Statements, new \in {NoCall} \union Call :
          /\ pc' = [pc EXCEPT ![c] = next] /\ call' = [call EXCEPT ![c] = new]
          /\ next = "idle" => new = NoCall
          /\ next # "idle" => Fits(next, new) /\ new.after <= Len(answers)
    <2>1. CASE CallAllocate(c) \/ CallRevoke(c) \/ CallResolve(c)
      <3>1. Len(answers) \in Nat
        BY DEF Shape
      <3> QED
        BY <2>1, <3>1, StartIs DEF Statements
    <2>2. CASE StatementFails(c) \/ CallerGone(c) \/ Vanish(c)
      BY <2>2, FaultIs DEF Statements, Shape
    <2> QED
      BY <2>1, <2>2
  <1>3. answers' \in Seq(Reply) /\ Len(answers) <= Len(answers')
    BY <1>1 DEF Shape
  <1>4. /\ pc' \in [Client -> Statements]
        /\ call' \in [Client -> {NoCall} \union Call]
        /\ \A d \in Client :
             /\ pc'[d] = "idle" => call'[d] = NoCall
             /\ pc'[d] # "idle" =>
                  Fits(pc'[d], call'[d]) /\ call'[d].after <= Len(answers')
    BY <1>2, <1>3, MoveShape
  <1> QED
    BY <1>1, <1>3, <1>4 DEF Shape, LastEnds

\* The steps of one call.
Moves(c) ==
  \/ CallAllocate(c) \/ CallRevoke(c) \/ CallResolve(c)
  \/ ReadNext(c) \/ InsertSegment(c)
  \/ SnapshotRevoked(c) \/ AppendRevoked(c) \/ SelectSegment(c)
  \/ Answer(c)
  \/ StatementFails(c) \/ CallerGone(c) \/ Vanish(c)

LEMMA NextShape == Shape /\ [Next]_vars => Shape'
  <1> SUFFICES ASSUME Shape, [Next]_vars PROVE Shape'
    OBVIOUS
  <1>1. CASE UNCHANGED vars
    BY <1>1 DEF vars, Shape, LastEnds
  <1> QED
    BY <1>1, InsertShape, QueryShape, AnswerShape, OtherShape DEF Next, Rest

LEMMA ShapeHolds == Spec => []Shape
  BY InitShape, NextShape, PTL DEF Spec

\* Tables and calls keep their types; an id is the key of its row's values.
THEOREM TypeCorrect == Spec => []TypeOK
  <1>1. Shape => TypeOK
    <2> SUFFICES ASSUME Shape PROVE TypeOK
      OBVIOUS
    <2>1. ASSUME NEW r \in segments
          PROVE  /\ r.granted_by \in Holder /\ r.size_ns \in SizeNs
                 /\ r.base_address \in Int /\ r.id.now \in Clock
                 /\ r = Row(r.granted_by, r.base_address, r.size_ns, r.id.now)
      <3>1. r \in Segment /\ r.id = NewId(r.granted_by, r.base_address, r.size_ns, r.id.now)
        BY DEF Shape
      <3>2. r = [id |-> r.id, base_address |-> r.base_address, size_ns |-> r.size_ns,
                 granted_by |-> r.granted_by]
        BY <3>1 DEF Segment
      <3> QED
        BY <3>1, <3>2, SegmentIs DEF Row
    <2>2. ASSUME NEW c \in Client
          PROVE  /\ pc[c] = "idle" <=> call[c] = NoCall
                 /\ pc[c] \in {"next", "insert"} => call[c].op = "allocate"
                 /\ pc[c] \in {"snapshot", "append"} => call[c].op = "revoke"
                 /\ pc[c] # "idle" => call[c].after \in 0 .. Len(answers)
      <3>1. ASSUME pc[c] # "idle" PROVE call[c].after \in 0 .. Len(answers)
        <4>1. call[c].after \in Nat /\ call[c].after <= Len(answers)
              /\ Len(answers) \in Nat
          BY <3>1 DEF Shape, Fits, Call
        <4> QED
          BY <4>1
      <3>2. pc[c] # "idle" => call[c].op # "none"
        BY DEF Shape, Fits, Call, Ops
      <3> QED
        BY <3>1, <3>2 DEF Shape, Fits, NoCall
    <2> QED
      BY <2>1, <2>2 DEF Shape, TypeOK
  <1> QED
    BY <1>1, ShapeHolds, PTL

------------------------------------------------------------------------------
(* What a step does to one call and leaves of the others *)

LEMMA OthersStay ==
  ASSUME Shape, NEW c \in Client, Moves(c), NEW d \in Client, d # c
  PROVE  pc'[d] = pc[d] /\ call'[d] = call[d]
  BY DEF Shape, Moves, CallAllocate, CallRevoke, CallResolve, Start, ReadNext,
         InsertSegment, SnapshotRevoked, AppendRevoked, SelectSegment, Answer,
         StatementFails, CallerGone, Vanish, Goto, Finish

\* Only Answer adds an answer, at the end.
LEMMA AnswersGrow ==
  ASSUME Shape, NEW c \in Client, Moves(c)
  PROVE  \/ answers' = answers
         \/ /\ pc[c] = "answer" /\ pc'[c] = "idle" /\ call[c].result # "error"
            /\ answers' = Append(answers, ReplyOf(call[c]))
            /\ ReplyOf(call[c]) \in Reply /\ UNCHANGED db
  <1>1. CASE Answer(c)
    BY <1>1, AnswerIs DEF Shape, db
  <1>2. CASE ~ Answer(c)
    BY <1>2
    DEF Moves, CallAllocate, CallRevoke, CallResolve, Start, ReadNext,
        InsertSegment, SnapshotRevoked, AppendRevoked, SelectSegment,
        StatementFails, CallerGone, Vanish, Goto, Finish
  <1> QED
    BY <1>1, <1>2

\* Rows and events are only ever added.
Grows ==
  /\ segments \subseteq segments'
  /\ \A id \in Id : RevokeEvents(id) # {} => RevokeEvents(id)' # {}

LEMMA MovesGrow ==
  ASSUME Shape, NEW c \in Client, Moves(c)
  PROVE  Grows
  <1>1. segments \subseteq segments'
    BY DEF Moves, CallAllocate, CallRevoke, CallResolve, Start, ReadNext,
           InsertSegment, SnapshotRevoked, AppendRevoked, SelectSegment, Answer,
           StatementFails, CallerGone, Vanish, db
  <1>2. CASE revoked' = revoked
    BY <1>1, <1>2 DEF Grows, RevokeEvents
  <1>3. CASE AppendRevoked(c)
    <2>1. revoked \in Seq(Id) /\ revoked' = Append(revoked, call[c].id)
      BY <1>3 DEF AppendRevoked, Shape
    <2>2. \A i \in DOMAIN revoked : i \in DOMAIN revoked' /\ revoked'[i] = revoked[i]
      BY <2>1
    <2> QED
      BY <1>1, <2>2 DEF Grows, RevokeEvents
  <1> QED
    BY <1>2, <1>3
    DEF Moves, CallAllocate, CallRevoke, CallResolve, Start, ReadNext,
        InsertSegment, SnapshotRevoked, SelectSegment, Answer, StatementFails,
        CallerGone, Vanish, db

\* Where a call that waits for its answer comes from.
LEMMA PendingIs ==
  ASSUME Shape, NEW c \in Client, Moves(c), pc'[c] = "answer"
  PROVE  /\ answers' = answers /\ call'[c].after = call[c].after
         /\ pc[c] # "idle" /\ call[c] \in Call /\ call[c].after <= Len(answers)
         /\ \/ /\ pc[c] = "insert" /\ call'[c].result = "granted"
               /\ call'[c].id \notin StoredIds /\ call'[c].id.base = call[c].base
               /\ \E row \in segments' : row.id = call'[c].id
            \/ /\ call'[c].result = "revoked"
               /\ \E i \in DOMAIN revoked' : revoked'[i] = call'[c].id
            \/ /\ call'[c].result = "active" /\ call'[c].id = call[c].id
               /\ RevokeEvents(call[c].id) = {}
            \/ call'[c].result \in {"error", "segmentNotFound"}
            \/ /\ pc[c] = "answer" /\ UNCHANGED db
               /\ call'[c].id = call[c].id /\ call'[c].result = call[c].result
  <1>1. ~ CallAllocate(c) /\ ~ CallRevoke(c) /\ ~ CallResolve(c)
        /\ ~ ReadNext(c) /\ ~ Answer(c) /\ ~ Vanish(c)
    BY DEF CallAllocate, CallRevoke, CallResolve, Start, ReadNext, Answer, Vanish,
           Goto, Shape
  <1>2. pc[c] # "idle"
    BY <1>1 DEF Moves, InsertSegment, SnapshotRevoked, AppendRevoked, SelectSegment,
                StatementFails, CallerGone
  <1>3. call[c] \in Call /\ call[c].after <= Len(answers) /\ call[c].id \in Id
        /\ Fits(pc[c], call[c])
    BY <1>2 DEF Shape, Fits, Call
  <1>4. ASSUME NEW id \in Id, NEW result \in Results, Finish(c, id, result)
        PROVE  /\ answers' = answers /\ call'[c].after = call[c].after
               /\ call'[c].id = id /\ call'[c].result = result
    <2>1. PICK new \in Call : new = Finished(c, id, result)
      BY <1>2, <1>4, FinishIs
    <2>2. /\ new.id = id /\ new.result = result /\ new.after = call[c].after
          /\ call' = [call EXCEPT ![c] = new] /\ answers' = answers
      BY <1>2, <1>4, <2>1, FinishIs
    <2> QED
      BY <2>2 DEF Shape
  <1>5. CASE InsertSegment(c)
    <2>1. PICK now \in Clock :
            LET row == Row(call[c].g, call[c].base, call[c].sz, now) IN
            \/ /\ row.id \notin StoredIds /\ segments' = segments \union {row}
               /\ Finish(c, row.id, "granted")
            \/ /\ Finish(c, UnknownId, "error") /\ UNCHANGED segments
      BY <1>5 DEF InsertSegment
    <2>2. pc[c] = "insert"
      BY <1>5 DEF InsertSegment
    <2>3. PICK row \in Segment :
            /\ row = Row(call[c].g, call[c].base, call[c].sz, now)
            /\ row.id \in Id /\ row.id.base = call[c].base
      BY <2>2, RowIs DEF Id
    <2>4. CASE /\ row.id \notin StoredIds /\ segments' = segments \union {row}
               /\ Finish(c, row.id, "granted")
      <3>1. /\ answers' = answers /\ call'[c].after = call[c].after
            /\ call'[c].id = row.id /\ call'[c].result = "granted"
        BY <1>4, <2>3, <2>4 DEF Results
      <3> QED
        BY <1>2, <1>3, <2>2, <2>3, <2>4, <3>1
    <2>5. CASE Finish(c, UnknownId, "error")
      BY <1>2, <1>3, <1>4, <2>5 DEF Id, Results
    <2> QED
      BY <2>1, <2>3, <2>4, <2>5
  <1>6. CASE SnapshotRevoked(c)
    <2>1. RevokeEvents(call[c].id) # {} /\ Finish(c, call[c].id, "revoked")
          /\ UNCHANGED db
      BY <1>6 DEF SnapshotRevoked, Goto, Shape
    <2>2. /\ answers' = answers /\ call'[c].after = call[c].after
          /\ call'[c].id = call[c].id /\ call'[c].result = "revoked"
      BY <1>3, <1>4, <2>1 DEF Results
    <2>3. \E i \in DOMAIN revoked' : revoked'[i] = call'[c].id
      BY <2>1, <2>2 DEF RevokeEvents, db
    <2> QED
      BY <1>2, <1>3, <2>2, <2>3
  <1>7. CASE AppendRevoked(c)
    <2>1. /\ answers' = answers /\ call'[c].after = call[c].after
          /\ call'[c].id = call[c].id /\ call'[c].result = "revoked"
      BY <1>3, <1>4, <1>7 DEF AppendRevoked, Results
    <2>2. revoked \in Seq(Id) /\ revoked' = Append(revoked, call[c].id)
      BY <1>7 DEF AppendRevoked, Shape
    <2>3. Len(revoked) + 1 \in DOMAIN revoked'
          /\ revoked'[Len(revoked) + 1] = call'[c].id
      BY <2>1, <2>2
    <2> QED
      BY <1>2, <1>3, <2>1, <2>3
  <1>8. CASE SelectSegment(c)
    <2> DEFINE result == IF call[c].id \in StoredIds THEN effective_status(call[c].id)
                         ELSE "segmentNotFound"
    <2>1. result \in Results
          /\ (result = "revoked" => RevokeEvents(call[c].id) # {})
          /\ (result = "active" => RevokeEvents(call[c].id) = {})
          /\ result \in {"revoked", "active", "segmentNotFound"}
      BY DEF effective_status, Results
    <2> HIDE DEF result
    <2>2. Finish(c, call[c].id, result) /\ UNCHANGED db
      BY <1>8 DEF SelectSegment, result
    <2>3. /\ answers' = answers /\ call'[c].after = call[c].after
          /\ call'[c].id = call[c].id /\ call'[c].result = result
      BY <1>3, <1>4, <2>1, <2>2
    <2>4. result = "revoked" => \E i \in DOMAIN revoked' : revoked'[i] = call'[c].id
      BY <2>1, <2>2, <2>3 DEF RevokeEvents, db
    <2> QED
      BY <1>2, <1>3, <2>1, <2>3, <2>4
  <1>9. CASE StatementFails(c) \/ CallerGone(c)
    <2>1. PICK new \in Call :
            /\ new.id = call[c].id /\ new.after = call[c].after
            /\ call' = [call EXCEPT ![c] = new]
            /\ \/ new.result = "error"
               \/ pc' = [pc EXCEPT ![c] = pc[c]] /\ new.result = call[c].result
            /\ UNCHANGED <<segments, revoked, answers>>
      <3>1. ~ (pc' = [pc EXCEPT ![c] = "idle"])
        BY DEF Shape
      <3> QED
        BY <1>9, <3>1, FaultIs
    <2>2. call'[c] = new
      BY <2>1 DEF Shape
    <2>3. pc' = [pc EXCEPT ![c] = pc[c]] => pc[c] = "answer"
      BY DEF Shape
    <2> QED
      BY <1>2, <1>3, <2>1, <2>2, <2>3 DEF db
  <1> QED
    BY <1>1, <1>5, <1>6, <1>7, <1>8, <1>9 DEF Moves

\* Where a call that is about to insert, or to append, comes from.
LEMMA AboutToWriteIs ==
  ASSUME Shape, NEW c \in Client, Moves(c), pc'[c] \in {"insert", "append"}
  PROVE  /\ UNCHANGED db /\ answers' = answers
         /\ pc[c] # "idle" /\ call[c] \in Call /\ call[c].after <= Len(answers)
         /\ call'[c].after = call[c].after /\ call'[c].id = call[c].id
         /\ \/ pc'[c] = "insert" /\ call'[c].base = _next
            \/ pc'[c] = "append" /\ RevokeEvents(call[c].id) = {}
            \/ pc'[c] = pc[c] /\ call'[c].base = call[c].base
  <1>1. ~ CallAllocate(c) /\ ~ CallRevoke(c) /\ ~ CallResolve(c)
        /\ ~ InsertSegment(c) /\ ~ AppendRevoked(c) /\ ~ SelectSegment(c)
        /\ ~ Answer(c) /\ ~ StatementFails(c) /\ ~ Vanish(c)
    BY DEF CallAllocate, CallRevoke, CallResolve, Start, InsertSegment, AppendRevoked,
           SelectSegment, Answer, StatementFails, Vanish, Finish, Goto, Shape
  <1>2. pc[c] # "idle"
    BY <1>1 DEF Moves, ReadNext, SnapshotRevoked, CallerGone
  <1>3. call[c] \in Call /\ call[c].after <= Len(answers)
    BY <1>2 DEF Shape, Fits
  <1>4. CASE ReadNext(c)
    <2>1. call'[c] = [call[c] EXCEPT !.base = _next] /\ pc'[c] = "insert"
          /\ UNCHANGED db /\ answers' = answers
      BY <1>4 DEF ReadNext, Goto, Shape, db
    <2>2. /\ call'[c].base = _next /\ call'[c].id = call[c].id
          /\ call'[c].after = call[c].after
      BY <1>3, <2>1 DEF Call
    <2> QED
      BY <1>2, <1>3, <2>1, <2>2
  <1>5. CASE SnapshotRevoked(c)
    <2>1. /\ RevokeEvents(call[c].id) = {} /\ pc'[c] = "append"
          /\ call' = call /\ answers' = answers /\ UNCHANGED db
      BY <1>5 DEF SnapshotRevoked, Goto, Finish, Shape
    <2> QED
      BY <1>2, <1>3, <2>1
  <1>6. CASE CallerGone(c)
    <2>1. call'[c] = [call[c] EXCEPT !.heard = FALSE] /\ pc' = pc
          /\ UNCHANGED db /\ answers' = answers
      BY <1>6 DEF CallerGone, Shape, db
    <2>2. /\ call'[c].base = call[c].base /\ call'[c].id = call[c].id
          /\ call'[c].after = call[c].after
      BY <1>3, <2>1 DEF Call
    <2> QED
      BY <1>2, <1>3, <2>1, <2>2
  <1> QED
    BY <1>1, <1>4, <1>5, <1>6 DEF Moves

------------------------------------------------------------------------------
(* Answers say what the tables have come to *)

Holds(r) ==
  /\ r.result = "granted" => \E row \in segments : row.id = r.id
  /\ r.result = "revoked" => \E i \in DOMAIN revoked : revoked[i] = r.id

Truth ==
  /\ \A i \in DOMAIN answers : Holds(answers[i])
  /\ \A c \in Client : pc[c] = "answer" => Holds(call[c])

Known == Shape /\ Truth

LEMMA HoldsStays ==
  ASSUME Grows, NEW r, r.id \in Id, Holds(r)
  PROVE  Holds(r)'
  BY DEF Grows, Holds, RevokeEvents

\* An answer of the next state is one of this state, or the one that was on
\* its way.
LEMMA AnswerComesFrom ==
  ASSUME Shape, NEW c \in Client, Moves(c), NEW i \in DOMAIN answers'
  PROVE  \/ i \in DOMAIN answers /\ answers'[i] = answers[i]
         \/ /\ i = Len(answers) + 1 /\ answers'[i] = ReplyOf(call[c])
            /\ pc[c] = "answer" /\ pc'[c] = "idle" /\ call[c].result # "error"
  <1>1. answers \in Seq(Reply)
    BY DEF Shape
  <1>2. CASE answers' = answers
    BY <1>2
  <1>3. CASE /\ pc[c] = "answer" /\ pc'[c] = "idle" /\ call[c].result # "error"
             /\ answers' = Append(answers, ReplyOf(call[c]))
    BY <1>1, <1>3
  <1> QED
    BY <1>2, <1>3, AnswersGrow

LEMMA ReplyIs ==
  ASSUME Shape, NEW c \in Client, pc[c] # "idle"
  PROVE  /\ ReplyOf(call[c]).result = call[c].result
         /\ ReplyOf(call[c]).id = call[c].id /\ call[c].id \in Id
         /\ ReplyOf(call[c]).after = call[c].after /\ call[c].after \in Nat
         /\ call[c].after <= Len(answers)
  BY DEF Shape, Fits, Call, ReplyOf

LEMMA NextTruth ==
  ASSUME Known, NEW c \in Client, Moves(c)
  PROVE  Truth'
  <1> USE DEF Known
  <1>1. Grows
    BY MovesGrow
  <1>2. ASSUME NEW d \in Client, pc'[d] = "answer" PROVE Holds(call[d])'
    <2>1. PICK r : r = call'[d]
      OBVIOUS
    <2>2. CASE pc[d] = "answer" /\ call[d].id = r.id /\ call[d].result = r.result
      <3>1. Holds(call[d]) /\ call[d].id \in Id
        BY <2>2, ReplyIs DEF Truth
      <3>2. Holds(r) /\ r.id \in Id
        BY <2>2, <3>1 DEF Holds
      <3>3. Holds(r)'
        BY <1>1, <3>2, HoldsStays
      <3> QED
        BY <2>1, <3>3 DEF Holds
    <2>3. CASE d # c
      BY <1>2, <2>1, <2>2, <2>3, OthersStay
    <2>4. CASE d = c
      BY <1>2, <2>1, <2>2, <2>4, PendingIs DEF Holds
    <2> QED
      BY <2>3, <2>4
  <1>3. ASSUME NEW i \in DOMAIN answers' PROVE Holds(answers[i])'
    <2>1. PICK r : r = answers'[i]
      OBVIOUS
    <2>2. r.id \in Id /\ Holds(r)
      <3>1. CASE i \in DOMAIN answers /\ answers'[i] = answers[i]
        <4>1. answers[i] \in Reply
          BY <3>1 DEF Shape
        <4> QED
          BY <2>1, <3>1, <4>1 DEF Truth, Reply
      <3>2. CASE answers'[i] = ReplyOf(call[c]) /\ pc[c] = "answer"
        BY <2>1, <3>2, ReplyIs DEF Truth, Holds
      <3> QED
        BY <1>3, <3>1, <3>2, AnswerComesFrom
    <2>3. Holds(r)'
      BY <1>1, <2>2, HoldsStays
    <2> QED
      BY <2>1, <2>3 DEF Holds
  <1> QED
    BY <1>2, <1>3 DEF Truth

LEMMA KnownHolds == Spec => []Known
  <1>1. Init => Truth
    BY DEF Init, Truth
  <1>2. Known /\ [Next]_vars => Truth'
    <2>1. ASSUME Known, UNCHANGED vars PROVE Truth'
      BY <2>1 DEF vars, Known, Truth, Holds
    <2> QED
      BY <2>1, NextTruth DEF Next, Rest, Moves
  <1> QED
    BY <1>1, <1>2, InitShape, NextShape, PTL DEF Spec, Known

------------------------------------------------------------------------------
(* Grants are exclusive *)

Granted(r) == r.result = "granted"

\* Two grants, answered or on their way, never speak of one segment.
Unique ==
  /\ \A i, j \in DOMAIN answers :
       Granted(answers[i]) /\ Granted(answers[j]) /\ answers[i].id = answers[j].id
       => i = j
  /\ \A c, d \in Client :
       /\ pc[c] = "answer" /\ pc[d] = "answer"
       /\ Granted(call[c]) /\ Granted(call[d]) /\ call[c].id = call[d].id
       => c = d
  /\ \A c \in Client, i \in DOMAIN answers :
       pc[c] = "answer" /\ Granted(call[c]) /\ Granted(answers[i])
       => call[c].id # answers[i].id

LEMMA NextUnique ==
  ASSUME Known, Unique, NEW c \in Client, Moves(c)
  PROVE  Unique'
  <1> USE DEF Known
  <1> DEFINE Old(i) == i \in DOMAIN answers /\ answers'[i] = answers[i]
             New(i) == /\ i = Len(answers) + 1 /\ pc[c] = "answer" /\ pc'[c] = "idle"
                       /\ answers'[i].result = call[c].result
                       /\ answers'[i].id = call[c].id
  <1>1. ASSUME NEW i \in DOMAIN answers' PROVE Old(i) \/ New(i)
    <2>1. \/ Old(i)
          \/ /\ i = Len(answers) + 1 /\ answers'[i] = ReplyOf(call[c])
             /\ pc[c] = "answer" /\ pc'[c] = "idle"
      BY AnswerComesFrom
    <2> QED
      BY <2>1, ReplyIs
  <1>2. ASSUME NEW d \in Client, d # c
        PROVE  pc'[d] = pc[d] /\ call'[d] = call[d]
    BY <1>2, OthersStay
  <1>3. ASSUME NEW i \in DOMAIN answers', NEW j \in DOMAIN answers',
               Granted(answers'[i]), Granted(answers'[j]),
               answers'[i].id = answers'[j].id
        PROVE  i = j
    <2>1. CASE Old(i) /\ Old(j)
      BY <1>3, <2>1 DEF Unique
    <2>2. CASE Old(i) /\ New(j)
      BY <1>3, <2>2 DEF Unique, Granted
    <2>3. CASE New(i) /\ Old(j)
      BY <1>3, <2>3 DEF Unique, Granted
    <2>4. CASE New(i) /\ New(j)
      BY <2>4
    <2> QED
      BY <1>1, <2>1, <2>2, <2>3, <2>4
  \* A grant that is new has an id that no row had, so no answer.
  <1>4. ASSUME pc'[c] = "answer", Granted(call'[c])
        PROVE  \/ /\ pc[c] = "answer" /\ Granted(call[c])
                  /\ call'[c].id = call[c].id
               \/ /\ \A d \in Client : pc[d] = "answer" /\ Granted(call[d]) =>
                        call'[c].id # call[d].id
                  /\ \A i \in DOMAIN answers : Granted(answers[i]) =>
                        call'[c].id # answers[i].id
    <2>1. CASE call'[c].id \notin StoredIds
      BY <2>1 DEF Truth, Holds, Granted, StoredIds
    <2> QED
      BY <1>4, <2>1, PendingIs DEF Granted
  <1>5. ASSUME NEW d \in Client, d # c, pc'[c] = "answer", pc'[d] = "answer",
               Granted(call'[c]), Granted(call'[d])
        PROVE  call'[c].id # call'[d].id
    BY <1>2, <1>4, <1>5 DEF Unique
  <1>6. ASSUME NEW d \in Client, NEW i \in DOMAIN answers', pc'[d] = "answer",
               Granted(call'[d]), Granted(answers'[i])
        PROVE  call'[d].id # answers'[i].id
    <2>1. CASE d = c
      <3>1. answers' = answers
        BY <1>6, <2>1, PendingIs
      <3> QED
        BY <1>4, <1>6, <2>1, <3>1 DEF Unique
    <2>2. CASE d # c /\ Old(i)
      BY <1>2, <1>6, <2>2 DEF Unique
    <2>3. CASE d # c /\ New(i)
      BY <1>2, <1>6, <2>3 DEF Unique, Granted
    <2> QED
      BY <1>1, <2>1, <2>2, <2>3
  <1>7. \A d, e \in Client :
          pc'[d] = "answer" /\ pc'[e] = "answer" /\ Granted(call'[d])
          /\ Granted(call'[e]) /\ call'[d].id = call'[e].id => d = e
    <2> SUFFICES ASSUME NEW d \in Client, NEW e \in Client, d # e,
                        pc'[d] = "answer", pc'[e] = "answer", Granted(call'[d]),
                        Granted(call'[e]), call'[d].id = call'[e].id
                 PROVE  FALSE
      OBVIOUS
    <2>1. CASE d = c
      BY <1>5, <2>1
    <2>2. CASE e = c
      BY <1>5, <2>2
    <2>3. CASE d # c /\ e # c
      BY <1>2, <2>3 DEF Unique
    <2> QED
      BY <2>1, <2>2, <2>3
  <1> QED
    BY <1>3, <1>6, <1>7 DEF Unique, Granted

LEMMA UniqueHolds == Spec => []Unique
  <1>1. Init => Unique
    BY DEF Init, Unique
  <1>2. Known /\ Unique /\ [Next]_vars => Unique'
    <2>1. ASSUME Unique, UNCHANGED vars PROVE Unique'
      BY <2>1 DEF vars, Unique, Granted
    <2> QED
      BY <2>1, NextUnique DEF Next, Rest, Moves
  <1> QED
    BY <1>1, <1>2, KnownHolds, PTL DEF Spec

\* No segment is granted to two callers, and what was granted is stored,
\* whatever interleaves, fails or loses its caller.
THEOREM GrantsStayExclusive == Spec => []GrantsAreExclusive
  <1>1. Known /\ Unique => GrantsAreExclusive
    <2> SUFFICES ASSUME Known, Unique PROVE GrantsAreExclusive
      OBVIOUS
    <2>1. \A i \in Grants : answers[i].id \in StoredIds
      BY DEF Known, Truth, Holds, Grants, StoredIds
    <2> QED
      BY <2>1 DEF Unique, Granted, GrantsAreExclusive, Grants
  <1> QED
    BY <1>1, KnownHolds, UniqueHolds, PTL

------------------------------------------------------------------------------
(* What a call finds that starts after an answer was given *)

\* What had been granted ends at or before `base`.
Behind(after, base) ==
  \A a \in Before(after) : a.result = "granted" => a.id.base + a.id.size <= base
\* Nobody had been told that the segment is revoked.
Untold(after, id) == \A a \in Before(after) : a.id = id => a.result # "revoked"

Sequel(r) ==
  /\ r.result = "granted" => Behind(r.after, r.id.base)
  /\ r.result = "active" => Untold(r.after, r.id)

Sequels ==
  /\ \A i \in DOMAIN answers :
       answers[i].after <= Len(answers) /\ Sequel(answers[i])
  /\ \A c \in Client :
       /\ pc[c] = "answer" => Sequel(call[c])
       /\ pc[c] = "insert" => Behind(call[c].after, call[c].base)
       /\ pc[c] = "append" => Untold(call[c].after, call[c].id)

\* The answers before a call stay the same.
LEMMA BeforeStays ==
  ASSUME Shape, NEW c \in Client, Moves(c), NEW after \in Nat, after <= Len(answers)
  PROVE  Before(after)' = Before(after)
  <1>1. \A i \in 1 .. after : answers'[i] = answers[i]
    <2>1. answers \in Seq(Reply)
      BY DEF Shape
    <2>2. CASE answers' = answers
      BY <2>2
    <2>3. CASE answers' = Append(answers, ReplyOf(call[c]))
      BY <2>1, <2>3
    <2> QED
      BY <2>2, <2>3, AnswersGrow
  <1> QED
    BY <1>1 DEF Before

LEMMA BeforeHolds ==
  ASSUME Known, NEW after \in Nat, after <= Len(answers), NEW a \in Before(after)
  PROVE  a \in Reply /\ Holds(a)
  <1>1. PICK i \in 1 .. after : a = answers[i]
    BY DEF Before
  <1>2. i \in DOMAIN answers
    BY DEF Known, Shape
  <1> QED
    BY <1>1, <1>2 DEF Known, Shape, Truth

\* MAX is taken behind every segment that has been granted.
LEMMA NextIsBehind ==
  ASSUME Known, NEW after \in Nat, after <= Len(answers)
  PROVE  Behind(after, _next)
  <1> SUFFICES ASSUME NEW a \in Before(after), a.result = "granted"
               PROVE  a.id.base + a.id.size <= _next
    BY DEF Behind
  <1>1. PICK row \in segments : row.id = a.id
    BY BeforeHolds DEF Holds
  <1>2. row.id = NewId(row.granted_by, row.base_address, row.size_ns, row.id.now)
    BY DEF Known, Shape
  <1>3. a.id.base + a.id.size = End(row)
    BY <1>1, <1>2 DEF NewId, End
  <1> QED
    BY <1>3, NextIsMaximum DEF Known

\* While there is no event, nobody has been told of one.
LEMMA NoEventIsUntold ==
  ASSUME Known, NEW after \in Nat, after <= Len(answers), NEW id,
         RevokeEvents(id) = {}
  PROVE  Untold(after, id)
  BY BeforeHolds DEF Holds, Untold, RevokeEvents

LEMMA NextSequels ==
  ASSUME Known, Sequels, NEW c \in Client, Moves(c)
  PROVE  Sequels'
  <1> USE DEF Known
  <1>1. Len(answers) \in Nat /\ Len(answers') \in Nat /\ Len(answers) <= Len(answers')
    <2>1. answers \in Seq(Reply)
      BY DEF Shape
    <2>2. CASE answers' = answers
      BY <2>1, <2>2
    <2>3. CASE /\ answers' = Append(answers, ReplyOf(call[c]))
               /\ ReplyOf(call[c]) \in Reply
      BY <2>1, <2>3
    <2> QED
      BY <2>2, <2>3, AnswersGrow
  \* What is known of the answers before a call stays so.
  <1>2. ASSUME NEW after \in Nat, after <= Len(answers)
        PROVE  /\ \A base : Behind(after, base) => Behind(after, base)'
               /\ \A id : Untold(after, id) => Untold(after, id)'
    <2>1. Before(after)' = Before(after)
      BY <1>2, BeforeStays
    <2> QED
      BY <2>1 DEF Behind, Untold
  <1>3. ASSUME NEW r, Sequel(r), r.after \in Nat, r.after <= Len(answers)
        PROVE  Sequel(r)'
    BY <1>2, <1>3 DEF Sequel
  <1>4. ASSUME NEW d \in Client, pc'[d] = "answer" PROVE Sequel(call[d])'
    <2>1. PICK r : r = call'[d]
      OBVIOUS
    <2>2. Sequel(r) /\ r.after \in Nat /\ r.after <= Len(answers)
      <3>1. CASE d # c
        <4>1. call'[d] = call[d] /\ pc[d] = "answer"
          BY <1>4, <3>1, OthersStay
        <4> QED
          BY <2>1, <4>1, ReplyIs DEF Sequels
      <3>2. CASE d = c
        <4>1. r.after = call[c].after /\ r.after \in Nat /\ r.after <= Len(answers)
          BY <1>4, <2>1, <3>2, PendingIs, ReplyIs
        <4>2. CASE r.result = "granted" /\ pc[c] = "insert" /\ r.id.base = call[c].base
          BY <4>1, <4>2 DEF Sequels, Sequel
        <4>3. CASE /\ r.result = "active" /\ r.id = call[c].id
                   /\ RevokeEvents(call[c].id) = {}
          BY <4>1, <4>3, NoEventIsUntold DEF Sequel
        <4>4. CASE r.result \in {"revoked", "error", "segmentNotFound"}
          <5>1. r.result # "granted" /\ r.result # "active"
            BY <4>4
          <5> QED
            BY <4>1, <5>1 DEF Sequel
        <4>5. CASE pc[c] = "answer" /\ r.id = call[c].id /\ r.result = call[c].result
          BY <4>1, <4>5 DEF Sequels, Sequel
        <4> QED
          BY <1>4, <2>1, <3>2, <4>1, <4>2, <4>3, <4>4, <4>5, PendingIs
      <3> QED
        BY <3>1, <3>2
    <2>3. Sequel(r)'
      BY <1>3, <2>2
    <2> QED
      BY <2>1, <2>3 DEF Sequel, Behind, Untold, Before
  <1>5. ASSUME NEW i \in DOMAIN answers'
        PROVE  answers'[i].after <= Len(answers') /\ Sequel(answers[i])'
    <2>1. PICK r : r = answers'[i]
      OBVIOUS
    <2>2. Sequel(r) /\ r.after \in Nat /\ r.after <= Len(answers)
      <3>1. CASE i \in DOMAIN answers /\ answers'[i] = answers[i]
        <4>1. answers[i] \in Reply
          BY <3>1 DEF Shape
        <4> QED
          BY <2>1, <3>1, <4>1 DEF Sequels, Reply
      <3>2. CASE answers'[i] = ReplyOf(call[c]) /\ pc[c] = "answer"
        BY <2>1, <3>2, ReplyIs DEF Sequels, Sequel
      <3> QED
        BY <3>1, <3>2, AnswerComesFrom
    <2>3. Sequel(r)' /\ r.after <= Len(answers')
      BY <1>1, <1>3, <2>2
    <2> QED
      BY <2>1, <2>3 DEF Sequel, Behind, Untold, Before
  <1>6. ASSUME NEW d \in Client, pc'[d] \in {"insert", "append"}
        PROVE  /\ pc'[d] = "insert" => Behind(call[d].after, call[d].base)'
               /\ pc'[d] = "append" => Untold(call[d].after, call[d].id)'
    <2>1. PICK r : r = call'[d]
      OBVIOUS
    <2>2. /\ r.after \in Nat /\ r.after <= Len(answers)
          /\ pc'[d] = "insert" => Behind(r.after, r.base)
          /\ pc'[d] = "append" => Untold(r.after, r.id)
      <3>1. CASE d # c
        <4>1. call'[d] = call[d] /\ pc'[d] = pc[d]
          BY <3>1, OthersStay
        <4> QED
          BY <1>6, <2>1, <4>1, ReplyIs DEF Sequels
      <3>2. CASE d = c
        <4>1. /\ r.after = call[c].after /\ r.after \in Nat /\ r.after <= Len(answers)
              /\ r.id = call[c].id
          BY <1>6, <2>1, <3>2, AboutToWriteIs, ReplyIs
        <4>2. CASE pc'[c] = "insert" /\ r.base = _next
          BY <3>2, <4>1, <4>2, NextIsBehind
        <4>3. CASE pc'[c] = "append" /\ RevokeEvents(call[c].id) = {}
          BY <3>2, <4>1, <4>3, NoEventIsUntold
        <4>4. CASE pc'[c] = pc[c] /\ r.base = call[c].base
          BY <3>2, <4>1, <4>4 DEF Sequels
        <4> QED
          BY <1>6, <2>1, <3>2, <4>2, <4>3, <4>4, AboutToWriteIs
      <3> QED
        BY <3>1, <3>2
    <2>3. /\ pc'[d] = "insert" => Behind(r.after, r.base)'
          /\ pc'[d] = "append" => Untold(r.after, r.id)'
      BY <1>2, <2>2
    <2> QED
      BY <2>1, <2>3 DEF Behind, Untold, Before
  <1> QED
    BY <1>4, <1>5, <1>6 DEF Sequels

LEMMA SequelsHold == Spec => []Sequels
  <1>1. Init => Sequels
    BY DEF Init, Sequels
  <1>2. Known /\ Sequels /\ [Next]_vars => Sequels'
    <2>1. ASSUME Sequels, UNCHANGED vars PROVE Sequels'
      BY <2>1 DEF vars, Sequels, Sequel, Behind, Untold, Before
    <2> QED
      BY <2>1, NextSequels DEF Next, Rest, Moves
  <1> QED
    BY <1>1, <1>2, KnownHolds, PTL DEF Spec

\* A segment lies behind every segment granted before its call began.
THEOREM GrantsFollowGrants == Spec => []LaterGrantsLieBehind
  <1>1. Sequels => LaterGrantsLieBehind
    BY DEF Sequels, Sequel, Behind, LaterGrantsLieBehind, Grants
  <1> QED
    BY <1>1, SequelsHold, PTL

\* Who has been told of a revocation is never shown the segment as active by
\* a call that starts later, nor does a later revoke add an event.
THEOREM RevocationStays == Spec => []RevocationSticks
  <1>1. Sequels => RevocationSticks
    BY DEF Sequels, Sequel, Untold, RevocationSticks
  <1> QED
    BY <1>1, SequelsHold, PTL
==============================================================================
