----------------------------- MODULE PgStoreProofs -----------------------------
(***************************************************************************)
(* Theorems about PgStore, for all clients, keys, labels and bounds: type   *)
(* correctness, one creator, no second publication of what is known to be   *)
(* published, no read that falls back, and refinement of LifecycleStore.    *)
(*                                                                         *)
(* The properties speak of answers; what makes them hold is that an answer, *)
(* given or on its way, says nothing the tables have not come to.           *)
(***************************************************************************)
EXTENDS PgStore, TLAPS

TimepointOps == {"postTimepoint", "getTimepoint"}
DomainOps    == {"postDomain", "publish", "findDomain"}
FileOps      == {"postFile", "deleteFile", "getFile"}
Ops          == TimepointOps \union DomainOps \union FileOps

Results ==
  {"none", "error", "absent", "read", "created", "duplicateName", "notFound",
   "wormViolation", "published", "draft", "stored", "gone"}

Call ==
  [op : Ops, key : Keys, labels : SUBSET Labels, result : Results,
   heard : BOOLEAN, after : Nat]
Reply ==
  [op : Ops, key : Keys, labels : SUBSET Labels, result : Results, after : Nat]

\* The operation that a statement belongs to.
OpAt ==
  [insertTimepoint |-> "postTimepoint", selectTimepoint |-> "getTimepoint",
   insertDomain |-> "postDomain", selectDomain |-> "findDomain",
   domainExists |-> "publish", alreadyPublished |-> "publish",
   insertPublished |-> "publish", insertManifest |-> "postFile",
   manifestExists |-> "deleteFile", tombstoneSnapshot |-> "deleteFile",
   insertTombstoned |-> "deleteFile", selectManifest |-> "getFile"]

KeyFits(r) ==
  /\ r.op \in TimepointOps => r.key \in Timepoint
  /\ r.op \in DomainOps => r.key \in Domain
  /\ r.op \in FileOps => r.key \in Cgfi

\* A call that is under way: where it is fits what it is.
CallFits(c) ==
  /\ call[c] \in Call
  /\ KeyFits(call[c])
  /\ call[c].after <= Len(answers)
  /\ pc[c] # "answer" => pc[c] \in DOMAIN OpAt /\ call[c].op = OpAt[pc[c]]
  /\ pc[c] = "insertTimepoint" => \E l \in Labels : call[c].labels = {l}

Shape ==
  /\ timepoints \in [Timepoint -> {{}} \union {{l} : l \in Labels}]
  /\ domains \subseteq Domain
  /\ manifests \subseteq Cgfi
  /\ published \in [Domain -> Nat]
  /\ tombstoned \in [Cgfi -> Nat]
  /\ pc \in [Client -> {"idle", "answer"} \union DOMAIN OpAt]
  /\ call \in [Client -> {NoCall} \union Call]
  /\ \A c \in Client : pc[c] # "idle" => CallFits(c)
  /\ answers \in Seq(Reply)
  /\ \A i \in DOMAIN answers : KeyFits(answers[i])
  /\ calls \in 0 .. MaxCalls
  /\ faults \in 0 .. MaxFaults

------------------------------------------------------------------------------
(* Type correctness *)

LEMMA InitShape == Init => Shape
  BY BoundsAssumption DEF Init, Shape

LEMMA StartShape ==
  ASSUME Shape, NEW c \in Client, NEW op \in Ops, NEW statement \in DOMAIN OpAt,
         NEW key \in Keys, NEW labels \in SUBSET Labels,
         Start(c, op, statement, key, labels),
         OpAt[statement] = op, KeyFits([op |-> op, key |-> key]),
         statement = "insertTimepoint" => \E l \in Labels : labels = {l}
  PROVE  Shape'
  <1> DEFINE new == [op |-> op, key |-> key, labels |-> labels, result |-> "none",
                     heard |-> TRUE, after |-> Len(answers)]
  <1>1. new \in Call /\ KeyFits(new) /\ new.after = Len(answers)
        /\ new.op = op /\ new.labels = labels
    BY DEF Shape, Call, Results, KeyFits
  <1>2. /\ pc' = [pc EXCEPT ![c] = statement] /\ call' = [call EXCEPT ![c] = new]
        /\ answers' = answers /\ UNCHANGED <<db, faults>>
        /\ calls < MaxCalls /\ calls' = calls + 1
    BY DEF Start
  <1> HIDE DEF new
  <1>3. \A d \in Client : pc'[d] # "idle" => CallFits(d)'
    <2> SUFFICES ASSUME NEW d \in Client, pc'[d] # "idle" PROVE CallFits(d)'
      OBVIOUS
    <2>1. CASE d = c
      BY <1>1, <1>2, <2>1 DEF Shape, CallFits, KeyFits
    <2>2. CASE d # c
      BY <1>2, <2>2 DEF Shape, CallFits, KeyFits
    <2> QED
      BY <2>1, <2>2
  <1>4. calls' \in 0 .. MaxCalls
    BY <1>2, BoundsAssumption DEF Shape
  <1>5. pc' \in [Client -> {"idle", "answer"} \union DOMAIN OpAt]
        /\ call' \in [Client -> {NoCall} \union Call]
    BY <1>1, <1>2 DEF Shape
  <1> QED
    BY <1>2, <1>3, <1>4, <1>5 DEF Shape, db, KeyFits

\* A statement that is through, whether it goes on, ends the method or failed.
LEMMA GoShape ==
  ASSUME Shape, NEW c \in Client, NEW next \in {"answer"} \union DOMAIN OpAt,
         NEW new \in Call,
         pc[c] \in DOMAIN OpAt,
         pc' = [pc EXCEPT ![c] = next], call' = [call EXCEPT ![c] = new],
         new.op = call[c].op, new.key = call[c].key, new.after = call[c].after,
         next # "answer" => next # "insertTimepoint" /\ OpAt[next] = OpAt[pc[c]],
         answers' = answers
  PROVE  /\ pc' \in [Client -> {"idle", "answer"} \union DOMAIN OpAt]
         /\ call' \in [Client -> {NoCall} \union Call]
         /\ \A d \in Client : pc'[d] # "idle" => CallFits(d)'
  <1>1. pc[c] # "idle" /\ pc[c] # "answer"
    BY DEF OpAt
  <1>2. CallFits(c)
    BY <1>1 DEF Shape
  <1>3. \A d \in Client : pc'[d] # "idle" => CallFits(d)'
    <2> SUFFICES ASSUME NEW d \in Client, pc'[d] # "idle" PROVE CallFits(d)'
      OBVIOUS
    <2>1. CASE d = c
      BY <1>1, <1>2, <2>1 DEF Shape, CallFits, KeyFits
    <2>2. CASE d # c
      BY <2>2 DEF Shape, CallFits, KeyFits
    <2> QED
      BY <2>1, <2>2
  <1> QED
    BY <1>3 DEF Shape

LEMMA FinishShape ==
  ASSUME Shape, NEW c \in Client, pc[c] \in DOMAIN OpAt,
         NEW result \in Results, Finish(c, result)
  PROVE  /\ pc' \in [Client -> {"idle", "answer"} \union DOMAIN OpAt]
         /\ call' \in [Client -> {NoCall} \union Call]
         /\ \A d \in Client : pc'[d] # "idle" => CallFits(d)'
         /\ UNCHANGED trail
  <1> DEFINE new == [call[c] EXCEPT !.result = result]
  <1>1. call[c] \in Call
    BY DEF Shape, CallFits, OpAt
  <1>2. /\ new \in Call /\ new.op = call[c].op
        /\ new.key = call[c].key /\ new.after = call[c].after
    BY <1>1 DEF Call
  <1>3. /\ pc' = [pc EXCEPT ![c] = "answer"] /\ call' = [call EXCEPT ![c] = new]
        /\ UNCHANGED trail
    BY DEF Finish
  <1> HIDE DEF new
  <1> QED
    BY <1>2, <1>3, GoShape DEF trail

LEMMA GotoShape ==
  ASSUME Shape, NEW c \in Client, pc[c] \in DOMAIN OpAt,
         NEW next \in DOMAIN OpAt, next # "insertTimepoint", OpAt[next] = OpAt[pc[c]],
         Goto(c, next)
  PROVE  Shape'
  <1>1. call[c] \in Call
    BY DEF Shape, CallFits, OpAt
  <1>2. call' = [call EXCEPT ![c] = call[c]]
    BY DEF Shape, Goto
  <1>3. /\ pc' = [pc EXCEPT ![c] = next] /\ UNCHANGED <<db, trail>>
    BY DEF Goto
  <1>4. /\ pc' \in [Client -> {"idle", "answer"} \union DOMAIN OpAt]
        /\ call' \in [Client -> {NoCall} \union Call]
        /\ \A d \in Client : pc'[d] # "idle" => CallFits(d)'
    BY <1>1, <1>2, <1>3, GoShape DEF trail
  <1> QED
    BY <1>3, <1>4 DEF Shape, db, trail, KeyFits

LEMMA StatementShape ==
  ASSUME Shape, NEW c \in Client, Statement(c)
  PROVE  Shape'
  <1>1. /\ \A st \in DOMAIN OpAt : pc[c] = st =>
             /\ pc[c] \in DOMAIN OpAt /\ call[c].op = OpAt[st]
             /\ KeyFits(call[c]) /\ call[c] \in Call
        /\ pc[c] = "insertTimepoint" => \E l \in Labels : call[c].labels = {l}
    BY DEF Shape, CallFits, OpAt
  <1>2. CASE InsertTimepoint(c)
    <2>1. /\ call[c].key \in Timepoint /\ pc[c] \in DOMAIN OpAt
          /\ \E l \in Labels : call[c].labels = {l}
      BY <1>1, <1>2 DEF InsertTimepoint, OpAt, KeyFits, TimepointOps
    <2>2. timepoints' \in [Timepoint -> {{}} \union {{l} : l \in Labels}]
      BY <1>2, <2>1 DEF InsertTimepoint, Shape
    <2> QED
      BY <1>2, <2>1, <2>2, FinishShape
      DEF InsertTimepoint, Results, Shape, trail, KeyFits
  <1>3. CASE SelectTimepoint(c)
    <2>1. call[c].key \in Timepoint /\ pc[c] \in DOMAIN OpAt /\ call[c] \in Call
      BY <1>1, <1>3 DEF SelectTimepoint, OpAt, KeyFits, TimepointOps
    <2>2. timepoints[call[c].key] \in SUBSET Labels
      BY <2>1 DEF Shape
    <2> DEFINE result == IF timepoints[call[c].key] = {} THEN "absent" ELSE "read"
               new == [call[c] EXCEPT !.labels = timepoints[call[c].key],
                                      !.result = result]
    <2>3. /\ new \in Call /\ new.op = call[c].op
          /\ new.key = call[c].key /\ new.after = call[c].after
      BY <2>1, <2>2 DEF Call, Results
    <2>4. /\ pc' = [pc EXCEPT ![c] = "answer"] /\ UNCHANGED <<db, trail>>
          /\ call' = [call EXCEPT ![c] = new]
      BY <1>3 DEF SelectTimepoint
    <2> HIDE DEF new
    <2>5. /\ pc' \in [Client -> {"idle", "answer"} \union DOMAIN OpAt]
          /\ call' \in [Client -> {NoCall} \union Call]
          /\ \A d \in Client : pc'[d] # "idle" => CallFits(d)'
      BY <2>1, <2>3, <2>4, GoShape DEF trail
    <2> QED
      BY <2>4, <2>5 DEF Shape, db, trail, KeyFits
  <1>4. CASE InsertDomain(c)
    <2>1. call[c].key \in Domain /\ pc[c] \in DOMAIN OpAt
      BY <1>1, <1>4 DEF InsertDomain, OpAt, KeyFits, DomainOps
    <2> QED
      BY <1>4, <2>1, FinishShape DEF InsertDomain, Results, Shape, trail, KeyFits
  <1>5. CASE SelectDomain(c)
    <2>1. pc[c] \in DOMAIN OpAt
      BY <1>5 DEF SelectDomain, OpAt
    <2>2. stateOfDomain(call[c].key) \in Results
      BY DEF stateOfDomain, Results
    <2> QED
      BY <1>5, <2>1, <2>2, FinishShape DEF SelectDomain, Shape, db, trail, KeyFits
  <1>6. CASE DomainExists(c)
    <2>1. pc[c] \in DOMAIN OpAt /\ OpAt[pc[c]] = OpAt["alreadyPublished"]
      BY <1>6 DEF DomainExists, OpAt
    <2>2. CASE Goto(c, "alreadyPublished")
      BY <2>1, <2>2, GotoShape DEF OpAt
    <2>3. CASE Finish(c, "notFound") /\ UNCHANGED db
      BY <2>1, <2>3, FinishShape DEF Results, Shape, db, trail, KeyFits
    <2> QED
      BY <1>6, <2>2, <2>3 DEF DomainExists
  <1>7. CASE AlreadyPublished(c)
    <2>1. pc[c] \in DOMAIN OpAt /\ OpAt[pc[c]] = OpAt["insertPublished"]
      BY <1>7 DEF AlreadyPublished, OpAt
    <2>2. CASE Goto(c, "insertPublished")
      BY <2>1, <2>2, GotoShape DEF OpAt
    <2>3. CASE Finish(c, "wormViolation") /\ UNCHANGED db
      BY <2>1, <2>3, FinishShape DEF Results, Shape, db, trail, KeyFits
    <2> QED
      BY <1>7, <2>2, <2>3 DEF AlreadyPublished
  <1>8. CASE InsertPublished(c)
    <2>1. call[c].key \in Domain /\ pc[c] \in DOMAIN OpAt
      BY <1>1, <1>8 DEF InsertPublished, OpAt, KeyFits, DomainOps
    <2>2. published' \in [Domain -> Nat]
      BY <1>8, <2>1 DEF InsertPublished, Shape
    <2> QED
      BY <1>8, <2>1, <2>2, FinishShape DEF InsertPublished, Results, Shape, trail, KeyFits
  <1>9. CASE InsertManifest(c)
    <2>1. call[c].key \in Cgfi /\ pc[c] \in DOMAIN OpAt
      BY <1>1, <1>9 DEF InsertManifest, OpAt, KeyFits, FileOps
    <2> QED
      BY <1>9, <2>1, FinishShape DEF InsertManifest, Results, Shape, trail, KeyFits
  <1>10. CASE SelectManifest(c)
    <2>1. pc[c] \in DOMAIN OpAt
      BY <1>10 DEF SelectManifest, OpAt
    <2>2. stateOfFile(call[c].key) \in Results
      BY DEF stateOfFile, Results
    <2> QED
      BY <1>10, <2>1, <2>2, FinishShape DEF SelectManifest, Shape, db, trail, KeyFits
  <1>11. CASE ManifestExists(c)
    <2>1. pc[c] \in DOMAIN OpAt /\ OpAt[pc[c]] = OpAt["tombstoneSnapshot"]
      BY <1>11 DEF ManifestExists, OpAt
    <2>2. CASE Goto(c, "tombstoneSnapshot")
      BY <2>1, <2>2, GotoShape DEF OpAt
    <2>3. CASE Finish(c, "notFound") /\ UNCHANGED db
      BY <2>1, <2>3, FinishShape DEF Results, Shape, db, trail, KeyFits
    <2> QED
      BY <1>11, <2>2, <2>3 DEF ManifestExists
  <1>12. CASE TombstoneSnapshot(c)
    <2>1. pc[c] \in DOMAIN OpAt /\ OpAt[pc[c]] = OpAt["insertTombstoned"]
      BY <1>12 DEF TombstoneSnapshot, OpAt
    <2>2. CASE Goto(c, "insertTombstoned")
      BY <2>1, <2>2, GotoShape DEF OpAt
    <2>3. CASE Finish(c, "gone") /\ UNCHANGED db
      BY <2>1, <2>3, FinishShape DEF Results, Shape, db, trail, KeyFits
    <2> QED
      BY <1>12, <2>2, <2>3 DEF TombstoneSnapshot
  <1>13. CASE InsertTombstoned(c)
    <2>1. call[c].key \in Cgfi /\ pc[c] \in DOMAIN OpAt
      BY <1>1, <1>13 DEF InsertTombstoned, OpAt, KeyFits, FileOps
    <2>2. tombstoned' \in [Cgfi -> Nat]
      BY <1>13, <2>1 DEF InsertTombstoned, Shape
    <2> QED
      BY <1>13, <2>1, <2>2, FinishShape DEF InsertTombstoned, Results, Shape, trail, KeyFits
  <1> QED
    BY <1>2, <1>3, <1>4, <1>5, <1>6, <1>7, <1>8, <1>9, <1>10, <1>11, <1>12, <1>13
    DEF Statement

LEMMA CallShape ==
  ASSUME Shape, NEW c \in Client,
         \/ PostTimepoint(c) \/ GetTimepoint(c)
         \/ PostDomain(c) \/ Publish(c) \/ FindDomain(c)
         \/ PostFile(c) \/ DeleteFile(c) \/ GetFile(c)
  PROVE  Shape'
  <1>1. CASE PostTimepoint(c)
    <2>1. PICK t \in Timepoint, l \in Labels :
            Start(c, "postTimepoint", "insertTimepoint", t, {l})
      BY <1>1 DEF PostTimepoint
    <2> QED
      BY <2>1, StartShape
      DEF Keys, KeyFits, Ops, TimepointOps, DomainOps, FileOps, OpAt
  <1>2. CASE GetTimepoint(c)
    BY <1>2, StartShape
    DEF GetTimepoint, Keys, KeyFits, Ops, TimepointOps, DomainOps, FileOps, OpAt
  <1>3. CASE PostDomain(c)
    BY <1>3, StartShape
    DEF PostDomain, Keys, KeyFits, Ops, TimepointOps, DomainOps, FileOps, OpAt
  <1>4. CASE Publish(c)
    BY <1>4, StartShape
    DEF Publish, Keys, KeyFits, Ops, TimepointOps, DomainOps, FileOps, OpAt
  <1>5. CASE FindDomain(c)
    BY <1>5, StartShape
    DEF FindDomain, Keys, KeyFits, Ops, TimepointOps, DomainOps, FileOps, OpAt
  <1>6. CASE PostFile(c)
    BY <1>6, StartShape
    DEF PostFile, Keys, KeyFits, Ops, TimepointOps, DomainOps, FileOps, OpAt
  <1>7. CASE DeleteFile(c)
    BY <1>7, StartShape
    DEF DeleteFile, Keys, KeyFits, Ops, TimepointOps, DomainOps, FileOps, OpAt
  <1>8. CASE GetFile(c)
    BY <1>8, StartShape
    DEF GetFile, Keys, KeyFits, Ops, TimepointOps, DomainOps, FileOps, OpAt
  <1> QED
    BY <1>1, <1>2, <1>3, <1>4, <1>5, <1>6, <1>7, <1>8

\* The reply that Answer records.
ReplyOf(r) ==
  [op |-> r.op, key |-> r.key, labels |-> r.labels, result |-> r.result,
   after |-> r.after]

LEMMA AnswerIs ==
  ASSUME Shape, NEW c \in Client, Answer(c)
  PROVE  /\ \/ answers' = answers
            \/ /\ call[c].result # "error"
               /\ answers' = Append(answers, ReplyOf(call[c]))
         /\ ReplyOf(call[c]) \in Reply /\ KeyFits(ReplyOf(call[c]))
         /\ call[c] \in Call
  <1>1. call[c] \in Call /\ KeyFits(call[c])
    BY DEF Answer, Shape, CallFits
  <1> QED
    BY <1>1 DEF Answer, ReplyOf, Call, Reply, KeyFits

LEMMA AnswerShape ==
  ASSUME Shape, NEW c \in Client, Answer(c)
  PROVE  Shape'
  <1>1. answers' \in Seq(Reply) /\ Len(answers) <= Len(answers')
        /\ \A i \in DOMAIN answers' : KeyFits(answers'[i])
    <2>1. CASE answers' = answers
      BY <2>1 DEF Shape
    <2>2. CASE answers' = Append(answers, ReplyOf(call[c]))
      BY <2>2, AnswerIs DEF Shape
    <2> QED
      BY <2>1, <2>2, AnswerIs
  <1>2. /\ pc' = [pc EXCEPT ![c] = "idle"] /\ call' = [call EXCEPT ![c] = NoCall]
        /\ UNCHANGED <<db, calls, faults>>
    BY DEF Answer
  <1>3. ASSUME NEW d \in Client, pc'[d] # "idle" PROVE CallFits(d)'
    <2>1. d # c /\ pc'[d] = pc[d] /\ call'[d] = call[d]
      BY <1>2, <1>3 DEF Shape
    <2>2. CallFits(d)
      BY <1>3, <2>1 DEF Shape
    <2>3. Len(answers) \in Nat /\ Len(answers') \in Nat /\ call[d].after \in Nat
      BY <1>1, <2>2 DEF Shape, CallFits, Call
    <2> QED
      BY <1>1, <2>1, <2>2, <2>3 DEF CallFits, KeyFits
  <1>4. pc' \in [Client -> {"idle", "answer"} \union DOMAIN OpAt]
        /\ call' \in [Client -> {NoCall} \union Call]
    BY <1>2 DEF Shape
  <1>5. \A i \in DOMAIN answers' : KeyFits(answers[i])'
    BY <1>1 DEF KeyFits
  <1> QED
    BY <1>1, <1>2, <1>3, <1>4, <1>5 DEF Shape, db, KeyFits

LEMMA FaultShape ==
  ASSUME Shape, NEW c \in Client, StatementFails(c) \/ CallerGone(c) \/ Vanish(c)
  PROVE  Shape'
  <1>1. CASE StatementFails(c)
    <2> DEFINE new == [call[c] EXCEPT !.result = "error"]
    <2>1. pc[c] \in DOMAIN OpAt /\ call[c] \in Call
      BY <1>1 DEF StatementFails, Shape, CallFits
    <2>2. /\ new \in Call /\ new.op = call[c].op
          /\ new.key = call[c].key /\ new.after = call[c].after
      BY <2>1 DEF Call, Results
    <2>3. /\ pc' = [pc EXCEPT ![c] = "answer"] /\ call' = [call EXCEPT ![c] = new]
          /\ UNCHANGED <<db, answers, calls>>
          /\ faults < MaxFaults /\ faults' = faults + 1
      BY <1>1 DEF StatementFails
    <2> HIDE DEF new
    <2>4. /\ pc' \in [Client -> {"idle", "answer"} \union DOMAIN OpAt]
          /\ call' \in [Client -> {NoCall} \union Call]
          /\ \A d \in Client : pc'[d] # "idle" => CallFits(d)'
      BY <2>1, <2>2, <2>3, GoShape
    <2>5. faults' \in 0 .. MaxFaults
      BY <2>3, BoundsAssumption DEF Shape
    <2> QED
      BY <2>3, <2>4, <2>5 DEF Shape, db, KeyFits
  <1>2. CASE CallerGone(c)
    <2> DEFINE new == [call[c] EXCEPT !.heard = FALSE]
    <2>1. CallFits(c) /\ call[c] \in Call
      BY <1>2 DEF CallerGone, Shape, CallFits
    <2>2. /\ new \in Call /\ new.op = call[c].op /\ new.labels = call[c].labels
          /\ new.key = call[c].key /\ new.after = call[c].after
      BY <2>1 DEF Call
    <2>3. /\ call' = [call EXCEPT ![c] = new] /\ UNCHANGED <<db, pc, answers, calls>>
          /\ faults < MaxFaults /\ faults' = faults + 1
      BY <1>2 DEF CallerGone
    <2> HIDE DEF new
    <2>4. ASSUME NEW d \in Client, pc'[d] # "idle" PROVE CallFits(d)'
      <3>1. CASE d = c
        BY <2>1, <2>2, <2>3, <3>1 DEF Shape, CallFits, KeyFits
      <3>2. CASE d # c
        BY <2>3, <2>4, <3>2 DEF Shape, CallFits, KeyFits
      <3> QED
        BY <3>1, <3>2
    <2>5. faults' \in 0 .. MaxFaults /\ call' \in [Client -> {NoCall} \union Call]
      BY <2>2, <2>3, BoundsAssumption DEF Shape
    <2> QED
      BY <2>3, <2>4, <2>5 DEF Shape, db, KeyFits
  <1>3. CASE Vanish(c)
    <2>1. /\ pc' = [pc EXCEPT ![c] = "idle"] /\ call' = [call EXCEPT ![c] = NoCall]
          /\ UNCHANGED <<db, trail>>
      BY <1>3 DEF Vanish
    <2>2. ASSUME NEW d \in Client, pc'[d] # "idle" PROVE CallFits(d)'
      BY <2>1, <2>2 DEF Shape, CallFits, KeyFits, trail
    <2> QED
      BY <2>1, <2>2 DEF Shape, db, trail, KeyFits
  <1> QED
    BY <1>1, <1>2, <1>3

LEMMA NextShape == Shape /\ [Next]_vars => Shape'
  <1> SUFFICES ASSUME Shape, [Next]_vars PROVE Shape'
    OBVIOUS
  <1>1. CASE UNCHANGED vars
    BY <1>1 DEF vars, Shape, CallFits, KeyFits
  <1> QED
    BY <1>1, CallShape, StatementShape, AnswerShape, FaultShape DEF Next, Rest

LEMMA ShapeIsTypeOK == Shape => TypeOK
  <1> SUFFICES ASSUME Shape PROVE TypeOK
    OBVIOUS
  <1>1. ASSUME NEW c \in Client, pc[c] # "idle"
        PROVE  /\ pc[c] \in {"insertDomain", "selectDomain", "domainExists",
                             "alreadyPublished", "insertPublished"} =>
                    call[c].key \in Domain
               /\ pc[c] \in {"insertManifest", "selectManifest", "manifestExists",
                             "tombstoneSnapshot", "insertTombstoned"} =>
                    call[c].key \in Cgfi
               /\ pc[c] \in {"insertTimepoint", "selectTimepoint"} =>
                    call[c].key \in Timepoint
               /\ pc[c] = "insertTimepoint" => \E l \in Labels : call[c].labels = {l}
               /\ call[c].after \in 0 .. Len(answers)
    <2>1. CallFits(c)
      BY <1>1 DEF Shape
    <2>2. call[c].after \in Nat /\ Len(answers) \in Nat
      BY <2>1 DEF CallFits, Call, Shape
    <2>3. call[c].after \in 0 .. Len(answers)
      BY <2>1, <2>2 DEF CallFits
    <2> QED
      BY <1>1, <2>1, <2>3
      DEF CallFits, KeyFits, OpAt, TimepointOps, DomainOps, FileOps
  <1> QED
    BY <1>1 DEF Shape, TypeOK

LEMMA ShapeHolds == Spec => []Shape
  BY InitShape, NextShape, PTL DEF Spec

\* The tables and the calls keep their types: every call that checks, inserts
\* or appends names a key of its own table.
THEOREM TypeCorrect == Spec => []TypeOK
  BY ShapeHolds, ShapeIsTypeOK, PTL

------------------------------------------------------------------------------
(* Answers say what the tables have come to *)

\* The steps of one client.
Moves(c) ==
  \/ PostTimepoint(c) \/ GetTimepoint(c)
  \/ PostDomain(c) \/ Publish(c) \/ FindDomain(c)
  \/ PostFile(c) \/ DeleteFile(c) \/ GetFile(c)
  \/ Statement(c) \/ Answer(c)
  \/ StatementFails(c) \/ CallerGone(c) \/ Vanish(c)

\* What an answer claims is so in the tables, and stays so.
Holds(r) ==
  /\ r.op = "postTimepoint" => r.result = "created" /\ timepoints[r.key] # {}
  /\ r.op = "getTimepoint" =>
       \/ r.result = "absent"
       \/ r.result = "read" /\ r.labels # {} /\ timepoints[r.key] = r.labels
  /\ r.op = "postDomain" =>
       r.result \in {"created", "duplicateName"} /\ r.key \in domains
  /\ r.op = "publish" =>
       \/ r.result = "notFound"
       \/ r.result \in {"published", "wormViolation"} /\ is_published(r.key)
  /\ r.op = "findDomain" =>
       \/ r.result = "absent"
       \/ r.result = "draft" /\ r.key \in domains
       \/ r.result = "published" /\ is_published(r.key)
  /\ r.op = "postFile" => r.result = "created" /\ r.key \in manifests
  /\ r.op = "deleteFile" =>
       \/ r.result = "notFound"
       \/ r.result = "gone" /\ is_tombstoned(r.key)
  /\ r.op = "getFile" =>
       \/ r.result = "absent"
       \/ r.result = "stored" /\ r.key \in manifests
       \/ r.result = "gone" /\ is_tombstoned(r.key)

\* An answer that is on its way.
Pending(c) == pc[c] = "answer" /\ call[c].result # "error"

Truth ==
  /\ \A i \in DOMAIN answers : Holds(answers[i])
  /\ \A c \in Client : Pending(c) => Holds(call[c])

\* No event precedes its row; calls between check and insert have checked.
EventsHaveRows ==
  /\ \A d \in Domain : is_published(d) => d \in domains
  /\ \A f \in Cgfi : is_tombstoned(f) => f \in manifests
  /\ \A c \in Client :
       /\ pc[c] \in {"alreadyPublished", "insertPublished"} => call[c].key \in domains
       /\ pc[c] \in {"tombstoneSnapshot", "insertTombstoned"} =>
            call[c].key \in manifests

\* A step of one client leaves the others alone.
LEMMA OthersStay ==
  ASSUME Shape, NEW c \in Client, Moves(c), NEW d \in Client, d # c
  PROVE  pc'[d] = pc[d] /\ call'[d] = call[d]
  BY DEF Shape, Moves, PostTimepoint, GetTimepoint, PostDomain, Publish, FindDomain,
         PostFile, DeleteFile, GetFile, Start, Statement, Answer, StatementFails,
         CallerGone, Vanish, InsertTimepoint, SelectTimepoint, InsertDomain,
         SelectDomain, DomainExists, AlreadyPublished, InsertPublished,
         InsertManifest, SelectManifest, ManifestExists, TombstoneSnapshot,
         InsertTombstoned, Goto, Finish, trail

\* The five statements that write.
Writes(c) ==
  InsertTimepoint(c) \/ InsertDomain(c) \/ InsertPublished(c)
  \/ InsertManifest(c) \/ InsertTombstoned(c)

LEMMA OnlyWritesWrite ==
  ASSUME NEW c \in Client, Moves(c), ~ Writes(c)
  PROVE  UNCHANGED db
  BY DEF Moves, PostTimepoint, GetTimepoint, PostDomain, Publish, FindDomain,
         PostFile, DeleteFile, GetFile, Start, Statement, Answer, StatementFails,
         CallerGone, Vanish, SelectTimepoint, SelectDomain, DomainExists,
         AlreadyPublished, SelectManifest, ManifestExists, TombstoneSnapshot,
         Goto, Writes

\* Rows are only ever added.
Grows ==
  /\ domains \subseteq domains' /\ manifests \subseteq manifests'
  /\ \A d \in Domain : is_published(d) => is_published(d)'
  /\ \A f \in Cgfi : is_tombstoned(f) => is_tombstoned(f)'
  /\ \A t \in Timepoint : timepoints[t] # {} => timepoints'[t] = timepoints[t]

LEMMA MovesGrow ==
  ASSUME Shape, NEW c \in Client, Moves(c)
  PROVE  Grows
  <1>1. CASE ~ Writes(c)
    BY <1>1, OnlyWritesWrite DEF Grows, db, is_published, is_tombstoned
  <1>2. CASE InsertTimepoint(c)
    BY <1>2 DEF InsertTimepoint, Grows, Shape, is_published, is_tombstoned
  <1>3. CASE InsertDomain(c) \/ InsertManifest(c)
    BY <1>3 DEF InsertDomain, InsertManifest, Grows, is_published, is_tombstoned
  <1>4. CASE InsertPublished(c)
    BY <1>4 DEF InsertPublished, Grows, Shape, is_published, is_tombstoned
  <1>5. CASE InsertTombstoned(c)
    BY <1>5 DEF InsertTombstoned, Grows, Shape, is_published, is_tombstoned
  <1> QED
    BY <1>1, <1>2, <1>3, <1>4, <1>5 DEF Writes

LEMMA HoldsStays ==
  ASSUME Grows, NEW r, KeyFits(r), Holds(r)
  PROVE  Holds(r)'
  BY DEF Grows, KeyFits, Holds, TimepointOps, DomainOps, FileOps

LEMMA FinishIs ==
  ASSUME Shape, NEW c \in Client, pc[c] \in DOMAIN OpAt, NEW result, Finish(c, result)
  PROVE  /\ pc'[c] = "answer" /\ answers' = answers
         /\ call'[c].op = OpAt[pc[c]] /\ call'[c].key = call[c].key
         /\ call'[c].labels = call[c].labels /\ call'[c].result = result
         /\ call'[c].after = call[c].after
         /\ KeyFits(call[c]) /\ call[c].op = OpAt[pc[c]]
         /\ pc[c] = "insertTimepoint" => call[c].labels # {}
  <1>1. CallFits(c) /\ pc[c] # "answer"
    BY DEF Shape, OpAt
  <1>2. call[c] \in Call /\ KeyFits(call[c]) /\ call[c].op = OpAt[pc[c]]
        /\ (pc[c] = "insertTimepoint" => call[c].labels # {})
    BY <1>1 DEF CallFits
  <1>3. pc'[c] = "answer" /\ call'[c] = [call[c] EXCEPT !.result = result]
        /\ answers' = answers
    BY DEF Finish, Shape, trail
  <1> QED
    BY <1>2, <1>3 DEF Call

LEMMA ReadIs ==
  ASSUME Shape, NEW c \in Client, SelectTimepoint(c)
  PROVE  /\ pc'[c] = "answer" /\ answers' = answers
         /\ call'[c].op = "getTimepoint" /\ call'[c].key = call[c].key
         /\ call'[c].labels = timepoints[call[c].key]
         /\ call'[c].result = IF timepoints[call[c].key] = {} THEN "absent" ELSE "read"
         /\ call'[c].after = call[c].after
         /\ call[c].key \in Timepoint /\ timepoints' = timepoints
  <1>1. CallFits(c) /\ pc[c] = "selectTimepoint"
    BY DEF Shape, OpAt, SelectTimepoint
  <1>2. call[c] \in Call /\ call[c].op = "getTimepoint" /\ call[c].key \in Timepoint
    BY <1>1 DEF CallFits, OpAt, KeyFits, TimepointOps
  <1> DEFINE t == timepoints[call[c].key]
             result == IF t = {} THEN "absent" ELSE "read"
  <1>3. /\ pc'[c] = "answer" /\ answers' = answers /\ timepoints' = timepoints
        /\ call'[c] = [call[c] EXCEPT !.labels = t, !.result = result]
    BY DEF SelectTimepoint, Shape, trail, db
  <1> HIDE DEF t, result
  <1>4. /\ call'[c].op = "getTimepoint" /\ call'[c].key = call[c].key
        /\ call'[c].labels = t /\ call'[c].result = result
        /\ call'[c].after = call[c].after
    BY <1>2, <1>3 DEF Call
  <1> QED
    BY <1>2, <1>3, <1>4 DEF t, result

\* What a statement answers holds when it is through.
LEMMA StatementHolds ==
  ASSUME Shape, EventsHaveRows, NEW c \in Client, Statement(c), pc'[c] = "answer"
  PROVE  call'[c].result = "error" \/ Holds(call[c])'
  <1>1. CASE InsertTimepoint(c)
    <2>1. /\ call'[c].op = "postTimepoint" /\ call'[c].key = call[c].key
          /\ call'[c].result = "created" /\ call[c].key \in Timepoint
          /\ call[c].labels # {}
      BY <1>1, FinishIs DEF InsertTimepoint, OpAt, KeyFits, TimepointOps
    <2>2. timepoints'[call[c].key] # {}
      BY <1>1, <2>1 DEF InsertTimepoint, Shape
    <2> QED
      BY <2>1, <2>2 DEF Holds
  <1>2. CASE SelectTimepoint(c)
    BY <1>2, ReadIs DEF Holds
  <1>3. CASE InsertDomain(c)
    <2>1. /\ call'[c].op = "postDomain" /\ call'[c].key = call[c].key
          /\ call'[c].result \in {"created", "duplicateName"}
      BY <1>3, FinishIs DEF InsertDomain, OpAt
    <2> QED
      BY <1>3, <2>1 DEF Holds, InsertDomain
  <1>4. CASE SelectDomain(c)
    <2>1. /\ call'[c].op = "findDomain" /\ call'[c].key = call[c].key
          /\ call'[c].result = stateOfDomain(call[c].key) /\ UNCHANGED db
      BY <1>4, FinishIs DEF SelectDomain, OpAt
    <2>2. \/ call'[c].result = "absent"
          \/ call'[c].result = "draft" /\ call[c].key \in domains
          \/ call'[c].result = "published" /\ is_published(call[c].key)
      BY <2>1 DEF stateOfDomain
    <2> QED
      BY <2>1, <2>2 DEF Holds, db, is_published
  <1>5. CASE DomainExists(c)
    <2>1. Finish(c, "notFound")
      BY <1>5 DEF DomainExists, Goto, Shape
    <2> QED
      BY <1>5, <2>1, FinishIs DEF DomainExists, OpAt, Holds
  <1>6. CASE AlreadyPublished(c)
    <2>1. Finish(c, "wormViolation") /\ UNCHANGED db /\ is_published(call[c].key)
      BY <1>6 DEF AlreadyPublished, Goto, Shape
    <2>2. /\ call'[c].op = "publish" /\ call'[c].key = call[c].key
          /\ call'[c].result = "wormViolation"
      BY <1>6, <2>1, FinishIs DEF AlreadyPublished, OpAt
    <2> QED
      BY <2>1, <2>2 DEF Holds, db, is_published
  <1>7. CASE InsertPublished(c)
    <2>1. /\ call'[c].op = "publish" /\ call'[c].key = call[c].key
          /\ call'[c].result = "published" /\ call[c].key \in Domain
      BY <1>7, FinishIs DEF InsertPublished, OpAt, KeyFits, DomainOps
    <2>2. published'[call[c].key] > 0
      BY <1>7, <2>1 DEF InsertPublished, Shape
    <2> QED
      BY <2>1, <2>2 DEF Holds, is_published
  <1>8. CASE InsertManifest(c)
    <2>1. /\ call'[c].op = "postFile" /\ call'[c].key = call[c].key
          /\ call'[c].result \in {"error", "created"}
      BY <1>8, FinishIs DEF InsertManifest, OpAt
    <2> QED
      BY <1>8, <2>1 DEF Holds, InsertManifest
  <1>9. CASE SelectManifest(c)
    <2>1. /\ call'[c].op = "getFile" /\ call'[c].key = call[c].key
          /\ call'[c].result = stateOfFile(call[c].key) /\ UNCHANGED db
      BY <1>9, FinishIs DEF SelectManifest, OpAt
    <2>2. \/ call'[c].result = "absent"
          \/ call'[c].result = "stored" /\ call[c].key \in manifests
          \/ call'[c].result = "gone" /\ is_tombstoned(call[c].key)
      BY <2>1 DEF stateOfFile
    <2> QED
      BY <2>1, <2>2 DEF Holds, db, is_tombstoned
  <1>10. CASE ManifestExists(c)
    <2>1. Finish(c, "notFound")
      BY <1>10 DEF ManifestExists, Goto, Shape
    <2> QED
      BY <1>10, <2>1, FinishIs DEF ManifestExists, OpAt, Holds
  <1>11. CASE TombstoneSnapshot(c)
    <2>1. Finish(c, "gone") /\ UNCHANGED db /\ is_tombstoned(call[c].key)
      BY <1>11 DEF TombstoneSnapshot, Goto, Shape
    <2>2. /\ call'[c].op = "deleteFile" /\ call'[c].key = call[c].key
          /\ call'[c].result = "gone"
      BY <1>11, <2>1, FinishIs DEF TombstoneSnapshot, OpAt
    <2> QED
      BY <2>1, <2>2 DEF Holds, db, is_tombstoned
  <1>12. CASE InsertTombstoned(c)
    <2>1. /\ call'[c].op = "deleteFile" /\ call'[c].key = call[c].key
          /\ call'[c].result = "gone" /\ call[c].key \in Cgfi
      BY <1>12, FinishIs DEF InsertTombstoned, OpAt, KeyFits, FileOps
    <2>2. tombstoned'[call[c].key] > 0
      BY <1>12, <2>1 DEF InsertTombstoned, Shape
    <2> QED
      BY <2>1, <2>2 DEF Holds, is_tombstoned
  <1> QED
    BY <1>1, <1>2, <1>3, <1>4, <1>5, <1>6, <1>7, <1>8, <1>9, <1>10, <1>11, <1>12
    DEF Statement

\* A call begins without an answer; a fault gives none.
LEMMA OtherMovesAnswer ==
  ASSUME Shape, NEW c \in Client, Moves(c), ~ Statement(c), Pending(c)'
  PROVE  /\ CallerGone(c) /\ Pending(c)
         /\ call'[c].op = call[c].op /\ call'[c].key = call[c].key
         /\ call'[c].labels = call[c].labels /\ call'[c].result = call[c].result
         /\ call'[c].after = call[c].after /\ answers' = answers
  <1>1. ~ (StatementFails(c) \/ Vanish(c) \/ Answer(c))
    <2>1. StatementFails(c) => call'[c].result = "error"
      <3> SUFFICES ASSUME StatementFails(c) PROVE call'[c].result = "error"
        OBVIOUS
      <3>1. call[c] \in Call
        BY DEF StatementFails, Shape, CallFits
      <3>2. call'[c] = [call[c] EXCEPT !.result = "error"]
        BY DEF StatementFails, Shape
      <3> QED
        BY <3>1, <3>2 DEF Call
    <2> QED
      BY <2>1 DEF Vanish, Answer, Pending, Shape
  <1>2. \A op, statement, key, labels :
          statement # "answer" => ~ Start(c, op, statement, key, labels)
    BY DEF Start, Pending, Shape
  <1>3. CallerGone(c)
    BY <1>1, <1>2
    DEF Moves, PostTimepoint, GetTimepoint, PostDomain, Publish, FindDomain,
        PostFile, DeleteFile, GetFile
  <1>4. call[c] \in Call /\ pc'[c] = pc[c] /\ answers' = answers
        /\ call'[c] = [call[c] EXCEPT !.heard = FALSE]
    BY <1>3 DEF CallerGone, Shape, CallFits
  <1> QED
    BY <1>3, <1>4 DEF Call, Pending

Known == Shape /\ EventsHaveRows /\ Truth

LEMMA NextTruth ==
  ASSUME Known, NEW c \in Client, Moves(c)
  PROVE  Truth'
  <1>1. Grows
    BY MovesGrow DEF Known
  <1>2. ASSUME NEW d \in Client, Pending(d)' PROVE Holds(call[d])'
    <2>1. CASE d # c
      <3>1. PICK r : r = call[d]
        OBVIOUS
      <3>2. call'[d] = r /\ Pending(d)
        BY <1>2, <2>1, <3>1, OthersStay DEF Pending, Known
      <3>3. KeyFits(r) /\ Holds(r)
        BY <3>1, <3>2 DEF Known, Truth, Shape, CallFits, Pending
      <3>4. Holds(r)'
        BY <1>1, <3>3, HoldsStays
      <3> QED
        BY <3>2, <3>4 DEF Holds
    <2>2. CASE d = c /\ Statement(c)
      BY <1>2, <2>2, StatementHolds DEF Known, Pending
    <2>3. CASE d = c /\ ~ Statement(c)
      <3>1. Pending(c) /\ UNCHANGED db
            /\ call'[c].op = call[c].op /\ call'[c].key = call[c].key
            /\ call'[c].labels = call[c].labels /\ call'[c].result = call[c].result
        BY <1>2, <2>3, OtherMovesAnswer DEF Known, CallerGone
      <3>2. Holds(call[c])
        BY <3>1 DEF Known, Truth
      <3> QED
        BY <2>3, <3>1, <3>2 DEF Holds, db, is_published, is_tombstoned
    <2> QED
      BY <2>1, <2>2, <2>3
  <1>3. ASSUME NEW i \in DOMAIN answers' PROVE Holds(answers[i])'
    <2>1. PICK r : r = answers'[i]
      OBVIOUS
    <2>2. KeyFits(r) /\ Holds(r)
      <3>1. CASE i \in DOMAIN answers /\ answers'[i] = answers[i]
        BY <2>1, <3>1 DEF Known, Shape, Truth
      <3>2. CASE ~ (i \in DOMAIN answers /\ answers'[i] = answers[i])
        <4>1. Answer(c)
          BY <1>3, <3>2
          DEF Moves, PostTimepoint, GetTimepoint, PostDomain, Publish, FindDomain,
              PostFile, DeleteFile, GetFile, Start, Statement, StatementFails,
              CallerGone, Vanish, InsertTimepoint, SelectTimepoint, InsertDomain,
              SelectDomain, DomainExists, AlreadyPublished, InsertPublished,
              InsertManifest, SelectManifest, ManifestExists, TombstoneSnapshot,
              InsertTombstoned, Goto, Finish, trail
        <4>2. answers' = Append(answers, ReplyOf(call[c])) /\ call[c].result # "error"
          BY <1>3, <3>2, <4>1, AnswerIs DEF Known
        <4>3. r = ReplyOf(call[c])
          BY <1>3, <2>1, <3>2, <4>2 DEF Known, Shape
        <4>4. Holds(call[c]) /\ KeyFits(call[c])
          BY <4>1, <4>2 DEF Known, Truth, Pending, Answer, Shape, CallFits
        <4> QED
          BY <4>3, <4>4 DEF ReplyOf, Holds, KeyFits
      <3> QED
        BY <3>1, <3>2
    <2>3. Holds(r)'
      BY <1>1, <2>2, HoldsStays
    <2> QED
      BY <2>1, <2>3 DEF Holds
  <1> QED
    BY <1>2, <1>3 DEF Truth

LEMMA NextEventsHaveRows ==
  ASSUME Shape, EventsHaveRows, NEW c \in Client, Moves(c)
  PROVE  EventsHaveRows'
  <1>1. Grows
    BY MovesGrow
  <1>2. ASSUME NEW d \in Domain, is_published(d)' PROVE d \in domains'
    <2>1. CASE is_published(d)
      BY <1>1, <2>1 DEF EventsHaveRows, Grows
    <2>2. CASE ~ is_published(d)
      <3>1. published' # published
        BY <1>2, <2>2 DEF is_published
      <3>2. InsertPublished(c)
        <4>1. Writes(c)
          BY <3>1, OnlyWritesWrite DEF db
        <4> QED
          BY <3>1, <4>1
          DEF Writes, InsertTimepoint, InsertDomain, InsertManifest, InsertTombstoned
      <3>3. d = call[c].key
        BY <1>2, <2>2, <3>2 DEF InsertPublished, Shape, is_published
      <3> QED
        BY <1>1, <3>2, <3>3 DEF InsertPublished, EventsHaveRows, Grows
    <2> QED
      BY <2>1, <2>2
  <1>3. ASSUME NEW f \in Cgfi, is_tombstoned(f)' PROVE f \in manifests'
    <2>1. CASE is_tombstoned(f)
      BY <1>1, <2>1 DEF EventsHaveRows, Grows
    <2>2. CASE ~ is_tombstoned(f)
      <3>1. tombstoned' # tombstoned
        BY <1>3, <2>2 DEF is_tombstoned
      <3>2. InsertTombstoned(c)
        <4>1. Writes(c)
          BY <3>1, OnlyWritesWrite DEF db
        <4> QED
          BY <3>1, <4>1
          DEF Writes, InsertTimepoint, InsertDomain, InsertManifest, InsertPublished
      <3>3. f = call[c].key
        BY <1>3, <2>2, <3>2 DEF InsertTombstoned, Shape, is_tombstoned
      <3> QED
        BY <1>1, <3>2, <3>3 DEF InsertTombstoned, EventsHaveRows, Grows
    <2> QED
      BY <2>1, <2>2
  <1>4. ASSUME NEW d \in Client
        PROVE  /\ pc'[d] \in {"alreadyPublished", "insertPublished"} =>
                    call'[d].key \in domains'
               /\ pc'[d] \in {"tombstoneSnapshot", "insertTombstoned"} =>
                    call'[d].key \in manifests'
    <2>1. CASE d # c
      BY <1>1, <2>1, OthersStay DEF EventsHaveRows, Grows
    <2>2. CASE d = c /\ DomainExists(c)
      BY <1>1, <2>2 DEF DomainExists, Goto, Finish, Shape, Grows
    <2>3. CASE d = c /\ AlreadyPublished(c)
      BY <1>1, <2>3 DEF AlreadyPublished, Goto, Finish, Shape, Grows, EventsHaveRows
    <2>4. CASE d = c /\ ManifestExists(c)
      BY <1>1, <2>4 DEF ManifestExists, Goto, Finish, Shape, Grows
    <2>5. CASE d = c /\ TombstoneSnapshot(c)
      BY <1>1, <2>5 DEF TombstoneSnapshot, Goto, Finish, Shape, Grows, EventsHaveRows
    <2>6. CASE d = c /\ CallerGone(c)
      <3>1. call[c] \in Call /\ pc' = pc
            /\ call'[c] = [call[c] EXCEPT !.heard = FALSE]
        BY <2>6 DEF CallerGone, Shape, CallFits
      <3>2. call'[c].key = call[c].key
        BY <3>1 DEF Call
      <3> QED
        BY <1>1, <2>6, <3>1, <3>2 DEF EventsHaveRows, Grows
    <2>7. CASE /\ d = c /\ ~ DomainExists(c) /\ ~ AlreadyPublished(c)
               /\ ~ ManifestExists(c) /\ ~ TombstoneSnapshot(c) /\ ~ CallerGone(c)
      <3>1. pc'[c] \notin {"alreadyPublished", "insertPublished",
                          "tombstoneSnapshot", "insertTombstoned"}
        BY <2>7
        DEF Shape, Moves, PostTimepoint, GetTimepoint, PostDomain, Publish, FindDomain,
            PostFile, DeleteFile, GetFile, Start, Statement, Answer, StatementFails,
            Vanish, InsertTimepoint, SelectTimepoint, InsertDomain, SelectDomain,
            InsertPublished, InsertManifest, SelectManifest, InsertTombstoned, Finish
      <3> QED
        BY <2>7, <3>1
    <2> QED
      BY <2>1, <2>2, <2>3, <2>4, <2>5, <2>6, <2>7
  <1> QED
    BY <1>2, <1>3, <1>4 DEF EventsHaveRows

LEMMA KnownHolds == Spec => []Known
  <1>1. Init => Known
    <2> SUFFICES ASSUME Init PROVE Known
      OBVIOUS
    <2>1. EventsHaveRows /\ Truth
      BY DEF Init, EventsHaveRows, Truth, Pending, is_published, is_tombstoned
    <2> QED
      BY <2>1, InitShape DEF Known
  <1>2. Known /\ [Next]_vars => Known'
    <2> SUFFICES ASSUME Known, [Next]_vars PROVE Known'
      OBVIOUS
    <2>1. CASE UNCHANGED vars
      BY <2>1, NextShape
      DEF vars, Known, EventsHaveRows, Truth, Pending, Holds, is_published, is_tombstoned
    <2>2. ASSUME NEW c \in Client, Moves(c) PROVE Known'
      <3>1. Shape'
        BY <2>2, NextShape DEF Known
      <3> QED
        BY <2>2, <3>1, NextTruth, NextEventsHaveRows DEF Known
    <2> QED
      BY <2>1, <2>2 DEF Next, Rest, Moves
  <1> QED
    BY <1>1, <1>2, PTL DEF Spec

------------------------------------------------------------------------------
(* Refinement *)

domainState == [d \in Domain |-> stateOfDomain(d)]
fileState   == [f \in Cgfi |-> stateOfFile(f)]

\* A row inserted once more, or an event appended once more, is a stutter.
LEMMA DomainMoves ==
  ASSUME Known, NEW c \in Client, InsertDomain(c) \/ InsertPublished(c)
  PROVE  Store!Next \/ UNCHANGED <<domainState, fileState>>
  <1>1. PICK k \in Domain : k = call[c].key
    <2>1. pc[c] \in {"insertDomain", "insertPublished"}
      BY DEF InsertDomain, InsertPublished
    <2>2. CallFits(c) /\ call[c].op \in DomainOps
      BY <2>1 DEF Known, Shape, CallFits, OpAt, DomainOps
    <2> QED
      BY <2>2 DEF CallFits, KeyFits
  <1>2. fileState' = fileState
    BY DEF fileState, stateOfFile, is_tombstoned, InsertDomain, InsertPublished
  <1>3. CASE InsertDomain(c)
    <2>1. domains' = domains \union {k} /\ published' = published
      BY <1>1, <1>3 DEF InsertDomain
    <2>2. CASE k \in domains
      BY <1>2, <2>1, <2>2 DEF domainState, stateOfDomain, is_published
    <2>3. CASE k \notin domains
      <3>1. stateOfDomain(k) = "absent" /\ stateOfDomain(k)' = "draft"
        <4>1. ~ is_published(k)
          BY <1>1, <2>3 DEF Known, EventsHaveRows
        <4> QED
          BY <2>1, <2>3, <4>1 DEF stateOfDomain, is_published
      <3>2. \A d \in Domain \ {k} : stateOfDomain(d)' = stateOfDomain(d)
        BY <2>1 DEF stateOfDomain, is_published
      <3>3. domainState' = [domainState EXCEPT ![k] = "draft"]
        BY <1>1, <3>1, <3>2 DEF domainState
      <3>4. domainState[k] = "absent"
        BY <1>1, <3>1 DEF domainState
      <3> QED
        BY <1>1, <1>2, <3>3, <3>4
        DEF Store!Next, Store!MoveDomain, domainState, fileState
    <2> QED
      BY <2>2, <2>3
  <1>4. CASE InsertPublished(c)
    <2>1. /\ published' = [published EXCEPT ![k] = @ + 1] /\ domains' = domains
          /\ k \in domains /\ published[k] \in Nat
      BY <1>1, <1>4 DEF InsertPublished, Known, EventsHaveRows, Shape
    <2>2. is_published(k)' /\ \A d \in Domain \ {k} : is_published(d)' = is_published(d)
      BY <1>1, <2>1 DEF is_published, Known, Shape
    <2>3. stateOfDomain(k)' = "published"
          /\ \A d \in Domain \ {k} : stateOfDomain(d)' = stateOfDomain(d)
      BY <2>1, <2>2 DEF stateOfDomain
    <2>4. CASE is_published(k)
      <3>1. stateOfDomain(k) = "published"
        BY <2>1, <2>4 DEF stateOfDomain
      <3> QED
        BY <1>2, <2>3, <3>1 DEF domainState
    <2>5. CASE ~ is_published(k)
      <3>1. stateOfDomain(k) = "draft"
        BY <2>1, <2>5 DEF stateOfDomain
      <3>2. domainState' = [domainState EXCEPT ![k] = "published"]
            /\ domainState[k] = "draft"
        BY <1>1, <2>3, <3>1 DEF domainState
      <3> QED
        BY <1>1, <1>2, <3>2
        DEF Store!Next, Store!MoveDomain, domainState, fileState
    <2> QED
      BY <2>4, <2>5
  <1> QED
    BY <1>3, <1>4

LEMMA FileMoves ==
  ASSUME Known, NEW c \in Client, InsertManifest(c) \/ InsertTombstoned(c)
  PROVE  Store!Next \/ UNCHANGED <<domainState, fileState>>
  <1>1. PICK k \in Cgfi : k = call[c].key
    <2>1. pc[c] \in {"insertManifest", "insertTombstoned"}
      BY DEF InsertManifest, InsertTombstoned
    <2>2. CallFits(c) /\ call[c].op \in FileOps
      BY <2>1 DEF Known, Shape, CallFits, OpAt, FileOps
    <2> QED
      BY <2>2 DEF CallFits, KeyFits
  <1>2. domainState' = domainState
    BY DEF domainState, stateOfDomain, is_published, InsertManifest, InsertTombstoned
  <1>3. CASE InsertManifest(c)
    <2>1. manifests' = manifests \union {k} /\ tombstoned' = tombstoned
      BY <1>1, <1>3 DEF InsertManifest
    <2>2. CASE k \in manifests
      BY <1>2, <2>1, <2>2 DEF fileState, stateOfFile, is_tombstoned
    <2>3. CASE k \notin manifests
      <3>1. stateOfFile(k) = "absent" /\ stateOfFile(k)' = "stored"
        <4>1. ~ is_tombstoned(k)
          BY <1>1, <2>3 DEF Known, EventsHaveRows
        <4> QED
          BY <2>1, <2>3, <4>1 DEF stateOfFile, is_tombstoned
      <3>2. \A f \in Cgfi \ {k} : stateOfFile(f)' = stateOfFile(f)
        BY <2>1 DEF stateOfFile, is_tombstoned
      <3>3. fileState' = [fileState EXCEPT ![k] = "stored"] /\ fileState[k] = "absent"
        BY <1>1, <3>1, <3>2 DEF fileState
      <3> QED
        BY <1>1, <1>2, <3>3 DEF Store!Next, Store!MoveFile, domainState, fileState
    <2> QED
      BY <2>2, <2>3
  <1>4. CASE InsertTombstoned(c)
    <2>1. /\ tombstoned' = [tombstoned EXCEPT ![k] = @ + 1] /\ manifests' = manifests
          /\ k \in manifests /\ tombstoned[k] \in Nat
      BY <1>1, <1>4 DEF InsertTombstoned, Known, EventsHaveRows, Shape
    <2>2. is_tombstoned(k)' /\ \A f \in Cgfi \ {k} : is_tombstoned(f)' = is_tombstoned(f)
      BY <1>1, <2>1 DEF is_tombstoned, Known, Shape
    <2>3. stateOfFile(k)' = "gone"
          /\ \A f \in Cgfi \ {k} : stateOfFile(f)' = stateOfFile(f)
      BY <2>1, <2>2 DEF stateOfFile
    <2>4. CASE is_tombstoned(k)
      <3>1. stateOfFile(k) = "gone"
        BY <2>1, <2>4 DEF stateOfFile
      <3> QED
        BY <1>2, <2>3, <3>1 DEF fileState
    <2>5. CASE ~ is_tombstoned(k)
      <3>1. stateOfFile(k) = "stored"
        BY <2>1, <2>5 DEF stateOfFile
      <3>2. fileState' = [fileState EXCEPT ![k] = "gone"] /\ fileState[k] = "stored"
        BY <1>1, <2>3, <3>1 DEF fileState
      <3> QED
        BY <1>1, <1>2, <3>2 DEF Store!Next, Store!MoveFile, domainState, fileState
    <2> QED
      BY <2>4, <2>5
  <1> QED
    BY <1>3, <1>4

\* Every behaviour of the tables, with calls interleaved, statements that
\* fail and processes that go away, is a behaviour of the abstract store.
THEOREM StoreIsImplemented == Spec => ImplementsStore
  <1>1. Init => Store!Init
    BY DEF Init, Store!Init, stateOfDomain, stateOfFile
  <1>2. Known /\ [Next]_vars => [Store!Next]_<<domainState, fileState>>
    <2> SUFFICES ASSUME Known, [Next]_vars
                 PROVE  Store!Next \/ UNCHANGED <<domainState, fileState>>
      OBVIOUS
    <2>1. ASSUME UNCHANGED db PROVE UNCHANGED <<domainState, fileState>>
      BY <2>1 DEF db, domainState, fileState, stateOfDomain, stateOfFile,
                  is_published, is_tombstoned
    <2>2. ASSUME NEW c \in Client, Moves(c)
          PROVE  Store!Next \/ UNCHANGED <<domainState, fileState>>
      <3>1. CASE ~ Writes(c)
        BY <2>1, <2>2, <3>1, OnlyWritesWrite
      <3>2. CASE InsertTimepoint(c)
        BY <3>2 DEF InsertTimepoint, domainState, fileState, stateOfDomain,
                    stateOfFile, is_published, is_tombstoned
      <3> QED
        BY <3>1, <3>2, DomainMoves, FileMoves DEF Writes
    <2>3. CASE UNCHANGED vars
      BY <2>1, <2>3 DEF vars, db
    <2> QED
      BY <2>2, <2>3 DEF Next, Rest, Moves
  <1>3. Known /\ [Next]_vars => [Store!Next]_Store!storeVars
    BY <1>2 DEF Store!storeVars, domainState, fileState
  <1> QED
    BY <1>1, <1>3, KnownHolds, PTL DEF Spec, ImplementsStore, Store!Spec

------------------------------------------------------------------------------
(* One creator *)

Created(r) == r.op \in {"postDomain", "postFile"} /\ r.result = "created"
Same(r, q) == r.op = q.op /\ r.key = q.key

\* Two answers of success, given or on their way, never speak of one row.
Unique ==
  /\ \A i, j \in DOMAIN answers :
       Created(answers[i]) /\ Created(answers[j]) /\ Same(answers[i], answers[j])
       => i = j
  /\ \A c, d \in Client :
       /\ pc[c] = "answer" /\ pc[d] = "answer"
       /\ Created(call[c]) /\ Created(call[d]) /\ Same(call[c], call[d])
       => c = d
  /\ \A c \in Client, i \in DOMAIN answers :
       pc[c] = "answer" /\ Created(call[c]) /\ Created(answers[i])
       => ~ Same(call[c], answers[i])

\* Only Answer adds an answer, at the end.
LEMMA AnswersGrow ==
  ASSUME Shape, NEW c \in Client, Moves(c)
  PROVE  \/ answers' = answers
         \/ /\ Answer(c) /\ pc[c] = "answer" /\ pc'[c] = "idle"
            /\ call[c].result # "error"
            /\ answers' = Append(answers, ReplyOf(call[c]))
            /\ call[c] \in Call
  <1>1. CASE Answer(c)
    BY <1>1, AnswerIs DEF Answer, Shape
  <1>2. CASE ~ Answer(c)
    BY <1>2
    DEF Moves, PostTimepoint, GetTimepoint, PostDomain, Publish, FindDomain,
        PostFile, DeleteFile, GetFile, Start, Statement, StatementFails,
        CallerGone, Vanish, InsertTimepoint, SelectTimepoint, InsertDomain,
        SelectDomain, DomainExists, AlreadyPublished, InsertPublished,
        InsertManifest, SelectManifest, ManifestExists, TombstoneSnapshot,
        InsertTombstoned, Goto, Finish, trail
  <1> QED
    BY <1>1, <1>2

\* The row of an answer of success is new when its statement is through.
Fresh(r) ==
  \/ r.op = "postDomain" /\ r.key \notin domains
  \/ r.op = "postFile" /\ r.key \notin manifests

LEMMA FreshHasNoAnswer ==
  ASSUME NEW r, NEW q, Fresh(r), Holds(q), Created(q)
  PROVE  ~ Same(r, q)
  BY DEF Fresh, Holds, Created, Same

LEMMA CreatedIsFresh ==
  ASSUME Shape, NEW c \in Client, Moves(c), pc'[c] = "answer", Created(call[c])'
  PROVE  /\ answers' = answers
         /\ \/ pc[c] = "answer" /\ Created(call[c]) /\ Same(call[c], call'[c])
            \/ Fresh(call'[c])
  <1>1. CASE Statement(c)
    <2>1. /\ ~ InsertTimepoint(c) /\ ~ SelectTimepoint(c) /\ ~ SelectDomain(c)
          /\ ~ InsertPublished(c) /\ ~ SelectManifest(c) /\ ~ InsertTombstoned(c)
      <3>1. ~ SelectTimepoint(c)
        BY ReadIs DEF Created
      <3>2. \A result : Finish(c, result) /\ pc[c] \in DOMAIN OpAt =>
                OpAt[pc[c]] \in {"postDomain", "postFile"}
        BY FinishIs DEF Created
      <3> QED
        BY <3>1, <3>2 DEF InsertTimepoint, SelectDomain, InsertPublished,
                          SelectManifest, InsertTombstoned, OpAt
    <2>2. ~ DomainExists(c) /\ ~ AlreadyPublished(c)
          /\ ~ ManifestExists(c) /\ ~ TombstoneSnapshot(c)
      <3>1. \A result : Finish(c, result) /\ pc[c] \in DOMAIN OpAt =>
                OpAt[pc[c]] \in {"postDomain", "postFile"}
        BY FinishIs DEF Created
      <3>2. \A next : next # "answer" => ~ Goto(c, next)
        BY DEF Goto, Shape
      <3> QED
        BY <3>1, <3>2 DEF DomainExists, AlreadyPublished, ManifestExists,
                          TombstoneSnapshot, OpAt
    <2>3. CASE InsertDomain(c)
      <3>1. /\ call'[c].op = "postDomain" /\ call'[c].key = call[c].key
            /\ answers' = answers
            /\ call'[c].result = IF call[c].key \in domains THEN "duplicateName"
                                 ELSE "created"
        BY <2>3, FinishIs DEF InsertDomain, OpAt
      <3> QED
        BY <3>1 DEF Fresh, Created
    <2>4. CASE InsertManifest(c)
      <3>1. /\ call'[c].op = "postFile" /\ call'[c].key = call[c].key
            /\ answers' = answers
            /\ call'[c].result = IF call[c].key \in manifests THEN "error"
                                 ELSE "created"
        BY <2>4, FinishIs DEF InsertManifest, OpAt
      <3> QED
        BY <3>1 DEF Fresh, Created
    <2> QED
      BY <1>1, <2>1, <2>2, <2>3, <2>4 DEF Statement
  <1>2. CASE ~ Statement(c)
    <2>1. Pending(c)'
      BY DEF Pending, Created
    <2> QED
      BY <1>2, <2>1, OtherMovesAnswer DEF Pending, Created, Same
  <1> QED
    BY <1>1, <1>2

LEMMA NextUnique ==
  ASSUME Known, Unique, NEW c \in Client, Moves(c)
  PROVE  Unique'
  <1> USE DEF Known
  \* An answer of the next state is one of this state or the one on its way.
  <1>1. ASSUME NEW i \in DOMAIN answers',
               ~ (i \in DOMAIN answers /\ answers'[i] = answers[i])
        PROVE  /\ i = Len(answers) + 1 /\ pc[c] = "answer" /\ pc'[c] = "idle"
               /\ call[c].result # "error" /\ answers'[i] = ReplyOf(call[c])
    <2>1. answers \in Seq(Reply) /\ answers' # answers
      BY <1>1 DEF Shape
    <2>2. /\ pc[c] = "answer" /\ pc'[c] = "idle" /\ call[c].result # "error"
          /\ answers' = Append(answers, ReplyOf(call[c]))
      BY <2>1, AnswersGrow
    <2> QED
      BY <1>1, <2>1, <2>2
  <1>2. ASSUME NEW d \in Client, d # c
        PROVE  pc'[d] = pc[d] /\ call'[d] = call[d]
    BY <1>2, OthersStay
  <1>3. ASSUME NEW i \in DOMAIN answers', NEW j \in DOMAIN answers',
               Created(answers'[i]), Created(answers'[j]),
               Same(answers'[i], answers'[j])
        PROVE  i = j
    <2> DEFINE Old(k) == k \in DOMAIN answers /\ answers'[k] = answers[k]
    <2>1. CASE Old(i) /\ Old(j)
      BY <1>3, <2>1 DEF Unique
    <2>2. CASE Old(i) /\ ~ Old(j)
      BY <1>1, <1>3, <2>2 DEF Unique, ReplyOf, Created, Same
    <2>3. CASE ~ Old(i) /\ Old(j)
      BY <1>1, <1>3, <2>3 DEF Unique, ReplyOf, Created, Same
    <2>4. CASE ~ Old(i) /\ ~ Old(j)
      BY <1>1, <2>4
    <2> QED
      BY <2>1, <2>2, <2>3, <2>4
  \* A row that is new has no answer yet.
  <1>4. ASSUME pc'[c] = "answer", Created(call'[c]), Fresh(call'[c])
        PROVE  /\ \A d \in Client : pc[d] = "answer" /\ Created(call[d]) =>
                      ~ Same(call'[c], call[d])
               /\ \A i \in DOMAIN answers : Created(answers[i]) =>
                      ~ Same(call'[c], answers[i])
    <2>1. \A d \in Client : pc[d] = "answer" /\ Created(call[d]) => Holds(call[d])
      BY DEF Truth, Pending, Created
    <2>2. \A i \in DOMAIN answers : Holds(answers[i])
      BY DEF Truth
    <2> QED
      BY <1>4, <2>1, <2>2, FreshHasNoAnswer
  <1>5. ASSUME NEW d \in Client, d # c, pc'[c] = "answer", pc'[d] = "answer",
               Created(call'[c]), Created(call'[d])
        PROVE  ~ Same(call'[c], call'[d])
    <2>1. CASE Fresh(call'[c])
      BY <1>2, <1>4, <1>5, <2>1
    <2>2. CASE pc[c] = "answer" /\ Created(call[c]) /\ Same(call[c], call'[c])
      BY <1>2, <1>5, <2>2 DEF Unique, Same
    <2> QED
      BY <1>5, <2>1, <2>2, CreatedIsFresh DEF Created
  <1>6. ASSUME NEW d \in Client, NEW i \in DOMAIN answers', pc'[d] = "answer",
               Created(call'[d]), Created(answers'[i])
        PROVE  ~ Same(call'[d], answers'[i])
    <2>1. CASE d = c
      <3>1. /\ answers' = answers
            /\ \/ pc[c] = "answer" /\ Created(call[c]) /\ Same(call[c], call'[c])
               \/ Fresh(call'[c])
        BY <1>6, <2>1, CreatedIsFresh DEF Created
      <3> QED
        BY <1>4, <1>6, <2>1, <3>1 DEF Unique, Same
    <2>2. CASE d # c /\ i \in DOMAIN answers /\ answers'[i] = answers[i]
      BY <1>2, <1>6, <2>2 DEF Unique
    <2>3. CASE d # c /\ ~ (i \in DOMAIN answers /\ answers'[i] = answers[i])
      <3>1. pc[c] = "answer" /\ answers'[i] = ReplyOf(call[c])
        BY <1>1, <2>3
      <3>2. pc[d] = "answer" /\ call'[d] = call[d]
        BY <1>2, <1>6, <2>3
      <3> QED
        BY <1>6, <2>3, <3>1, <3>2 DEF Unique, ReplyOf, Created, Same
    <2> QED
      BY <2>1, <2>2, <2>3
  <1>7. \A d, e \in Client :
          pc'[d] = "answer" /\ pc'[e] = "answer" /\ Created(call'[d])
          /\ Created(call'[e]) /\ Same(call'[d], call'[e]) => d = e
    <2> SUFFICES ASSUME NEW d \in Client, NEW e \in Client, d # e,
                        pc'[d] = "answer", pc'[e] = "answer",
                        Created(call'[d]), Created(call'[e]), Same(call'[d], call'[e])
                 PROVE  FALSE
      OBVIOUS
    <2>1. CASE d = c
      BY <1>5, <2>1
    <2>2. CASE e = c
      BY <1>5, <2>2 DEF Same
    <2>3. CASE d # c /\ e # c
      BY <1>2, <2>3 DEF Unique
    <2> QED
      BY <2>1, <2>2, <2>3
  <1> QED
    BY <1>3, <1>6, <1>7 DEF Unique, Created, Same

LEMMA UniqueHolds == Spec => []Unique
  <1>1. Init => Unique
    BY DEF Init, Unique
  <1>2. Known /\ Unique /\ [Next]_vars => Unique'
    <2>1. ASSUME Unique, UNCHANGED vars PROVE Unique'
      BY <2>1 DEF vars, Unique, Created, Same
    <2> QED
      BY <2>1, NextUnique DEF Next, Rest, Moves
  <1> QED
    BY <1>1, <1>2, KnownHolds, PTL DEF Spec

\* However many callers post one domain, or one file, and however their
\* statements interleave, fail or lose their caller, at most one is told that
\* it was created.
THEOREM CreatorIsAlone == Spec => []OneCreator
  <1>1. Unique => OneCreator
    BY DEF Unique, OneCreator, Created, Same
  <1> QED
    BY <1>1, UniqueHolds, PTL

------------------------------------------------------------------------------
(* What a call finds that starts after an answer was given *)

\* Nobody had been told that the domain is published.
Untold(key, after) == \A a \in Before(key, after) : a.result # "published"

\* An answer takes up those given before its call started.
Sequel(r) ==
  /\ r.op = "publish" /\ r.result = "published" => Untold(r.key, r.after)
  /\ r.op \in {"findDomain", "getFile"} =>
       \A a \in Before(r.key, r.after) : Progress(a.result) <= Progress(r.result)
  /\ r.op = "getTimepoint" =>
       \A a \in Before(r.key, r.after) :
         \/ a.op = "postTimepoint" /\ r.result = "read"
         \/ a.op = "getTimepoint" /\ a.result = "absent"
         \/ a.op = "getTimepoint" /\ a.labels = r.labels

\* An event is appended by a call that began before anybody was told of one.
Sequels ==
  /\ \A i \in DOMAIN answers :
       answers[i].after <= Len(answers) /\ Sequel(answers[i])
  /\ \A c \in Client :
       /\ Pending(c) => Sequel(call[c])
       /\ pc[c] = "insertPublished" => Untold(call[c].key, call[c].after)

LEMMA ProgressIs ==
  /\ \A r \in {"absent", "notFound"} : Progress(r) = 0
  /\ \A r \in {"draft", "stored", "created", "duplicateName"} : Progress(r) = 1
  /\ \A r \in {"published", "gone", "wormViolation"} : Progress(r) = 2
  BY DEF Progress

\* At most one more answer.
Appended == answers' = answers \/ \E x \in Reply : answers' = Append(answers, x)

\* The answers before a call stay the same.
LEMMA BeforeStays ==
  ASSUME Shape, Appended,
         NEW key, NEW after \in Nat, after <= Len(answers)
  PROVE  Before(key, after)' = Before(key, after)
  <1>1. \A i \in 1 .. after : answers'[i] = answers[i]
    <2>1. answers \in Seq(Reply)
      BY DEF Shape
    <2>2. CASE answers' = answers
      BY <2>2
    <2>3. ASSUME NEW x \in Reply, answers' = Append(answers, x)
          PROVE  \A i \in 1 .. after : answers'[i] = answers[i]
      BY <2>1, <2>3
    <2> QED
      BY <2>2, <2>3 DEF Appended
  <1> QED
    BY <1>1 DEF Before

LEMMA SequelStays ==
  ASSUME Shape, Appended,
         NEW r, r.after \in Nat, r.after <= Len(answers)
  PROVE  /\ Sequel(r) => Sequel(r)'
         /\ Untold(r.key, r.after) => Untold(r.key, r.after)'
  <1>1. Before(r.key, r.after)' = Before(r.key, r.after)
    BY BeforeStays
  <1> QED
    BY <1>1 DEF Sequel, Untold

LEMMA BeforeHolds ==
  ASSUME Known, NEW key, NEW after \in Nat, after <= Len(answers),
         NEW a \in Before(key, after)
  PROVE  a \in Reply /\ KeyFits(a) /\ Holds(a) /\ a.key = key
  <1>1. PICK i \in 1 .. after : a = answers[i] /\ a.key = key
    BY DEF Before
  <1>2. i \in DOMAIN answers
    BY DEF Known, Shape
  <1> QED
    BY <1>1, <1>2 DEF Known, Shape, Truth

\* What the table says is as far as any answer about it has gone.
LEMMA DomainReadKeepsUp ==
  ASSUME Known, NEW key \in Domain, NEW after \in Nat, after <= Len(answers),
         NEW a \in Before(key, after)
  PROVE  /\ Progress(a.result) <= Progress(stateOfDomain(key))
         /\ a.result = "published" => is_published(key)
  <1>1. a \in Reply /\ KeyFits(a) /\ Holds(a) /\ a.key = key
    BY BeforeHolds
  <1>2. a.op \in DomainOps
    BY <1>1, KeysAssumption DEF Reply, Ops, KeyFits
  <1>3. \/ a.result \in {"absent", "notFound"}
        \/ a.result \in {"draft", "created", "duplicateName"} /\ key \in domains
        \/ a.result \in {"published", "wormViolation"} /\ is_published(key)
    BY <1>1, <1>2 DEF Holds, DomainOps
  <1>4. is_published(key) => key \in domains
    BY DEF Known, EventsHaveRows
  <1>5. \/ stateOfDomain(key) = "absent" /\ key \notin domains
        \/ stateOfDomain(key) = "draft" /\ ~ is_published(key)
        \/ stateOfDomain(key) = "published"
    BY DEF stateOfDomain
  <1> QED
    BY <1>3, <1>4, <1>5, ProgressIs

LEMMA FileReadKeepsUp ==
  ASSUME Known, NEW key \in Cgfi, NEW after \in Nat, after <= Len(answers),
         NEW a \in Before(key, after)
  PROVE  Progress(a.result) <= Progress(stateOfFile(key))
  <1>1. a \in Reply /\ KeyFits(a) /\ Holds(a) /\ a.key = key
    BY BeforeHolds
  <1>2. a.op \in FileOps
    BY <1>1, KeysAssumption DEF Reply, Ops, KeyFits
  <1>3. \/ a.result \in {"absent", "notFound"}
        \/ a.result \in {"stored", "created"} /\ key \in manifests
        \/ a.result = "gone" /\ is_tombstoned(key)
    BY <1>1, <1>2 DEF Holds, FileOps
  <1>4. is_tombstoned(key) => key \in manifests
    BY DEF Known, EventsHaveRows
  <1>5. \/ stateOfFile(key) = "absent" /\ key \notin manifests
        \/ stateOfFile(key) = "stored" /\ ~ is_tombstoned(key)
        \/ stateOfFile(key) = "gone"
    BY DEF stateOfFile
  <1> QED
    BY <1>3, <1>4, <1>5, ProgressIs

LEMMA TimepointReadKeepsUp ==
  ASSUME Known, NEW key \in Timepoint, NEW after \in Nat, after <= Len(answers),
         NEW a \in Before(key, after)
  PROVE  \/ a.op = "postTimepoint" /\ timepoints[key] # {}
         \/ a.op = "getTimepoint" /\ a.result = "absent"
         \/ a.op = "getTimepoint" /\ a.labels = timepoints[key]
  <1>1. a \in Reply /\ KeyFits(a) /\ Holds(a) /\ a.key = key
    BY BeforeHolds
  <1>2. a.op \in TimepointOps
    BY <1>1, KeysAssumption DEF Reply, Ops, KeyFits
  <1> QED
    BY <1>1, <1>2 DEF Holds, TimepointOps

LEMMA StatementSequel ==
  ASSUME Known, Sequels, NEW c \in Client, Statement(c), pc'[c] = "answer"
  PROVE  Sequel(call'[c])
  <1>1. pc[c] \in DOMAIN OpAt
    BY DEF OpAt, Statement, InsertTimepoint, SelectTimepoint, InsertDomain,
           SelectDomain, DomainExists, AlreadyPublished, InsertPublished,
           InsertManifest, SelectManifest, ManifestExists, TombstoneSnapshot,
           InsertTombstoned
  <1>2. CallFits(c) /\ call[c] \in Call /\ call[c].op = OpAt[pc[c]]
        /\ KeyFits(call[c]) /\ call[c].after \in Nat /\ call[c].after <= Len(answers)
    <2>1. pc[c] # "idle" /\ pc[c] # "answer"
      BY <1>1 DEF OpAt
    <2>2. CallFits(c)
      BY <2>1 DEF Known, Shape
    <2> QED
      BY <2>1, <2>2 DEF CallFits, Call
  <1>3. CASE SelectTimepoint(c)
    <2>1. /\ call'[c].op = "getTimepoint" /\ call'[c].key = call[c].key
          /\ call'[c].labels = timepoints[call[c].key]
          /\ call'[c].result = IF timepoints[call[c].key] = {} THEN "absent" ELSE "read"
          /\ call'[c].after = call[c].after /\ call[c].key \in Timepoint
      BY <1>3, ReadIs DEF Known
    <2> QED
      BY <1>2, <2>1, TimepointReadKeepsUp DEF Sequel
  <1>4. CASE SelectDomain(c)
    <2>1. /\ call'[c].op = "findDomain" /\ call'[c].key = call[c].key
          /\ call'[c].result = stateOfDomain(call[c].key)
          /\ call'[c].after = call[c].after /\ call[c].key \in Domain
      BY <1>1, <1>4, FinishIs DEF Known, SelectDomain, OpAt, KeyFits, DomainOps
    <2> QED
      BY <1>2, <2>1, DomainReadKeepsUp DEF Sequel
  <1>5. CASE SelectManifest(c)
    <2>1. /\ call'[c].op = "getFile" /\ call'[c].key = call[c].key
          /\ call'[c].result = stateOfFile(call[c].key)
          /\ call'[c].after = call[c].after /\ call[c].key \in Cgfi
      BY <1>1, <1>5, FinishIs DEF Known, SelectManifest, OpAt, KeyFits, FileOps
    <2> QED
      BY <1>2, <2>1, FileReadKeepsUp DEF Sequel
  <1>6. CASE InsertPublished(c)
    <2>1. /\ call'[c].op = "publish" /\ call'[c].key = call[c].key
          /\ call'[c].after = call[c].after
      BY <1>1, <1>6, FinishIs DEF Known, InsertPublished, OpAt
    <2>2. Untold(call[c].key, call[c].after)
      BY <1>6 DEF Sequels, InsertPublished
    <2> QED
      BY <2>1, <2>2 DEF Sequel
  <1>7. CASE /\ ~ SelectTimepoint(c) /\ ~ SelectDomain(c) /\ ~ SelectManifest(c)
             /\ ~ InsertPublished(c)
    <2>1. PICK result \in Results \ {"published"} : Finish(c, result)
      BY <1>7 DEF Statement, InsertTimepoint, InsertDomain, DomainExists,
                  AlreadyPublished, InsertManifest, ManifestExists,
                  TombstoneSnapshot, InsertTombstoned, Goto, Known, Shape, Results
    <2>2. OpAt[pc[c]] \notin {"findDomain", "getFile", "getTimepoint"}
      BY <1>7 DEF Statement, InsertTimepoint, InsertDomain, DomainExists,
                  AlreadyPublished, InsertManifest, ManifestExists,
                  TombstoneSnapshot, InsertTombstoned, OpAt
    <2>3. call'[c].op = OpAt[pc[c]] /\ call'[c].result = result
      BY <1>1, <2>1, FinishIs DEF Known
    <2> QED
      BY <2>2, <2>3 DEF Sequel
  <1> QED
    BY <1>3, <1>4, <1>5, <1>6, <1>7

LEMMA NextSequels ==
  ASSUME Known, Sequels, NEW c \in Client, Moves(c)
  PROVE  Sequels'
  <1>1. Appended
    BY AnswersGrow, AnswerIs DEF Known, Appended
  <1>2. answers \in Seq(Reply) /\ Len(answers) \in Nat /\ Len(answers) <= Len(answers')
    BY <1>1 DEF Known, Shape, Appended
  <1>3. ASSUME NEW d \in Client, Pending(d)'
        PROVE  Sequel(call[d])'
    <2>1. PICK r : r = call'[d]
      OBVIOUS
    <2>2. Sequel(r) /\ r.after \in Nat /\ r.after <= Len(answers)
      <3>1. CASE d # c
        <4>1. call'[d] = call[d] /\ Pending(d)
          BY <1>3, <3>1, OthersStay DEF Known, Pending
        <4>2. CallFits(d)
          BY <4>1 DEF Known, Shape, Pending
        <4> QED
          BY <2>1, <4>1, <4>2 DEF Sequels, CallFits, Call
      <3>2. CASE d = c /\ Statement(c)
        <4>1. Sequel(r)
          BY <1>3, <2>1, <3>2, StatementSequel DEF Pending
        <4>2. r.after = call[c].after /\ CallFits(c)
          <5>1. pc[c] \notin {"idle", "answer"} /\ CallFits(c)
            BY <3>2
            DEF Statement, InsertTimepoint, SelectTimepoint, InsertDomain,
                SelectDomain, DomainExists, AlreadyPublished, InsertPublished,
                InsertManifest, SelectManifest, ManifestExists, TombstoneSnapshot,
                InsertTombstoned, Known, Shape
          <5>2. pc[c] \in DOMAIN OpAt
            BY <5>1 DEF Known, Shape
          <5>3. SelectTimepoint(c) \/ \E result : Finish(c, result)
            BY <1>3, <3>2
            DEF Statement, InsertTimepoint, InsertDomain, SelectDomain, DomainExists,
                AlreadyPublished, InsertPublished, InsertManifest, SelectManifest,
                ManifestExists, TombstoneSnapshot, InsertTombstoned, Goto, Pending,
                Known, Shape
          <5> QED
            BY <2>1, <3>2, <5>1, <5>2, <5>3, FinishIs, ReadIs DEF Known
        <4> QED
          BY <4>1, <4>2 DEF CallFits, Call
      <3>3. CASE d = c /\ ~ Statement(c)
        <4>1. /\ Pending(c) /\ r.op = call[c].op /\ r.key = call[c].key
              /\ r.labels = call[c].labels /\ r.result = call[c].result
              /\ r.after = call[c].after
          BY <1>3, <2>1, <3>3, OtherMovesAnswer DEF Known
        <4>2. CallFits(c) /\ Sequel(call[c])
          BY <4>1 DEF Known, Shape, Pending, Sequels
        <4> QED
          BY <4>1, <4>2 DEF Sequel, CallFits, Call
      <3> QED
        BY <3>1, <3>2, <3>3
    <2>3. Sequel(r)'
      BY <1>1, <2>2, SequelStays DEF Known
    <2> QED
      BY <2>1, <2>3 DEF Sequel, Untold, Before
  <1>4. ASSUME NEW i \in DOMAIN answers'
        PROVE  answers'[i].after <= Len(answers') /\ Sequel(answers[i])'
    <2>1. PICK r : r = answers'[i]
      OBVIOUS
    <2>2. Sequel(r) /\ r.after \in Nat /\ r.after <= Len(answers)
      <3>1. CASE i \in DOMAIN answers /\ answers'[i] = answers[i]
        <4>1. answers[i] \in Reply /\ r = answers[i]
          BY <1>2, <2>1, <3>1
        <4>2. r.after \in Nat
          BY <4>1 DEF Reply
        <4> QED
          BY <3>1, <4>1, <4>2 DEF Sequels
      <3>2. CASE ~ (i \in DOMAIN answers /\ answers'[i] = answers[i])
        <4>1. /\ pc[c] = "answer" /\ call[c].result # "error"
              /\ answers' = Append(answers, ReplyOf(call[c]))
          BY <1>2, <1>4, <3>2, AnswersGrow DEF Known
        <4>2. r = ReplyOf(call[c])
          BY <1>2, <1>4, <2>1, <3>2, <4>1
        <4>3. CallFits(c) /\ Sequel(call[c])
          BY <4>1 DEF Known, Shape, Sequels, Pending
        <4> QED
          BY <4>2, <4>3 DEF ReplyOf, Sequel, CallFits, Call
      <3> QED
        BY <3>1, <3>2
    <2>3. Sequel(r)'
      BY <1>1, <2>2, SequelStays DEF Known
    <2>4. r.after <= Len(answers')
      BY <1>2, <2>2
    <2> QED
      BY <2>1, <2>3, <2>4 DEF Sequel, Untold, Before
  <1>5. ASSUME NEW d \in Client, pc'[d] = "insertPublished"
        PROVE  Untold(call[d].key, call[d].after)'
    <2>1. PICK r : r = call'[d]
      OBVIOUS
    <2>2. Untold(r.key, r.after) /\ r.after \in Nat /\ r.after <= Len(answers)
      <3>1. CASE d # c
        <4>1. call'[d] = call[d] /\ pc[d] = "insertPublished"
          BY <1>5, <3>1, OthersStay DEF Known
        <4>2. CallFits(d)
          BY <4>1 DEF Known, Shape
        <4> QED
          BY <2>1, <4>1, <4>2 DEF Sequels, CallFits, Call
      <3>2. CASE d = c /\ AlreadyPublished(c)
        <4>1. call' = call /\ ~ is_published(call[c].key)
          BY <1>5, <3>2 DEF AlreadyPublished, Goto, Finish, Known, Shape
        <4>2. CallFits(c) /\ call[c].op = "publish"
          BY <3>2 DEF AlreadyPublished, Known, Shape, CallFits, OpAt
        <4>3. call[c].key \in Domain /\ r.after \in Nat /\ r.after <= Len(answers)
          BY <2>1, <3>2, <4>1, <4>2 DEF CallFits, KeyFits, DomainOps, Call
        <4> QED
          BY <2>1, <3>2, <4>1, <4>3, DomainReadKeepsUp DEF Untold
      <3>3. CASE d = c /\ CallerGone(c)
        <4>1. pc[c] = "insertPublished" /\ CallFits(c)
              /\ call'[c] = [call[c] EXCEPT !.heard = FALSE]
          BY <1>5, <3>3 DEF CallerGone, Known, Shape
        <4>2. r.key = call[c].key /\ r.after = call[c].after
          BY <2>1, <3>3, <4>1 DEF CallFits, Call
        <4> QED
          BY <4>1, <4>2 DEF Sequels, CallFits, Call
      <3>4. CASE d = c /\ ~ AlreadyPublished(c) /\ ~ CallerGone(c)
        BY <1>5, <3>4
        DEF Known, Shape, Moves, PostTimepoint, GetTimepoint, PostDomain, Publish,
            FindDomain, PostFile, DeleteFile, GetFile, Start, Statement, Answer,
            StatementFails, Vanish, InsertTimepoint, SelectTimepoint, InsertDomain,
            SelectDomain, DomainExists, InsertPublished, InsertManifest,
            SelectManifest, ManifestExists, TombstoneSnapshot, InsertTombstoned,
            Goto, Finish
      <3> QED
        BY <3>1, <3>2, <3>3, <3>4
    <2>3. Untold(r.key, r.after)'
      BY <1>1, <2>2, SequelStays DEF Known
    <2> QED
      BY <2>1, <2>3 DEF Untold, Before
  <1> QED
    BY <1>3, <1>4, <1>5 DEF Sequels

LEMMA SequelsHold == Spec => []Sequels
  <1>1. Init => Sequels
    BY DEF Init, Sequels, Pending
  <1>2. Known /\ Sequels /\ [Next]_vars => Sequels'
    <2>1. ASSUME Sequels, UNCHANGED vars PROVE Sequels'
      BY <2>1 DEF vars, Sequels, Sequel, Untold, Before, Pending
    <2> QED
      BY <2>1, NextSequels DEF Next, Rest, Moves
  <1> QED
    BY <1>1, <1>2, KnownHolds, PTL DEF Spec

\* A publish that starts when somebody has been told that the domain is
\* published never succeeds, although check and insert are two statements.
THEOREM KnownStaysRejected == Spec => []PublishRejectsKnown
  <1>1. Sequels => PublishRejectsKnown
    BY DEF Sequels, Sequel, Untold, PublishRejectsKnown
  <1> QED
    BY <1>1, SequelsHold, PTL

\* No read falls behind an answer that was given before the read started.
THEOREM ReadsKeepUp == Spec => []ReadsNeverRegress
  <1>1. Sequels => ReadsNeverRegress
    BY DEF Sequels, Sequel, ReadsNeverRegress
  <1> QED
    BY <1>1, SequelsHold, PTL
==============================================================================
