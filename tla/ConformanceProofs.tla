--------------------------- MODULE ConformanceProofs ---------------------------
(***************************************************************************)
(* Conformance for every suite, level, set of clients, number of signals   *)
(* and restarts: types; that the program says KONFORM only of a run that   *)
(* was served; that one signal cuts no request off.                        *)
(*                                                                         *)
(* SrvInv is what the server promises whoever asks: a server whose pool    *)
(* ends has nobody waiting and keeps no connection, and a handler that     *)
(* runs was let in.  KitInv relates it to the program: its connection      *)
(* carries the request of the current test (AskInv), its tokens are no     *)
(* newer than the secret (TokenInv), what it took out of answers is what   *)
(* the next request needs (GotInv), the files of the suite are where the   *)
(* tests so far left them (FileInv), and a request that was not served,    *)
(* and that no test has failed of yet, makes a later test fail (DoomedInv).*)
(* A DELETE whose answer is an error may have deleted: of BB-092, which    *)
(* does not read it, FileInv leaves that open, and the 410 that the test   *)
(* wants next decides.                                                     *)
(***************************************************************************)
EXTENDS Conformance, SequenceTheorems, TLAPS

------------------------------------------------------------------------------
(* The server *)

Waiting == {"body", "handling"}

\* What a connection is made of.
Fields == {"st", "req", "body", "left", "gone"}
ConnFits(k) ==
  \/ k = Idle
  \/ k = Cut
  \/ /\ k.st \in Waiting /\ k.left \in Nat /\ k.gone \in BOOLEAN
     /\ DOMAIN k = Fields
  \/ k.st = "answered" /\ k.status \in Nat /\ k.secret \in Nat

\* Nobody waits for a server whose pool ends, and it keeps no connection; a
\* handler that runs was let in.
SrvInv ==
  /\ SrvTypeOK
  /\ closers <= signals
  /\ proc \in {"ending", "exited"} => kept = {} /\ \A c \in Client : ~Open(c)
  /\ conn = [c \in Client |-> conn[c]]
  /\ \A c \in Client :
       /\ ConnFits(conn[c])
       /\ conn[c].st = "handling" => applyAuth(conn[c].req) = "accepted"

LEMMA SrvInitInv == SrvInit => SrvInv
  BY ServerAssumption
  DEF SrvInit, SrvInv, SrvTypeOK, Open, ConnFits, Idle, Running

\* Answers to requests that were not let in, found nothing to run or failed
\* before they ran.
Unserved(r, status, auth) ==
  \/ auth = "accepted" /\ status \in {204, 404, 408, 500}
  \/ /\ auth = applyAuth(r) /\ auth # "accepted"
     /\ status = IF auth = "missing" THEN 401 ELSE 403

LEMMA StatusType == \A r : Status(r) \in Nat \ {0} /\ Failure(r) \in Nat \ {0}
  BY DEF Status, Failure

LEMMA StatementsAre ==
  ASSUME SrvInv, NEW r, Statements(r) > 0
  PROVE  Statements(r) \in Nat \ {0} /\ storage = "postgres"
  <1>1. storage # "memory"
    BY DEF Statements
  <1>2. Statements(r) \in {0, 1, 2}
    BY <1>1 DEF Statements
  <1> QED
    BY <1>1, <1>2 DEF SrvInv, SrvTypeOK

Serves(c) ==
  \/ Handle(c) \/ BodyArrives(c) \/ BodyTimesOut(c)
  \/ Statement(c) \/ StatementFails(c) \/ StatementRefused(c)

\* A request the server goes on with, and one that ends with an answer; what it
\* has done to the files by then.
GoesOn(c) ==
  \E s \in Waiting, n \in Nat, b \in {"whole", conn[c].body} :
    /\ conn' = [conn EXCEPT ![c] = [conn[c] EXCEPT !.st = s, !.left = n, !.body = b]]
    /\ s = "handling" => n > 0 /\ storage = "postgres" /\ applyAuth(conn[c].req) = "accepted"
    /\ UNCHANGED <<files, kept>>
Ends(c, status, auth) ==
  \/ conn[c].gone /\ conn' = Outcome(c, Cut) /\ kept' = kept
  \/ /\ conn' = Outcome(c, Answered(status, auth))
     /\ kept' = kept \/ (~conn[c].gone /\ kept' = kept \union {c})
Refuses(r, status, auth) == Unserved(r, status, auth) /\ files' = files
Fails(r, status, auth) ==
  /\ status = Failure(r) /\ auth = "accepted" /\ applyAuth(r) = "accepted"
  /\ files' = files \/ files' = FilesAfter(r)
Does(r, status, auth) ==
  /\ status = Status(r) /\ auth = "accepted" /\ applyAuth(r) = "accepted"
  /\ files' = FilesAfter(r)

LEMMA ReplyEnds ==
  ASSUME NEW c, NEW status, NEW auth, Reply(c, status, auth)
  PROVE  Ends(c, status, auth)
  BY DEF Reply, Ends

LEMMA HandleIs ==
  ASSUME SrvInv, NEW c \in Client, Handle(c)
  PROVE  \/ GoesOn(c)
         \/ \E status \in Nat, auth \in {"accepted", "missing", "foreign", "unfit"} :
              /\ Ends(c, status, auth)
              /\ \/ Refuses(conn[c].req, status, auth)
                 \/ Does(conn[c].req, status, auth)
  <1> DEFINE r == conn[c].req
             Known == r.method # "OPTIONS" /\ <<r.method, r.path>> \in Routes
  <1>1. Running /\ conn[c].st = "body" /\ DOMAIN conn[c] = Fields
    BY DEF Handle, SrvInv, ConnFits, Idle, Cut, Waiting
  <1>2. CASE r.method = "OPTIONS"
    <2>1. Reply(c, 204, "accepted") /\ files' = files
      BY <1>2 DEF Handle
    <2>2. Ends(c, 204, "accepted") /\ Refuses(r, 204, "accepted") /\ 204 \in Nat
      BY <2>1, ReplyEnds DEF Refuses, Unserved
    <2> QED
      BY <2>2
  <1>3. CASE r.method # "OPTIONS" /\ ~Known
    <2>1. Reply(c, 404, "accepted") /\ files' = files
      BY <1>3 DEF Handle
    <2>2. Ends(c, 404, "accepted") /\ Refuses(r, 404, "accepted") /\ 404 \in Nat
      BY <2>1, ReplyEnds DEF Refuses, Unserved
    <2> QED
      BY <2>2
  <1>4. CASE Known /\ conn[c].body = "broken"
    <2>1. Reply(c, 500, "accepted") /\ files' = files
      BY <1>4 DEF Handle
    <2>2. Ends(c, 500, "accepted") /\ Refuses(r, 500, "accepted") /\ 500 \in Nat
      BY <2>1, ReplyEnds DEF Refuses, Unserved
    <2> QED
      BY <2>2
  <1>5. CASE Known /\ conn[c].body # "broken" /\ applyAuth(r) # "accepted"
    <2> DEFINE status == IF applyAuth(r) = "missing" THEN 401 ELSE 403
               auth == applyAuth(r)
    <2>1. Reply(c, status, auth) /\ files' = files
      BY <1>5 DEF Handle
    <2>2. auth \in {"accepted", "missing", "foreign", "unfit"} /\ status \in Nat
      BY DEF applyAuth, checkAuth
    <2>3. Ends(c, status, auth) /\ Refuses(r, status, auth)
      BY <1>5, <2>1, ReplyEnds DEF Refuses, Unserved
    <2> HIDE DEF status, auth
    <2> QED
      BY <2>2, <2>3
  <1>6. CASE Known /\ conn[c].body # "broken" /\ applyAuth(r) = "accepted" /\ Statements(r) > 0
    <2>1. /\ conn' = [conn EXCEPT ![c].st = "handling", ![c].left = Statements(r)]
          /\ UNCHANGED <<kept, files>>
      BY <1>6 DEF Handle
    <2>2. Statements(r) \in Nat /\ Statements(r) > 0 /\ storage = "postgres"
      BY <1>6, StatementsAre
    <2> DEFINE n == Statements(r)
    <2>3. [[conn[c] EXCEPT !.st = "handling"] EXCEPT !.left = n] =
            [conn[c] EXCEPT !.st = "handling", !.left = n, !.body = conn[c].body]
      BY <1>1 DEF Fields
    <2>4. conn' = [conn EXCEPT ![c] = [conn[c] EXCEPT !.st = "handling", !.left = n,
                                                     !.body = conn[c].body]]
      BY <2>1, <2>3 DEF SrvInv
    <2> HIDE DEF n
    <2>5. n \in Nat /\ n > 0
      BY <2>2 DEF n
    <2> QED
      BY <1>6, <2>1, <2>2, <2>4, <2>5 DEF GoesOn, Waiting
  <1>7. CASE Known /\ conn[c].body # "broken" /\ applyAuth(r) = "accepted" /\ ~ Statements(r) > 0
    <2>1. Reply(c, Status(r), "accepted") /\ files' = FilesAfter(r)
      BY <1>7 DEF Handle
    <2>2. Ends(c, Status(r), "accepted") /\ Does(r, Status(r), "accepted") /\ Status(r) \in Nat
      BY <1>7, <2>1, ReplyEnds, StatusType DEF Does
    <2> QED
      BY <2>2
  <1> QED
    BY <1>2, <1>3, <1>4, <1>5, <1>6, <1>7

\* What becomes of a request that the server goes on with.
LEMMA ServesIs ==
  ASSUME SrvInv, NEW c \in Client, Serves(c)
  PROVE  /\ Running /\ conn[c].st \in Waiting /\ UNCHANGED srvProcess
         /\ \/ GoesOn(c)
            \/ \E status \in Nat, auth \in {"accepted", "missing", "foreign", "unfit"} :
                 /\ Ends(c, status, auth)
                 /\ \/ Refuses(conn[c].req, status, auth)
                    \/ Fails(conn[c].req, status, auth)
                    \/ Does(conn[c].req, status, auth)
  <1> DEFINE r == conn[c].req
  <1>0. conn[c].st \in Waiting => DOMAIN conn[c] = Fields /\ conn[c].left \in Nat
    BY DEF SrvInv, ConnFits, Idle, Cut, Waiting
  <1>1. CASE Handle(c)
    BY <1>1, HandleIs DEF Handle, Waiting
  <1>2. CASE BodyArrives(c)
    <2>1. /\ Running /\ conn[c].st = "body" /\ UNCHANGED srvProcess
          /\ UNCHANGED <<files, kept>> /\ conn' = [conn EXCEPT ![c].body = "whole"]
      BY <1>2 DEF BodyArrives
    <2>2. [conn[c] EXCEPT !.body = "whole"] =
            [conn[c] EXCEPT !.st = "body", !.left = conn[c].left, !.body = "whole"]
      BY <1>0, <2>1 DEF Fields, Waiting
    <2>3. conn' = [conn EXCEPT ![c] = [conn[c] EXCEPT !.st = "body", !.left = conn[c].left,
                                                     !.body = "whole"]]
      BY <2>1, <2>2 DEF SrvInv
    <2> QED
      BY <1>0, <2>1, <2>3 DEF GoesOn, Waiting
  <1>3. CASE BodyTimesOut(c)
    <2>1. /\ Ends(c, 408, "accepted") /\ Refuses(r, 408, "accepted") /\ 408 \in Nat
          /\ Running /\ conn[c].st = "body" /\ UNCHANGED srvProcess
      BY <1>3 DEF BodyTimesOut, Ends, Refuses, Unserved, Running
    <2> QED
      BY <2>1 DEF Waiting
  <1>4. CASE Statement(c)
    <2>1. /\ Running /\ conn[c].st = "handling" /\ UNCHANGED srvProcess
          /\ applyAuth(r) = "accepted" /\ storage = "postgres"
      BY <1>4 DEF Statement, PoolOpen, Running, SrvInv, SrvTypeOK
    <2>2. CASE conn[c].left > 1
      <3> DEFINE n == conn[c].left - 1
      <3>1. conn' = [conn EXCEPT ![c].left = n] /\ UNCHANGED <<kept, files>>
        BY <1>4, <2>2 DEF Statement
      <3>2. [conn[c] EXCEPT !.left = n] =
              [conn[c] EXCEPT !.st = "handling", !.left = n, !.body = conn[c].body]
        BY <1>0, <2>1 DEF Fields, Waiting
      <3>3. conn' = [conn EXCEPT ![c] = [conn[c] EXCEPT !.st = "handling", !.left = n,
                                                       !.body = conn[c].body]]
        BY <3>1, <3>2 DEF SrvInv
      <3>4. n \in Nat /\ n > 0
        BY <1>0, <2>1, <2>2 DEF Waiting
      <3> HIDE DEF n
      <3> QED
        BY <2>1, <3>1, <3>3, <3>4 DEF GoesOn, Waiting
    <2>3. CASE ~ conn[c].left > 1
      <3>1. Reply(c, Status(r), "accepted") /\ files' = FilesAfter(r)
        BY <1>4, <2>3 DEF Statement
      <3>2. Ends(c, Status(r), "accepted") /\ Does(r, Status(r), "accepted") /\ Status(r) \in Nat
        BY <2>1, <3>1, ReplyEnds, StatusType DEF Does
      <3> QED
        BY <2>1, <3>2 DEF Waiting
    <2> QED
      BY <2>2, <2>3
  <1>5. CASE StatementFails(c) \/ StatementRefused(c)
    <2>1. /\ Running /\ conn[c].st = "handling" /\ UNCHANGED srvProcess
          /\ applyAuth(r) = "accepted"
      BY <1>5 DEF StatementFails, StatementRefused, PoolOpen, Running, SrvInv, SrvTypeOK
    <2>2. Reply(c, Failure(r), "accepted") /\ (files' = files \/ files' = FilesAfter(r))
      BY <1>5 DEF StatementFails, StatementRefused
    <2>3. Ends(c, Failure(r), "accepted") /\ Fails(r, Failure(r), "accepted") /\ Failure(r) \in Nat
      BY <2>1, <2>2, ReplyEnds, StatusType DEF Fails
    <2> QED
      BY <2>1, <2>3 DEF Waiting
  <1> QED
    BY <1>1, <1>2, <1>3, <1>4, <1>5 DEF Serves

\* The check of a token depends on the secret of the process only.
LEMMA AuthStays ==
  ASSUME SrvInv, UNCHANGED <<secretFixed, gen>>, NEW d, conn'[d] = conn[d]
  PROVE  applyAuth(conn[d].req)' = applyAuth(conn[d].req)
  BY DEF applyAuth, checkAuth, verifyJWT, JWT_SECRET

LEMMA FilesType ==
  ASSUME SrvInv, NEW r
  PROVE  FilesAfter(r) \in [File -> {"absent", "live", "tombstone"}]
  BY DEF FilesAfter, SrvInv, SrvTypeOK

\* A waiting connection with another state, count and body, and one given up.
LEMMA RunningOn ==
  ASSUME NEW x, DOMAIN x = Fields, NEW s, NEW n, NEW b
  PROVE  LET y == [x EXCEPT !.st = s, !.left = n, !.body = b]
         IN  /\ DOMAIN y = Fields
             /\ y.st = s /\ y.left = n /\ y.req = x.req /\ y.gone = x.gone
  BY DEF Fields
LEMMA GivingUp ==
  ASSUME NEW x, DOMAIN x = Fields
  PROVE  LET y == [x EXCEPT !.gone = TRUE]
         IN  /\ DOMAIN y = Fields
             /\ y.st = x.st /\ y.left = x.left /\ y.req = x.req /\ y.gone = TRUE
  BY DEF Fields

\* A step that touches the connection of one client only.
LEMMA OneConnInv ==
  ASSUME SrvInv, NEW c \in Client, NEW k, ConnFits(k),
         conn' = [conn EXCEPT ![c] = k], UNCHANGED srvProcess,
         files' \in [File -> {"absent", "live", "tombstone"}],
         kept' \subseteq kept \union {c},
         c \in kept' => k.st \in {"idle", "answered"},
         proc \in {"ending", "exited"} =>
           c \notin kept' /\ (k.st \in {"body", "handling"} => k.gone),
         k.st \in {"idle", "body", "handling", "answered", "cut"},
         k.st \in {"body", "handling"} => Running,
         k.st = "handling" =>
           storage = "postgres" /\ k.left > 0 /\ applyAuth(k.req) = "accepted"
  PROVE  SrvInv'
  <1> USE DEF srvProcess
  <1>1. /\ conn' = [d \in Client |-> conn'[d]] /\ conn'[c] = k
        /\ \A d \in Client : d # c => conn'[d] = conn[d]
    BY DEF SrvInv
  <1>2. ASSUME NEW d \in Client
        PROVE  /\ ConnFits(conn[d])'
               /\ (conn[d].st = "handling" => applyAuth(conn[d].req) = "accepted")'
    <2>1. CASE d = c
      <3>1. ConnFits(conn[d])'
        BY <1>1, <2>1 DEF ConnFits, Idle, Cut
      <3>2. ASSUME conn'[d].st = "handling" PROVE (applyAuth(conn[d].req) = "accepted")'
        <4>1. conn'[d] = k /\ applyAuth(k.req) = "accepted"
          BY <1>1, <2>1, <3>2
        <4> QED
          BY <4>1 DEF applyAuth, checkAuth, verifyJWT, JWT_SECRET
      <3> QED
        BY <3>1, <3>2
    <2>2. CASE d # c
      <3>1. conn'[d] = conn[d]
        BY <1>1, <2>2
      <3>2. ConnFits(conn[d])'
        BY <3>1 DEF SrvInv, ConnFits, Idle, Cut
      <3>3. applyAuth(conn[d].req)' = applyAuth(conn[d].req)
        BY <3>1, AuthStays
      <3> QED
        BY <3>1, <3>2, <3>3 DEF SrvInv
    <2> QED
      BY <2>1, <2>2
  <1>3. ASSUME NEW d \in Client
        PROVE  /\ conn'[d].st \in {"idle", "body", "handling", "answered", "cut"}
               /\ conn'[d].st = "handling" => conn'[d].left > 0 /\ storage' = "postgres"
               /\ conn'[d].st \in {"body", "handling"} => Running'
    BY <1>1 DEF SrvInv, SrvTypeOK, Running
  <1>4. ASSUME proc' \in {"ending", "exited"} PROVE kept' = {} /\ \A d \in Client : ~Open(d)'
    <2>1. kept = {} /\ \A d \in Client : ~Open(d)
      BY <1>4 DEF SrvInv
    <2>2. kept' = {}
      BY <1>4, <2>1
    <2>3. ASSUME NEW d \in Client PROVE ~Open(d)'
      BY <1>1, <1>4, <2>1 DEF Open
    <2> QED
      BY <2>2, <2>3
  <1>5. kept' \subseteq {d \in Client : conn'[d].st \in {"idle", "answered"}}
    BY <1>1 DEF SrvInv, SrvTypeOK
  <1>6. SrvTypeOK'
    BY <1>3, <1>5 DEF SrvInv, SrvTypeOK
  <1>7. closers' <= signals'
    BY DEF SrvInv
  <1> QED
    BY <1>1, <1>2, <1>4, <1>6, <1>7 DEF SrvInv

\* What a request ends with fits: one that is looked at and one that is not.
LEMMA OutcomeInv ==
  ASSUME SrvInv, NEW c \in Client, NEW k, ConnFits(k), k.st \in {"answered", "cut"},
         conn' = Outcome(c, k), UNCHANGED srvProcess,
         files' \in [File -> {"absent", "live", "tombstone"}],
         kept' \subseteq kept \union {c},
         c \in kept' => k.st = "answered",
         proc \in {"ending", "exited"} => c \notin kept'
  PROVE  SrvInv'
  <1>1. CASE c \in Watched
    BY <1>1, OneConnInv DEF Outcome
  <1>2. CASE c \notin Watched
    <2>1. conn' = [conn EXCEPT ![c] = Idle] /\ ConnFits(Idle) /\ Idle.st = "idle"
      BY <1>2 DEF Outcome, ConnFits, Idle
    <2> QED
      BY <2>1, OneConnInv
  <1> QED
    BY <1>1, <1>2

LEMMA EndsFit ==
  ASSUME SrvInv, NEW status \in Nat, NEW auth
  PROVE  /\ ConnFits(Answered(status, auth)) /\ Answered(status, auth).st = "answered"
         /\ ConnFits(Cut) /\ Cut.st = "cut"
  <1>1. JWT_SECRET \in Nat
    BY DEF SrvInv, SrvTypeOK, JWT_SECRET
  <1> QED
    BY <1>1 DEF ConnFits, Answered, Cut

LEMMA ServesInv ==
  ASSUME SrvInv, NEW c \in Client, Serves(c)
  PROVE  SrvInv'
  <1> DEFINE r == conn[c].req
  <1>1. Running /\ conn[c].st \in Waiting /\ UNCHANGED srvProcess
    BY ServesIs
  <1>2. /\ conn[c].left \in Nat /\ conn[c].gone \in BOOLEAN /\ DOMAIN conn[c] = Fields
        /\ c \notin kept
    BY <1>1 DEF SrvInv, SrvTypeOK, ConnFits, Idle, Cut, Waiting
  <1>3. proc \in {"ending", "exited"} => conn[c].gone
    BY <1>1 DEF SrvInv, Open, Waiting
  <1>4. CASE GoesOn(c)
    <2>1. PICK s \in Waiting, n \in Nat, b \in {"whole", conn[c].body} :
            /\ conn' = [conn EXCEPT ![c] = [conn[c] EXCEPT !.st = s, !.left = n, !.body = b]]
            /\ s = "handling" => n > 0 /\ storage = "postgres" /\ applyAuth(r) = "accepted"
            /\ UNCHANGED <<files, kept>>
      BY <1>4 DEF GoesOn
    <2> DEFINE k == [conn[c] EXCEPT !.st = s, !.left = n, !.body = b]
    <2>2. DOMAIN k = Fields /\ k.st = s /\ k.left = n /\ k.req = r /\ k.gone = conn[c].gone
      BY <1>2, RunningOn
    <2>3. ConnFits(k)
      BY <1>2, <2>2 DEF ConnFits
    <2>4. conn' = [conn EXCEPT ![c] = k]
      BY <2>1
    <2>5. files' \in [File -> {"absent", "live", "tombstone"}]
      BY <2>1 DEF SrvInv, SrvTypeOK
    <2> HIDE DEF k
    <2>6. k.st \in {"body", "handling"} /\ c \notin kept' /\ kept' \subseteq kept \union {c}
      BY <1>2, <2>1, <2>2 DEF Waiting
    <2> QED
      BY <1>1, <1>3, <2>1, <2>2, <2>3, <2>4, <2>5, <2>6, OneConnInv
  <1>5. ASSUME NEW status \in Nat, NEW auth, Ends(c, status, auth),
               files' = files \/ files' = FilesAfter(r)
        PROVE  SrvInv'
    <2>1. files' \in [File -> {"absent", "live", "tombstone"}]
      BY <1>5, FilesType DEF SrvInv, SrvTypeOK
    <2>2. CASE conn' = Outcome(c, Cut) /\ kept' = kept
      BY <1>1, <1>2, <2>1, <2>2, EndsFit, OutcomeInv
    <2>3. CASE /\ conn' = Outcome(c, Answered(status, auth))
               /\ kept' = kept \/ (~conn[c].gone /\ kept' = kept \union {c})
      <3>1. kept' \subseteq kept \union {c} /\ (proc \in {"ending", "exited"} => c \notin kept')
        BY <1>2, <1>3, <2>3
      <3> QED
        BY <1>1, <2>1, <2>3, <3>1, EndsFit, OutcomeInv
    <2> QED
      BY <1>5, <2>2, <2>3 DEF Ends
  <1> QED
    BY <1>4, <1>5, ServesIs DEF Refuses, Fails, Does

LEMMA KeptInv ==
  ASSUME SrvInv, NEW c \in Client, KeptTimesOut(c)
  PROVE  SrvInv'
  <1>1. /\ UNCHANGED <<storage, secretFixed, gen, proc, closers, exitCode, files, signals, conn>>
        /\ kept' \subseteq kept
    BY DEF KeptTimesOut, srvProcess
  <1>2. \A q : applyAuth(q)' = applyAuth(q)
    BY <1>1 DEF applyAuth, checkAuth, verifyJWT, JWT_SECRET
  <1> QED
    BY <1>1, <1>2 DEF SrvInv, SrvTypeOK, Running, Open, ConnFits

LEMMA ConnectInv ==
  ASSUME SrvInv, NEW c \in Client, NEW r, NEW body, Connect(c, r, body)
  PROVE  SrvInv'
  <1>1. UNCHANGED srvProcess /\ files' = files /\ kept' = kept \ {c}
    BY DEF Connect, Connects
  <1>2. files' \in [File -> {"absent", "live", "tombstone"}]
    BY <1>1 DEF SrvInv, SrvTypeOK
  <1>3. CASE conn' = [conn EXCEPT ![c] = Asking(r, body)] /\ (c \in kept \/ proc = "listening")
    <2>1. ConnFits(Asking(r, body)) /\ Asking(r, body).st = "body"
      BY DEF ConnFits, Asking, Waiting, Fields
    <2>2. Running /\ proc \notin {"ending", "exited"}
      BY <1>3 DEF Running, SrvInv, SrvTypeOK
    <2> QED
      BY <1>1, <1>2, <1>3, <2>1, <2>2, OneConnInv
  <1>4. CASE conn' = Outcome(c, Cut)
    <2>1. ConnFits(Cut) /\ Cut.st = "cut"
      BY DEF ConnFits, Cut
    <2> QED
      BY <1>1, <1>2, <1>4, <2>1, OutcomeInv
  <1> QED
    BY <1>3, <1>4 DEF Connect, Connects

LEMMA HangUpInv ==
  ASSUME SrvInv, NEW c \in Client, HangUp(c)
  PROVE  SrvInv'
  <1>1. /\ UNCHANGED srvProcess /\ kept' = kept
        /\ files' \in [File -> {"absent", "live", "tombstone"}]
        /\ conn[c].st \in {"body", "handling"}
    BY DEF HangUp, Open, SrvInv, SrvTypeOK
  <1>2. /\ conn[c].left \in Nat /\ conn[c].gone \in BOOLEAN /\ Running
        /\ DOMAIN conn[c] = Fields /\ c \notin kept
    BY <1>1 DEF SrvInv, SrvTypeOK, ConnFits, Idle, Cut
  <1>3. CASE conn[c].st = "body"
    <2>1. ConnFits(Cut) /\ Cut.st = "cut"
      BY DEF ConnFits, Cut
    <2>2. conn' = Outcome(c, Cut)
      BY <1>3 DEF HangUp
    <2> QED
      BY <1>1, <1>2, <2>1, <2>2, OutcomeInv
  <1>4. CASE conn[c].st = "handling"
    <2> DEFINE k == [conn[c] EXCEPT !.gone = TRUE]
    <2>1. /\ DOMAIN k = Fields
          /\ k.st = "handling" /\ k.req = conn[c].req /\ k.left = conn[c].left /\ k.gone
      BY <1>2, <1>4, GivingUp
    <2>2. ConnFits(k)
      BY <1>2, <2>1 DEF ConnFits, Waiting
    <2>3. /\ storage = "postgres" /\ conn[c].left > 0
          /\ applyAuth(conn[c].req) = "accepted"
      BY <1>4 DEF SrvInv, SrvTypeOK
    <2>4. conn' = [conn EXCEPT ![c] = k]
      BY <1>4 DEF HangUp
    <2> HIDE DEF k
    <2> QED
      BY <1>1, <1>2, <2>1, <2>2, <2>3, <2>4, OneConnInv
  <1> QED
    BY <1>1, <1>3, <1>4

LEMMA LeaveInv ==
  ASSUME SrvInv, NEW c \in Client, Leave(c)
  PROVE  SrvInv'
  <1>1. ConnFits(Idle) /\ Idle.st = "idle"
    BY DEF ConnFits, Idle
  <1>2. /\ files' \in [File -> {"absent", "live", "tombstone"}] /\ UNCHANGED srvProcess
        /\ kept' = kept /\ conn' = [conn EXCEPT ![c] = Idle]
    BY DEF Leave, SrvInv, SrvTypeOK
  <1>3. proc \in {"ending", "exited"} => kept = {}
    BY DEF SrvInv
  <1> QED
    BY <1>1, <1>2, <1>3, OneConnInv

\* Signals, the end of the process and the next one.
LEMMA ProcessInv ==
  ASSUME SrvInv, Signal \/ Drained \/ Exit \/ DieOfSecondEnd \/ Restart
  PROVE  SrvInv'
  <1>1. CASE Signal
    <2>1. \A q : applyAuth(q)' = applyAuth(q)
      BY <1>1 DEF applyAuth, checkAuth, verifyJWT, JWT_SECRET, Signal
    <2> QED
      BY <1>1, <2>1, ServerAssumption DEF Signal, SrvInv, SrvTypeOK, Running, Open, ConnFits
  <1>2. CASE Drained
    <2>1. \A q : applyAuth(q)' = applyAuth(q)
      BY <1>2 DEF applyAuth, checkAuth, verifyJWT, JWT_SECRET, Drained
    <2> QED
      BY <1>2, <2>1 DEF Drained, SrvInv, SrvTypeOK, Running, Open, ConnFits
  <1>3. ASSUME NEW n \in {0, 1}, Exits(n) PROVE SrvInv'
    <2>1. /\ conn' = [d \in Client |-> conn'[d]]
          /\ \A d \in Client : conn'[d] = IF conn[d].st \notin {"body", "handling"} THEN conn[d]
                                          ELSE IF d \in Watched THEN Cut ELSE Idle
      BY <1>3 DEF Exits
    <2>2. ConnFits(Cut) /\ Cut.st = "cut" /\ ConnFits(Idle) /\ Idle.st = "idle"
      BY DEF ConnFits, Cut, Idle
    <2>3. \A d \in Client : ConnFits(conn'[d]) /\ conn'[d].st \in {"idle", "answered", "cut"}
      BY <2>1, <2>2 DEF SrvInv, SrvTypeOK
    <2>4. /\ kept' = {} /\ proc' = "exited" /\ exitCode' \in {0, 1} /\ proc = "ending"
          /\ UNCHANGED <<storage, secretFixed, gen, closers, files, signals>>
      BY <1>3 DEF Exits, SrvInv
    <2>5. \A d \in Client : ~Open(d)'
      BY <2>3 DEF Open
    <2>6. \A d \in Client : ConnFits(conn[d])'
      BY <2>3 DEF ConnFits, Idle, Cut
    <2>7. SrvTypeOK'
      BY <2>3, <2>4 DEF SrvInv, SrvTypeOK
    <2> QED
      BY <2>1, <2>3, <2>4, <2>5, <2>6, <2>7 DEF SrvInv
  <1>4. CASE Restart
    <2>1. \A d \in Client : conn[d].st \notin {"body", "handling"}
      BY <1>4 DEF Restart, SrvInv, SrvTypeOK, Running
    <2>2. files' \in [File -> {"absent", "live", "tombstone"}]
      BY <1>4 DEF Restart, SrvInv, SrvTypeOK
    <2> QED
      BY <1>4, <2>1, <2>2, ServerAssumption
      DEF Restart, SrvInv, SrvTypeOK, Running, Open, ConnFits
  <1> QED
    BY <1>1, <1>2, <1>3, <1>4 DEF Exit, DieOfSecondEnd

LEMMA StutterInv == SrvInv /\ UNCHANGED srvVars => SrvInv'
  <1> SUFFICES ASSUME SrvInv, UNCHANGED srvVars PROVE SrvInv'
    OBVIOUS
  <1>1. \A q : applyAuth(q)' = applyAuth(q)
    BY DEF applyAuth, checkAuth, verifyJWT, JWT_SECRET, srvVars
  <1> QED
    BY <1>1 DEF srvVars, SrvInv, SrvTypeOK, Running, Open, ConnFits

------------------------------------------------------------------------------
(* The list of tests *)

\* The list of the suite, entry by entry.
LEMMA TestList ==
  /\ Len(tests) = 20 /\ DOMAIN tests = 1 .. 20
  /\ \A i \in 1 .. 6 : tests[i] = AccessTests[i]
  /\ \A i \in 7 .. 16 : tests[i] = DataTests[i - 6]
  /\ \A i \in 17 .. 20 : tests[i] = FileTests[i - 16]
  <1> DEFINE S == {AccessTests[i] : i \in 1 .. 6} \union {DataTests[i] : i \in 1 .. 10}
                  \union {FileTests[i] : i \in 1 .. 4}
             a == AccessTests
             d == DataTests
             f == FileTests
             ad == a \o d
  <1>1. Len(a) = 6 /\ a \in Seq(S)
    <2>1. Len(a) = 6 /\ a = [i \in 1 .. 6 |-> a[i]]
      BY DEF AccessTests
    <2> QED
      BY <2>1
  <1>2. Len(d) = 10 /\ d \in Seq(S)
    <2>1. Len(d) = 10 /\ d = [i \in 1 .. 10 |-> d[i]]
      BY DEF DataTests
    <2> QED
      BY <2>1
  <1>3. Len(f) = 4 /\ f \in Seq(S)
    <2>1. Len(f) = 4 /\ f = [i \in 1 .. 4 |-> f[i]]
      BY DEF FileTests
    <2> QED
      BY <2>1
  <1>4. tests = ad \o f
    BY DEF tests, buildBlackBoxTests
  <1> HIDE DEF S, a, d, f
  <1>5. /\ ad \in Seq(S) /\ Len(ad) = Len(a) + Len(d)
        /\ \A i \in 1 .. Len(a) + Len(d) : ad[i] = IF i <= Len(a) THEN a[i] ELSE d[i - Len(a)]
    BY <1>1, <1>2, ConcatProperties, Zenon
  <1> HIDE DEF ad
  <1>6. /\ ad \o f \in Seq(S) /\ Len(ad \o f) = Len(ad) + Len(f)
        /\ \A i \in 1 .. Len(ad) + Len(f) :
             (ad \o f)[i] = IF i <= Len(ad) THEN ad[i] ELSE f[i - Len(ad)]
    <2>1. ad \in Seq(S) /\ f \in Seq(S)
      BY <1>3, <1>5
    <2> QED
      BY <2>1, ConcatProperties, Zenon
  <1>7. /\ Len(ad) = 16 /\ Len(tests) = 20 /\ DOMAIN tests = 1 .. 20
        /\ \A i \in 1 .. 16 : ad[i] = IF i <= 6 THEN a[i] ELSE d[i - 6]
        /\ \A i \in 1 .. 20 : tests[i] = IF i <= 16 THEN ad[i] ELSE f[i - 16]
    <2>1. Len(ad) = 16 /\ Len(ad \o f) = 20
      BY <1>1, <1>2, <1>3, <1>5, <1>6
    <2>2. Len(tests) = 20 /\ DOMAIN tests = 1 .. 20
      <3>1. tests \in Seq(S) /\ Len(tests) = 20
        BY <1>4, <1>6, <2>1, Zenon
      <3>2. DOMAIN tests = 1 .. Len(tests)
        BY <3>1, LenProperties, Zenon
      <3> QED
        BY <3>1, <3>2, Zenon
    <2>3. ASSUME NEW i \in 1 .. 16 PROVE ad[i] = IF i <= 6 THEN a[i] ELSE d[i - 6]
      BY <1>1, <1>2, <1>5
    <2>4. ASSUME NEW i \in 1 .. 20 PROVE tests[i] = IF i <= 16 THEN ad[i] ELSE f[i - 16]
      BY <1>3, <1>4, <1>6, <2>1
    <2> QED
      BY <2>1, <2>2, <2>3, <2>4
  <1>8. \A i \in 1 .. 6 : tests[i] = a[i]
    BY <1>7
  <1>9. \A i \in 7 .. 16 : tests[i] = d[i - 6]
    BY <1>7
  <1> QED
    BY <1>7, <1>8, <1>9 DEF a, d, f

\* What the proofs need of the tests: levels, how many requests each makes and
\* what it wants, which of them fetch tokens, and which post or delete files.
Calls(i) == IF i = 18 THEN 2 ELSE IF i = 19 THEN 3 ELSE 1
CallFits(i, n, a) ==
  /\ a.path = "/v1/auth/token" => \/ i = 3 /\ a = FetchToken("writer")
                                  \/ i = 4 /\ a = FetchToken("reader")
  /\ a.path = "/v1/graphql" => a.file = NoFile
  /\ a.method = "DELETE" => i \in {18, 19} /\ n = 2
  /\ a.method = "POST" /\ a.path = "/v1/files" => i \in {17, 18, 19} /\ n = 1
  /\ i = 6 => a = Post("/v1/timepoints", "reader")
  /\ i = 7 => a = Post("/v1/timepoints", "writer")
  /\ i = 17 => a = PostFile(Kept)
  /\ i = 18 => a = IF n = 1 THEN PostFile(Tomb) ELSE DeletePosted
  /\ i = 19 => a = IF n = 1 THEN PostFile(Gone) ELSE IF n = 2 THEN DeletePosted ELSE GetPosted
TestFits(i) ==
  LET t == tests[i] IN
  /\ t.level = IF i <= 2 THEN 1 ELSE IF i <= 17 THEN 2 ELSE 3
  /\ Len(t.calls) = Calls(i) /\ DOMAIN t.calls = 1 .. Calls(i)
  /\ t.want \notin {408, 500} /\ (t.want = 403 => i = 6)
  /\ i \in {7, 17} => t.want = 201
  /\ i = 18 => t.want = 200
  /\ i = 19 => t.want = 410
  /\ \A n \in 1 .. Calls(i) : CallFits(i, n, t.calls[n])

LEMMA OneCall ==
  ASSUME NEW i \in (1 .. 20) \ {18, 19}, NEW l, NEW a, NEW w,
         tests[i] = Test(l, <<a>>, w), CallFits(i, 1, a),
         l = (IF i <= 2 THEN 1 ELSE IF i <= 17 THEN 2 ELSE 3),
         w \notin {408, 500}, w = 403 => i = 6, i \in {7, 17} => w = 201
  PROVE  TestFits(i)
  <1>1. /\ tests[i].level = l /\ tests[i].want = w
        /\ Len(tests[i].calls) = 1 /\ DOMAIN tests[i].calls = {1} /\ tests[i].calls[1] = a
    BY DEF Test
  <1>2. Calls(i) = 1 /\ 1 .. 1 = {1}
    BY DEF Calls
  <1> QED
    BY <1>1, <1>2 DEF TestFits

LEMMA TestFacts == \A i \in 1 .. 20 : TestFits(i)
  <1>1. TestFits(1)
    <2>1. tests[1] = Test(1, <<Get("/v1/health", "none")>>, 200)
      BY TestList DEF AccessTests
    <2>2. CallFits(1, 1, Get("/v1/health", "none"))
      BY DEF CallFits, Get, Ask
    <2> QED
      BY <2>1, <2>2, OneCall
  <1>2. TestFits(2)
    <2>1. tests[2] = Test(1, <<Get("/v1/openapi.json", "none")>>, 200)
      BY TestList DEF AccessTests
    <2>2. CallFits(2, 1, Get("/v1/openapi.json", "none"))
      BY DEF CallFits, Get, Ask
    <2> QED
      BY <2>1, <2>2, OneCall
  <1>3. TestFits(3)
    <2>1. tests[3] = Test(2, <<FetchToken("writer")>>, 200)
      BY TestList DEF AccessTests
    <2>2. CallFits(3, 1, FetchToken("writer"))
      BY DEF CallFits, FetchToken, Ask
    <2> QED
      BY <2>1, <2>2, OneCall
  <1>4. TestFits(4)
    <2>1. tests[4] = Test(2, <<FetchToken("reader")>>, 200)
      BY TestList DEF AccessTests
    <2>2. CallFits(4, 1, FetchToken("reader"))
      BY DEF CallFits, FetchToken, Ask
    <2> QED
      BY <2>1, <2>2, OneCall
  <1>5. TestFits(5)
    <2>1. tests[5] = Test(2, <<Get("/v1/timepoints", "none")>>, 401)
      BY TestList DEF AccessTests
    <2>2. CallFits(5, 1, Get("/v1/timepoints", "none"))
      BY DEF CallFits, Get, Ask
    <2> QED
      BY <2>1, <2>2, OneCall
  <1>6. TestFits(6)
    <2>1. tests[6] = Test(2, <<Post("/v1/timepoints", "reader")>>, 403)
      BY TestList DEF AccessTests
    <2>2. CallFits(6, 1, Post("/v1/timepoints", "reader"))
      BY DEF CallFits, Post, Ask
    <2> QED
      BY <2>1, <2>2, OneCall
  <1>7. TestFits(7)
    <2>1. tests[7] = Test(2, <<Post("/v1/timepoints", "writer")>>, 201)
      BY TestList DEF DataTests
    <2>2. CallFits(7, 1, Post("/v1/timepoints", "writer"))
      BY DEF CallFits, Post, Ask
    <2> QED
      BY <2>1, <2>2, OneCall
  <1>8. TestFits(8)
    <2>1. tests[8] = Test(2, <<Get("/v1/timepoints", "reader")>>, 200)
      BY TestList DEF DataTests
    <2>2. CallFits(8, 1, Get("/v1/timepoints", "reader"))
      BY DEF CallFits, Get, Ask
    <2> QED
      BY <2>1, <2>2, OneCall
  <1>9. TestFits(9)
    <2>1. tests[9] = Test(2, <<Post("/v1/timepoints/validate", "reader")>>, 200)
      BY TestList DEF DataTests
    <2>2. CallFits(9, 1, Post("/v1/timepoints/validate", "reader"))
      BY DEF CallFits, Post, Ask
    <2> QED
      BY <2>1, <2>2, OneCall
  <1>10. TestFits(10)
    <2> DEFINE a == Ask("POST", "/v1/timepoints/validate", "reader", FALSE, NoFile)
    <2>1. tests[10] = Test(2, <<a>>, 422)
      BY TestList DEF DataTests
    <2>2. CallFits(10, 1, a)
      BY DEF CallFits, Ask
    <2> HIDE DEF a
    <2> QED
      BY <2>1, <2>2, OneCall
  <1>11. TestFits(11)
    <2>1. tests[11] = Test(2, <<Post("/v1/timepoints/convert", "reader")>>, 200)
      BY TestList DEF DataTests
    <2>2. CallFits(11, 1, Post("/v1/timepoints/convert", "reader"))
      BY DEF CallFits, Post, Ask
    <2> QED
      BY <2>1, <2>2, OneCall
  <1>12. TestFits(12)
    <2>1. tests[12] = Test(2, <<Get("/v1/domains", "reader")>>, 200)
      BY TestList DEF DataTests
    <2>2. CallFits(12, 1, Get("/v1/domains", "reader"))
      BY DEF CallFits, Get, Ask
    <2> QED
      BY <2>1, <2>2, OneCall
  <1>13. TestFits(13)
    <2>1. tests[13] = Test(2, <<Post("/v1/domains/validate", "reader")>>, 200)
      BY TestList DEF DataTests
    <2>2. CallFits(13, 1, Post("/v1/domains/validate", "reader"))
      BY DEF CallFits, Post, Ask
    <2> QED
      BY <2>1, <2>2, OneCall
  <1>14. TestFits(14)
    <2>1. tests[14] = Test(2, <<Post("/v1/relations/compute", "reader")>>, 200)
      BY TestList DEF DataTests
    <2>2. CallFits(14, 1, Post("/v1/relations/compute", "reader"))
      BY DEF CallFits, Post, Ask
    <2> QED
      BY <2>1, <2>2, OneCall
  <1>15. TestFits(15)
    <2>1. tests[15] = Test(2, <<Post("/v1/graphql", "reader")>>, 200)
      BY TestList DEF DataTests
    <2>2. CallFits(15, 1, Post("/v1/graphql", "reader"))
      BY DEF CallFits, Post, Ask
    <2> QED
      BY <2>1, <2>2, OneCall
  <1>16. TestFits(16)
    <2>1. tests[16] = Test(2, <<Post("/v1/segments", "writer")>>, 201)
      BY TestList DEF DataTests
    <2>2. CallFits(16, 1, Post("/v1/segments", "writer"))
      BY DEF CallFits, Post, Ask
    <2> QED
      BY <2>1, <2>2, OneCall
  <1>17. TestFits(17)
    <2>1. tests[17] = Test(2, <<PostFile(Kept)>>, 201)
      BY TestList DEF FileTests
    <2>2. CallFits(17, 1, PostFile(Kept))
      BY DEF CallFits, PostFile, Ask
    <2> QED
      BY <2>1, <2>2, OneCall
  <1>18. TestFits(18)
    <2>1. tests[18] = Test(3, <<PostFile(Tomb), DeletePosted>>, 200)
      BY TestList DEF FileTests
    <2>2. /\ tests[18].level = 3 /\ tests[18].want = 200
          /\ Len(tests[18].calls) = 2 /\ DOMAIN tests[18].calls = 1 .. 2
          /\ tests[18].calls[1] = PostFile(Tomb)
          /\ tests[18].calls[2] = DeletePosted
      BY <2>1 DEF Test
    <2>3. \A n \in 1 .. 2 : CallFits(18, n, tests[18].calls[n])
      <3>1. \A n \in 1 .. 2 : n \in {1, 2}
        OBVIOUS
      <3>2. CallFits(18, 1, tests[18].calls[1])
        BY <2>2 DEF CallFits, PostFile, DeletePosted, GetPosted, Ask
      <3>3. CallFits(18, 2, tests[18].calls[2])
        BY <2>2 DEF CallFits, PostFile, DeletePosted, GetPosted, Ask
      <3> QED
        BY <3>1, <3>2, <3>3
    <2> QED
      BY <2>2, <2>3 DEF TestFits, Calls
  <1>19. TestFits(19)
    <2>1. tests[19] = Test(3, <<PostFile(Gone), DeletePosted, GetPosted>>, 410)
      BY TestList DEF FileTests
    <2>2. /\ tests[19].level = 3 /\ tests[19].want = 410
          /\ Len(tests[19].calls) = 3 /\ DOMAIN tests[19].calls = 1 .. 3
          /\ tests[19].calls[1] = PostFile(Gone)
          /\ tests[19].calls[2] = DeletePosted
          /\ tests[19].calls[3] = GetPosted
      BY <2>1 DEF Test
    <2>3. \A n \in 1 .. 3 : CallFits(19, n, tests[19].calls[n])
      <3>1. \A n \in 1 .. 3 : n \in {1, 2, 3}
        OBVIOUS
      <3>2. CallFits(19, 1, tests[19].calls[1])
        BY <2>2 DEF CallFits, PostFile, DeletePosted, GetPosted, Ask
      <3>3. CallFits(19, 2, tests[19].calls[2])
        BY <2>2 DEF CallFits, PostFile, DeletePosted, GetPosted, Ask
      <3>4. CallFits(19, 3, tests[19].calls[3])
        BY <2>2 DEF CallFits, PostFile, DeletePosted, GetPosted, Ask
      <3> QED
        BY <3>1, <3>2, <3>3, <3>4
    <2> QED
      BY <2>2, <2>3 DEF TestFits, Calls
  <1>20. TestFits(20)
    <2>1. tests[20] = Test(3, <<Get("/v1/health", "none")>>, 200)
      BY TestList DEF FileTests
    <2>2. CallFits(20, 1, Get("/v1/health", "none"))
      BY DEF CallFits, Get, Ask
    <2> QED
      BY <2>1, <2>2, OneCall
  <1> QED
    BY <1>1, <1>2, <1>3, <1>4, <1>5, <1>6, <1>7, <1>8, <1>9, <1>10,
       <1>11, <1>12, <1>13, <1>14, <1>15, <1>16, <1>17, <1>18, <1>19, <1>20

\* The tests of a level are the first ones of the list.
LastOf(l) == IF l = 3 THEN 20 ELSE IF l = 2 THEN 17 ELSE IF l = 1 THEN 2 ELSE 0
LEMMA NextSelectedIs ==
  ASSUME level \in 0 .. 3, NEW i \in 1 .. 21
  PROVE  NextSelected(i) = IF i <= LastOf(level) THEN i ELSE 21
  <1>1. BlackBoxSelected = 1 .. LastOf(level)
    <2>1. ASSUME NEW j \in 1 .. 20
          PROVE  tests[j].level = IF j <= 2 THEN 1 ELSE IF j <= 17 THEN 2 ELSE 3
      <3>1. TestFits(j)
        BY TestFacts
      <3> QED
        BY <3>1 DEF TestFits
    <2>2. \A j \in 1 .. 20 : tests[j].level <= level <=> j <= LastOf(level)
      BY <2>1 DEF LastOf
    <2> QED
      BY <2>2, TestList DEF BlackBoxSelected, LastOf
  <1> DEFINE later == {j \in BlackBoxSelected : i <= j}
  <1>2. CASE i <= LastOf(level)
    <2>1. i \in later /\ \A k \in later : i <= k
      BY <1>1, <1>2
    <2>2. later # {}
      BY <2>1
    <2>3. \A j : j \in later /\ (\A k \in later : j <= k) => j = i
      BY <1>1, <2>1 DEF LastOf
    <2> HIDE DEF later
    <2>4. (CHOOSE j \in later : \A k \in later : j <= k) = i
      BY <2>1, <2>3
    <2> QED
      BY <1>2, <2>2, <2>4 DEF NextSelected, later
  <1>3. CASE ~(i <= LastOf(level))
    <2>1. later = {}
      BY <1>1, <1>3 DEF LastOf
    <2> QED
      BY <1>3, <2>1, TestList DEF NextSelected
  <1> QED
    BY <1>2, <1>3

\* A test that is selected is one of its level, and has a first request.
LEMMA SelectedFits ==
  ASSUME NEW l \in 0 .. 3, NEW i \in 1 .. 20, i <= LastOf(l)
  PROVE  tests[i].level <= l /\ 1 \in DOMAIN tests[i].calls
  <1>1. TestFits(i)
    BY TestFacts
  <1> QED
    BY <1>1 DEF TestFits, Calls, LastOf

------------------------------------------------------------------------------
(* The program *)

ArgsInv ==
  /\ program \in {"conformance", "testkit", "report"} /\ level \in 0 .. 3
  /\ doReport \in BOOLEAN
  /\ program = "report" => level = 3

ProgressInv ==
  /\ pc \in {"start", "reach", "run", "exited"}
  /\ next \in 1 .. 21
  /\ next \in 1 .. 20 => (tests[next].level <= level /\ call \in DOMAIN tests[next].calls)
  /\ pc \in {"start", "reach"} => /\ next = (IF level = 0 THEN 21 ELSE 1) /\ call = 1
                                 /\ clean /\ ~shaken
  /\ pc \in {"reach", "run"} => target = Url
  /\ code \in {-1, 0, 1, 2} /\ (pc = "exited") = (code # -1)
  /\ report # NoReport => /\ code \in {0, 1}
                          /\ report.compliant = (code = 0)
                          /\ report.level = level \/ program = "testkit"
  /\ clean \in BOOLEAN /\ shaken \in BOOLEAN
  /\ pc = "exited" /\ code = 0 /\ target = Url => clean /\ next = 21

Held(role) == token[role] # NoToken
TokenInv ==
  /\ token \in [{"writer", "reader"} -> {NoToken} \union ({"writer", "reader"} \X Nat)]
  /\ \A role \in {"writer", "reader"} : Held(role) => token[role][2] <= JWT_SECRET
  /\ Held("writer") /\ Held("reader") => token.writer[2] <= token.reader[2]
  /\ next <= 4 => ~Held("reader")

GotInv ==
  /\ got \in File \union {NoFile}
  /\ next = 18 /\ call = 2 => got \in {Tomb, NoFile}
  /\ next = 19 /\ call \in {2, 3} => got \in {Gone, NoFile}

AnsweredWith(status) == conn[Kit].st = "answered" /\ conn[Kit].status = status
Stale(role) == token[role] = NoToken \/ token[role][2] < JWT_SECRET
AskInv ==
  /\ ~(pc = "reach" \/ Testing) => conn[Kit] = Idle
  /\ conn[Kit].st \in Waiting =>
       /\ ~conn[Kit].gone
       /\ conn[Kit].req = IF pc = "reach" THEN AskedHealth ELSE Asked
  /\ conn[Kit].st = "answered" =>
       /\ conn[Kit].secret <= JWT_SECRET
       /\ \A role \in {"writer", "reader"} : Held(role) => token[role][2] <= conn[Kit].secret
       /\ conn[Kit].auth = "foreign" => /\ conn[Kit].status = 403
                                        /\ (pc = "run" /\ next = 6 => Held("reader") /\ Stale("reader"))
  /\ \A c \in Client \ {Kit} :
       conn[c].st \in Waiting =>
         (conn[c].req.method = "DELETE" => conn[c].req.file \notin {Kept, Tomb, Gone})

\* The current test has got the answer it wants to its call n.
At(i, n) == next = i /\ call = n
DoomedInv ==
  shaken /\ clean =>
    \/ next = 7 /\ Stale("writer") /\ ~AnsweredWith(201)
    \/ (At(18, 2) \/ At(19, 2)) /\ got = NoFile /\ ~AnsweredWith(200)
    \/ At(19, 3) /\ (got = NoFile \/ files[Gone] # "tombstone") /\ ~AnsweredWith(410)

Lasting == storage = "postgres" \/ gen = 1
FileInv ==
  /\ files[Kept] # "tombstone"
  /\ (\/ next < 19 \/ At(19, 1)
      \/ At(19, 2) /\ ~AnsweredWith(200) /\ ~AnsweredWith(500)) => files[Gone] # "tombstone"
  /\ Lasting /\ clean /\ level = 3 =>
       /\ next > 17 \/ (next = 17 /\ AnsweredWith(201)) => files[Kept] = "live"
       /\ next > 18 \/ (At(18, 2) /\ AnsweredWith(200)) => files[Tomb] = "tombstone"
       /\ next > 19 \/ (At(19, 3) /\ AnsweredWith(410)) => files[Gone] = "tombstone"

KitInv == ArgsInv /\ ProgressInv /\ TokenInv /\ GotInv /\ AskInv /\ DoomedInv /\ FileInv

Inv == SrvInv /\ KitInv

LEMMA AtTest ==
  ASSUME KitInv, Testing
  PROVE  /\ next \in 1 .. 20 /\ call \in 1 .. Calls(next) /\ TestFits(next)
         /\ CallFits(next, call, test.calls[call])
         /\ Len(test.calls) = Calls(next)
  <1>1. next \in 1 .. 20
    BY TestList DEF KitInv, ProgressInv, Testing
  <1>2. TestFits(next)
    BY <1>1, TestFacts
  <1> QED
    BY <1>1, <1>2 DEF TestFits, KitInv, ProgressInv, test

\* The requests that matter: what they ask, and with what token.
LEMMA AskedIs ==
  ASSUME KitInv, Testing
  PROVE  /\ next = 6 => Asked.path = "/v1/timepoints" /\ Asked.token = token.reader
         /\ next = 7 => /\ Asked.method = "POST" /\ Asked.path = "/v1/timepoints"
                        /\ Asked.token = token.writer
         /\ next = 17 \/ At(18, 1) \/ At(19, 1) =>
              /\ Asked.method = "POST" /\ Asked.path = "/v1/files"
              /\ Asked.file = IF next = 17 THEN Kept ELSE IF next = 18 THEN Tomb ELSE Gone
         /\ At(18, 2) \/ At(19, 2) =>
              /\ Asked.method = "DELETE" /\ Asked.path = "/v1/files/:cgfi"
              /\ Asked.file = got
         /\ At(19, 3) => /\ Asked.method = "GET" /\ Asked.path = "/v1/files/:cgfi"
                         /\ Asked.file = got
         /\ Asked.method = "DELETE" => At(18, 2) \/ At(19, 2)
         /\ Asked.path = "/v1/graphql" => Asked.file = NoFile
  <1> DEFINE a == test.calls[call]
  <1>1. /\ next \in 1 .. 20 /\ call \in 1 .. Calls(next) /\ CallFits(next, call, a)
    BY AtTest
  <1>2. /\ Asked.method = a.method /\ Asked.path = a.path
        /\ Asked.file = IF a.file = "posted" THEN got ELSE a.file
        /\ a.who = "reader" => Asked.token = token.reader
        /\ a.who = "writer" => Asked.token = token.writer
    BY DEF Asked, Request
  <1>3. "posted" \notin {Kept, Tomb, Gone, NoFile}
    BY KitAssumption
  <1> HIDE DEF a
  <1>4. next = 6 => Asked.path = "/v1/timepoints" /\ Asked.token = token.reader
    BY <1>1, <1>2 DEF CallFits, Post, Ask
  <1>5. next = 7 => /\ Asked.method = "POST" /\ Asked.path = "/v1/timepoints"
                    /\ Asked.token = token.writer
    BY <1>1, <1>2 DEF CallFits, Post, Ask
  <1>6. /\ next = 17 => a = PostFile(Kept)
        /\ At(18, 1) => a = PostFile(Tomb)
        /\ At(19, 1) => a = PostFile(Gone)
        /\ At(18, 2) \/ At(19, 2) => a = DeletePosted
        /\ At(19, 3) => a = GetPosted
    BY <1>1 DEF CallFits, At
  <1>7. next = 17 \/ At(18, 1) \/ At(19, 1) =>
          /\ Asked.method = "POST" /\ Asked.path = "/v1/files"
          /\ Asked.file = IF next = 17 THEN Kept ELSE IF next = 18 THEN Tomb ELSE Gone
    BY <1>2, <1>3, <1>6 DEF PostFile, Ask, At
  <1>8. At(18, 2) \/ At(19, 2) =>
          /\ Asked.method = "DELETE" /\ Asked.path = "/v1/files/:cgfi" /\ Asked.file = got
    BY <1>2, <1>6 DEF DeletePosted, Ask
  <1>9. At(19, 3) => /\ Asked.method = "GET" /\ Asked.path = "/v1/files/:cgfi"
                     /\ Asked.file = got
    BY <1>2, <1>6 DEF GetPosted, Ask
  <1>10. Asked.method = "DELETE" => At(18, 2) \/ At(19, 2)
    BY <1>1, <1>2 DEF CallFits, At
  <1>11. Asked.path = "/v1/graphql" => Asked.file = NoFile
    BY <1>1, <1>2, <1>3 DEF CallFits
  <1> QED
    BY <1>4, <1>5, <1>7, <1>8, <1>9, <1>10, <1>11

\* A step that leaves the program and its request alone, no secret gets old by
\* it and, unless the memory is lost, no content.
LEMMA AloneInv ==
  ASSUME Inv, UNCHANGED kitVars, conn'[Kit] = conn[Kit],
         JWT_SECRET \in Nat, JWT_SECRET' \in Nat, JWT_SECRET <= JWT_SECRET',
         Lasting' => Lasting,
         \A f \in {Kept, Gone} : files'[f] = "tombstone" => files[f] = "tombstone",
         Lasting' => /\ files[Kept] = "live" => files'[Kept] = "live"
                     /\ \A f \in {Tomb, Gone} :
                          files[f] = "tombstone" => files'[f] = "tombstone",
         \A c \in Client \ {Kit} :
           conn'[c].st \in Waiting /\ conn'[c].req.method = "DELETE" =>
             conn'[c].req.file \notin {Kept, Tomb, Gone}
  PROVE  KitInv'
  <1> USE DEF Inv, KitInv, kitVars
  <1>1. ArgsInv' /\ ProgressInv' /\ GotInv'
    BY DEF ArgsInv, ProgressInv, GotInv
  <1>2. TokenInv'
    BY DEF TokenInv, Held
  <1>3. Asked' = Asked /\ AskedHealth' = AskedHealth /\ Testing' = Testing
    BY DEF Asked, AskedHealth, Testing, test, EmptyBearer, NoToken
  <1>4. \A role \in {"writer", "reader"} : Held(role)' = Held(role) /\ (Stale(role) => Stale(role)')
    BY DEF Held, Stale, TokenInv
  <1>5. AskInv'
    <2>1. /\ (~(pc = "reach" \/ Testing) => conn[Kit] = Idle)'
          /\ (conn[Kit].st \in Waiting =>
                /\ ~conn[Kit].gone
                /\ conn[Kit].req = IF pc = "reach" THEN AskedHealth ELSE Asked)'
      BY <1>3 DEF AskInv, Idle, Waiting
    <2>2. ASSUME conn[Kit].st = "answered"
          PROVE  /\ conn[Kit].secret <= JWT_SECRET'
                 /\ \A role \in {"writer", "reader"} :
                      Held(role) => token[role][2] <= conn[Kit].secret
                 /\ conn[Kit].auth = "foreign" =>
                      /\ conn[Kit].status = 403
                      /\ (pc = "run" /\ next = 6 => Held("reader") /\ Stale("reader")')
      <3>1. conn[Kit].secret \in Nat
        BY <2>2, KitAssumption DEF SrvInv, ConnFits, Idle, Cut, Waiting
      <3> QED
        BY <1>4, <2>2, <3>1 DEF AskInv
    <2> QED
      BY <1>4, <2>1, <2>2 DEF AskInv, Waiting
  <1>6. /\ \A i, n : At(i, n)' = At(i, n)
        /\ \A s : AnsweredWith(s)' = AnsweredWith(s)
    BY DEF At, AnsweredWith
  <1>7. DoomedInv'
    BY <1>4, <1>6 DEF DoomedInv
  <1>8. FileInv'
    BY <1>6 DEF FileInv
  <1> QED
    BY <1>1, <1>2, <1>5, <1>7, <1>8

\* A request makes no tombstone but of the file it deletes, and takes away none.
DeletesFile(r, f) == r.method = "DELETE" /\ r.file = f
LEMMA FilesAfterIs ==
  ASSUME SrvInv, NEW r, NEW f \in File
  PROVE  /\ FilesAfter(r)[f] = "tombstone" => files[f] = "tombstone" \/ DeletesFile(r, f)
         /\ files[f] = "tombstone" => FilesAfter(r)[f] = "tombstone"
         /\ files[f] = "live" /\ ~DeletesFile(r, f) => FilesAfter(r)[f] = "live"
         /\ FilesAfter(r)[f] = "tombstone" /\ files[f] # "tombstone" =>
              r.path = "/v1/files/:cgfi" /\ Status(r) = 200
  <1>1. files \in [File -> {"absent", "live", "tombstone"}] /\ NoFile \notin File
    BY ServerAssumption DEF SrvInv, SrvTypeOK
  <1>2. CASE Posts(r) /\ ~Stored(r.file)
    <2>1. FilesAfter(r) = [files EXCEPT ![r.file] = "live"] /\ r.method = "POST"
      BY <1>2 DEF FilesAfter, Posts, Mutates
    <2>2. r.file = f => files[f] = "absent"
      BY <1>1, <1>2 DEF Stored
    <2> QED
      BY <1>1, <1>2, <2>1, <2>2
  <1>3. CASE Deletes(r) /\ Stored(r.file)
    <2>1. /\ FilesAfter(r) = [files EXCEPT ![r.file] = "tombstone"]
          /\ r.method = "DELETE" /\ r.path = "/v1/files/:cgfi"
      BY <1>3 DEF FilesAfter, Posts, Mutates, Deletes
    <2>2. Status(r) = 200
      BY <1>3, <2>1 DEF Status
    <2> QED
      BY <1>1, <2>1, <2>2 DEF DeletesFile
  <1>4. CASE ~ (Posts(r) /\ ~Stored(r.file)) /\ ~ (Deletes(r) /\ Stored(r.file))
    BY <1>4 DEF FilesAfter
  <1> QED
    BY <1>2, <1>3, <1>4

LEMMA SecretType == SrvInv => JWT_SECRET \in Nat
  BY DEF SrvInv, SrvTypeOK, JWT_SECRET

\* The server serves another client.
LEMMA ServesOtherInv ==
  ASSUME Inv, NEW c \in Client \ {Kit}, Serves(c), UNCHANGED kitVars
  PROVE  KitInv'
  <1> DEFINE r == conn[c].req
  <1> USE DEF Inv
  <1>1. /\ conn[c].st \in Waiting /\ UNCHANGED srvProcess
        /\ conn = [d \in Client |-> conn[d]] /\ DOMAIN conn[c] = Fields
    BY ServesIs DEF SrvInv, ConnFits, Idle, Cut, Waiting
  <1>2. /\ files' \in {files, FilesAfter(r)}
        /\ \A d \in Client \ {c} : conn'[d] = conn[d]
        /\ conn'[c].st \in Waiting => conn'[c].req = r
    <2>1. CASE GoesOn(c)
      <3>1. PICK s \in Waiting, n \in Nat, b \in {"whole", conn[c].body} :
              /\ conn' = [conn EXCEPT ![c] = [conn[c] EXCEPT !.st = s, !.left = n, !.body = b]]
              /\ UNCHANGED files
        BY <2>1 DEF GoesOn
      <3> DEFINE k == [conn[c] EXCEPT !.st = s, !.left = n, !.body = b]
      <3>2. k.req = r
        BY <1>1, RunningOn
      <3>3. conn' = [conn EXCEPT ![c] = k]
        BY <3>1
      <3> HIDE DEF k
      <3> QED
        BY <1>1, <3>1, <3>2, <3>3
    <2>2. ASSUME NEW status, NEW auth, Ends(c, status, auth),
                 files' = files \/ files' = FilesAfter(r)
          PROVE  /\ files' \in {files, FilesAfter(r)}
                 /\ \A d \in Client \ {c} : conn'[d] = conn[d]
                 /\ conn'[c].st \in Waiting => conn'[c].req = r
      <3>1. PICK k \in {Idle, Cut, Answered(status, auth)} : conn' = [conn EXCEPT ![c] = k]
        BY <2>2 DEF Ends, Outcome
      <3>2. k.st \notin Waiting
        BY DEF Idle, Cut, Answered, Waiting
      <3>3. conn'[c] = k /\ \A d \in Client \ {c} : conn'[d] = conn[d]
        BY <1>1, <3>1
      <3> QED
        BY <2>2, <3>2, <3>3
    <2> QED
      BY <2>1, <2>2, ServesIs DEF Refuses, Fails, Does
  <1>4. r.method = "DELETE" => r.file \notin {Kept, Tomb, Gone}
    BY <1>1 DEF KitInv, AskInv
  <1>5. {Kept, Tomb, Gone} \subseteq File /\ Kit \in Client
    BY KitAssumption
  <1>6. \A f \in {Kept, Tomb, Gone} :
          /\ files'[f] = "tombstone" <=> files[f] = "tombstone"
          /\ files[f] = "live" => files'[f] = "live"
    <2> TAKE f \in {Kept, Tomb, Gone}
    <2>1. ~DeletesFile(r, f) /\ f \in File
      BY <1>4, <1>5 DEF DeletesFile
    <2> QED
      BY <1>2, <2>1, FilesAfterIs
  <1>7. JWT_SECRET \in Nat /\ JWT_SECRET' = JWT_SECRET /\ Lasting' = Lasting
    BY <1>1, SecretType DEF JWT_SECRET, Lasting, srvProcess
  <1>8. \A d \in Client \ {Kit} :
          conn'[d].st \in Waiting /\ conn'[d].req.method = "DELETE" =>
            conn'[d].req.file \notin {Kept, Tomb, Gone}
    BY <1>2, <1>4 DEF KitInv, AskInv
  <1> QED
    BY <1>2, <1>5, <1>6, <1>7, <1>8, AloneInv

\* Another client asks or gives up.
LEMMA OthersInv ==
  ASSUME Inv, Others, UNCHANGED kitVars
  PROVE  Inv'
  <1> USE DEF Inv
  <1>1. PICK c \in Client \ {Kit} :
          \/ \E r \in ClientRequests : \E body \in Bodies(r) :
               Connect(c, [r EXCEPT !.token = issueJWT("writer")], body)
          \/ HangUp(c)
    BY DEF Others
  <1>2. SrvInv'
    BY <1>1, ConnectInv, HangUpInv
  <1>3. /\ UNCHANGED <<storage, secretFixed, gen, files>>
        /\ \A d \in Client \ {c} : conn'[d] = conn[d]
        /\ conn = [d \in Client |-> conn[d]]
    BY <1>1 DEF Connect, Connects, HangUp, Outcome, srvProcess, SrvInv
  <1>4. conn'[c].st \in Waiting /\ conn'[c].req.method = "DELETE" =>
          conn'[c].req.file \notin {Kept, Tomb, Gone}
    <2>1. CASE \E r \in ClientRequests : \E body \in Bodies(r) :
                 Connect(c, [r EXCEPT !.token = issueJWT("writer")], body)
      <3>0. PICK r \in ClientRequests :
              \E body \in Bodies(r) : Connect(c, [r EXCEPT !.token = issueJWT("writer")], body)
        BY <2>1
      <3>1. PICK body \in Bodies(r) : Connect(c, [r EXCEPT !.token = issueJWT("writer")], body)
        BY <3>0
      <3> DEFINE s == [r EXCEPT !.token = issueJWT("writer")]
      <3>2. s.method = r.method /\ s.file = r.file
        BY ClientAssumption
      <3>3. conn'[c] \in {Asking(s, body), Cut, Idle}
        BY <1>3, <3>1 DEF Connect, Connects, Outcome
      <3> HIDE DEF s
      <3>4. conn'[c].st \in Waiting => conn'[c].req = s
        BY <3>3 DEF Asking, Cut, Idle, Waiting
      <3> QED
        BY <3>2, <3>4, ClientAssumption
    <2>2. CASE HangUp(c)
      <3>1. conn[c].st \in Waiting /\ DOMAIN conn[c] = Fields
        BY <2>2 DEF HangUp, Open, SrvInv, ConnFits, Idle, Cut, Waiting
      <3> DEFINE k == [conn[c] EXCEPT !.gone = TRUE]
      <3>2. conn'[c] \in {Cut, Idle, k}
        BY <1>3, <2>2 DEF HangUp, Outcome
      <3>3. k.req = conn[c].req
        BY <3>1, GivingUp
      <3> HIDE DEF k
      <3>4. conn'[c].st \in Waiting => conn'[c].req = conn[c].req
        BY <3>2, <3>3 DEF Cut, Idle, Waiting
      <3> QED
        BY <3>1, <3>4 DEF KitInv, AskInv
    <2> QED
      BY <1>1, <2>1, <2>2
  <1>5. JWT_SECRET \in Nat /\ JWT_SECRET' = JWT_SECRET /\ Lasting' = Lasting
    BY <1>3, SecretType DEF JWT_SECRET, Lasting
  <1>6. \A d \in Client \ {Kit} :
          conn'[d].st \in Waiting /\ conn'[d].req.method = "DELETE" =>
            conn'[d].req.file \notin {Kept, Tomb, Gone}
    BY <1>3, <1>4 DEF KitInv, AskInv
  <1>7. conn'[Kit] = conn[Kit]
    BY <1>3, KitAssumption
  <1>8. KitInv'
    BY <1>3, <1>5, <1>6, <1>7, AloneInv
  <1> QED
    BY <1>2, <1>8

\* A kept connection is closed, the process gets a signal, drains, exits or is
\* started again.
LEMMA ProcessKitInv ==
  ASSUME Inv, (\E c \in Client : KeptTimesOut(c)) \/ Signal \/ Drained \/ Exit \/ DieOfSecondEnd \/ Restart, UNCHANGED kitVars
  PROVE  KitInv'
  <1> USE DEF Inv
  <1>1. Kit \in Client /\ {Kept, Tomb, Gone} \subseteq File
    BY KitAssumption
  <1>2. CASE (\E c \in Client : KeptTimesOut(c)) \/ Signal \/ Drained
    <2>1. UNCHANGED <<storage, secretFixed, gen, files, conn>>
      BY <1>2 DEF Signal, Drained, KeptTimesOut, srvProcess
    <2>2. JWT_SECRET \in Nat /\ JWT_SECRET' = JWT_SECRET /\ Lasting' = Lasting
      BY <2>1, SecretType DEF JWT_SECRET, Lasting
    <2> QED
      BY <2>1, <2>2, AloneInv DEF KitInv, AskInv
  <1>3. CASE Exit \/ DieOfSecondEnd
    <2>1. /\ UNCHANGED <<storage, secretFixed, gen, files>> /\ proc = "ending"
          /\ \A c \in Client :
               conn'[c] = IF conn[c].st \notin {"body", "handling"} THEN conn[c]
                          ELSE IF c \in Watched THEN Cut ELSE Idle
      BY <1>3 DEF Exit, DieOfSecondEnd, Exits
    <2>2. conn[Kit].st \notin {"body", "handling"}
      BY <1>1, <2>1 DEF SrvInv, Open, KitInv, AskInv, Waiting
    <2>3. conn'[Kit] = conn[Kit]
      BY <1>1, <2>1, <2>2
    <2>4. \A c \in Client : conn'[c].st \in Waiting => conn'[c] = conn[c]
      BY <2>1 DEF Cut, Idle, Waiting
    <2>5. JWT_SECRET \in Nat /\ JWT_SECRET' = JWT_SECRET /\ Lasting' = Lasting
      BY <2>1, SecretType DEF JWT_SECRET, Lasting
    <2> QED
      BY <2>1, <2>3, <2>4, <2>5, AloneInv DEF KitInv, AskInv
  <1>4. CASE Restart
    <2>1. /\ UNCHANGED <<storage, secretFixed, conn>> /\ gen' = gen + 1 /\ gen \in Nat \ {0}
          /\ files' = IF storage = "memory" THEN [f \in File |-> "absent"] ELSE files
      BY <1>4 DEF Restart, SrvInv, SrvTypeOK
    <2>2. JWT_SECRET \in Nat /\ JWT_SECRET' \in Nat /\ JWT_SECRET <= JWT_SECRET'
      BY <2>1 DEF JWT_SECRET, SrvInv, SrvTypeOK
    <2>3. Lasting' => Lasting /\ files' = files
      BY <2>1 DEF Lasting
    <2>4. \A f \in {Kept, Gone} : files'[f] = "tombstone" => files[f] = "tombstone"
      BY <1>1, <2>1
    <2> QED
      BY <2>1, <2>2, <2>3, <2>4, AloneInv DEF KitInv, AskInv
  <1> QED
    BY <1>2, <1>3, <1>4

\* Requests about a file: what they answer and leave behind.
LEMMA PostIs ==
  ASSUME SrvInv, NEW r, r.method = "POST", r.path = "/v1/files", r.file \in File,
         files[r.file] # "tombstone"
  PROVE  FilesAfter(r)[r.file] = "live"
  <1>1. files[r.file] \in {"absent", "live"} /\ r.file # NoFile /\ DOMAIN files = File
    BY ServerAssumption DEF SrvInv, SrvTypeOK
  <1>2. CASE files[r.file] = "absent"
    <2>1. FilesAfter(r) = [files EXCEPT ![r.file] = "live"]
      BY <1>2 DEF FilesAfter, Posts, Stored
    <2> QED
      BY <1>1, <2>1
  <1>3. CASE files[r.file] = "live"
    <2>1. FilesAfter(r) = files
      BY <1>1, <1>3 DEF FilesAfter, Deletes, Stored
    <2> QED
      BY <1>3, <2>1
  <1> QED
    BY <1>1, <1>2, <1>3

LEMMA DeleteIs ==
  ASSUME SrvInv, NEW r, r.method = "DELETE", r.path = "/v1/files/:cgfi",
         r.file \in File \union {NoFile}, Status(r) = 200
  PROVE  r.file \in File /\ FilesAfter(r)[r.file] = "tombstone"
  <1>1. Stored(r.file) /\ DOMAIN files = File
    BY DEF Status, Deletes, SrvInv, SrvTypeOK
  <1>2. FilesAfter(r) = [files EXCEPT ![r.file] = "tombstone"]
    BY <1>1 DEF FilesAfter, Posts, Mutates, Deletes
  <1> QED
    BY <1>1, <1>2 DEF Stored

LEMMA GetIs ==
  ASSUME NEW r, r.method = "GET", r.path = "/v1/files/:cgfi"
  PROVE  /\ FilesAfter(r) = files
         /\ Status(r) = 410 => Stored(r.file) /\ files[r.file] = "tombstone"
  BY DEF Status, FilesAfter, Posts, Mutates, Deletes

\* What the server makes of a request of the program: it goes on with it, turns
\* it away, fails over it, be it after it has done what is asked, or answers it.
LEMMA ServesKitIs ==
  ASSUME Inv, Serves(Kit), UNCHANGED kitVars
  PROVE  LET r == conn[Kit].req
             k == conn'[Kit] IN
         /\ conn[Kit].st \in Waiting
         /\ r = (IF pc = "reach" THEN AskedHealth ELSE Asked)
         /\ pc = "reach" \/ Testing
         /\ UNCHANGED <<storage, secretFixed, gen, proc>>
         /\ \A c \in Client \ {Kit} : conn'[c] = conn[c]
         /\ \/ k.st \in Waiting /\ ~k.gone /\ k.req = r /\ files' = files
            \/ /\ k.st = "answered" /\ k.secret = JWT_SECRET
               /\ \/ Refuses(r, k.status, k.auth)
                  \/ Fails(r, k.status, k.auth)
                  \/ Does(r, k.status, k.auth)
  <1> DEFINE r == conn[Kit].req
  <1> USE DEF Inv
  <1>1. Kit \in Client /\ Kit \in Watched
    BY KitAssumption
  <1>2. /\ conn[Kit].st \in Waiting /\ conn = [c \in Client |-> conn[c]]
        /\ UNCHANGED <<storage, secretFixed, gen, proc>>
    BY <1>1, ServesIs DEF SrvInv, srvProcess
  <1>3. /\ DOMAIN conn[Kit] = Fields /\ ~conn[Kit].gone
        /\ r = (IF pc = "reach" THEN AskedHealth ELSE Asked)
        /\ pc = "reach" \/ Testing
    BY <1>1, <1>2 DEF SrvInv, ConnFits, KitInv, AskInv, Idle, Cut, Waiting
  <1>4. CASE GoesOn(Kit)
    <2>1. PICK s \in Waiting, n \in Nat, b \in {"whole", conn[Kit].body} :
            /\ conn' = [conn EXCEPT ![Kit] = [conn[Kit] EXCEPT !.st = s, !.left = n, !.body = b]]
            /\ UNCHANGED files
      BY <1>4 DEF GoesOn
    <2> DEFINE k == [conn[Kit] EXCEPT !.st = s, !.left = n, !.body = b]
    <2>2. k.st = s /\ k.req = r /\ k.gone = conn[Kit].gone
      BY <1>3, RunningOn
    <2>3. conn' = [conn EXCEPT ![Kit] = k]
      BY <2>1
    <2> HIDE DEF k
    <2>4. conn'[Kit] = k /\ \A c \in Client \ {Kit} : conn'[c] = conn[c]
      BY <1>1, <1>2, <2>3
    <2> QED
      BY <1>2, <1>3, <2>1, <2>2, <2>4
  <1>5. ASSUME NEW status, NEW auth, Ends(Kit, status, auth),
               \/ Refuses(r, status, auth)
               \/ Fails(r, status, auth)
               \/ Does(r, status, auth)
        PROVE  /\ \A c \in Client \ {Kit} : conn'[c] = conn[c]
               /\ conn'[Kit].st = "answered" /\ conn'[Kit].secret = JWT_SECRET
               /\ conn'[Kit].status = status /\ conn'[Kit].auth = auth
    <2>1. conn' = [conn EXCEPT ![Kit] = Answered(status, auth)]
      BY <1>1, <1>3, <1>5 DEF Ends, Outcome
    <2>2. conn'[Kit] = Answered(status, auth) /\ \A c \in Client \ {Kit} : conn'[c] = conn[c]
      BY <1>1, <1>2, <2>1
    <2> QED
      BY <2>2 DEF Answered
  <1>6. CASE \E status \in Nat, auth \in {"accepted", "missing", "foreign", "unfit"} :
               /\ Ends(Kit, status, auth)
               /\ \/ Refuses(r, status, auth)
                  \/ Fails(r, status, auth)
                  \/ Does(r, status, auth)
    <2>1. PICK status, auth :
            /\ Ends(Kit, status, auth)
            /\ \/ Refuses(r, status, auth)
               \/ Fails(r, status, auth)
               \/ Does(r, status, auth)
      BY <1>6
    <2> QED
      BY <1>2, <1>3, <1>5, <2>1
  <1> QED
    BY <1>1, <1>4, <1>6, ServesIs

LEMMA ServesKitInv ==
  ASSUME Inv, Serves(Kit), UNCHANGED kitVars
  PROVE  KitInv'
  <1> DEFINE r == conn[Kit].req
             k == conn'[Kit]
             Ended == k.st = "answered" /\ k.secret = JWT_SECRET
             Answers == Ended /\ Does(r, k.status, k.auth)
             TurnsAway == Ended /\ Refuses(r, k.status, k.auth)
             Breaks == Ended /\ Fails(r, k.status, k.auth)
             Waits == k.st \in Waiting /\ ~k.gone /\ k.req = r /\ files' = files
  <1> USE DEF Inv
  <1>1. /\ r = (IF pc = "reach" THEN AskedHealth ELSE Asked)
        /\ pc = "reach" \/ Testing
        /\ UNCHANGED <<storage, secretFixed, gen, proc>>
        /\ \A c \in Client \ {Kit} : conn'[c] = conn[c]
        /\ Waits \/ TurnsAway \/ Breaks \/ Answers
    BY ServesKitIs
  <1>2. JWT_SECRET \in Nat /\ JWT_SECRET' = JWT_SECRET /\ Lasting' = Lasting
    BY <1>1, SecretType DEF JWT_SECRET, Lasting
  <1>3. /\ {Kept, Tomb, Gone} \subseteq File /\ NoFile \notin File
        /\ Kept # Tomb /\ Kept # Gone /\ Tomb # Gone
        /\ files \in [File -> {"absent", "live", "tombstone"}]
    BY KitAssumption, ServerAssumption DEF SrvInv, SrvTypeOK
  <1>4. /\ Asked' = Asked /\ AskedHealth' = AskedHealth /\ Testing' = Testing
        /\ pc' = pc /\ next' = next /\ call' = call /\ got' = got /\ token' = token
        /\ level' = level /\ clean' = clean /\ shaken' = shaken
    BY DEF Asked, AskedHealth, Testing, test, EmptyBearer, NoToken, kitVars
  <1>5. /\ \A i, n : At(i, n)' = At(i, n)
        /\ \A role : Held(role)' = Held(role) /\ Stale(role)' = Stale(role)
    BY <1>2, <1>4 DEF At, Held, Stale
  <1>6. Waits \/ TurnsAway => files' = files /\ ~(Ended /\ k.status \in {200, 201, 410})
    BY DEF Refuses, Unserved, Waiting
  <1>7. Breaks => /\ k.auth = "accepted" /\ files' \in {files, FilesAfter(r)}
                  /\ k.status = IF r.path = "/v1/graphql" THEN 200 ELSE 500
    BY DEF Fails, Failure
  <1>8. TurnsAway /\ k.auth = "foreign" =>
          k.status = 403 /\ r.token # NoToken /\ r.token[2] # JWT_SECRET
    BY DEF Refuses, Unserved, applyAuth, checkAuth, verifyJWT
  <1>9. Answers => /\ k.status = Status(r) /\ k.auth = "accepted"
                    /\ applyAuth(r) = "accepted" /\ files' = FilesAfter(r)
    BY DEF Does
  <1>10. ArgsInv' /\ ProgressInv' /\ TokenInv' /\ GotInv'
    BY <1>2 DEF KitInv, ArgsInv, ProgressInv, TokenInv, Held, GotInv, kitVars
  <1> HIDE DEF Answers, TurnsAway, Breaks, Waits
  <1>11. /\ Waits => k.st \in Waiting /\ ~k.gone /\ k.req = r
         /\ TurnsAway \/ Breaks \/ Answers => k.st = "answered" /\ k.secret = JWT_SECRET
    BY DEF Answers, TurnsAway, Breaks, Waits
  <1>12. Waits => ~Ended
    BY <1>11 DEF Waiting
  <1>13. \A s : AnsweredWith(s)' <=> k.st = "answered" /\ k.status = s
    BY DEF AnsweredWith
  <1>14. AskInv'
    <2>1. (~(pc = "reach" \/ Testing) => conn[Kit] = Idle)'
      BY <1>1, <1>4
    <2>2. (conn[Kit].st \in Waiting =>
             /\ ~conn[Kit].gone
             /\ conn[Kit].req = IF pc = "reach" THEN AskedHealth ELSE Asked)'
      BY <1>1, <1>4, <1>11 DEF Waiting
    <2>3. ASSUME k.st = "answered"
          PROVE  /\ k.secret <= JWT_SECRET'
                 /\ \A role \in {"writer", "reader"} :
                      Held(role)' => token'[role][2] <= k.secret
      <3>1. k.secret = JWT_SECRET
        BY <1>1, <1>11, <2>3 DEF Waiting
      <3> QED
        BY <1>2, <1>4, <1>5, <3>1 DEF KitInv, TokenInv
    <2>4. ASSUME k.st = "answered", k.auth = "foreign"
          PROVE  /\ k.status = 403
                 /\ (pc = "run" /\ next = 6 => Held("reader") /\ Stale("reader"))
      <3>1. TurnsAway
        BY <1>1, <1>7, <1>9, <1>11, <2>4 DEF Waiting
      <3>2. k.status = 403 /\ r.token # NoToken /\ r.token[2] # JWT_SECRET
        BY <1>8, <2>4, <3>1
      <3>3. pc = "run" /\ next = 6 => r.token = token.reader
        BY <1>1, AskedIs
      <3> QED
        BY <1>2, <3>2, <3>3 DEF KitInv, TokenInv, Held, Stale
    <2>5. (\A c \in Client \ {Kit} :
             conn[c].st \in Waiting =>
               (conn[c].req.method = "DELETE" => conn[c].req.file \notin {Kept, Tomb, Gone}))'
      BY <1>1 DEF KitInv, AskInv, Waiting
    <2> QED
      BY <1>4, <1>5, <2>1, <2>2, <2>3, <2>4, <2>5 DEF AskInv
  <1>15. DoomedInv'
    <2> SUFFICES ASSUME shaken, clean
        PROVE  \/ next = 7 /\ Stale("writer") /\ ~AnsweredWith(201)'
               \/ (At(18, 2) \/ At(19, 2)) /\ got = NoFile /\ ~AnsweredWith(200)'
               \/ At(19, 3) /\ (got = NoFile \/ files'[Gone] # "tombstone") /\ ~AnsweredWith(410)'
      BY <1>4, <1>5 DEF DoomedInv
    <2>1. \/ next = 7 /\ Stale("writer")
          \/ (At(18, 2) \/ At(19, 2)) /\ got = NoFile
          \/ At(19, 3) /\ (got = NoFile \/ files[Gone] # "tombstone")
      BY DEF KitInv, DoomedInv
    <2>2. Testing
      BY <1>1 DEF KitInv, ProgressInv
    <2>3. r = Asked
      BY <1>1, <2>2 DEF Testing
    <2>4. Answers => ~(next = 7 /\ Stale("writer"))
      <3> SUFFICES ASSUME applyAuth(r) = "accepted", next = 7, Stale("writer") PROVE FALSE
        BY <1>9
      <3>1. r.method = "POST" /\ r.path = "/v1/timepoints" /\ r.token = token.writer
        BY <2>2, <2>3, AskedIs
      <3>2. r.token = NoToken \/ r.token[2] # JWT_SECRET
        BY <1>2, <3>1 DEF Stale, KitInv, TokenInv
      <3> QED
        BY <3>1, <3>2 DEF applyAuth, checkAuth, getRequiredRole, verifyJWT
    <2>5. Answers /\ (At(18, 2) \/ At(19, 2)) /\ got = NoFile => k.status # 200
      <3> SUFFICES ASSUME At(18, 2) \/ At(19, 2), got = NoFile PROVE Status(r) # 200
        BY <1>9
      <3>1. r.method = "DELETE" /\ r.path = "/v1/files/:cgfi" /\ r.file = NoFile
        BY <2>2, <2>3, AskedIs
      <3> QED
        BY <1>3, <3>1, DeleteIs
    <2>6. At(19, 3) /\ (got = NoFile \/ files[Gone] # "tombstone") =>
            FilesAfter(r) = files /\ Status(r) # 410
      <3> SUFFICES ASSUME At(19, 3), got = NoFile \/ files[Gone] # "tombstone"
          PROVE  FilesAfter(r) = files /\ Status(r) # 410
        OBVIOUS
      <3>1. /\ r.method = "GET" /\ r.path = "/v1/files/:cgfi" /\ r.file = got
            /\ got \in {Gone, NoFile}
        BY <2>2, <2>3, AskedIs DEF KitInv, GotInv, At
      <3> QED
        BY <3>1, GetIs DEF Stored
    <2>7. Breaks => /\ k.status \notin {201, 410}
                    /\ (At(18, 2) \/ At(19, 2) => k.status # 200)
      <3>1. At(18, 2) \/ At(19, 2) => r.path = "/v1/files/:cgfi"
        BY <2>2, <2>3, AskedIs
      <3> QED
        BY <1>7, <3>1
    <2>8. TurnsAway => k.status \notin {200, 201, 410}
      BY <1>6, <1>11
    <2>9. CASE Waits
      BY <1>6, <1>12, <1>13, <2>1, <2>9, <1>11 DEF Waiting
    <2>10. CASE TurnsAway
      BY <1>6, <1>13, <2>1, <2>8, <2>10
    <2>11. CASE Breaks
      BY <1>7, <1>13, <2>1, <2>6, <2>7, <2>11
    <2>12. CASE Answers
      BY <1>9, <1>13, <2>1, <2>4, <2>5, <2>6, <2>12
    <2> QED
      BY <1>1, <2>9, <2>10, <2>11, <2>12
  <1>16. FileInv'
    <2>1. conn[Kit].st # "answered"
      BY ServesKitIs DEF Waiting
    <2>2. \A s : ~AnsweredWith(s)
      BY <2>1 DEF AnsweredWith
    <2>3. ASSUME NEW f \in File, DeletesFile(r, f)
          PROVE  \/ At(18, 2) /\ f = Tomb
                 \/ At(19, 2) /\ f = Gone
      <3>1. Testing /\ r = Asked
        BY <1>1, <2>3 DEF AskedHealth, Request, DeletesFile, Testing
      <3>2. (At(18, 2) \/ At(19, 2)) /\ f = got
        BY <2>3, <3>1, AskedIs DEF DeletesFile
      <3>3. f # NoFile /\ ~(At(18, 2) /\ At(19, 2))
        BY <1>3 DEF At
      <3>4. (At(18, 2) => got \in {Tomb, NoFile}) /\ (At(19, 2) => got \in {Gone, NoFile})
        BY DEF KitInv, GotInv, At
      <3> QED
        BY <3>2, <3>3, <3>4
    <2>4. files' \in {files, FilesAfter(r)}
      BY <1>1, <1>6, <1>7, <1>9
    <2>5. /\ files'[Kept] = "tombstone" => files[Kept] = "tombstone"
          /\ files[Kept] = "live" => files'[Kept] = "live"
          /\ \A f \in {Tomb, Gone} : files[f] = "tombstone" => files'[f] = "tombstone"
      <3>1. ~DeletesFile(r, Kept)
        BY <1>3, <2>3
      <3> QED
        BY <1>3, <2>4, <3>1, FilesAfterIs
    <2>6. files'[Gone] = "tombstone" /\ files[Gone] # "tombstone" =>
            At(19, 2) /\ (AnsweredWith(200)' \/ AnsweredWith(500)')
      <3> SUFFICES ASSUME files'[Gone] = "tombstone", files[Gone] # "tombstone"
          PROVE  At(19, 2) /\ (AnsweredWith(200)' \/ AnsweredWith(500)')
        OBVIOUS
      <3>1. Answers \/ Breaks
        BY <1>1, <1>6
      <3>2. DeletesFile(r, Gone) /\ Status(r) = 200 /\ r.path = "/v1/files/:cgfi"
        BY <1>3, <2>4, FilesAfterIs
      <3>3. k.status \in {200, 500}
        BY <1>7, <1>9, <3>1, <3>2
      <3> QED
        BY <1>3, <1>11, <1>13, <2>3, <3>1, <3>2, <3>3
    <2>7. \A s \in {200, 201, 410} :
            AnsweredWith(s)' /\ r.path # "/v1/graphql" =>
              Status(r) = s /\ files' = FilesAfter(r)
      <3> SUFFICES ASSUME NEW s \in {200, 201, 410}, AnsweredWith(s)', r.path # "/v1/graphql"
          PROVE  Status(r) = s /\ files' = FilesAfter(r)
        OBVIOUS
      <3>1. k.st = "answered" /\ k.status = s
        BY <1>13
      <3>2. ~Waits
        BY <1>11, <3>1 DEF Waiting
      <3>3. ~TurnsAway
        BY <1>6, <1>11, <3>1
      <3>4. ~Breaks
        BY <1>7, <3>1
      <3> QED
        BY <1>1, <1>9, <3>1, <3>2, <3>3, <3>4
    <2>8. level = 3 => (pc = "reach" => next = 1)
      BY DEF KitInv, ProgressInv
    <2>9. level = 3 /\ next = 17 /\ AnsweredWith(201)' => files'[Kept] = "live"
      <3> SUFFICES ASSUME level = 3, next = 17, AnsweredWith(201)' PROVE files'[Kept] = "live"
        OBVIOUS
      <3>1. Testing /\ r = Asked
        BY <1>1, <2>8 DEF Testing
      <3>2. r.method = "POST" /\ r.path = "/v1/files" /\ r.file = Kept
        BY <3>1, AskedIs
      <3> QED
        BY <1>3, <2>7, <3>2, PostIs DEF KitInv, FileInv
    <2>10. level = 3 /\ At(18, 2) /\ AnsweredWith(200)' => files'[Tomb] = "tombstone"
      <3> SUFFICES ASSUME level = 3, At(18, 2), AnsweredWith(200)'
          PROVE  files'[Tomb] = "tombstone"
        OBVIOUS
      <3>1. Testing /\ r = Asked
        BY <1>1, <2>8 DEF Testing, At
      <3>2. /\ r.method = "DELETE" /\ r.path = "/v1/files/:cgfi" /\ r.file = got
            /\ got \in {Tomb, NoFile}
        BY <3>1, AskedIs DEF KitInv, GotInv, At
      <3> QED
        BY <1>3, <2>7, <3>2, DeleteIs
    <2>11. level = 3 /\ At(19, 3) /\ AnsweredWith(410)' => files'[Gone] = "tombstone"
      <3> SUFFICES ASSUME level = 3, At(19, 3), AnsweredWith(410)'
          PROVE  files'[Gone] = "tombstone"
        OBVIOUS
      <3>1. Testing /\ r = Asked
        BY <1>1, <2>8 DEF Testing, At
      <3>2. /\ r.method = "GET" /\ r.path = "/v1/files/:cgfi" /\ r.file = got
            /\ got \in {Gone, NoFile}
        BY <3>1, AskedIs DEF KitInv, GotInv, At
      <3> QED
        BY <1>3, <2>7, <3>2, GetIs DEF Stored
    <2> QED
      <3>1. files'[Kept] # "tombstone"
        BY <2>5 DEF KitInv, FileInv
      <3>2. (\/ next < 19 \/ At(19, 1)
             \/ At(19, 2) /\ ~AnsweredWith(200)' /\ ~AnsweredWith(500)') =>
              files'[Gone] # "tombstone"
        BY <1>3, <2>2, <2>6 DEF KitInv, FileInv, At, ProgressInv
      <3>3. Lasting /\ clean /\ level = 3 =>
              /\ next > 17 \/ (next = 17 /\ AnsweredWith(201)') => files'[Kept] = "live"
              /\ next > 18 \/ (At(18, 2) /\ AnsweredWith(200)') => files'[Tomb] = "tombstone"
              /\ next > 19 \/ (At(19, 3) /\ AnsweredWith(410)') => files'[Gone] = "tombstone"
        BY <2>5, <2>9, <2>10, <2>11 DEF KitInv, FileInv
      <3> QED
        BY <1>2, <1>4, <1>5, <3>1, <3>2, <3>3 DEF FileInv
  <1> QED
    BY <1>10, <1>14, <1>15, <1>16 DEF KitInv

\* The program asks, and takes an answer.
LEMMA ConnectKitIs ==
  ASSUME Inv, NEW r, Connect(Kit, r, "whole")
  PROVE  /\ SrvInv' /\ conn[Kit] = Idle
         /\ UNCHANGED <<storage, secretFixed, gen, files>>
         /\ \A c \in Client \ {Kit} : conn'[c] = conn[c]
         /\ conn'[Kit].st \in {"body", "cut"}
         /\ conn'[Kit].st = "body" => conn'[Kit].req = r /\ ~conn'[Kit].gone
         /\ \A s : ~AnsweredWith(s) /\ ~AnsweredWith(s)'
  <1>1. /\ conn[Kit] = Idle
        /\ \E k \in {Asking(r, "whole"), Cut} : conn' = [conn EXCEPT ![Kit] = k]
        /\ UNCHANGED <<storage, secretFixed, gen, files>>
    BY KitAssumption DEF Connect, Connects, Outcome, srvProcess
  <1>2. conn'[Kit] \in {Asking(r, "whole"), Cut} /\ \A c \in Client \ {Kit} : conn'[c] = conn[c]
    BY <1>1, KitAssumption DEF Inv, SrvInv
  <1>3. SrvInv'
    BY ConnectInv, KitAssumption DEF Inv
  <1> QED
    BY <1>1, <1>2, <1>3 DEF Asking, Cut, Idle, AnsweredWith

LEMMA LeaveKitIs ==
  ASSUME Inv, Leave(Kit)
  PROVE  /\ SrvInv' /\ conn'[Kit] = Idle
         /\ UNCHANGED <<storage, secretFixed, gen, files>>
         /\ \A c \in Client \ {Kit} : conn'[c] = conn[c]
         /\ \A s : ~AnsweredWith(s)'
  <1>1. conn' = [conn EXCEPT ![Kit] = Idle] /\ UNCHANGED <<storage, secretFixed, gen, files>>
    BY DEF Leave, srvProcess
  <1>2. conn'[Kit] = Idle /\ \A c \in Client \ {Kit} : conn'[c] = conn[c]
    BY <1>1, KitAssumption DEF Inv, SrvInv
  <1>3. SrvInv'
    BY LeaveInv, KitAssumption DEF Inv
  <1> QED
    BY <1>1, <1>2, <1>3 DEF Idle, AnsweredWith

LEMMA BadArgumentsInv ==
  ASSUME Inv, BadArguments
  PROVE  Inv'
  <1>1. SrvInv'
    BY StutterInv DEF Inv, BadArguments
  <1> USE DEF Inv, KitInv, BadArguments, Exited, srvVars, arguments
  <1>2. ArgsInv' /\ GotInv' /\ TokenInv'
    BY DEF ArgsInv, GotInv, TokenInv, Held, JWT_SECRET
  <1>3. ProgressInv'
    BY DEF ProgressInv
  <1>4. AskInv'
    <2>1. conn[Kit] = Idle
      BY DEF AskInv, Testing
    <2> QED
      BY <2>1 DEF AskInv, Idle, Waiting
  <1>5. DoomedInv' /\ FileInv'
    BY DEF DoomedInv, FileInv, ProgressInv, At, AnsweredWith, Lasting
  <1> QED
    BY <1>1, <1>2, <1>3, <1>4, <1>5

LEMMA RunOwnTestsInv ==
  ASSUME Inv, RunOwnTests
  PROVE  Inv'
  <1>1. SrvInv'
    BY StutterInv DEF Inv, RunOwnTests, OwnTestsRun
  <1>2. /\ pc = "start" /\ pc' = "exited" /\ target = Missing /\ clean' \in BOOLEAN
        /\ UNCHANGED <<srvVars, arguments, next, call, token, got, shaken>>
        /\ code' = IF clean' THEN 0 ELSE 1
    BY DEF RunOwnTests, OwnTestsRun, Exited
  <1>3. PICK results : report' = Report(results, clean')
    BY DEF RunOwnTests, OwnTestsRun
  <1> USE DEF Inv, KitInv, srvVars, arguments
  <1>4. ArgsInv' /\ GotInv' /\ TokenInv'
    BY <1>2 DEF ArgsInv, GotInv, TokenInv, Held, JWT_SECRET
  <1>5. report' # NoReport => /\ report'.compliant = clean'
                              /\ report'.level = level \/ program = "testkit"
    BY <1>2, <1>3 DEF ArgsInv, Report, ConformanceReport, TestkitReport, GeneratedReport
  <1>6. ProgressInv'
    BY <1>2, <1>5, UrlAssumption DEF ProgressInv
  <1>7. AskInv'
    <2>1. conn[Kit] = Idle
      BY <1>2 DEF AskInv, Testing
    <2> QED
      BY <1>2, <2>1 DEF AskInv, Idle, Waiting
  <1>8. DoomedInv' /\ FileInv'
    BY <1>2 DEF DoomedInv, FileInv, ArgsInv, ProgressInv, At, AnsweredWith, Lasting
  <1> QED
    BY <1>1, <1>4, <1>6, <1>7, <1>8

LEMMA FinishInv ==
  ASSUME Inv, Finish
  PROVE  Inv'
  <1>1. SrvInv'
    BY StutterInv DEF Inv, Finish
  <1>2. /\ pc = "run" /\ ~Testing /\ pc' = "exited"
        /\ UNCHANGED <<srvVars, arguments, next, call, token, got, clean, shaken>>
        /\ code' = IF clean THEN 0 ELSE 1
    BY DEF Finish, Exited
  <1>3. PICK results : report' = Report(results, clean)
    BY DEF Finish
  <1> USE DEF Inv, KitInv, srvVars, arguments
  <1>4. ArgsInv' /\ GotInv' /\ TokenInv'
    BY <1>2 DEF ArgsInv, GotInv, TokenInv, Held, JWT_SECRET
  <1>5. report' # NoReport => /\ report'.compliant = clean
                              /\ report'.level = level \/ program = "testkit"
    BY <1>2, <1>3 DEF ArgsInv, Report, ConformanceReport, TestkitReport, GeneratedReport
  <1>6. next = 21
    BY <1>2, TestList DEF ProgressInv, Testing
  <1>7. ProgressInv'
    BY <1>2, <1>5, <1>6 DEF ProgressInv
  <1>8. AskInv'
    <2>1. conn[Kit] = Idle
      BY <1>2 DEF AskInv
    <2> QED
      BY <1>2, <2>1 DEF AskInv, Idle, Waiting
  <1>9. DoomedInv' /\ FileInv'
    BY <1>2 DEF DoomedInv, FileInv, At, Stale, JWT_SECRET, AnsweredWith, Lasting
  <1> QED
    BY <1>1, <1>4, <1>7, <1>8, <1>9

LEMMA ReachInv ==
  ASSUME Inv, Reach
  PROVE  Inv'
  <1>1. /\ SrvInv' /\ UNCHANGED <<storage, secretFixed, gen, files>>
        /\ \A c \in Client \ {Kit} : conn'[c] = conn[c]
        /\ conn'[Kit].st \in {"body", "cut"}
        /\ conn'[Kit].st = "body" => conn'[Kit].req = AskedHealth /\ ~conn'[Kit].gone
        /\ \A s : ~AnsweredWith(s) /\ ~AnsweredWith(s)'
    BY ConnectKitIs DEF Reach
  <1>2. /\ pc = "start" /\ pc' = "reach" /\ target = Url
        /\ UNCHANGED <<arguments, next, call, token, got, clean, shaken, report, code>>
    BY DEF Reach
  <1> USE DEF Inv, KitInv, arguments
  <1>3. ArgsInv' /\ GotInv' /\ TokenInv'
    BY <1>1, <1>2 DEF ArgsInv, GotInv, TokenInv, Held, JWT_SECRET
  <1>4. ProgressInv'
    BY <1>2 DEF ProgressInv
  <1>5. AskInv'
    BY <1>1, <1>2 DEF AskInv, Waiting, AskedHealth, NoToken
  <1>6. DoomedInv' /\ FileInv'
    BY <1>1, <1>2 DEF DoomedInv, FileInv, ProgressInv, At, Lasting
  <1> QED
    BY <1>1, <1>3, <1>4, <1>5, <1>6

LEMMA ReachedInv ==
  ASSUME Inv, Reached
  PROVE  Inv'
  <1>1. /\ SrvInv' /\ UNCHANGED <<storage, secretFixed, gen, files>>
        /\ \A c \in Client \ {Kit} : conn'[c] = conn[c]
        /\ conn'[Kit] = Idle
        /\ \A s : ~AnsweredWith(s)'
    BY LeaveKitIs DEF Reached
  <1>2. /\ pc = "reach" /\ \/ pc' = "run" /\ code' = code
                           \/ pc' = "exited" /\ code' = 2
        /\ UNCHANGED <<arguments, next, call, token, got, clean, shaken, report>>
    BY DEF Reached, Exited
  <1> USE DEF Inv, KitInv, arguments
  <1>3. ArgsInv' /\ GotInv' /\ TokenInv'
    BY <1>1, <1>2 DEF ArgsInv, GotInv, TokenInv, Held, JWT_SECRET
  <1>4. ProgressInv'
    BY <1>2 DEF ProgressInv
  <1>5. AskInv'
    BY <1>1, <1>2 DEF AskInv, Waiting, Idle
  <1>6. DoomedInv' /\ FileInv'
    BY <1>1, <1>2 DEF DoomedInv, FileInv, ArgsInv, ProgressInv, At, Lasting
  <1> QED
    BY <1>1, <1>3, <1>4, <1>5, <1>6

LEMMA FetchInv ==
  ASSUME Inv, Fetch
  PROVE  Inv'
  <1>1. /\ SrvInv' /\ UNCHANGED <<storage, secretFixed, gen, files>>
        /\ \A c \in Client \ {Kit} : conn'[c] = conn[c]
        /\ conn'[Kit].st \in {"body", "cut"}
        /\ conn'[Kit].st = "body" => conn'[Kit].req = Asked /\ ~conn'[Kit].gone
        /\ \A s : ~AnsweredWith(s) /\ ~AnsweredWith(s)'
    BY ConnectKitIs DEF Fetch
  <1>2. Testing /\ UNCHANGED kitVars
    BY DEF Fetch
  <1>3. Asked' = Asked /\ Testing'
    BY <1>2 DEF Asked, Testing, test, EmptyBearer, NoToken, kitVars
  <1> USE DEF Inv, KitInv, kitVars
  <1>4. ArgsInv' /\ GotInv' /\ TokenInv' /\ ProgressInv'
    BY <1>1, <1>2 DEF ArgsInv, GotInv, TokenInv, Held, JWT_SECRET, ProgressInv
  <1>5. AskInv'
    BY <1>1, <1>2, <1>3 DEF AskInv, Waiting, Testing
  <1>6. DoomedInv' /\ FileInv'
    BY <1>1, <1>2 DEF DoomedInv, FileInv, At, Lasting, Stale, JWT_SECRET
  <1> QED
    BY <1>1, <1>4, <1>5, <1>6

LEMMA ThrownInv ==
  ASSUME Inv, Thrown
  PROVE  Inv'
  <1>1. /\ SrvInv' /\ UNCHANGED <<storage, secretFixed, gen, files>>
        /\ \A c \in Client \ {Kit} : conn'[c] = conn[c]
        /\ conn'[Kit] = Idle
        /\ \A s : ~AnsweredWith(s)'
    BY LeaveKitIs DEF Thrown
  <1>2. /\ Testing /\ pc = "run" /\ shaken' = TRUE /\ clean' = FALSE /\ call' = 1
        /\ next' = NextSelected(next + 1)
        /\ UNCHANGED <<program, level, target, doReport, pc, token, got, report, code>>
    BY DEF Thrown, Judged, Testing, Inv, KitInv, ProgressInv
  <1> USE DEF Inv, KitInv
  <1>3. /\ next \in 1 .. 20 /\ next' \in next + 1 .. 21
        /\ next' \in 1 .. 20 => next' = next + 1 /\ next' <= LastOf(level)
    BY <1>2, TestList, NextSelectedIs DEF Testing, ProgressInv, ArgsInv
  <1>4. ArgsInv' /\ GotInv' /\ TokenInv'
    BY <1>1, <1>2, <1>3 DEF ArgsInv, GotInv, TokenInv, Held, JWT_SECRET
  <1>5. ProgressInv'
    <2>1. next' \in 1 .. 20 => /\ tests[next'].level <= level
                               /\ 1 \in DOMAIN tests[next'].calls
      BY <1>3, SelectedFits DEF ArgsInv
    <2>2. next' \in 1 .. 21
      BY <1>3
    <2>3. clean' \in BOOLEAN /\ shaken' \in BOOLEAN
      BY <1>2, Zenon
    <2> QED
      BY <1>2, <2>1, <2>2, <2>3 DEF ProgressInv
  <1>6. AskInv'
    BY <1>1, <1>2 DEF AskInv, Waiting, Idle
  <1>7. DoomedInv' /\ FileInv'
    BY <1>1, <1>2, <1>3 DEF DoomedInv, FileInv, At, Lasting
  <1> QED
    BY <1>1, <1>4, <1>5, <1>6, <1>7

\* What the program does with an answer: it goes on to the next request of the
\* test, or to the next test when it was the last.
LEMMA AnswerIs ==
  ASSUME Inv, Answer
  PROVE  LET a == test.calls[call]
             k == conn[Kit]
         IN
         /\ SrvInv' /\ UNCHANGED <<storage, secretFixed, gen, files>>
         /\ \A c \in Client \ {Kit} : conn'[c] = conn[c]
         /\ conn'[Kit] = Idle /\ \A s : ~AnsweredWith(s)'
         /\ UNCHANGED <<program, level, target, doReport, pc, report, code>>
         /\ pc = "run" /\ next \in 1 .. 20 /\ k.st = "answered" /\ k.secret \in Nat
         /\ Keep(k.status, k.secret)
         /\ shaken' = (shaken \/ ~Served(k.status, k.auth))
         /\ \/ /\ next' = next /\ call' = call + 1 /\ clean' = clean
               /\ At(18, 1) \/ At(19, 1) \/ At(19, 2)
            \/ /\ call = Calls(next) /\ call' = 1
               /\ clean' = (clean /\ k.status = test.want)
               /\ next' \in next + 1 .. 21
               /\ next' \in 1 .. 20 => next' = next + 1 /\ next' <= LastOf(level)
               /\ next + 1 <= LastOf(level) => next' = next + 1
  <1> USE DEF Inv, KitInv
  <1>1. Testing /\ conn[Kit].st = "answered" /\ Leave(Kit)
    BY DEF Answer
  <1>2. /\ SrvInv' /\ UNCHANGED <<storage, secretFixed, gen, files>>
        /\ \A c \in Client \ {Kit} : conn'[c] = conn[c]
        /\ conn'[Kit] = Idle /\ \A s : ~AnsweredWith(s)'
    BY <1>1, LeaveKitIs
  <1>3. /\ pc = "run" /\ next \in 1 .. 20 /\ call \in 1 .. Calls(next)
        /\ Len(test.calls) = Calls(next) /\ conn[Kit].secret \in Nat
    BY <1>1, AtTest, KitAssumption DEF Testing, SrvInv, ConnFits, Idle, Cut, Waiting
  <1>4. CASE call = Len(test.calls)
    <2>1. /\ call' = 1 /\ next' = NextSelected(next + 1)
          /\ clean' = (clean /\ conn[Kit].status = test.want)
      BY <1>4 DEF Answer, Judged
    <2>2. /\ next' \in next + 1 .. 21
          /\ next' \in 1 .. 20 => next' = next + 1 /\ next' <= LastOf(level)
          /\ next + 1 <= LastOf(level) => next' = next + 1
      <3>1. next' = IF next + 1 <= LastOf(level) THEN next + 1 ELSE 21
        <4>1. level \in 0 .. 3 /\ next + 1 \in 1 .. 21
          BY <1>3 DEF ArgsInv
        <4>2. NextSelected(next + 1) = IF next + 1 <= LastOf(level) THEN next + 1 ELSE 21
          BY <4>1, NextSelectedIs
        <4> QED
          BY <2>1, <4>2
      <3>2. LastOf(level) \in 0 .. 20
        BY DEF LastOf
      <3> QED
        BY <1>3, <3>1, <3>2
    <2> QED
      BY <1>1, <1>2, <1>3, <1>4, <2>1, <2>2 DEF Answer
  <1>5. CASE call # Len(test.calls)
    <2>1. call' = call + 1 /\ next' = next /\ clean' = clean
      BY <1>5 DEF Answer
    <2>2. At(18, 1) \/ At(19, 1) \/ At(19, 2)
      BY <1>3, <1>5 DEF Calls, At
    <2> QED
      BY <1>1, <1>2, <1>3, <2>1, <2>2 DEF Answer
  <1> QED
    BY <1>4, <1>5

LEMMA AnswerTokenInv ==
  ASSUME Inv, Answer
  PROVE  TokenInv'
  <1> DEFINE a == test.calls[call]
             k == conn[Kit]
             new == IF k.status = 200 THEN <<a.file, k.secret>> ELSE NoToken
  <1>1. /\ next \in 1 .. 20 /\ next' >= next /\ next' \in 1 .. 21
        /\ UNCHANGED <<secretFixed, gen>> /\ Keep(k.status, k.secret)
        /\ k.st = "answered" /\ k.secret \in Nat
    BY AnswerIs
  <1>2. JWT_SECRET' = JWT_SECRET /\ JWT_SECRET \in Nat
    BY <1>1, SecretType DEF Inv, JWT_SECRET
  <1>3. /\ TokenInv /\ k.secret <= JWT_SECRET
        /\ \A role \in {"writer", "reader"} : Held(role) => token[role][2] <= k.secret
    BY <1>1 DEF Inv, KitInv, AskInv
  <1>4. a.path = "/v1/auth/token" =>
          (next = 3 /\ a.file = "writer") \/ (next = 4 /\ a.file = "reader")
    <2>1. CallFits(next, call, a)
      BY AtTest DEF Inv, Answer
    <2> QED
      BY <2>1 DEF CallFits, FetchToken, Ask
  <1>5. token' = IF a.path # "/v1/auth/token" THEN token ELSE [token EXCEPT ![a.file] = new]
    BY <1>1 DEF Keep
  <1>6. new = NoToken \/ (new = <<a.file, k.secret>> /\ new[2] = k.secret)
    OBVIOUS
  <1> HIDE DEF a, k, new
  <1>7. CASE a.path # "/v1/auth/token"
    BY <1>1, <1>2, <1>3, <1>5, <1>7 DEF TokenInv, Held
  <1>8. CASE a.path = "/v1/auth/token" /\ next = 3 /\ a.file = "writer"
    <2>1. token' = [token EXCEPT !["writer"] = new] /\ next \in 1 .. 4
      BY <1>5, <1>8
    <2>2. token'["writer"] = new /\ token'["reader"] = token["reader"] /\ ~Held("reader")
      BY <1>3, <2>1 DEF TokenInv
    <2>3. new \in {NoToken} \union ({"writer", "reader"} \X Nat)
      BY <1>1, <1>6, <1>8
    <2>4. token' \in [{"writer", "reader"} -> {NoToken} \union ({"writer", "reader"} \X Nat)]
      BY <1>3, <2>1, <2>3 DEF TokenInv
    <2> QED
      BY <1>2, <1>3, <1>6, <2>2, <2>4 DEF TokenInv, Held
  <1>9. CASE a.path = "/v1/auth/token" /\ next = 4 /\ a.file = "reader"
    <2>1. token' = [token EXCEPT !["reader"] = new]
      BY <1>5, <1>9
    <2>2. token'["reader"] = new /\ token'["writer"] = token["writer"]
      BY <1>3, <2>1 DEF TokenInv
    <2>3. new \in {NoToken} \union ({"writer", "reader"} \X Nat)
      BY <1>1, <1>6, <1>9
    <2>4. token' \in [{"writer", "reader"} -> {NoToken} \union ({"writer", "reader"} \X Nat)]
      BY <1>3, <2>1, <2>3 DEF TokenInv
    <2>5. next' > 4
      BY <1>9, AnswerIs DEF At
    <2>6. \A role \in {"writer", "reader"} : Held(role)' => token'[role][2] <= JWT_SECRET'
      BY <1>2, <1>3, <1>6, <2>2 DEF TokenInv, Held
    <2>7. Held("writer")' /\ Held("reader")' => token'["writer"][2] <= token'["reader"][2]
      BY <1>3, <1>6, <2>2 DEF Held
    <2> QED
      BY <1>1, <2>4, <2>5, <2>6, <2>7 DEF TokenInv
  <1> QED
    BY <1>4, <1>7, <1>8, <1>9

\* A request that was not served and is not noticed leaves its mark.
LEMMA AnswerDoomedInv ==
  ASSUME Inv, Answer
  PROVE  DoomedInv'
  <1> DEFINE a == test.calls[call]
             k == conn[Kit]
  <1>1. /\ UNCHANGED <<secretFixed, gen, files, pc, level>> /\ pc = "run"
        /\ next \in 1 .. 20 /\ k.st = "answered"
        /\ Keep(k.status, k.secret) /\ \A s : ~AnsweredWith(s)'
        /\ shaken' = (shaken \/ ~Served(k.status, k.auth))
        /\ \A s : AnsweredWith(s) <=> k.status = s
    BY AnswerIs DEF AnsweredWith
  <1> SUFFICES ASSUME shaken', clean'
      PROVE  \/ next' = 7 /\ Stale("writer")'
             \/ (At(18, 2)' \/ At(19, 2)') /\ got' = NoFile
             \/ At(19, 3)' /\ (got' = NoFile \/ files[Gone] # "tombstone")
    BY <1>1 DEF DoomedInv
  <1>2. TestFits(next) /\ CallFits(next, call, a) /\ Inv
    BY AtTest DEF Answer, Inv
  <1>3. k.auth = "foreign" => /\ k.status = 403
                              /\ (next = 6 => Held("reader") /\ Stale("reader"))
    BY <1>1 DEF Inv, KitInv, AskInv
  <1>4. /\ call = Calls(next) => /\ k.status = test.want /\ clean
                                 /\ next + 1 <= LastOf(level) => next' = next + 1
        /\ call # Calls(next) => /\ next' = next /\ call' = call + 1 /\ clean' = clean
                                 /\ At(18, 1) \/ At(19, 1) \/ At(19, 2)
    <2>1. ~(At(18, 1) /\ call = Calls(next)) /\ ~(At(19, 1) /\ call = Calls(next))
          /\ ~(At(19, 2) /\ call = Calls(next))
      BY DEF At, Calls
    <2> QED
      BY <2>1, AnswerIs
  <1>5. got' = IF a.method = "POST" /\ a.path = "/v1/files"
               THEN IF k.status = 201 THEN a.file ELSE NoFile ELSE got
    BY <1>1 DEF Keep
  <1>6. shaken \/ k.auth = "foreign" \/ (k.status = 500 /\ ~Unheard(500))
    <2>1. shaken \/ ~Served(k.status, k.auth)
      BY <1>1, Zenon
    <2> QED
      BY <2>1 DEF Served
  <1>7. ~shaken => k.status \notin {200, 201}
    BY <1>3, <1>6
  <1>8. CASE call = Calls(next)
    <2>1. ~shaken
      <3> SUFFICES ASSUME shaken PROVE FALSE
        OBVIOUS
      <3>1. \/ next = 7 /\ k.status # 201
            \/ next = 18 /\ k.status # 200
            \/ At(19, 2)
            \/ next = 19 /\ k.status # 410
        BY <1>1, <1>4, <1>8 DEF Inv, KitInv, DoomedInv, At
      <3> QED
        BY <1>2, <1>4, <1>8, <3>1 DEF TestFits, test, At, Calls
    <2>2. next = 6 /\ Held("reader") /\ Stale("reader")
      <3>1. Len(test.calls) = Calls(next) /\ test.want # 500 /\ (test.want = 403 => next = 6)
        BY <1>2 DEF TestFits, test
      <3>2. ~Unheard(500)
        BY <1>8, <3>1 DEF Unheard
      <3>3. k.status = test.want
        BY <1>4, <1>8
      <3>4. k.auth = "foreign"
        BY <1>6, <2>1, <3>1, <3>2, <3>3
      <3> QED
        BY <1>3, <3>1, <3>3, <3>4
    <2>3. next' = 7
      <3>1. tests[6].level = 2 /\ level \in 0 .. 3 /\ tests[6].level <= level
        BY <1>2, <2>2 DEF TestFits, Inv, KitInv, ArgsInv, ProgressInv
      <3> QED
        BY <1>4, <1>8, <2>2, <3>1 DEF LastOf
    <2>4. Stale("writer")'
      <3>1. token' = token
        BY <1>1, <1>2, <2>2 DEF Keep, CallFits
      <3>2. JWT_SECRET' = JWT_SECRET /\ JWT_SECRET \in Nat
        BY <1>1, SecretType DEF JWT_SECRET, Inv
      <3> QED
        BY <2>2, <3>1, <3>2 DEF Stale, Held, Inv, KitInv, TokenInv
    <2> QED
      BY <2>3, <2>4
  <1>9. CASE call # Calls(next)
    <2>1. CASE At(18, 1) \/ At(19, 1)
      <3>1. a.method = "POST" /\ a.path = "/v1/files"
        BY <1>2, <2>1 DEF CallFits, At, PostFile, Ask
      <3>2. ~shaken
        <4>1. clean
          BY <1>4, <1>9
        <4> QED
          BY <2>1, <4>1 DEF Inv, KitInv, DoomedInv, At
      <3>3. k.status # 201
        BY <1>7, <3>2
      <3>4. got' = NoFile
        BY <1>5, <3>1, <3>3
      <3> QED
        BY <1>4, <1>9, <2>1, <3>4 DEF At
    <2>2. CASE At(19, 2)
      <3>1. a.method = "DELETE"
        BY <1>2, <2>2 DEF CallFits, At, DeletePosted, Ask
      <3>2. got' = got
        BY <1>5, <3>1
      <3>3. At(19, 3)'
        BY <1>4, <1>9, <2>2 DEF At
      <3>4. k.status # 200
        <4>1. CASE shaken
          <5>1. clean
            BY <1>4, <1>9
          <5> QED
            BY <1>1, <2>2, <4>1, <5>1 DEF Inv, KitInv, DoomedInv, At
        <4>2. CASE ~shaken
          BY <1>7, <4>2
        <4> QED
          BY <4>1, <4>2
      <3>5. CASE k.status = 500
        <4>1. Unheard(500)
          <5>1. Asked.method = "DELETE" /\ Len(test.calls) = 3 /\ call = 2
            BY <2>2, AskedIs, AtTest DEF Answer, Inv, At, Calls
          <5> QED
            BY <5>1 DEF Unheard
        <4>2. shaken
          BY <1>3, <1>6, <3>5, <4>1
        <4>3. clean
          BY <1>4, <1>9
        <4>4. got = NoFile
          BY <2>2, <4>2, <4>3 DEF Inv, KitInv, DoomedInv, At
        <4> QED
          BY <3>2, <3>3, <4>4
      <3>6. CASE k.status # 500
        <4>1. files[Gone] # "tombstone"
          BY <1>1, <2>2, <3>4, <3>6 DEF Inv, KitInv, FileInv
        <4> QED
          BY <3>3, <4>1
      <3> QED
        BY <3>5, <3>6
    <2> QED
      BY <1>4, <1>9, <2>1, <2>2
  <1> QED
    BY <1>8, <1>9

LEMMA AnswerFileInv ==
  ASSUME Inv, Answer
  PROVE  FileInv'
  <1> DEFINE k == conn[Kit]
  <1>1. /\ UNCHANGED <<storage, gen, files, level>> /\ next \in 1 .. 20
        /\ \A s : ~AnsweredWith(s)'
        /\ \A s : AnsweredWith(s) <=> k.status = s
    BY AnswerIs DEF AnsweredWith
  <1>2. FileInv /\ ArgsInv
    BY DEF Inv, KitInv
  <1>3. \/ /\ next' = next /\ call' = call + 1 /\ clean' = clean
           /\ At(18, 1) \/ At(19, 1) \/ At(19, 2)
        \/ /\ call = Calls(next) /\ call' = 1
           /\ clean' = (clean /\ k.status = test.want)
           /\ next' \in next + 1 .. 21
           /\ next' \in 1 .. 20 => next' = next + 1 /\ next' <= LastOf(level)
           /\ next + 1 <= LastOf(level) => next' = next + 1
    BY AnswerIs
  <1>4. /\ next = 17 => test.want = 201
        /\ next = 18 => test.want = 200
        /\ next = 19 => test.want = 410
    <2>1. TestFits(next)
      BY <1>1, TestFacts
    <2> QED
      BY <2>1 DEF TestFits, test
  <1>5. Lasting' = Lasting
    BY <1>1 DEF Lasting
  <1>6. CASE next' = next
    BY <1>1, <1>2, <1>3, <1>5, <1>6 DEF FileInv, At
  <1>7. CASE next' # next
    <2>1. /\ clean' = (clean /\ k.status = test.want) /\ call = Calls(next) /\ call' = 1
          /\ next' > next /\ next' \in 1 .. 21 /\ (level = 3 => next' = next + 1)
          /\ next' = 19 => next = 18
      BY <1>1, <1>2, <1>3, <1>7 DEF LastOf, ArgsInv
    <2>2. files[Kept] # "tombstone"
      BY <1>2 DEF FileInv
    <2>3. next' < 19 \/ next' = 19 => files[Gone] # "tombstone"
      BY <1>1, <1>2, <2>1 DEF FileInv
    <2>4. ASSUME Lasting, clean', level = 3
          PROVE  /\ next' > 17 => files[Kept] = "live"
                 /\ next' > 18 => files[Tomb] = "tombstone"
                 /\ next' > 19 => files[Gone] = "tombstone"
      <3>1. clean /\ k.status = test.want
        BY <2>1, <2>4, Zenon
      <3>2. /\ next > 17 \/ (next = 17 /\ AnsweredWith(201)) => files[Kept] = "live"
            /\ next > 18 \/ (At(18, 2) /\ AnsweredWith(200)) => files[Tomb] = "tombstone"
            /\ next > 19 \/ (At(19, 3) /\ AnsweredWith(410)) => files[Gone] = "tombstone"
        BY <1>2, <2>4, <3>1 DEF FileInv
      <3>3. /\ next = 18 => At(18, 2)
            /\ next = 19 => At(19, 3)
        BY <2>1 DEF At, Calls
      <3> QED
        BY <1>1, <1>4, <2>1, <2>4, <3>1, <3>2, <3>3
    <2> QED
      BY <1>1, <1>5, <2>1, <2>2, <2>3, <2>4 DEF FileInv, At
  <1> QED
    BY <1>6, <1>7

LEMMA AnswerInv ==
  ASSUME Inv, Answer
  PROVE  Inv'
  <1> DEFINE a == test.calls[call]
             k == conn[Kit]
  <1>1. /\ SrvInv' /\ UNCHANGED <<storage, secretFixed, gen, files>>
        /\ \A c \in Client \ {Kit} : conn'[c] = conn[c]
        /\ conn'[Kit] = Idle /\ \A s : ~AnsweredWith(s)'
        /\ UNCHANGED <<program, level, target, doReport, pc, report, code>>
        /\ pc = "run" /\ next \in 1 .. 20
        /\ Keep(k.status, k.secret)
        /\ shaken' \in BOOLEAN
    BY AnswerIs
  <1>2. \/ /\ next' = next /\ call' = call + 1 /\ clean' = clean
           /\ At(18, 1) \/ At(19, 1) \/ At(19, 2)
        \/ /\ call = Calls(next) /\ call' = 1 /\ clean' \in BOOLEAN
           /\ next' \in next + 1 .. 21
           /\ next' \in 1 .. 20 => next' <= LastOf(level)
    BY AnswerIs
  <1>3. TestFits(next) /\ CallFits(next, call, a)
    BY AtTest DEF Answer, Inv
  <1> USE DEF Inv, KitInv
  <1>4. ArgsInv'
    BY <1>1 DEF ArgsInv
  <1>5. ProgressInv'
    <2>1. next' \in 1 .. 20 => /\ tests[next'].level <= level
                               /\ call' \in DOMAIN tests[next'].calls
      <3>1. CASE next' = next /\ call' = call + 1 /\ (At(18, 1) \/ At(19, 1) \/ At(19, 2))
        BY <1>1, <1>3, <3>1 DEF ProgressInv, TestFits, At, Calls
      <3>2. CASE call' = 1 /\ (next' \in 1 .. 20 => next' <= LastOf(level))
        BY <3>2, SelectedFits DEF ArgsInv
      <3> QED
        BY <1>2, <3>1, <3>2
    <2>2. next' \in 1 .. 21 /\ clean' \in BOOLEAN
      BY <1>1, <1>2 DEF ProgressInv
    <2> QED
      BY <1>1, <2>1, <2>2 DEF ProgressInv
  <1>6. GotInv'
    <2>1. got' = IF a.method = "POST" /\ a.path = "/v1/files"
                 THEN IF k.status = 201 THEN a.file ELSE NoFile ELSE got
      BY <1>1 DEF Keep
    <2>2. a.method = "POST" /\ a.path = "/v1/files" =>
            a.file = IF next = 17 THEN Kept ELSE IF next = 18 THEN Tomb ELSE Gone
      BY <1>3 DEF CallFits, PostFile, Ask
    <2>3. got' \in File \union {NoFile}
      BY <2>1, <2>2, KitAssumption DEF GotInv
    <2>4. (At(18, 2) => got \in {Tomb, NoFile})'
      <3> SUFFICES ASSUME next' = 18, call' = 2 PROVE got' \in {Tomb, NoFile}
        BY DEF At
      <3>1. At(18, 1)
        BY <1>1, <1>2 DEF At
      <3> QED
        BY <1>3, <2>1, <3>1 DEF CallFits, PostFile, Ask, At
    <2>5. (next = 19 /\ call \in {2, 3} => got \in {Gone, NoFile})'
      <3> SUFFICES ASSUME next' = 19, call' \in {2, 3} PROVE got' \in {Gone, NoFile}
        OBVIOUS
      <3>1. At(19, 1) \/ At(19, 2)
        BY <1>1, <1>2 DEF At
      <3>2. CASE At(19, 1)
        BY <1>3, <2>1, <3>2 DEF CallFits, PostFile, Ask, At
      <3>3. CASE At(19, 2)
        BY <1>3, <2>1, <3>3 DEF CallFits, DeletePosted, Ask, At, GotInv
      <3> QED
        BY <3>1, <3>2, <3>3
    <2> QED
      BY <2>3, <2>4, <2>5 DEF GotInv, At
  <1>7. AskInv'
    BY <1>1 DEF AskInv, Waiting, Idle
  <1>8. TokenInv' /\ DoomedInv' /\ FileInv'
    BY AnswerTokenInv, AnswerDoomedInv, AnswerFileInv
  <1> QED
    BY <1>1, <1>4, <1>5, <1>6, <1>7, <1>8

------------------------------------------------------------------------------
(* The theorems *)

LEMMA InitInv == Init => Inv
  <1> SUFFICES ASSUME Init PROVE Inv
    OBVIOUS
  <1>1. SrvInv /\ conn = [c \in Client |-> Idle] /\ files = [f \in File |-> "absent"]
    BY SrvInitInv DEF Init, SrvInit
  <1>2. level \in 0 .. 3
    BY DEF Init, LevelOf, parseInt, NaN
  <1>3. ArgsInv
    BY <1>2 DEF Init, ArgsInv
  <1>4. next = IF level = 0 THEN 21 ELSE 1
    <2>1. NextSelected(1) = IF 1 <= LastOf(level) THEN 1 ELSE 21
      BY <1>2, NextSelectedIs
    <2> QED
      BY <1>2, <2>1 DEF Init, LastOf
  <1>5. ProgressInv
    <2>1. next \in 1 .. 20 => tests[next].level <= level /\ 1 \in DOMAIN tests[next].calls
      BY <1>2, <1>4, SelectedFits DEF LastOf
    <2>2. next \in 1 .. 21 /\ (level = 0 => next = 21)
      BY <1>2, <1>4
    <2>3. pc = "start" /\ call = 1 /\ report = NoReport /\ code = -1
      BY DEF Init
    <2>4. clean \in BOOLEAN /\ shaken \in BOOLEAN /\ clean /\ ~shaken
      BY Zenon DEF Init
    <2> QED
      BY <1>4, <2>1, <2>2, <2>3, <2>4 DEF ProgressInv
  <1>6. TokenInv /\ GotInv
    BY <1>4 DEF Init, TokenInv, Held, GotInv
  <1>7. AskInv
    BY <1>1, KitAssumption DEF Init, AskInv, Idle, Waiting
  <1>8. DoomedInv
    BY DEF Init, DoomedInv
  <1>9. FileInv
    BY <1>1, <1>2, <1>4, KitAssumption DEF Init, FileInv, At, AnsweredWith, Idle
  <1> QED
    BY <1>1, <1>3, <1>5, <1>6, <1>7, <1>8, <1>9 DEF Inv, KitInv

LEMMA NextInv == Inv /\ [Next]_vars => Inv'
  <1> SUFFICES ASSUME Inv, [Next]_vars PROVE Inv'
    OBVIOUS
  <1>1. CASE KitStep
    BY <1>1, BadArgumentsInv, RunOwnTestsInv, ReachInv, ReachedInv, FetchInv, AnswerInv,
       ThrownInv, FinishInv DEF KitStep
  <1>2. CASE SrvStep /\ UNCHANGED kitVars
    <2>1. CASE \E c \in Client : Serves(c)
      <3>1. PICK c \in Client : Serves(c)
        BY <2>1
      <3>2. SrvInv'
        BY <3>1, ServesInv DEF Inv
      <3>3. KitInv'
        BY <1>2, <3>1, ServesKitInv, ServesOtherInv
      <3> QED
        BY <3>2, <3>3 DEF Inv
    <2>2. CASE Signal \/ Drained \/ Exit \/ DieOfSecondEnd \/ Restart
      BY <1>2, <2>2, ProcessInv, ProcessKitInv DEF Inv
    <2>3. CASE \E c \in Client : KeptTimesOut(c)
      BY <1>2, <2>3, KeptInv, ProcessKitInv DEF Inv
    <2> QED
      BY <1>2, <2>1, <2>2, <2>3 DEF SrvStep, Serves
  <1>3. CASE Others /\ UNCHANGED kitVars
    BY <1>3, OthersInv
  <1>4. CASE UNCHANGED vars
    <2>1. UNCHANGED srvVars /\ UNCHANGED kitVars
      BY <1>4 DEF vars
    <2>2. JWT_SECRET \in Nat /\ JWT_SECRET' = JWT_SECRET /\ Lasting' = Lasting
      BY <2>1, SecretType DEF JWT_SECRET, Lasting, srvVars, Inv
    <2>3. KitInv'
      BY <2>1, <2>2, AloneInv DEF srvVars, Inv, KitInv, AskInv
    <2> QED
      BY <2>1, <2>3, StutterInv DEF Inv
  <1> QED
    BY <1>1, <1>2, <1>3, <1>4 DEF Next

LEMMA AlwaysInv == Spec => []Inv
  BY InitInv, NextInv, PTL DEF Spec

\* The server's and the program's variables keep their types; a request that
\* runs is one of the test's, a handler runs in a process that lives, and a
\* report agrees with the exit code of the program that writes it (server.ts,
\* conformance.ts, cli.ts, scripts/report.ts).
THEOREM TypeCorrect == Spec => []TypeOK
  <1>1. Inv => TypeOK
    <2> SUFFICES ASSUME Inv PROVE TypeOK
      OBVIOUS
    <2>1. Testing => call \in DOMAIN test.calls
      BY TestList DEF Inv, KitInv, ProgressInv, Testing, test
    <2> QED
      BY <2>1, TestList DEF Inv, SrvInv, KitInv, ProgressInv, TypeOK
  <1> QED
    BY <1>1, AlwaysInv, PTL

\* A black-box run that ends with KONFORM was served: whatever failed, was cut
\* off or restarted meanwhile, each of its requests was answered as asked, but
\* for the DELETE of BB-092, whose answer nobody reads; and the files stand as
\* the tests left them, that one deleted even if it was answered 500
\* (conformance.ts, black-box.ts, pg-client.ts).
THEOREM KonformIsServed == Spec => []KonformMeansServed
  <1>1. Inv => KonformMeansServed
    <2> SUFFICES ASSUME Inv, pc = "exited", code = 0, target = Url, level \in 1 .. 3
        PROVE  /\ ~shaken
               /\ level = 3 /\ (storage = "postgres" \/ (gen = 1 /\ Running)) =>
                    /\ files[Kept] = "live"
                    /\ files[Tomb] = "tombstone" /\ files[Gone] = "tombstone"
      BY DEF KonformMeansServed
    <2>1. clean /\ next = 21
      BY DEF Inv, KitInv, ProgressInv
    <2>2. ~shaken
      BY <2>1 DEF Inv, KitInv, DoomedInv, At
    <2> QED
      BY <2>1, <2>2 DEF Inv, KitInv, FileInv, Lasting
  <1> QED
    BY <1>1, AlwaysInv, PTL

\* Shutdown cuts nobody off: neither the exit of a process nor a statement that
\* an ending pool refuses leaves a client waiting, and a process that got one
\* signal exits with code 0 (server.ts, pg-client.ts).
THEOREM ShutdownCutsNothing == Spec => OneSignalCutsNothing
  <1>1. Inv /\ [Next]_vars =>
          [/\ proc # "exited" /\ proc' = "exited" =>
                /\ \A c \in Client : ~Open(c)
                /\ closers = 1 => exitCode' = 0
           /\ \A c \in Client : StatementRefused(c) => ~Open(c)]_srvVars
    <2> SUFFICES ASSUME Inv, [Next]_vars, ~ UNCHANGED srvVars
        PROVE  /\ proc # "exited" /\ proc' = "exited" =>
                    /\ \A c \in Client : ~Open(c)
                    /\ closers = 1 => exitCode' = 0
               /\ \A c \in Client : StatementRefused(c) => ~Open(c)
      OBVIOUS
    <2>1. proc = "ending" => \A c \in Client : ~Open(c)
      BY DEF Inv, SrvInv
    <2>2. ASSUME proc # "exited", proc' = "exited"
          PROVE  proc = "ending" /\ (closers = 1 => exitCode' = 0)
      <3>1. CASE Exit \/ DieOfSecondEnd
        BY <3>1 DEF Exit, DieOfSecondEnd, Exits
      <3>2. CASE Signal \/ Drained \/ Restart
        BY <2>2, <3>2 DEF Signal, Drained, Restart
      <3>3. CASE \E c \in Client : Serves(c)
        BY <2>2, <3>3, ServesIs DEF Inv, srvProcess
      <3>4. CASE \E c \in Client : KeptTimesOut(c)
        BY <2>2, <3>4 DEF KeptTimesOut, srvProcess
      <3>5. CASE Others
        BY <2>2, <3>5 DEF Others, Connect, Connects, HangUp, srvProcess
      <3>6. CASE KitStep
        BY <2>2, <3>6
        DEF KitStep, BadArguments, RunOwnTests, OwnTestsRun, Reach, Reached, Fetch, Answer,
            Thrown, Finish, Connect, Connects, Leave, srvVars, srvProcess
      <3> QED
        BY <2>2, <3>1, <3>2, <3>3, <3>5, <3>6, <3>4 DEF Next, SrvStep, Serves, vars, srvVars
    <2> QED
      BY <2>1, <2>2 DEF StatementRefused
  <1> QED
    BY <1>1, AlwaysInv, PTL DEF Spec, OneSignalCutsNothing

================================================================================
