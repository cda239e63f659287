------------------------------- MODULE ApiServer -------------------------------
(***************************************************************************)
(* The HTTP server of apps/cg-api/src/server.ts with its authentication     *)
(* (auth.ts): clients ask, the server reads the body, checks the token,     *)
(* runs the handler and answers; signals shut it down and somebody starts   *)
(* it again.  Of the repositories only the files are kept (handlers.ts,     *)
(* cg-storage), in memory or in a database behind the pool of pg-client.ts. *)
(*                                                                         *)
(* External, as server.ts uses it: Node keeps the connection of an answered *)
(* request open for the next one, and closes it when that does not come;    *)
(* server.close stops listening, closes the connections that are idle, and  *)
(* calls back when none is left, every callback it was given; Node gives up *)
(* a request whose body does not come, while it listens; a statement of a   *)
(* pg pool may fail, its end refuses further ones and to be called twice.   *)
(*                                                                         *)
(* A token is its role and the secret that signed it.  Tokens live an hour, *)
(* longer than anything here.                                               *)
(***************************************************************************)
EXTENDS Integers, Sequences, FiniteSets

CONSTANTS
  Client,
  Watched,      \* clients whose answers are looked at
  File,         \* contents clients post
  NoFile,       \* the id "undefined" of a file whose post was not answered
  MaxSignals,   \* bound: signals sent
  MaxRestarts   \* bound: times the server is started again

ASSUME ServerAssumption ==
  /\ NoFile \notin File /\ Watched \subseteq Client
  /\ MaxSignals \in Nat /\ MaxRestarts \in Nat

VARIABLES
  storage,      \* STORAGE: "memory" or "postgres"
  secretFixed,  \* whether JWT_SECRET is set, or each process draws its own
  gen,          \* how many processes were started
  proc,         \* "listening", "closing", "ending" or "exited"
  closers,      \* signals the process got: callbacks given to server.close
  exitCode,     \* code of the last process that exited
  files,        \* what is stored under each content
  conn,         \* each client's request
  kept,         \* clients whose idle connection is kept open
  signals

srvVars == <<storage, secretFixed, gen, proc, closers, exitCode, files, conn, kept, signals>>

------------------------------------------------------------------------------
(* Routes and roles *)

Routes ==
  {<<"GET", "/v1/auth/token">>, <<"GET", "/v1/health">>, <<"GET", "/v1/openapi.json">>,
   <<"GET", "/v1/docs">>, <<"GET", "/v1/usecases">>,
   <<"POST", "/v1/timepoints/convert">>, <<"POST", "/v1/timepoints/validate">>,
   <<"POST", "/v1/timepoints">>, <<"GET", "/v1/timepoints">>,
   <<"GET", "/v1/timepoints/:machine_id">>,
   <<"POST", "/v1/domains/validate">>, <<"GET", "/v1/domains">>, <<"POST", "/v1/domains">>,
   <<"POST", "/v1/relations/compute">>, <<"POST", "/v1/segments">>,
   <<"GET", "/v1/segments/resolve/:cgua">>,
   <<"POST", "/v1/files">>, <<"GET", "/v1/files/:cgfi">>, <<"DELETE", "/v1/files/:cgfi">>,
   <<"GET", "/v1/graphql">>, <<"POST", "/v1/graphql">>,
   <<"POST", "/v1/webhooks">>, <<"GET", "/v1/webhooks">>,
   <<"GET", "/v1/webhooks/deliveries">>, <<"DELETE", "/v1/webhooks/:id">>}

ROLE_LEVEL == [admin |-> 3, writer |-> 2, reader |-> 1]
hasRole(a, r) == ROLE_LEVEL[a] >= ROLE_LEVEL[r]

getRequiredRole(method, path) ==
  IF path \in {"/v1/health", "/v1/openapi.json", "/v1/auth/token"}
     \/ <<method, path>> = <<"GET", "/v1/graphql">> THEN "public"
  ELSE IF method = "GET"
          \/ path \in {"/v1/timepoints/validate", "/v1/timepoints/convert",
                       "/v1/domains/validate", "/v1/relations/compute", "/v1/graphql"}
       THEN "reader" ELSE "writer"

\* The secret of a process; tokens of a process with another are not its own.
JWT_SECRET == IF secretFixed THEN 0 ELSE gen
NoToken == <<>>
\* The header "Bearer " without a token.
EmptyBearer == <<"nobody", -1>>
issueJWT(role) == <<role, JWT_SECRET>>
verifyJWT(token) == token[2] = JWT_SECRET

\* "accepted", or why a request is turned away; "foreign": by no process but
\* perhaps an earlier one.
checkAuth(token, required) ==
  IF required = "public" THEN "accepted"
  ELSE IF token = NoToken THEN "missing"
  ELSE IF ~verifyJWT(token) THEN "foreign"
  ELSE IF ~hasRole(token[1], required) THEN "unfit" ELSE "accepted"
applyAuth(r) ==
  IF r.path \in {"/v1/docs", "/v1/usecases"} THEN "accepted"
  ELSE checkAuth(r.token, getRequiredRole(r.method, r.path))

------------------------------------------------------------------------------
(* Requests, statements and answers *)

\* valid: whether the handler finds what it needs in the body; file: the
\* content or, of a POST of GraphQL, the one its mutation createFile posts.
Request(method, path, token, valid, file) ==
  [method |-> method, path |-> path, token |-> token, valid |-> valid, file |-> file]

Idle == [st |-> "idle"]
Asking(r, body) == [st |-> "body", req |-> r, body |-> body, left |-> 0, gone |-> FALSE]
Answered(status, auth) ==
  [st |-> "answered", status |-> status, auth |-> auth, secret |-> JWT_SECRET]
Cut == [st |-> "cut"]

\* What a request of a client ends with; of one that nobody looks at, nothing.
Outcome(c, end) == [conn EXCEPT ![c] = IF c \in Watched THEN end ELSE Idle]

Stored(f) == f # NoFile /\ files[f] # "absent"

\* A body comes whole or slowly, or is no JSON; what has none is there at once.
Bodies(r) ==
  IF r.method = "POST" /\ <<r.method, r.path>> \in Routes THEN {"whole", "slow", "broken"}
  ELSE {"whole"}

Mutates(r) == <<r.method, r.path>> = <<"POST", "/v1/graphql">> /\ r.file # NoFile
Posts(r) == <<r.method, r.path>> = <<"POST", "/v1/files">> \/ Mutates(r)
Deletes(r) == <<r.method, r.path>> = <<"DELETE", "/v1/files/:cgfi">>

\* Statements the handler of a request runs: deleting looks first, and a
\* segment starts where the last one ends.
Statements(r) ==
  IF storage = "memory" THEN 0
  ELSE IF \/ Deletes(r) /\ Stored(r.file)
          \/ <<r.method, r.path>> = <<"POST", "/v1/segments">> THEN 2
  ELSE IF \/ r.path \in {"/v1/files", "/v1/files/:cgfi", "/v1/timepoints",
                         "/v1/timepoints/:machine_id", "/v1/domains",
                         "/v1/segments/resolve/:cgua", "/v1/relations/compute"}
          \/ Mutates(r) THEN 1
  ELSE 0

\* The map takes a file again, the table has it once: the second insert throws
\* an error that is answered with 500, or within the 200 of GraphQL.
Taken(f) == storage = "postgres" /\ Stored(f)
Failure(r) == IF r.path = "/v1/graphql" THEN 200 ELSE 500
Status(r) ==
  CASE <<r.method, r.path>> = <<"POST", "/v1/files">> ->
         IF Taken(r.file) THEN 500 ELSE 201
    [] Deletes(r) -> IF Stored(r.file) THEN 200 ELSE 404
    [] <<r.method, r.path>> = <<"GET", "/v1/files/:cgfi">> ->
         IF ~Stored(r.file) THEN 404 ELSE IF files[r.file] = "tombstone" THEN 410 ELSE 200
    [] r.method = "POST" /\ r.path \in {"/v1/timepoints", "/v1/domains", "/v1/segments"} -> 201
    [] OTHER -> IF r.valid THEN 200 ELSE IF r.method = "GET" THEN 404 ELSE 422

\* Inserting keeps the lifecycle events of the file, deleting appends one.
FilesAfter(r) ==
  CASE Posts(r) /\ ~Stored(r.file) -> [files EXCEPT ![r.file] = "live"]
    [] Deletes(r) /\ Stored(r.file) -> [files EXCEPT ![r.file] = "tombstone"]
    [] OTHER -> files

------------------------------------------------------------------------------
(* A request *)

Running == proc # "exited"
PoolOpen == proc \in {"listening", "closing"}
Open(c) == conn[c].st \in {"body", "handling"} /\ ~conn[c].gone

\* The process and what it stores; the files are left to the single actions.
srvProcess == <<storage, secretFixed, gen, proc, closers, exitCode, signals>>

\* A client uses the connection it has, also while the server closes, unless
\* the server lets go of it just then; a new one is taken while it listens.
Connects(c, r, body, accepted) ==
  /\ conn[c] = Idle
  /\ conn' = IF accepted THEN [conn EXCEPT ![c] = Asking(r, body)] ELSE Outcome(c, Cut)
  /\ kept' = kept \ {c}
  /\ UNCHANGED <<srvProcess, files>>
Connect(c, r, body) ==
  \/ Connects(c, r, body, c \in kept \/ proc = "listening")
  \/ c \in kept /\ Connects(c, r, body, FALSE)

\* An answer, after which the connection is kept, unless nobody is there.
Reply(c, status, auth) ==
  IF conn[c].gone THEN conn' = Outcome(c, Cut) /\ UNCHANGED kept
  ELSE conn' = Outcome(c, Answered(status, auth)) /\ kept' = kept \union {c}

\* The body has come: OPTIONS and unknown routes are answered before it, the
\* others are checked, and a handler without statements is through at once.
Handle(c) ==
  LET r == conn[c].req
  IN  /\ Running /\ conn[c].st = "body" /\ conn[c].body # "slow"
      /\ CASE r.method = "OPTIONS" -> Reply(c, 204, "accepted") /\ UNCHANGED files
           [] r.method # "OPTIONS" /\ <<r.method, r.path>> \notin Routes ->
                Reply(c, 404, "accepted") /\ UNCHANGED files
           [] OTHER ->
                IF conn[c].body = "broken" THEN Reply(c, 500, "accepted") /\ UNCHANGED files
                ELSE IF applyAuth(r) # "accepted"
                THEN /\ Reply(c, IF applyAuth(r) = "missing" THEN 401 ELSE 403, applyAuth(r))
                     /\ UNCHANGED files
                ELSE IF Statements(r) > 0
                THEN /\ conn' = [conn EXCEPT ![c].st = "handling", ![c].left = Statements(r)]
                     /\ UNCHANGED <<kept, files>>
                ELSE Reply(c, Status(r), "accepted") /\ files' = FilesAfter(r)
      /\ UNCHANGED srvProcess

\* A slow body comes, or it does not come in time and Node closes the
\* connection; a server that closes looks at the time no more.
BodyArrives(c) ==
  /\ Running /\ conn[c].st = "body" /\ conn[c].body = "slow"
  /\ conn' = [conn EXCEPT ![c].body = "whole"]
  /\ UNCHANGED <<srvProcess, files, kept>>
BodyTimesOut(c) ==
  /\ proc = "listening" /\ conn[c].st = "body" /\ conn[c].body = "slow"
  /\ conn' = Outcome(c, Answered(408, "accepted"))
  /\ UNCHANGED <<srvProcess, files, kept>>

\* The next statement of the handler; the last one writes.
Statement(c) ==
  /\ PoolOpen /\ conn[c].st = "handling"
  /\ IF conn[c].left > 1
     THEN conn' = [conn EXCEPT ![c].left = @ - 1] /\ UNCHANGED <<kept, files>>
     ELSE Reply(c, Status(conn[c].req), "accepted") /\ files' = FilesAfter(conn[c].req)
  /\ UNCHANGED srvProcess

\* A statement fails while the pool is open: it gets no connection in time, or
\* its connection breaks, be it after the last one has taken effect.
StatementFails(c) ==
  /\ PoolOpen /\ conn[c].st = "handling"
  /\ \/ UNCHANGED files
     \/ conn[c].left = 1 /\ files' = FilesAfter(conn[c].req)
  /\ Reply(c, Failure(conn[c].req), "accepted")
  /\ UNCHANGED srvProcess

\* A pool that is ending takes no statement: the handler's error is answered.
StatementRefused(c) ==
  /\ proc = "ending" /\ conn[c].st = "handling"
  /\ Reply(c, Failure(conn[c].req), "accepted")
  /\ UNCHANGED <<srvProcess, files>>

\* An idle connection is kept for five seconds, or until its client closes it.
KeptForever(c) == FALSE /\ UNCHANGED srvVars
KeptTimesOut(c) ==
  /\ Running /\ c \in kept
  /\ kept' = kept \ {c}
  /\ UNCHANGED <<srvProcess, files, conn>>

\* The client gives up: a handler that runs goes on, unheard.
HangUp(c) ==
  /\ Open(c)
  /\ conn' = IF conn[c].st = "body" THEN Outcome(c, Cut)
             ELSE [conn EXCEPT ![c].gone = TRUE]
  /\ UNCHANGED <<srvProcess, files, kept>>

Leave(c) ==
  /\ conn[c].st \in {"answered", "cut"}
  /\ conn' = [conn EXCEPT ![c] = Idle]
  /\ UNCHANGED <<srvProcess, files, kept>>

------------------------------------------------------------------------------
(* Shutdown and restart *)

\* server.close: no new connection, and none that is idle.
Signal ==
  /\ Running /\ signals < MaxSignals
  /\ signals' = signals + 1
  /\ closers' = closers + 1
  /\ proc' = IF proc = "listening" THEN "closing" ELSE proc
  /\ kept' = {}
  /\ UNCHANGED <<storage, secretFixed, gen, exitCode, files, conn>>

\* No connection is left: the callbacks run, and the first ends the pool.
DrainedAtOnce ==
  /\ proc = "closing"
  /\ proc' = "ending"
  /\ UNCHANGED <<storage, secretFixed, gen, closers, exitCode, files, conn, kept, signals>>
Drained ==
  /\ proc = "closing"
  /\ kept = {} /\ \A c \in Client : ~Open(c)
  /\ proc' = "ending"
  /\ UNCHANGED <<storage, secretFixed, gen, closers, exitCode, files, conn, kept, signals>>

\* process.exit: handlers that still run for clients long gone are dropped.
Exits(code) ==
  /\ proc = "ending"
  /\ proc' = "exited"
  /\ exitCode' = code
  /\ conn' = [c \in Client |->
                IF conn[c].st \notin {"body", "handling"} THEN conn[c]
                ELSE IF c \in Watched THEN Cut ELSE Idle]
  /\ UNCHANGED <<storage, secretFixed, gen, closers, files, kept, signals>>

Exit == Exits(0)

\* The callback of a second signal ends the pool again; that rejects, nobody
\* catches it, and the process dies of it, unless the first is through before.
DieOfSecondEnd ==
  /\ storage = "postgres" /\ closers > 1
  /\ Exits(1)

Restart ==
  /\ proc = "exited" /\ gen <= MaxRestarts
  /\ gen' = gen + 1
  /\ proc' = "listening"
  /\ closers' = 0
  /\ files' = IF storage = "memory" THEN [f \in File |-> "absent"] ELSE files
  /\ UNCHANGED <<storage, secretFixed, exitCode, conn, kept, signals>>

SrvInit ==
  /\ storage \in {"memory", "postgres"}
  /\ secretFixed \in BOOLEAN
  /\ gen = 1
  /\ proc = "listening"
  /\ closers = 0 /\ exitCode = 0 /\ signals = 0
  /\ files = [f \in File |-> "absent"]
  /\ conn = [c \in Client |-> Idle] /\ kept = {}

\* What the server and its surroundings do by themselves.
SrvStep ==
  \/ \E c \in Client :
       \/ Handle(c) \/ BodyArrives(c) \/ BodyTimesOut(c) \/ KeptTimesOut(c)
       \/ Statement(c) \/ StatementFails(c) \/ StatementRefused(c)
  \/ Signal \/ Drained \/ Exit \/ DieOfSecondEnd \/ Restart

\* Node goes on with what has come and lets go of what does not come: not of
\* a slow body once the server closes.
SrvFairness ==
  /\ \A c \in Client : WF_srvVars(Handle(c) \/ BodyTimesOut(c) \/ KeptTimesOut(c))
  /\ WF_srvVars(Drained)
  /\ WF_srvVars(Exit \/ DieOfSecondEnd)

\* External: the database answers or its connection breaks; the pool sets no
\* time limit to a statement.
DatabaseFairness ==
  \A c \in Client : WF_srvVars(Statement(c) \/ StatementFails(c) \/ StatementRefused(c))

------------------------------------------------------------------------------
(* Properties *)

SrvTypeOK ==
  /\ storage \in {"memory", "postgres"} /\ secretFixed \in BOOLEAN
  /\ gen \in 1 .. MaxRestarts + 1
  /\ proc \in {"listening", "closing", "ending", "exited"}
  /\ closers \in 0 .. MaxSignals /\ signals \in 0 .. MaxSignals
  /\ (proc = "listening" <=> closers = 0)
  /\ exitCode \in {0, 1}
  /\ files \in [File -> {"absent", "live", "tombstone"}]
  /\ \A c \in Client :
       /\ conn[c].st \in {"idle", "body", "handling", "answered", "cut"}
       /\ conn[c].st = "handling" => conn[c].left > 0 /\ storage = "postgres"
       /\ conn[c].st \in {"body", "handling"} => Running
  /\ kept \subseteq {c \in Client : conn[c].st \in {"idle", "answered"}}

\* Shutdown cuts nobody off: when the process exits, or when a pool that is
\* ending refuses a statement, no client is still waiting for the answer; and
\* a process that got one signal ends with code 0.
OneSignalCutsNothing ==
  [][/\ proc # "exited" /\ proc' = "exited" =>
          /\ \A c \in Client : ~Open(c)
          /\ closers = 1 => exitCode' = 0
     /\ \A c \in Client : StatementRefused(c) => ~Open(c)]_srvVars

AwaitsBody(c) == conn[c].st = "body" /\ conn[c].body = "slow"
AsksAgain == proc = "closing" /\ \E c \in kept : conn'[c].st = "body"

\* A server that got a signal exits, whatever was asked and begun before it,
\* if only every body comes in the end and nobody asks for ever again on a
\* connection that was busy at the signal.
ShutdownEnds ==
  (\A c \in Client : []<>~AwaitsBody(c)) /\ <>[][~AsksAgain]_srvVars =>
    (closers > 0 ~> proc = "exited")
==============================================================================
