------------------------------ MODULE Conformance ------------------------------
(***************************************************************************)
(* The conformance programs of packages/cg-testkit: conformance.ts with its *)
(* black-box suite (black-box.ts, runner.ts) against a server that other    *)
(* clients use, that is shut down and started again meanwhile; the same     *)
(* program, cli.ts ("testkit") and scripts/report.ts ("report") with their  *)
(* own suites, whose outcome is any.                                        *)
(*                                                                         *)
(* Tests of the suite that ask and expect the same are one test here.  What *)
(* a body says is left to the status.  --json prints and decides the same.  *)
(***************************************************************************)
EXTENDS ApiServer, SequencesExt

CONSTANTS
  Kit,            \* the client that is the conformance program
  Command,        \* command lines: sequences of words
  Url,            \* the word after --target that is one
  OwnTests,       \* levels of the tests the programs bring along
  ClientRequests, \* what the other clients ask
  Kept, Tomb, Gone  \* contents the suite posts

ASSUME KitAssumption ==
  /\ Kit \in Client /\ Watched = {Kit}
  /\ Kept # Tomb /\ Kept # Gone /\ Tomb # Gone /\ {Kept, Tomb, Gone} \subseteq File
  /\ {"posted", "writer", "reader"} \intersect (File \union {NoFile}) = {}

\* The contents of the suite are its own: nobody else deletes them.
ASSUME ClientAssumption ==
  /\ ClientRequests \subseteq
       [method : STRING, path : STRING, token : {NoToken}, valid : BOOLEAN,
        file : File \union {NoFile}]
  /\ \A r \in ClientRequests : r.method = "DELETE" => r.file \notin {Kept, Tomb, Gone}

VARIABLES
  program,
  level,    \* what its arguments say: the level,
  target,   \* the word after --target
  doReport, \* and whether to write a report
  pc,       \* "start", "reach", "run" or "exited"
  next,     \* the test that runs
  call,     \* and the request of it
  token,    \* the tokens the suite holds
  got,      \* the id the last posted file got
  clean,    \* no test failed so far
  shaken,   \* a request of a test was not served as asked
  report,   \* the report written
  code      \* exit code

kitVars == <<program, level, target, doReport, pc, next, call, token, got, clean, shaken, report, code>>
arguments == <<program, level, target, doReport>>
vars == <<srvVars, kitVars>>

------------------------------------------------------------------------------
(* Arguments *)

Missing == "undefined"
Flags == {"--level", "--target", "--report", "--json"}

ASSUME UrlAssumption == Url \notin Flags \union {Missing}

\* args[args.indexOf(w) + 1]: the first word when w does not occur.
WordAfter(args, w) ==
  LET i == SelectInSeq(args, LAMBDA x : x = w) + 1
  IN  IF i \in DOMAIN args THEN args[i] ELSE Missing

\* parseInt of what is no number is NaN, and no level is at most NaN: 0 here.
NaN == 0
parseInt(w) == CASE w = "1" -> 1 [] w = "2" -> 2 [] w = "3" -> 3 [] OTHER -> NaN

LevelOf(args) ==
  LET w == WordAfter(args, "--level") IN IF w = Missing THEN 3 ELSE parseInt(w)
TargetOf(args) ==
  IF Contains(args, "--target") THEN WordAfter(args, "--target") ELSE Missing

------------------------------------------------------------------------------
(* Tests *)

\* who: the token sent, "bearer" for one that is sent even when it is empty;
\* file: a content, the file posted last, or the role a token is asked for.
Ask(method, path, who, valid, file) ==
  [method |-> method, path |-> path, who |-> who, valid |-> valid, file |-> file]
Get(path, who)  == Ask("GET", path, who, TRUE, NoFile)
Post(path, who) == Ask("POST", path, who, TRUE, NoFile)
PostFile(f) == Ask("POST", "/v1/files", "writer", TRUE, f)
DeletePosted == Ask("DELETE", "/v1/files/:cgfi", "bearer", TRUE, "posted")
GetPosted == Ask("GET", "/v1/files/:cgfi", "reader", TRUE, "posted")
FetchToken(role) == Ask("GET", "/v1/auth/token", "none", TRUE, role)

\* Only the status of the last answer counts.
Test(l, calls, want) == [level |-> l, calls |-> calls, want |-> want]

AccessTests == <<
  Test(1, <<Get("/v1/health", "none")>>, 200),
  Test(1, <<Get("/v1/openapi.json", "none")>>, 200),
  Test(2, <<FetchToken("writer")>>, 200),
  Test(2, <<FetchToken("reader")>>, 200),
  Test(2, <<Get("/v1/timepoints", "none")>>, 401),
  Test(2, <<Post("/v1/timepoints", "reader")>>, 403)>>
DataTests == <<
  Test(2, <<Post("/v1/timepoints", "writer")>>, 201),
  Test(2, <<Get("/v1/timepoints", "reader")>>, 200),
  Test(2, <<Post("/v1/timepoints/validate", "reader")>>, 200),
  Test(2, <<Ask("POST", "/v1/timepoints/validate", "reader", FALSE, NoFile)>>, 422),
  Test(2, <<Post("/v1/timepoints/convert", "reader")>>, 200),
  Test(2, <<Get("/v1/domains", "reader")>>, 200),
  Test(2, <<Post("/v1/domains/validate", "reader")>>, 200),
  Test(2, <<Post("/v1/relations/compute", "reader")>>, 200),
  Test(2, <<Post("/v1/graphql", "reader")>>, 200),
  Test(2, <<Post("/v1/segments", "writer")>>, 201)>>
FileTests == <<
  Test(2, <<PostFile(Kept)>>, 201),
  Test(3, <<PostFile(Tomb), DeletePosted>>, 200),
  Test(3, <<PostFile(Gone), DeletePosted, GetPosted>>, 410),
  Test(3, <<Get("/v1/health", "none")>>, 200)>>
buildBlackBoxTests == AccessTests \o DataTests \o FileTests
tests == buildBlackBoxTests

\* The filter of runTests, as it counts the tests and as the loop skips them.
OwnSelected == {i \in DOMAIN OwnTests : OwnTests[i] <= level}
BlackBoxSelected == {i \in DOMAIN tests : tests[i].level <= level}
NextSelected(i) ==
  LET later == {j \in BlackBoxSelected : i <= j}
  IN  IF later = {} THEN Len(tests) + 1
      ELSE CHOOSE j \in later : \A k \in later : j <= k

\* Tests that wait for an implementation or a reference, all of level 3.
T_L3_WORM == 5
T_L3_GEO == 5
T_L3_SUB == 5
T_L3_EBUS == 5
T_L3_ANCH == 5
T_L3_SP3_PENDING == 1
PENDING_SUMMARY ==
  T_L3_WORM + T_L3_GEO + T_L3_SUB + T_L3_EBUS + T_L3_ANCH + T_L3_SP3_PENDING
skippedCount == IF 3 <= level THEN PENDING_SUMMARY ELSE 0

\* The reports of the three programs: conformance.ts counts every pending test
\* at every level, cli.ts always writes level 3, report.ts knows none pending.
NoReport == [results |-> -1]
ConformanceReport(results, ok) ==
  [level |-> level, results |-> results, skipped |-> PENDING_SUMMARY, compliant |-> ok]
TestkitReport(results, ok) ==
  [level |-> 3, results |-> results, skipped |-> skippedCount, compliant |-> ok]
GeneratedReport(results, ok) ==
  [level |-> 3, results |-> results, skipped |-> 0, compliant |-> ok]
Report(results, ok) ==
  CASE ~doReport -> NoReport
    [] doReport /\ program = "conformance" -> ConformanceReport(results, ok)
    [] doReport /\ program = "testkit" -> TestkitReport(results, ok)
    [] doReport /\ program = "report" -> GeneratedReport(results, ok)

------------------------------------------------------------------------------
(* A run of a program *)

KitIdle == conn[Kit] = Idle
Exited(c) == pc' = "exited" /\ code' = c

\* --target without a URL after it.
BadArguments ==
  /\ pc = "start" /\ target \in Flags
  /\ Exited(2)
  /\ UNCHANGED <<srvVars, arguments, next, call, token, got, clean, shaken, report>>

\* The tests a program brings along; without any to run none fails.
OwnTestsRun ==
  LET results == Cardinality(OwnSelected)
  IN  /\ pc = "start" /\ target = Missing
      /\ clean' \in IF results = 0 THEN {TRUE} ELSE BOOLEAN
      /\ report' = Report(results, clean')
      /\ UNCHANGED <<srvVars, arguments, next, call, token, got, shaken>>
RunOwnTestsExitZero == OwnTestsRun /\ Exited(0)
RunOwnTests == OwnTestsRun /\ Exited(IF clean' THEN 0 ELSE 1)

AskedHealth == Request("GET", "/v1/health", NoToken, TRUE, NoFile)
Reach ==
  /\ pc = "start" /\ target = Url
  /\ Connect(Kit, AskedHealth, "whole")
  /\ pc' = "reach"
  /\ UNCHANGED <<arguments, next, call, token, got, clean, shaken, report, code>>

Reached ==
  /\ pc = "reach" /\ Leave(Kit)
  /\ IF conn[Kit].st = "answered" /\ conn[Kit].status = 200
     THEN pc' = "run" /\ UNCHANGED code ELSE Exited(2)
  /\ UNCHANGED <<arguments, next, call, token, got, clean, shaken, report>>

test == tests[next]
Testing == pc = "run" /\ next <= Len(tests)

\* The request of the current call, with the token and the id it goes by.
Asked ==
  LET a == test.calls[call]
      sent == CASE a.who = "none" -> NoToken
                [] a.who = "bearer" -> IF token.writer = NoToken THEN EmptyBearer
                                       ELSE token.writer
                [] OTHER -> token[a.who]
  IN  Request(a.method, a.path, sent, a.valid, IF a.file = "posted" THEN got ELSE a.file)

Fetch == Testing /\ Connect(Kit, Asked, "whole") /\ UNCHANGED kitVars

\* What the test keeps of an answer.
Keep(status, secret) ==
  LET a == test.calls[call]
  IN  /\ token' = IF a.path # "/v1/auth/token" THEN token
                  ELSE [token EXCEPT ![a.file] = IF status = 200 THEN <<a.file, secret>>
                                                 ELSE NoToken]
      /\ got' = IF a.method = "POST" /\ a.path = "/v1/files"
                THEN IF status = 201 THEN a.file ELSE NoFile ELSE got

\* Served as asked: not turned away for a token of an earlier process, and not
\* answered with an error of the server that the test looks at.
Unheard(status) == status = 500 /\ Asked.method = "DELETE" /\ call < Len(test.calls)
Served(status, auth) == auth # "foreign" /\ (status = 500 => Unheard(status))

Judged(ok) == clean' = (clean /\ ok) /\ next' = NextSelected(next + 1) /\ call' = 1

Answer ==
  /\ Testing /\ conn[Kit].st = "answered" /\ Leave(Kit)
  /\ Keep(conn[Kit].status, conn[Kit].secret)
  /\ shaken' = (shaken \/ ~Served(conn[Kit].status, conn[Kit].auth))
  /\ IF call = Len(test.calls) THEN Judged(conn[Kit].status = test.want)
     ELSE call' = call + 1 /\ UNCHANGED <<next, clean>>
  /\ UNCHANGED <<program, level, target, doReport, pc, report, code>>

\* fetch throws: the test has failed.
ThrownIsSkipped ==
  /\ Testing /\ conn[Kit].st = "cut" /\ Leave(Kit)
  /\ shaken' = TRUE
  /\ Judged(TRUE)
  /\ UNCHANGED <<program, level, target, doReport, pc, token, got, report, code>>
ThrownIsRetried ==
  /\ Testing /\ conn[Kit].st = "cut" /\ Leave(Kit)
  /\ shaken' = TRUE
  /\ call' = 1 /\ UNCHANGED <<next, clean>>
  /\ UNCHANGED <<program, level, target, doReport, pc, token, got, report, code>>
Thrown ==
  /\ Testing /\ conn[Kit].st = "cut" /\ Leave(Kit)
  /\ shaken' = TRUE
  /\ Judged(FALSE)
  /\ UNCHANGED <<program, level, target, doReport, pc, token, got, report, code>>

Finish ==
  /\ pc = "run" /\ ~Testing
  /\ report' = Report(Cardinality(BlackBoxSelected), clean)
  /\ Exited(IF clean THEN 0 ELSE 1)
  /\ UNCHANGED <<srvVars, arguments, next, call, token, got, clean, shaken>>

KitStep ==
  \/ BadArguments \/ RunOwnTests \/ Reach \/ Reached
  \/ Fetch \/ Answer \/ Thrown \/ Finish

\* The other clients ask what and when they like, and may give up.
Others ==
  \E c \in Client \ {Kit} :
    \/ \E r \in ClientRequests : \E body \in Bodies(r) :
         Connect(c, [r EXCEPT !.token = issueJWT("writer")], body)
    \/ HangUp(c)

Init ==
  /\ SrvInit
  /\ program \in {"conformance", "testkit", "report"}
  /\ \E args \in Command :
       /\ level = IF program = "report" THEN 3 ELSE LevelOf(args)
       /\ target = IF program = "conformance" THEN TargetOf(args) ELSE Missing
       /\ doReport = (program = "report" \/ Contains(args, "--report"))
  /\ pc = "start" /\ next = NextSelected(1) /\ call = 1
  /\ token = [r \in {"writer", "reader"} |-> NoToken]
  /\ got = NoFile
  /\ clean = TRUE /\ shaken = FALSE
  /\ report = NoReport /\ code = -1

Next ==
  \/ KitStep
  \/ (SrvStep \/ Others) /\ UNCHANGED kitVars

Spec == Init /\ [][Next]_vars /\ SrvFairness /\ DatabaseFairness /\ WF_vars(KitStep)

------------------------------------------------------------------------------
(* Properties *)

TypeOK ==
  /\ SrvTypeOK
  /\ pc \in {"start", "reach", "run", "exited"}
  /\ next \in 1 .. Len(tests) + 1
  /\ Testing => call \in DOMAIN test.calls
  /\ pc \in {"reach", "run"} => target = Url
  /\ (pc = "exited") = (code \in {0, 1, 2})
  /\ report # NoReport => /\ code \in {0, 1}
                          /\ report.compliant = (code = 0)
                          /\ report.level = level \/ program = "testkit"

\* A black-box run that ends with KONFORM was served: no request of any test
\* was cut off, answered with an error of the server or turned away for a
\* token of an earlier process, but for the DELETE of BB-092, whose answer
\* nobody reads; and at level 3 the files stand as the tests left them, the one
\* of BB-092 deleted even if that was answered 500, unless a restart lost the
\* memory.
KonformMeansServed ==
  pc = "exited" /\ code = 0 /\ target = Url /\ level \in 1 .. 3 =>
    /\ ~shaken
    /\ level = 3 /\ (storage = "postgres" \/ (gen = 1 /\ Running)) =>
         /\ files[Kept] = "live"
         /\ files[Tomb] = "tombstone" /\ files[Gone] = "tombstone"

\* A program that was started ends, whatever happens to the server.
RunEnds == pc = "start" ~> pc = "exited"

\* A report has the result of at least one test, as its schema demands
\* (conformance-report.schema.json).
ReportHasResults == report # NoReport => report.results >= 1
==============================================================================
