# A TLA+ verification of the ChronoGrid implementation

ChronoGrid (`monorepo/`) is a TypeScript server and library for exact time
points: an HTTP API over insert-only storage, an allocator of addresses on the
nanosecond time axis (CGUAS), and an engine that converts, integrates and
interpolates in exact arithmetic.  This directory holds TLA+ modules that are
translated from that source, TLC configurations that check them on small
instances, and TLAPS proofs of what holds for every instance.

    tlc -workers 2 -config MCPgStore.cfg MCPgStore      # check one run
    tlapm SegmentRegistryProofs.tla                     # check one proof module

`PROJECT.json` lists the components, runs, hazards and theorems, and maps each
definition to the source lines it stands for.  Paths below are relative to
`src/monorepo/`.

## 1. The system: components, state, operations

| Component | State | Operations | Model |
|---|---|---|---|
| Segment registry in memory, `cg-cguas/src/cguas.ts`, wrapped in `cg-storage/src/repository.ts` | `s`: Map id → segment; `_n`: next free address | `allocate`, `resolve`, `revoke`, `findSegment`, `toCGUA`, `list` | `SegmentRegistry` |
| Segment repository in PostgreSQL, `cg-storage/src/pg-repository.ts`, `schema.sql` | tables `segments`, `lifecycle_events` | `allocate` (two statements), `resolve`, `revoke` (one statement with a sub-select) | `PgSegments` |
| Timepoints, domains, manifests in PostgreSQL, same files | tables `timepoints`, `domains`, `manifests`, `lifecycle_events` | inserts, `publish` (three statements), `tombstone` (two), reads of the views | `PgStore` |
| Timepoints, domains, manifests in memory, `cg-storage/src/repository.ts` | three Maps, two event lists | the same, each in one piece; paged `list` | `MemoryStore` |
| Relations, both storages | an append-only list | `insert`, `list` | not modelled: nothing reads it back but `list` |
| Class B mapping, `cg-engine/src/relativistik.ts` | loop variables of one call | adaptive Runge–Kutta integration of a clock along a worldline | `ClassBStepper` (step size control) |
| SP3 orbit files, `cg-engine/src/sp3.ts` | parser state, then an immutable table | `parseSp3`, `sp3Worldline`, `stateAt`, writer, diagnostics | `Sp3Parser`, `Sp3Grid`, `Sp3Worldline` |
| Time arithmetic, `cg-engine/src/cg-zeitarithmetik.ts` | none; a chain carries a value | constructors, sums, products, quotients, remainders, powers, chains, decoding | `TimeArithmetic` |
| Exact rationals, `cg-engine/src/exakt.ts` | none | normalised fractions and their rounding | not modelled |
| Engine, `engine.ts`, `mapping.ts`, `domains.ts` | registry of domains | `registerDomain`, `createTimepoint`, `convertValue`, `allenRelation` | `Engine`, `UseCases` |
| Use cases, `cg-usecases/src/uc1.ts` .. `uc5.ts` | index of photons; version chains callers hold | one constructor of timepoints each | `UseCases` |
| HTTP handlers, `apps/cg-api/src/handlers.ts`, `middleware.ts` | none of their own | one call of a repository each | inside the store modules; statuses in `ApiServer` |
| Server, authentication, pool, shutdown, `server.ts`, `auth.ts`, `pg-client.ts` | listening socket, requests under way, secret, pool | routing, roles, tokens, SIGTERM/SIGINT, exit | `ApiServer` |
| Test kit, `cg-testkit/src/`, `scripts/report.ts` | a run: tests, tokens, results, report | `conformance`, `testkit`, `report` | `Conformance` |
| Webhooks, `webhooks.ts` | subscriptions, deliveries | subscribe, deactivate, dispatch | not modelled: nothing dispatches |
| GraphQL, CTDDL, types | none | stateless checks | not modelled |

How they interact.  `createRepositories` picks one of the two storages when
the process starts.  A handler parses a request, calls the engine where it has
to (`createTimepoint`), calls one repository method and answers.  Node runs one
callback at a time, so an in-memory method is one step; every `await
pool.query` is a point where other requests, of this or of another process on
the same database, go on.  Nothing in the server opens a transaction
(`withTransaction` has no caller), so each statement commits by itself.
Deletion and publication are rows of `lifecycle_events`; the state of an entry
is derived from them by the views of `schema.sql`.

What is hard, and what makes each component correct:

* *Segment registry.*  No check for overlap exists: that grants are disjoint
  rests on `_n` alone, through failed allocations, revocations and the loss of
  everything at a restart.  A lookup must find the one segment an address was
  made from; a revoked segment must stay unreachable; an id kept from before a
  restart must lead nowhere, although the same addresses are granted again.
* *Segment repository.*  `MAX` is read in one statement and used in another.
  Grants must be exclusive, lie behind what was granted before they began, and
  a revocation somebody has heard of must be seen by every later call.
* *Timepoints, domains, manifests.*  Check and insert are separate statements,
  replies get lost and calls are repeated.  A reader must never see an entry
  fall back; creators and publishers must be told apart as far as the tables do.
* *In-memory storage.*  The same promises, plus paged listing under concurrent
  posts; it may forget everything at once but nothing else.
* *Class B mapping.*  The control of the step size must end, not creep, not
  overshoot, keep its error budget, and not give up where `maxSteps` has room;
  a stage may not look where the worldline has no answer unless the request does.
* *SP3 files.*  Lines come in any order; records must stay in their epoch and
  satellites be those declared.  Epochs may be missing, repeated, off the grid
  or unsorted; a state may only come from a complete window of equidistant
  nodes around the time asked for, and every such window must be found.
* *Time arithmetic.*  Precision is applied after every operation of a chain:
  roundings add up, are scaled by later operations, and act on both signs; the
  fraction of a float factor is multiplied in floats, which lose digits.
* *Engine and use cases.*  Times must keep their order and come back through
  leap seconds, whichever use case made them; relations must be Allen's.
* *Server.*  A signal may not cut off a request that is under way, and must end
  the process, whose connections outlive the requests made on them.
* *Test kit.*  It runs against a server whose statements may fail, that is
  restarted or answers others meanwhile: KONFORM may only be said of a run that
  was served.

## 2. Modules

| Module | Role |
|---|---|
| `SegmentLedger` | abstract: addresses are granted to one id at a time, ids retire, a volatile ledger may be lost as a whole |
| `SegmentRegistry` | the in-memory registry; refines `SegmentLedger` |
| `SegmentRegistryProofs` | theorems about it |
| `PgSegments` | the segment repository, statement by statement |
| `PgSegmentsProofs` | theorems about it |
| `LifecycleStore` | abstract: domains go absent → draft → published, files absent → stored → gone; a volatile store may forget everything |
| `PgStore` | the other repositories, statement by statement; refines `LifecycleStore` that never forgets |
| `PgStoreProofs` | theorems about it |
| `MemoryStore` | the in-memory repositories; refines the volatile `LifecycleStore` |
| `MemoryStoreProofs` | theorems about it |
| `ClassBStepper` | the step size control of `executeClassBMapping` |
| `Sp3Parser` | `parseSp3`, one line a step |
| `Sp3Grid` | operators: the grid report of a file, and what a worldline sees of it |
| `Sp3Worldline` | `sp3Worldline` and `stateAt`, the binary search turn by turn |
| `Sp3Proofs` | theorems about the parser and the worldline |
| `TimeArithmetic` | values of the time arithmetic through chains of operations |
| `NumericsProofs` | theorems about the step size control and the time arithmetic |
| `Engine` | operators: leap seconds, conversions, the Allen relation and Allen's definitions |
| `UseCases` | a process that uses the engine: registry, timepoints of all use cases, restarts |
| `UseCasesProofs` | theorems about the engine and the use cases |
| `ApiServer` | the HTTP server with authentication, files, pool, signals and restart |
| `Conformance` | the conformance programs against that server; composes `ApiServer` |
| `ConformanceProofs` | theorems about them |
| `MC*` | constants for TLC |

`Sp3Worldline` and `TimeArithmetic` name their specification `WorldlineSpec`
and `ArithSpec` (with `WorldlineInit`, `ArithTypeOK` and so on), since one proof
module extends each of them together with another module.

### SegmentRegistry

`s` is the Map as a set of segments, `n` is `_n`.  `Allocate` and
`AllocateThrows` are the two ends of `allocate`; `Revoke` and `ResolveThrows`
those of `revoke` and `resolve`; `findSegment`, `toCGUAOk`, `isCGUAValid` and
`safeAddOk` are operators.  The id is `CG-SEG-` and a hash of holder, base, size
and `Date.now()`; the model takes a digest to be its input, that is, it excludes
collisions of the hash.  `Put` is `Map.set`: a segment whose id is there is
replaced.  `now` is the clock, which `Tick` moves on.  `Restart` stands for a
new process: the registry is empty and begins at address 0 again, while the ids
that clients keep go to the history variable `stale`.  The clock is never set
back, and a restart takes at least a millisecond: within one, a new process
would make the old ids again, since nothing but the time tells them apart.

### PgSegments and PgStore

A call of a client goes through `pc[c]`, one value per statement, with what
the method remembers in `call[c]`; so every interleaving of statements of two
calls is a behaviour.  `INSERT ... SELECT ... WHERE NOT EXISTS` takes two
steps, its snapshot and its commit, as READ COMMITTED allows.  A plain INSERT
against a unique key is one step.  `StatementFails` makes a statement reject
without effect.  `CallerGone` and `Vanish` are the lost reply and the process
that dies: what had been sent may still commit, what had not is never sent.
`answers` is the history of successful replies, and each call remembers how
many there were when it began (`after`): "later" in the properties means
*began after somebody had been answered*, which is what a client can know.

### MemoryStore

Each method is one step.  `MapSet` keeps the place of a key that is there,
which the paged walk (`BeginWalk`, `ListTimepoints`, `EndWalk`) depends on.
The walk is a client that asks for page after page until one is not full.

### ClassBStepper

All of the control: the three early exits, `hMax`, the check of `maxSteps`,
cutting the step at the end, acceptance, doubling, halving, the 1 ns floor.
The stages of the method are abstracted to the estimate `err` they yield, or to
the error they throw (`StageThrows`): an SP3 worldline refuses at its edges and
gaps, `properTimeRateScaled` where `|v| >= c` or `|r| = 0`, and nothing catches
that.  Which estimates a worldline can yield is what `smooth` says: steps of at
most `smooth` ns stay within tolerance, longer ones yield anything; `smooth = 0`
is a worldline that never behaves.  `refused` are the times it refuses, in the
104ths of a ns on which the five nodes with a weight lie.

### Sp3Parser, Sp3Grid, Sp3Worldline

A line of a file is an action with the value that matters of it; a file is any
sequence of up to `MaxLines` of them.  A line that begins with neither `+` nor
`##` ends the block of satellites (`SatBlockEnds`) or is refused because their
count is wrong (`CloseSatBlockThrows`).  Malformed fields are a
choice between the errors they raise; `nativeError` is one without a code,
from `BigInt` or from a division by zero.  A record holds the places of the P
and the V line it comes from (`body` is the history of such lines), so that the
blocks can be compared with what should be in them.

`Sp3Grid` holds the report on gaps and epochs off the grid, with the remainder
and the sign of an interval as BigInt has them, and `ViewOf`, what
`sp3Worldline` takes of a file for a satellite.  `Sp3Worldline` starts from any
such view.  `Search` is one turn of the binary search, `Finish` the checks for
the edge and for equidistance.  Times are integers in a unit fine enough for
the file and the time asked for, whose comparisons in the code are exact.

### TimeArithmetic

A value is made (`FromSec`, `FromNs`, `Irrational`, `FromTable`) and goes
through operations, each the input of the next, as in `executeArithChain`
(`ChainStep`) or by hand with operands of another kind and precision
(`AddValue`, `SubtractValue`, `MultiplyByNumber`; `Operands` are values of every
precision).  `Quotient` and `Remainder` are those of BigInt, toward zero.  An
error ends the chain.  `exact` and `drift` run beside it: the chain at full
resolution, and how far the roundings so far can have moved the value from it.
A factor that is a number is multiplied as `multiply` does it: its whole part as
a bigint, its fraction with `Number(a.ns)`.  `Float` is the rounding to the
nearest float, once of the value and once of the product, and `FloatLimit` is
2^53; `NotFinite` is a factor that `BigInt` refuses.  The float annotation
`error_ns`, which nothing reads, is left out.

### Engine, UseCases

`Engine` holds no state.  The table of leap seconds is a parameter: any table
whose rows lie further apart than the largest offset.  `RowsPassed` is the loop
over it, `taiToUtc` the three corrections of a guess.  `allenRelation` is the
sequence of branches of the code; `AllenDefinition` states the relations
independently, as conditions on the bounds.

`UseCases` is one process.  `Issue` is `createTimepoint`: it needs a registered
domain that is not one of durations, and hands out a timepoint.  Each use case
is an action over it with the arithmetic of its source, `uc2` with the chain the
caller passes, `uc5` with the index of photons.  `Restart` empties registry and
index; what callers hold stays.  The order in which the use cases and foreign
domains register is free.  An id, a hash in the code, is the tuple it is made of.

### ApiServer, Conformance

`conn[c]` is the request of a client: its body is on the way, its handler runs
statements (`left` of them), it is answered or cut off.  In memory a handler is
through at once; with the database it runs the statements its repository does
(`Statements`), any of which may fail, before or after it took effect
(`StatementFails`), which is answered with 500, or within the 200 of GraphQL.
After an answer the connection is kept for the next request (`kept`), which is
served also after the signal if the connection was busy when it came; it is
dropped by `KeptTimesOut`, by the signal when it is idle, or under a request
just sent (the second case of `Connect`).  A token is a role and the secret that
signed it, which without `JWT_SECRET` is that of one process.  `Signal` is
SIGTERM or SIGINT: `server.close` stops listening and closes the idle
connections; `Drained` is its callback when no connection is left; then the pool
ends, and the process exits.  `DieOfSecondEnd` is the second signal's callback,
which ends the pool again.  Node's `http` and the pool of `pg` are modelled from
how `server.ts` uses them.  Of a client not in `Watched` the end of a request is
not kept, since nothing looks at it.

`Conformance` has one client run a program while others ask, hang up and leave,
signals come and the server is started again.  The 20 tests of the black-box
suite are sequences of requests with the status they judge; `Keep` is what a
test takes out of an answer for the next request.  `shaken` is a history
variable: some request was cut off, answered with an error of the server, or
refused for a token of an earlier process.  One error is exempt (`Unheard`): the
500 of the DELETE in BB-092, whose answer that test drops (`black-box.ts:217`).
The suites the programs bring along are a list of levels whose outcome is any.

### What the models leave out

Of the test kit: what a body says besides the status, and how the in-process
tests come to their outcome.  Of the use cases: labels, payload hashes and
tenure checks.  Of SP3: columns, the frame comment, clocks, the polynomial and
the rotation of the earth, the writer, the float diagnostics.  Wording of
errors, JSON and logging; `parent_id` and `created_at` (stored, never read by an
operation); the order of database lists; payloads, which are model values.  A
restart ends the walk of a client.

## 3. Runs

| Run | Shows |
|---|---|
| `segment_registry` | the grants tile the space, an address is found exactly while its segment is active, ids of an earlier process are unknown, refinement of `SegmentLedger` |
| `pg_segments` | grants are exclusive, sequential grants do not overlap, revocations stick and a known one is not written again |
| `pg_segments_concurrent` | *violated:* two allocations at once get overlapping segments |
| `pg_store` | one creator, a known publication is rejected, no read falls back, refinement of `LifecycleStore` |
| `memory_store` | one event per entry, the walk misses nothing and repeats nothing, refinement of the volatile `LifecycleStore` |
| `class_b_stepper` | floor of the step size, error budget, no needless abort, termination with a result, or with the refusal of a worldline that has no answer for a time of the interval |
| `sp3_parser` | records stay in their epoch, satellites as declared, the grid report tells complete files and displaced epochs |
| `sp3_worldline` | answers only from centred equidistant windows, misses none where epochs ascend, the search ends |
| `time_arithmetic` | a chain stays within one unit of precision per operation, and what floats lose above 2^53, of the chain at full resolution; durations stay non-negative; decoding adds up |
| `use_cases` | times keep their order and come back across leap seconds, use cases and restarts; relations are Allen's |
| `conformance` | KONFORM means served but for the answer nobody reads, one signal cuts nothing off, shutdown ends unless a client keeps it up, the program ends |
| `report_without_tests` | *violated:* a report without any result that says compliant |

Each property of a passing run has a mutant in `PROJECT.json`: a definition of
the code changed the way a plausible bug would, for which TLC finds the
property violated.  The definitions the mutants use stand in front of the one
they change and nothing else refers to them.

### Bounds

* `SegmentRegistry`: five addresses, sizes from -1 to 3, two holders, two
  milliseconds, one restart.  Every error of `allocate` occurs, the space is
  filled exactly and by up to four segments, and after the restart the same
  addresses go to the same holder in the same size.
* `PgSegments`, `PgStore`: two clients, four calls, one fault.  The races need
  two calls at once and one or two before them; what a race leaves behind is
  read by the fourth.  `MaxCalls` and `MaxFaults` bound nothing else.  One key
  per table suffices because statements touch one key, and keys of different
  tables meet in `lifecycle_events` under different entity types.
  `PgSegments` allows sizes -1 and 2, since the repository checks none.
  Symmetry of clients (and labels) is used with safety properties only.
* `MemoryStore`: three timepoints and pages of two, so that an entry can lie
  before, on and behind a page boundary; one domain, one file with two
  metadata; one restart.
* `ClassBStepper`: intervals of up to 18 ns, three `maxStepNs` and an absent
  one, four `maxSteps`, three classes of worldlines, estimates that are
  nothing, within, at the edge of and far beyond the tolerance; worldlines that
  end after the interval, at its last ns, or have a gap between two whole ns.
* `Sp3Parser`: eight lines, two satellites, four epoch times, of which some lie
  on a grid of 1 and some on one of 2.  A header takes two lines or three, so
  that files of three epochs, repeated epochs, and epochs with P and V records
  of both satellites occur.  The order of lines is free.
* `Sp3Worldline`: every sequence of three and of five epochs over the times 0,
  1, 2, 4, 6 with an interval of 2, files of four that lack one, and files of
  three with a negative interval and velocities; windows of one to four nodes;
  every time from before the first epoch to behind the last.
* `TimeArithmetic`: a us of 2 ns, a ms of 2 us, a second of 2 ms, a minute of 12 s, an hour of 2 minutes
  and a day of 2 hours, so that every unit has several digits and values of
  up to 400 ns cross all of them; three operations in a chain, the second and
  third of which scale the rounding of those before.  Floats have four binary
  digits (`FloatLimit` is 16), so that most values lie above it and lose up to
  four digits; the fractions 1/2 and 11/16 have a short and a full mantissa.
* `UseCases`: three leap seconds, the first a jump of three as the table's
  first is a jump of ten; times on both sides of each, and before the epochs; two
  timepoints or relations, since the properties relate two; one restart.
* `Conformance`: the program and one other client, two signals, one restart,
  both storages, a fixed and a drawn secret, and the command lines that differ
  in what they select.  The other client posts a file of the suite over GraphQL
  (a body, a statement, a 200 whatever happens), or asks for what is answered
  before the body; every request of the suite itself, any statement of which may
  fail, comes from the program.

Deadlock is checked everywhere but in `time_arithmetic`, where a chain ends
after its last operation.  `Rest` (all calls of the bound made and ended),
`Ended` (the function has returned or thrown) and `Failed` (there is no
worldline) are the only states in which a model may stop, and stutter there.

### Fairness

`ClassBStepper` and `Sp3Worldline` have a liveness property.  `WF_vars(Next)`
and `WF_vars(Evaluate)` say that a synchronous function goes on executing; they
say nothing of which estimates come or of whether `stateAt` is called again.

`SrvFairness` says what Node does by itself: it goes on with a request whose
body is there, gives up one whose body does not come while it listens
(`requestTimeout`), closes a connection that stays idle (`keepAliveTimeout`),
calls back once no connection is left, and `process.exit` follows.  It does not
say that a slow body comes, nor that one is given up after the signal:
`server.close` ends the check that would do so.  `DatabaseFairness` is about the
database, not the code: a statement is answered or fails; the pool bounds the
time to get a connection (`connectionTimeoutMillis`), not that of a statement.
Nothing is said of clients, signals or whether anybody starts the server again.
`WF_vars(KitStep)` says that the conformance program, a loop over awaits, goes
on when the answer is there.

Under these `RunEnds` holds; it relies on every connection ending in an answer or
a cut, which `fetch`, called without a timeout, leaves to the server.
`ShutdownEnds` has two premises, because the code does not bring them about: every
body comes in the end, and nobody asks for ever on a connection that was busy at
the signal (no answer says `Connection: close`).  What it then denies is that the
server itself keeps the process alive, by an idle connection, by a handler that
waits for a pool that has ended, or by a second signal.

For the storage modules no fairness is assumed: nothing in the code guarantees
that a caller, a connection or a process goes on.

## 4. Proofs

`SegmentRegistryProofs` proves every property of the run `segment_registry`
for all holders, sizes, clock values and every `CGUAS_MAX`.  The inductive
invariant is

    IInv == TypeOK /\ GapFree /\ Disjoint /\ IdNamesSegment /\ StaleIsOlder

`Disjoint` alone is not inductive: that the new segment `[n, n + size)` meets no
older one needs that older ones end at or below `n`, which is a part of
`GapFree`; and that `Map.set` does not replace an older segment under the same
id needs that an id carries its base (`IdNamesSegment`), so that two segments
with one id would have one base.  `StaleCguaIsUnknown` does not follow from
that: bases come again after a restart.  `StaleIsOlder` says that ids of the
process are made at its clock's times and those in `stale` before any of these;
a restart, which moves the clock on, keeps that. `FindExactlyActive`, its two
parts (the round trip and the unreachability of revoked segments),
`SegmentIsolation` and the refinement follow from `IInv`: for the refinement,
`Allocate` maps to `Grant` of the addresses from `n` on, `Revoke` to `Retire`,
`Restart` to `Forget`, and errors to stuttering.

`NumericsProofs` proves the safety properties of `class_b_stepper` for every set
of requests, tolerances and estimates: type correctness (with it that no step
overshoots and that the function returns only at `t1`), the floor of the step
size, the error budget, that `maxSteps` never stops an integration it has room
for, and that a worldline's refusal is one of a time asked for.  Each
strengthens its property by what a step needs to know of the running state: the
floor needs that no step below it is ever rejected, the budget that twice the
rounded tolerance exceeds the exact one by at most the denominator.  The number
of steps follows from `Pace`: an accepted step at most doubles the step size, a
rejected one at least halves it and was at least twice the floor, so that `h <
hFloor * 2^(Slack + 1)` where `Slack` is `halvings` plus accepted minus rejected
steps, never negative.  The provers have no arithmetic for `^`; that `2^n`
doubles from one `n` to the next is derived from the number of subsets of `1 ..
n`.  `RefusalIsReal`, the safety part of what `Completes` says of refusals,
holds because every node lies in the step and every step, also a cut or doubled
one, in the interval.

The same module proves both properties of `time_arithmetic`, for any units that
divide each other, any numbers and chains of any length.  The invariant is
`Carried`: the value fits its precision and kind, and is no further than `drift`
from the chain at full resolution.  Each operation has a lemma on what it makes
of two numbers `drift` apart: quotients toward zero end up at most `CeilDiv` of
it apart, also on different sides of zero; remainders lie on the same side of
zero below the divisor; `v^n` and `e^n` are at most `n * M^(n-1)` times as far
apart as `v` and `e`, `M` being the larger size; a float is as far from its
number as half the distance of the floats around it, at most 1 in `FloatLimit`,
so that the two roundings of a fraction's product `a` lose at most `3a /
FloatLimit`, and nothing below `FloatLimit`.  The powers are why `Pow` is a
recursive function here: first it is shown that its recursion defines a function
at all, then its bounds.  The proof of rounded fractions showed that a first
version of `DriftAfter` allowed one nanosecond too many; it is now what the
lemma gives.  That decoding adds up is a telescope: what a unit takes is what
its remainder falls short of that of the next larger unit, as one divides the
other.

`Sp3Proofs` proves all safety properties of `sp3_parser` and `sp3_worldline`.
For the parser: for any lines in any order and number.  `ParserInv` relates the
header to what was read so far and, when a file has been returned, to its
blocks; `SatellitesAsDeclared` follows from it.  `RecordsStayInTheirEpoch` needs
`Filed`: the record of a satellite in a block holds the places of the last P and
V line of that satellite and epoch in `body`, and `EpochOf` the number of epoch
lines before a place.  A line that is accepted is then the last of its kind,
satellite and epoch, and changes no other last line (`LastLineGrows`).  For
`GridReportHonest` one counts: a file of `n` epochs without a gap shows each of
the `n` times of the grid, so none is left over that could be displaced or twice
the same; the list of epochs off the grid is not needed for it. For the
worldline: for every file, order of epochs and number of nodes the search stays
within the epochs, states only come from centred equidistant windows, and none
is missed where the epochs ascend.  Its invariant is that of the binary search:
node `lo` is at or before `t`, and the node after `hi`, if there is one, is
after `t`.  It does not need ascending times, since each bound was compared with
`t` when it was set; that is why an unsorted file can make `stateAt` refuse,
never answer wrongly.

`UseCasesProofs` proves for every table of leap seconds that satisfies
`LeapAssumption`: `utcToTai` keeps the order of seconds (`TaiIsMonotone`),
`taiToUtc` gives back what `utcToTai` was given (`UtcComesBack`), and between
proper intervals `allenRelation` answers the only relation that Allen's
definitions allow (`AllenIsUnique`).  That the loop over the table stops at a
row at all (`RowsPassed` is a CHOOSE) is `PassedExists`, which takes the first
later row there is, `<` being well-founded.  Coming back takes three corrections
only because rows lie further apart than the largest offset: the first guess is
then at most one row off.

It then proves the properties of the run `use_cases` for all domains, times,
restarts and units.  `TypeOK` is inductive by itself.  `TaiKeepsOrder`
is not: it relates two timepoints and says nothing of one.  The invariant behind
it is

    AsAsked == \A t \in issued : Asked(t)

where `Asked` says which absolute value each way of asking leads to; that two
such values are in the order of their times is then `TaiIsMonotone` and
arithmetic (for `uc3`, of quotient and remainder toward zero).

`PgStoreProofs` and `PgSegmentsProofs` prove every property of `pg_store` and
`pg_segments` for any number of clients, keys and calls, with any statements
failing and any callers leaving.  The properties speak of answers; three
invariants on top of the types carry them.

* `Truth`: an answer, given or on its way, says nothing the tables have not
  come to (`Holds`).  What the tables have come to they never take back
  (`Grows`), because they are only inserted into.
* `Unique`: of calls and answers that say they created the same thing there is
  one.  It needs `Truth` for the answers of others, since a call creates only
  what is not in the tables.  For segments the id carries its base and size,
  and the unique key refuses the second row.
* `Sequels`: an answer takes up every answer given before its call began.  It
  must also hold of calls between two statements: one that is about to append
  an event began before anybody was told of such an event (`Untold`), one that
  is about to insert a segment has a base behind every grant of before it began
  (`Behind`).  The second is where the race of finding 1 is excluded: `MAX` is
  taken after the call began, but not after other calls that are under way.

Refinement of `LifecycleStore` follows from `EventsHaveRows`: no event precedes
its row, and calls between check and insert have seen the row.  `MAX` itself,
a CHOOSE over the segments, is defined because some segment always ends last
(`LastEnds`).

`MemoryStoreProofs` proves every property of `memory_store`.  The walk is right
since `Map.set` never moves an entry: what a client has got so far are the ids
of the first entries, in order, as many as its offset says.  That each key is
in its Map once and each event has an entry is part of the same invariant, and
what the refinement needs.

`ConformanceProofs` proves the safety properties of `conformance` for any number
of clients, requests, signals and restarts, both storages and any in-process
suites. `SrvInv` is the server's part: nobody waits for a server whose pool
ends, which is what `OneSignalCutsNothing` needs, and a handler that runs was
let in. `KonformMeansServed` says of a run that is over what happened during it,
so the invariant must carry it from request to request, as `DoomedInv`: when a
request was cut off, failed or met a token of an earlier process, and yet no
test has failed, then the run is at a test that is bound to fail, because its
token is stale (test 7), because the id it needs was in the answer that did not
come (tests 18 and 19), or because the file it wants gone is not deleted (test
19). The DELETE of test 19 that was answered 500 is why: it may have taken
effect or not, `FileInv` leaves that open, and the 410 that the test wants next
decides it, as nobody else deletes the file.  For that `AskInv` ties what is on
the client's connection to the call it is at, `TokenInv` says that tokens are at
most as new as the secret and the writer's at most as new as the reader's,
`GotInv` what the client took from the answers, and `FileInv` which of its three
files the tests so far have left alive or deleted.

Assumptions are the ones named in the modules (`ASSUME`): sets of integers,
natural bounds, non-zero units and denominators, units that divide each other;
fractions below 1 that are floats (`FractionAssumption`); clocks of integers
(`ClockAssumption`), which the actions do not set back; keys of different tables
that differ (`KeysAssumption`; in `lifecycle_events` `entity_type` tells them
apart); other clients that do not delete the suite's files and hold no tokens, a
url that is no option, and a suite that is itself the one client whose answers
are looked at, with three contents that differ (`ClientAssumption`,
`UrlAssumption`, `KitAssumption`); and the shape of the table of leap seconds,
which TLC evaluates for the small table; the table of `mapping.ts` has it, its
rows being at least half a year apart.

Model-checked only: liveness (`Completes`, `SearchEnds`, `ShutdownEnds`,
`RunEnds`), which is beyond the prover.  Every invariant and every action
property that a run checks and expects to hold is proved.  Induction over data
is not available as a theorem with the installed provers; where a proof needs
it, it takes the least counterexample of a set of numbers (`LeastOf`, from
`WFMin` and `NatLessThanWellFounded`).

## 5. Findings

Two runs show the code doing other than it, or a document, says.

1. `cg-storage/src/pg-repository.ts:245` — concurrent `allocate` calls read the
   same `MAX` and get overlapping segments; `../docs/specs/T-API-testsuite.yaml:1208`
   says segments registered at the same time must not overlap.
2. `cg-testkit/src/conformance.ts:29` — the level is parsed from the word
   behind the place of `--level`, which is the first word when the option is
   missing.  With any other option the level is then NaN, no test is selected,
   and the program says KONFORM, exits with 0 and writes a report that is
   compliant and has no results; the usage (`:7`, `:10`) shows the option as
   optional with 3 as default, and `conformance-report.schema.json:135` demands
   at least one result.

Noted while reading, without a run of their own.

*Storage.*  Concurrent `publish` calls both succeed and write two events
(`pg-repository.ts:123`; the comment at `:111` says the second throws);
derived states are not affected (`ImplementsStore`).  The in-memory `insert`
replaces a timepoint that is posted again (`repository.ts:44`), where
`../docs/specs/T-API-testsuite.yaml:261-262` says it is not overwritten and the
database keeps the first (`ReadsNeverRegress`).  In the database, `revoke` of
an unknown id writes an event and reports success where memory throws, and
`resolve` answers a revoked segment where memory throws `segmentRevoked`;
`allocate` there takes sizes of zero or less and beyond `CGUAS_MAX`, so that
after a single negative one the next base is negative; `postTimepoint` answers
with the labels of the caller even when the row of an earlier post is kept.
A domain posted over the API is not known to the engine's own registry.

*SP3.*  A list of gaps holds the places of the declared grid without a record;
epochs off the grid, repeated, out of order or beyond the declared number leave
it empty, and `stateAt` refuses the windows that contain them, although the
comment at `sp3.ts:748-750` says that an empty list promises a window.  Two
equal first epochs without a `##` line, or a field of an epoch line that is no
integer, end in an error of the language instead of the coded errors the comment
at `sp3.ts:403` lists; and if the first two epochs descend, the interval becomes
negative and an epoch counts as off the grid although it lies on it
(`ShiftedEpochLeavesGap`, a part of `GridReportHonest`, is stated for positive
intervals).

*Time arithmetic.*  `buildISO8601` cuts zeros off whole seconds, so that 10 s
read `PT1S` and 0 s `PTS` (`CutZeros`), and leaves out nanoseconds.  `modulo` is
negative for a negative divisor, where the comment above it says it never is;
`divide` truncates where its comment says floor.  A value of -0.4 s at P-SEC
becomes 0 instead of an error, since the guard of `fromNs` follows the rounding.
`error_ns` of irrational constants does not count the truncation.  `multiply` by
a number with a fraction loses digits of values above 2^53 ns, some 104 days
(`:414`); how many is what `ChainDrift` allows for.  A factor of NaN or infinity
ends in a RangeError of the language, not in one of the coded errors.

*Engine and use cases.*  A domain somebody registered under the key of a use
case before its import stays, silently.  `createEnergyTimepoint` passes seconds
since 1970 to `utcToTai`, whose argument elsewhere counts from another epoch.
Degenerate intervals are related as BEFORE or MEETS before EQUALS is tried.
The index of photons is lost with the process, so that I-QKD-1 holds of one
process.

*Segments in memory.*  Only the millisecond keeps the ids of two processes apart:
if a process is started within the one in which another granted a segment, or
after the clock was set back, `resolve` and `revoke` of an old id can meet a new
segment.

*Class B.*  An error of the worldline or the rate in a stage passes through
`executeClassBMapping` as it is, and what was integrated is lost.

*Server and test kit.*  With the database, a second signal ends the pool twice,
and the process dies with code 1 of a rejection nobody catches
(`DieOfSecondEnd`; `OneSignalCutsNothing` asks for code 0 after one signal).  No
answer closes its connection, so that after a signal a client that keeps asking
on a connection that was busy then, or a body that never comes, keeps the
process alive for ever.  The DELETE of BB-092 may be answered 500, when its
connection breaks after the commit, and the run still says KONFORM, since the
file is gone and nobody looks (`black-box.ts:217`).  `--target` as the last word
means the in-process tests, silently; `fetch` has no timeout; `testkit` always
writes level 3; `conformance` counts all pending tests at every level. A second
black-box run on one database fails, because BB-090 to BB-092 post the same
files again; in memory a repeated run lets BB-092 pass without its DELETE, so
`KonformMeansServed` is stated for a server that starts afresh.

## 6. Plan

Written so far: the segment registry with its ledger, the segment repository,
the stores with their common abstraction, the step size control, SP3 files, the
time arithmetic, the engine and the use cases, the server, and the conformance
programs that run against it, all with proofs of their safety properties.

To come: two processes of the server on one database, one of which shuts down.

### Not modelled

`exakt.ts`: fractions without state; what depends on their rounding,
the step size control, models that rounding.  The relation repositories: an
append-only list that only `list` reads.  Webhooks: `dispatchEvent` is called
nowhere, so no delivery exists.  GraphQL: its resolvers make the repository
calls that are modelled.  CTDDL: one stateless pass over a JSON object.  Calendar
dates and the leap second table: data, of which the proofs assume the shape.
The polynomial of SP3 and the stages of the integration: their numeric error is
a matter of analysis, not of states.  `withTransaction` has no caller.
