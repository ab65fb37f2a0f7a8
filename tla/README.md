# Atra WorkUnit OS: specifications

TLA+ models of the parts of this repository in which the order of steps, the
moment of a read or a failure between two writes decides correctness, the TLC runs
that check them on small instances, and TLAPS proofs of the main results for every
value of the constants.

## 1. The system

WorkUnit OS turns signals from mail, chat, calendar and issue trackers into work
units, proposes actions on them, and carries an action out only after a second
person has approved exactly that action. Beside the product live operator tools:
database migrations, bootstrap and deployment with signed evidence, local sign-in
and a smoke run, a one-shot acquisition of a mail sample for an audit, and the
production of source records from retained provider exports.

| Part | State | What is hard about it | Module |
|---|---|---|---|
| Action preview, approval decision, runtime gate, tool backend | D1 rows of previews and approvals | handlers interleave at awaits; a statement throws after it took effect; two consumers of one approval; a kill switch that flips | `ApprovalLifecycle`, `OneTimeApproval` |
| Eligibility | pure | precedence of refusals, minimum of several expiries | `RuntimeEligibility`, `EligibilityOverTime` |
| Approval stores | rows in D1 or in memory | three implementations that must answer alike | `ApprovalStores` |
| Dry run | none | a list evaluated one element per await | `DryRun` |
| Inbox, refresh, feedback, audit, integration and approval status routes | work units, feedback, audit, usage, control database | read, then upsert of what was read; find-then-create bootstrap; a registry that changes between two reads | `RequestAdmission`, `RequestPath` |
| Rate limit | counters in the isolate | window edges, eviction of live counters | `RateLimit`, `RateLimitOverTime` |
| Approval MAC | tenant keys | a payload that changes while the key is awaited; rotation | `ApprovalMac` |
| Dashboard | React state | late answers delivered to a page that shows another unit | `Dashboard` |
| LLM ingest behind the tools route | none | order of gates, budgets per stage, a timer racing headers and body | `LlmIngest` |
| Source hoppers and drafts | a draft | any order of judging, correcting, approving, reporting | `SourceDrafts`, `WorkUnitDrafting` |
| Phase 6 records | none; shared containers | accessors that answer two reads differently; arrays the caller keeps | `PersistenceRecords`, `RecordConstruction`, `IsoTime` |
| Temporal contract, association, revision reference | attested results | the same, plus copies of results | `TemporalAssociation` |
| Review evidence, identity independence, linkage | sessions and sources | a record checked long after it was made | `ReviewEvidence`, `ApprovalChain` |
| D1 migrations | ledger and schema | a call that fails after committing; two operators; an edited checkout | `MigrationLedger`, `MigrationApply`, `MigrationLog`, `LocalMigration` |
| Bootstrap, evidence session, deployment | receipts, pack, registry | concurrent commands on one session; verification after commit; files edited between gate and use | `D1Rollout`, `BootstrapPlan` |
| Smoke runner, local tokens | processes, ports, a temporary root | signals between two spawns; commands that disagree about a file | `SmokeRunner`, `LocalJwt` |
| Gmail transport, preflights | token file, artifacts | concurrent refreshes; a mailbox that moves while it is paged | `GmailTransport`, `RunPreflight` |
| Run-3 controller and `run3-select` | one JSON state file | a crash during a call that must not be repeated; several processes without a lock | `AcquisitionState`, `AcquisitionController`, `SelectOperator` |
| Recorded source acquisition | none; archives on disk | one rule stated in adapter, producer and domain; rounded ids; fractions of different precision | `RecordedSource` |

`PROJECT.json` lists every part with its sources, what of it is modelled and why
the rest is not; its map gives the lines each definition translates, and its
hazards name the lines where an untested order of steps can bite.

## 2. Modules

A definition whose comment starts with "Mutant" is a plausible bug used to show
that a property can fail; nothing in the specifications refers to it. There is one
for each property of a passing run. Where a property joins several statements of a
component, its mutant breaks one of them; the others have none in the project.

### Approval lifecycle

`RuntimeEligibility` takes an evidence bundle as the set of flaws the validators
found in it, its expiries, and who approved it. `ChainIssues` and `LinkageState`
follow `evaluateApprovalChain` and `verifyApprovalLinkage`; `Eligibility` follows
`evaluateRuntimeAuthorizationEligibility` with its early returns;
`AuthorizationExpiry` is the minimum that the source computes with `minIso`.
`ApprovalChain!PolicyAgrees` ties this abstraction to the detailed verifier.

In `ApprovalLifecycle` every HTTP request is a process whose handler is cut at
its awaits, so `req[r]` holds the handler's locals and `req[r].pc` the await it is
suspended at:

- `PreviewPost`, `InsertPreview`: `POST action-preview`.
- `ApprovalPost`, `LookupDecision`, `InsertApproval`: `POST approval`; the second
  expiry check of the route is in `LookupDecision`, after the awaited lookup.
- `ToolsPost`, `ResolveEvidence`, `Finalize`, `ExecuteClaim`, `ReadBack`: the tools
  route and `authorizeRuntimeCommand`. `Finalize` is the synchronous block between
  the evidence and the claim: fresh clock reading, eligibility, roles, kill switch.
- `BackendPost`, `VerifyApproval`, `MarkUsed`: `runApprovedExternal` over the
  repository-backed store.

Every D1 statement may throw before or after it took effect. The approval's id is
`approval:<preview id>`, so `approvals` is a function on preview ids. A handler's
early exits before its first await are one refusal.

In production the composition wires a default-deny approval store and evidence
resolver; the model takes the repository-backed adapter over D1 that the code
provides for them, and an evidence resolver that may link any bundle whose
identities and expiries are copied from the rows. The tool backend's approved path
is exported and shares the store, though no route reaches it at present.
`KillSwitchSource` distinguishes the frozen request-scoped snapshot that routes
pass to the gate from the gate's default, `process.env`.

`OneTimeApproval` states the promise without handlers. The refinement maps the
approvals to undecided, approved, rejected and consumed with their consumer.
`ApprovalStores` gives the D1 repository, the in-memory repository and the
stand-alone store the same calls and compares their answers; timestamps keep the
two spellings the code accepts, because D1 compares texts and memory instants.

### Routes

`DryRun` is one request over `NumRefs` previews: admission, the binding loop, then
for each preview the awaited evidence and the evaluation. Concurrent consumption,
revocation and the passing of time are the environment.

`RequestAdmission` has what a route decides without a database: the runtime
configuration from Cloudflare, injected or process environments, the mutation guard
in its order of checks, the body reader, session claims, roles. `RequestPath` runs
`refresh`, `feedback`, `inbox`, `audit`, `integrations` and `approvalStatus`
requests over it: rate limit, session resolution with the development bootstrap
(four find-then-create pairs), tenant resolution with its registry checks, then the
handler, one step per await. `Overlay` and `Upsert` are the two halves of a refresh
between which a decision may fall. The environment is a second request,
administrators who change memberships, tenants and the registry, failing
statements, an evicted worker, and the clock.

`RateLimit` is the fixed-window limiter over an insertion-ordered map, used by
`RequestPath` and, with several callers and a clock, by `RateLimitOverTime`.
`ApprovalMac` cuts `computeApprovalMac` and `verifyApprovalMac` at the awaited
secret; a payload field answers its first read and its later reads separately.
`Dashboard` is one page: each call is served and later delivered, or lost; `Serve`
holds the server's side of previews, decisions and status. `LlmIngest` follows
`POST tools` through validation, provider choice and the three stages of
`processWorkSignal`, with the DeepSeek call's header and body reads under a timer.
`SourceDrafts` has the hoppers, the safety filter and the agents as operators,
`WorkUnitDrafting` the life of one draft over them.

### Evidence

`PersistenceRecords` has the validators of the Phase 6 records, `RecordConstruction`
their constructors over a heap of containers: an input says what its first read and
its later reads give and which read throws, and the caller may change whatever is
not frozen between calls. `IsoTime` compares the three ways the code judges a
timestamp. `TemporalAssociation` evaluates contracts, revision references and
associations on objects whose properties may be accessors, and keeps which results
were attested. `ReviewEvidence` has the constructors and verifiers of the review
records, the first part of `ApprovalChain` those of the linkage record; the rest of it
composes them with sessions, reviewers, revocation, consumption and a clock, and keeps
for each record the sources it was made from.

### Operator tools

`MigrationLedger` has the manifest, planning and reconciliation as operators.
`MigrationApply` is `cf:d1:migrations:apply` by several operators, cut at its
Wrangler calls, each of which may be lost or fail late; `MigrationLog` is what the
ledger promises, and `LedgerIsALog` the refinement. `LocalMigration` is the hermetic
local run with every effect allowed to throw. `D1Rollout` takes the whole rollout:
check, migrate, verify, prepare, bootstrap, preflight and deploy as commands that
share one evidence session; `BootstrapPlan` looks into prepare and apply, with the
operator editing plan, configuration and environment between any two steps.
`SmokeRunner` is the run's main flow, its cleanup and its child processes;
`LocalJwt` the seeding, issuing and verifying commands next to a Worker that loaded
an earlier file. `GmailTransport` cuts `auth-check`, `oauth-authorize`, `acquire` and
the enumeration at network awaits and shared-file calls; `RunPreflight` has the
checks of both preflights, each reading the disk anew. `RecordedSource` is
`source:acquire-recorded`: both acquisition adapters, the producer and the record's
validator as sequences of checks in the code's order (`FirstFailure`), run resource
by resource while archives are exchanged and the clock is set. `JsonNumber` rounds as
the JSON parser does, so that `RecordsSpeakForTheirBytes` is about the digits in the
bytes and not about the number the adapter was given.

`AcquisitionState!ControllerState` is the record that the Run-3 controller holds in
memory and the store keeps in the file. A message is its rank in the canonical
order of `selection.mjs`. `AcquisitionController` has the file (`disk`), the live
controller (`mem`), the calls under way and the history of calls and answers.
`runCanary` and `acquireNext` are two steps each: up to the await (`RunCanary`,
`AcquireNext`, both ending in `Ask`), and `Settle`. `Save` covers the store's
temporary file and rename: it may fail with the rename done or not, and the
controller's memory is changed in either case. `Slots` is the number of calls a
caller has under way at once. `SelectOperator` cuts `runRun3Select` at the file
operations other processes can interleave with.

### MC modules

`MCApprovalLifecycle`, `MCMigrationApply` and `MCD1Rollout` give constants to one
component. `MCRoutes`, `MCEvidence` and `MCOperatorTools` hold several components
that share no state: a behaviour is a behaviour of one of them, chosen by `part`
from `Parts`, and the variables of the others stand still, at the value `Off` or in
an initial state. Components with proofs are extended, and their names (`ChainInit`,
`StoresNext`, `OverTimeSpec` and so on) kept apart, so that a run checks the very
definitions that a theorem states; the others are instances, whose properties are
guarded by `part`. Components that do interact
are composed inside a component module instead: admission, rate limit and the
routes in `RequestPath`, eligibility in `ApprovalLifecycle` and `DryRun`, review and
linkage in `ApprovalChain`, ledger operators in `MigrationApply` and
`LocalMigration`, drafting in `LlmIngest`.

## 3. Runs

| Run | Shows | Bounds |
|---|---|---|
| `claims` | `OneTimeUse`, `ExactBinding`: one consumer per approval, and it gets what was approved and previewed | 1 preview and 1 decision request, 2 gate requests, 2 contents, clock 0..2, one revocation kind |
| `consumers` | `KeepsPromise`, `EveryRequestAnswered`: every step is a step of `OneTimeApproval`, and every started request is answered | one request of each kind, gate against backend; preview and approval expire within the clock |
| `windows` | `ReceiptWithinWindows`, `KillSwitchStopsClaims`: receipts lie within every window; no receipt rests on a later reading of the kill switch | clock 0..3; the preview, the approval, the review or session, and the ceiling are each the tightest bound in some state; 2 flips of `process.env` |
| `decisions` | `AcknowledgedWritesStand`: an acknowledged preview or decision is the stored one, whatever races and retries surround it | 2 preview and 2 decision requests, one subject with 2 contents, one stored preview without creator |
| `routes` | see below | see below |
| `evidence` | see below | see below |
| `operator_tools` | see below | see below |
| `d1_migrations` | `LedgersAreSound`, `LedgerIsALog`, `EveryRunEnds`: the ledger is a truthful append-only log (refinement of `MigrationLog`), a passed step is recorded, two databases' histories do not mix, every run ends | 2 operators, 2 databases, 2 starts each, 3 checkouts (one re-pinned, one edited and not re-pinned), one edit, one column added by hand |
| `d1_rollout` | `EvidenceIsSound`, `EveryCommandEnds`: receipts are true and chained, the session can always be packed, an accepted pack is a finished rollout, deployments stand on a verified schema, every command ends | the documented order once, and five pairs of commands racing on one session, one or two authorities, clock 0..1 |
| `bootstrap_counts`, `smoke_signal`, `dashboard_switch` | three defects (section 6) | the smallest scene that shows them |

`routes`, by part. Each part's state properties are joined in one invariant, named in
parentheses; what its steps may not do is in `StepsAreEntitled`, and its liveness in
`EveryCallSettles`:

- `dry_run` (`VerifiedRefsAreSound`): verified previews were eligible, spent approvals
  are not verified; a step that answers "verified" does so while the preview evaluated
  last is current (`AnsweringCurrent`). 2 previews, clock 0..2.
- `requests` (`StoredDataIsSound`): reads stay in the session's tenant, a settled
  decision survives later refreshes, acknowledged feedback is stored and audited, a
  bootstrap is complete, production never serves generated data, safe methods never
  write, a row keeps its owner, writes are entitled. 16 deployments and pairs of
  requests, one failing statement, one administrator's change or one tick.
- `limiter` (`AdmissionsAreLimited`): the store stays bounded, a caller gets at most
  twice the limit in any window's length, a window counts its admissions. 3 callers,
  room for 2.
- `mac` (`MacsAreExact`): what verifies was issued value for value and the reverse,
  with the key the payload names. One compute and one verify, 11 payloads, one edit,
  one rotation.
- `stores` (`StoresAgree`): the three stores agree on runtime claims, one use per
  decision, tenants apart. 4 calls, 2 tenants, expiries inside one second in both
  spellings.
- `dashboard` (`PageIsConsistent`): the shown states and gates agree, decisions and
  drafts belong to their preview, the page stops loading. 2 units, 4 gestures, 3
  calls; 1,536 pages that load one unit of every classification.
- `ingest` (`PromptsAreSafe`): prompts are clean and fit their stage, completion needs
  the draft, remote providers stay off, an answer comes. 8 hosts, 18 requests, 6
  providers.
- `drafting` (`DraftsAreSound`): missing fields are current, success was approved,
  corrections keep a draft's identity, and a draft completed by its own logs was
  accepted first. 6 batches, 11 judgments in any order of two, two approvals and two
  logs, of the draft's artefacts or of another draft's.

`evidence`, by part:

- `eligibility` (`EligibleExactlyWhenSound`): grants exactly the sound chains.
- `records` (`RecordsStaySound`): finished records stay valid whatever the caller
  changes, rebuilding is the identity, blocked records say why, summaries share
  nothing.
- `iso` (`TimestampsAgree`): the calendars and the text order agree.
- `temporal` (`RelationsAreSound`): snapshots are genuine, swapping the operands
  mirrors the relation.
- `chain`: `FourEyesStandBehind` every record; `VerdictsAreExact`: a verified record
  is unchanged and an unchanged one verifies, audits agree, the policy layer's classes
  are the verifier's.

`operator_tools`, by part:

- `acquisition`: `AskedOnce`, `CompletionIsEarned`; 4 messages, sample of 3, 2 faults.
- `select` (`SafeOneAtATime`): what is printed is in the file under its own run;
  without overlap it stands and nothing is voided; 2 processes.
- `preflight` (`PreflightsAreSound`): a pass means the reuse set is intact, and a probe
  file stays behind only if the preflight was killed over it or reports the destination
  as not writable; one slip during two preflights or two slips before one.
- `gmail` (`MailReportsAreTrue`): equal means faithful, files are never overwritten,
  consent is kept, an enumeration that ends is complete.
- `smoke` (`ZeroExitMeansProven`): exit 0 means proven, removal waits for exits,
  foreign roots survive.
- `jwt` (`LocalTokensWork`): issued tokens are served, the verifiers agree, reseeding
  succeeds.
- `migrate` (`LocalMigrationIsSound`): ok means migrated, every opened handle is closed
  or its close threw, the temporary root is gone or its staying is reported, a replay
  never fails.
- `plan` (`PlansAreSound`): what is executed is what was validated, the registry names
  another database than the control one.
- `source` (`SourceRecordsAreSound`): a printed record is about the bytes it was made
  from, is not dated before its observation, and exists for every chosen resource when
  the command exits with 0; what is acquired can be produced; two archives, each with
  one thing changed, 7 as the largest safe integer.

The action properties of these parts (a report is of its own run, files are never
overwritten, consent is kept, removal waits for exits, foreign roots survive,
reseeding fails only on news) are joined in `StepsKeepWhatStands`, their liveness in
`EveryProgramEnds`.

The bounds let each interesting case happen: two competitors for each resource,
one more candidate than is taken, an expiry reached inside the clock's range, a
restart after a failed write (two faults), a right and a wrong run id, a store with
one place less than callers. Larger values repeat these cases, and the proofs below
remove the bounds for the approval lifecycle, eligibility, the dry run, the approval
stores, the approval chain, the acquisition, `run3-select`, the smoke run, migrations
and the rollout. Scenes list the initial situations of a part one by one where the
product of all inputs would be too large; each comment in the MC modules says what
its scenes are for. Requests, decisions and contents are symmetric in the approval
runs; no run with a liveness property uses symmetry.

Deadlock is not checked where the system may stop: programs that have ended, a page
whose user does nothing more, an invalidated bundle at the end of the clock, a run
that is void.

Fairness is weak fairness of steps already under way, and nothing of the
environment, of new requests or of users:

- a started handler goes on (`consumers`; `dry_run` and `requests` in `routes`): the
  runtime resumes a handler whose awaited promise has settled, and a model step
  includes the database call that settles it or throws;
- a page's call is served and delivered, or lost (`dashboard`): a browser's `fetch`
  settles;
- in `ingest`, the call's own timer fires: `AbortController` with `setTimeout`. A
  provider that never answers gets no fairness, which is what the timer is for;
- an operator's program takes its next step (`d1_migrations`, `d1_rollout`, `gmail`,
  `smoke`): it is scheduled by the operating system until it ends or is killed. In
  `smoke` the fairness is of the run, its cleanup and its timers; children may hang.

In the two composite runs only one part runs, so one weak-fairness conjunct carries
a step of each part. `EveryCallSettles` and `EveryProgramEnds` are the conjunctions
of the parts' liveness properties, guarded by `part`.

## 4. Proofs

Every theorem holds for all values of the constants that satisfy the named
assumptions (finite or infinite sets of requests, any TTLs, any clock bound). TLC
evaluates each assumption on the instance of a run, and each inductive invariant was
model-checked before it was proved.

- `ApprovalLifecycleProofs`. The safety properties are not inductive: that a
  second claim fails depends on what the suspended handlers remember.
  `LifecycleInv` adds that rows are well formed and dated (`RowInv`), that linked
  evidence copies its row (`BundleInv`), what each kind of suspended handler knows
  (`PosterInv`, `ConsumerInv`), that a handler past its claim holds the row it
  claimed (`HolderInv`) and that no two hold the same (`OneHolder`). One lemma per
  action shows that it is preserved; the invariants `OneTimeUse`, `ExactBinding`,
  `FourEyes`, `ApproverNeverExecutes`, `ReceiptWithinWindows`,
  `AcknowledgedWritesStand`, `NoWindowFromStalePreview`, `KillSwitchStopsClaims` and
  the action property `DecisionsFinal` follow. `KillSwitchHolds` covers both values of
  `KillSwitchSource`; the run takes the one that can change under a request.
  `LifecycleKeepsPromise`: initial states map to initial states and each step to a
  step of `OneTimeApproval` or a stutter.
- `RouteProofs`, of three modules. `EligibilityOverTime`: `EligibilityIsExact` is the
  closed form of the decision; `RefusalsAreFinal`: more flaws and more time never turn a
  refusal into a grant. `DryRun`: `DryRunInv` says what the loop knows of the refs it has passed and of
  the one it is at, between its two reads. From it `VerifiedIsSound`, for lists of any
  length: a "verified" list was bound, unspent, unexpired and approved by someone else
  when each ref was evaluated. `AnswersAreCurrent` is the action property that holds of
  the last ref at the moment of the answer, and only of that one. `ApprovalStores`:
  `StoresAreSound`, for any tenants, ids and sequence of calls. That a
  decision wins once needs `UsesAreStamped`: a row that counts a win keeps its `usedAt`,
  even when `updateStatus` sets it back to "approved". That D1, which compares texts,
  and memory, which compares instants, answer alike is the lemma `TextOrder` on
  timestamps written with milliseconds. `StoresAssumption`: expiries are instants with a
  form, and null is neither a number nor a row.
- `ApprovalChain`, for any sessions, sources, versions of them, choices of people and
  bounds. `RecordsHaveFourEyes` rests on `ChainInv`: an attestation was made in a live
  session (`AttestedLive`), evidence combines two attestations of one content by two
  reviewers (`EvidenceStands`), and neither is ever taken back, so that both still stand
  behind the record when it is linked (`StandsBehind`). That the approver is none of the
  others comes from the independence check inside `evaluateApprovalChain`
  (`PeopleOfChain`, `Independent`). `VerifiedSpeaksOfThePresent` rests on `BindInv`: a
  record carries the binding fields of the sources kept with it, and these satisfied the
  evaluation's equations (`Agreeing`). `BoundIsExact` is its core: the equations and
  fifteen of the binding fields (`DETERMINING`) leave no column of a preview or an
  approval free, so a record that verifies against the current sources was made from the
  same ones. It fails if a column is added to a row and neither hashed, nor bound, nor
  checked. `AuditTrailsAgree`: the three audit events, each of which verifies for itself,
  never contradict a verified linkage. `ChainAssumption`: rows have the columns of their
  types (`ActionPreviewRow`, `ApprovalRecordRow`), and expiries are integers.
- `AcquisitionProofs`. The hypothesis is `Serial`, a caller that awaits each call
  (`stateStore.mjs` states that transitions are single-threaded). `SerialInv` says
  that while `acquireRaw` is under way its marker is in the file, and otherwise both
  file and controller know every call ever made or are void. From it follow
  `AskedOnce`, `VoidIsTerminal`, `SelectionAndT0Fixed`, `CanaryFirst`,
  `RegisteredInTime` and `CompletionIsEarned`. The last needs that the completed list
  never names a message twice: the controller only compares its length with the sample
  size, so a repetition would stand for a message that is missing.
- `SelectOperator`. `SelectInv`: an invocation keeps the run it was started for, and as
  long as none have overlapped at most one is under way, it owns the file, and nothing
  is printed before the file is resolved. `AloneIsSafe` is the safety of a single
  operator; `ReportsAreOwn` needs no such condition.
- `SmokeRunner`, for any number of Worker attempts. `SmokeInv` says that every process
  that exists is in the registry (`NoneForgotten`), that a cleanup no signal started is
  one the run itself waits for, so that no child can be started behind its back once it
  has confirmed the exits (`CleanupIsAwaited`), and that a printed PASS and an exit code
  of 0 still stand (`VerdictStands`). From it `ZeroExitIsProven`, and the action property
  `SmokeStepsKeep`: no PASS for a repository that was not found unchanged, no removal
  while a child exists, no foreign root touched.
- `MigrationProofs`. `MigrationInv` says of each run that what it has read of a ledger
  is still there, that what it has passed is recorded (`CompletedIsRecorded`), and,
  until runs with different authorities overlap, that the lane it is applying is the
  only one in its database. From it `LedgersSound`, for any number of operators,
  databases, checkouts, edits and columns added by hand. The assumptions are that a
  lane is finite, its numbers are naturals, a path keeps its apply mode in all
  checkouts and there are two databases. `LedgerImplementsLog` shows that the ledgers,
  each lane in sequence order, implement `MigrationLog`. It rests on `LogInv`: a number
  occurs once in a lane of a ledger, and below a row no number of the lane is missing.
  That is so only for checkouts whose lanes grow at their end (`LanesGrowAtTheEnd`, a
  hypothesis of the theorem; TLC evaluates it on the instance of `d1_migrations`). The
  hypothesis came out of the proof. `reconcileFromState` refuses a satisfied step after
  a pending one, but it reads the ledger once: where one checkout lacks an entry below
  a later one, a run from it can record the later number after another run has read the
  ledger and before that run records the entry, in the middle of the log (TLC finds
  this in 16 states on an instance with such a lane). The lemmas
  `Sortable` to `OneListing` show that the numbered elements of a finite set have a
  listing in order and, when no number repeats, only one.
- `D1RolloutProofs`. `RolloutInv` says of each command that what it has read of the
  session is its beginning, what it is about to sign is true of its authority, and what
  it checked remotely still holds; of the session that its receipts form a chain under
  one authority and are true. Databases only gain what receipts speak of (`Grows`), and
  a session only grows at its end (`SessionGrows`), so one command's step keeps what the
  others rely on. `EvidenceSound` follows for any terminals, authorities and commands;
  `PackGrows` is the lemma that a receipt the append rules allow makes a longer chain.
  `RolloutAssumption`: the value for "not bound" is no authority, the clock bound is a
  natural number, and each scenario says whether its databases are migrated.

Only model-checked:
- all liveness properties, which need fairness and ENABLED;
- what `IsoTime` and `LlmIngest` compute with folds over sequences, which needs
  induction over data;
- of `ApprovalChain` the converse, that an unchanged record verifies
  (`UnchangedVerifies`), `AlterationsShow`, whose altered values must differ from the
  names of the instance, and `PolicyAgrees`;
- the other modules under the runs `evidence`, `routes` and `operator_tools`, which have
  no proofs yet: `PersistenceRecords`, `RecordConstruction`, `TemporalAssociation`,
  `RequestAdmission`, `RequestPath`, `RateLimit`, `RateLimitOverTime`, `ApprovalMac`,
  `Dashboard`, `SourceDrafts`, `WorkUnitDrafting`, `RunPreflight`, `GmailTransport`,
  `LocalJwt`, `LocalMigration`, `BootstrapPlan` and `RecordedSource`. Those that extend
  `SequencesExt` are also slow to prove about, since its definitions enter every
  obligation; `MigrationLedger` and `D1Rollout` take what they need from `Functions`.

Only proved, and not repeated in a run: the inductive invariants and the type
invariants beside them, `FourEyes`, `ApproverNeverExecutes`,
`NoWindowFromStalePreview`, `DecisionsFinal`, `RefusalIsFinal`, `VoidIsTerminal`,
`SelectionAndT0Fixed`, `CanaryFirst` and `RegisteredInTime`.

## 5. Abstractions

- Hashes, signatures and MACs are the contents they are computed from; collisions
  and forgeries are left out.
- All isolates read one clock. Instants are small naturals; where the spelling of a
  timestamp matters (`IsoTime`, `ApprovalStores`) texts are modelled.
- Texts are the sets of words a rule looks for, or a length, or a token; wording and
  layout of messages are left out.
- In `ApprovalLifecycle` roles and memberships do not change during a request, as in
  the code, which reads them once; in `RequestPath` they change between the reads.
- `usedAt` is read before the UPDATE runs, as in the code.
- The approval handlers' audit, usage and log writes are left out: they are caught or
  happen after the answer is decided, and no modelled code reads them.
- In the acquisition model the instant of `completed_at` is the instant of the
  deadline check just before it. `T0_RECORDED` is declared in the source and never
  assigned. `acquireRaw` throws, or returns evidence that `isValidEvidence` accepts or
  rejects; `GmailTransport` models the transport itself.
- `D1Rollout` takes a migration command as its outcome, `MigrationApply` in detail; the
  field-by-field verification of a pack is abstracted to what it binds.
- `BootstrapPlan` takes the gates that do not depend on the plan (the flags, the phrase,
  the binding argument, a valid manifest and schema contract) as one: `armed`.
- In `ApprovalChain` the context of an evaluation is a record the server builds, with
  the fields of its type; the checks of a malformed context never fire.
  `RuntimeEligibility` takes what the chain's rules find as a set of flaws;
  `ApprovalChain` has the rules themselves.
- Constants keep their relations and not their sizes: one or two requests per window,
  budgets of a few units, two attempts of the health probe.

## 6. Disagreements between text and code

Three have a run of their own, in which TLC finds the behaviour:

1. `bootstrap_counts`: the counts receipt of the bootstrap command takes its start
   before the apply receipt's completion is taken, so it is refused whenever the clock
   moves in between (`scripts/cf-d1-bootstrap-apply.mjs:468`).
2. `smoke_signal`: a signal between two spawns starts a cleanup that looks at the live
   children once; the child spawned next outlives the run
   (`scripts/lib/localJwtSmokeRunner.mjs:584`).
3. `dashboard_switch`: the refresh after a decision is applied to whatever unit is
   selected by then, which is shown as approved
   (`AdoptedWorkUnitDashboard.tsx:231`).

The following properties state what a text says, are defined in the component
modules, and are refuted when added to the run of their part (as `VerifiedIsCurrent`
in `MCRoutes.cfg`, or, for a component that is instantiated, as
`part = "select" => Select!SelectNeverVoids` in the MC module):

- `DryRun!VerifiedIsCurrent`: a list dry run is answered "verified" after its first
  preview expired (`dry-run/route.ts:230`); the comment at 120-122 says that verified
  means "all current evidence". What holds is `AnsweringCurrent`, for the last one.
- `DryRun!WorstDispositionWins`: "Worst disposition across referenced previews wins"
  (226), but the loop stops at the first that is not verified (245).
- `SelectOperator!ReportedSelectionStands`: "no reselection, and no overwrite anywhere
  on this path" (Run-3 `README.md:197`), but of two overlapping `run3-select`
  invocations the later write replaces a selection already reported
  (`selectOperator.mjs:400`). `SelectOperator!SelectNeverVoids`: "a wrong run-id is
  rejected ... with the run left exactly as it was" (188-190), but the constructor
  reads the file again and voids a run that was authorized since (382). Without
  overlap both hold (`SafeOneAtATime`).
- `RequestPath!RefreshesAreAudited`: a refresh retried under one request id reuses the
  audit row's id and the conflict is swallowed (`inboxService.ts:225`), against
  `docs/architecture/HTTP_MUTATION_GUARD.md:176-177`, "append-only, one row per call".
- `RequestPath!RefreshedRowsAreStored`: `upsert` looks up the owner and then writes; if
  another tenant inserts the id in between, the statement changes nothing and the row
  is counted as stored (`d1/workUnitRepository.ts:24-33`), where `writeGuards.ts:9` says
  that a collision "must FAIL CLOSED". The other tenant's row is safe
  (`OwnersNeverChange`).
- `RecordConstruction!BlockedEventsSayWhy`: `createBlockedPersistenceAuditEvent` checks
  the flags of one snapshot and builds the event from a second one
  (`persistenceAuditEvidence/constructors.ts:202` and 214); its header promises "a
  single-read snapshot" (7).
- `ApprovalChain!IndependentActorsAreDistinct`: the header says that all five actors
  "are distinct canonical users" (`identityIndependence/verifier.ts:5-6`); the code
  compares the approver with the others and the reviewers with each other, so the
  requester may be the creator or a reviewer (343-362).
- `GmailTransport!ChecksWriteNothing`: `auth-check` and the preflights are announced as
  checks (`cli.mjs:15`, `preflight.mjs:8`) and store a refreshed token
  (`oauthCredential.mjs:226`).
- `LlmIngest!NoOversizedPrompt`: the evaluation budget measures four fields of
  the draft (`processWorkSignal.ts:126`), the prompt holds more of it; `llm/budget.ts:5`
  says that oversized inputs are kept from the provider. The other stages hold
  (`PromptsFitTheirStage`).

Smaller ones met while modelling, without a property:

- The constructors of Phase 6 freeze arrays that belong to the caller, where comments
  say that an input is never mutated (`persistenceTargetDecision/constructors.ts:10`,
  `persistenceAuditEvidence/constructors.ts:10`, `artifacts/construction.ts:108`).
- The legacy `markUsed` in memory still wins at exactly `expiresAt`, the D1 statement
  does not (`inMemoryRepositories.ts:200`; `approvalStore.ts:208` against 192); the
  in-memory `create` replaces an existing id (157-165), D1 refuses it; `findByPreviewId`
  answers the first inserted record in memory and the latest in D1.
- `processWorkSignal.ts:11` announces that risk flags accumulate, and some stages' flags
  are dropped; `evaluateWorkUnit` takes `isExecutable` from
  the model's answer, where `llm/types.ts:7` says that it is never trusted as authority.
- The adapters of recorded sources accept any instant of the pinned shape, such as
  30 February, where the comment at `recordedPullRequestCapture.ts:158-159` says that
  "acquisition must reject a shape the domain would reject rather than discover it two
  layers later"; the domain refuses it (`validateSourceRecord.ts:115-117`). It is the
  first exception in `AcquiredIsProducible`.
- Database ids are accepted in either case and compared as text
  (`cfDeployConfig.mjs:286`).
- `createCompletionCriteria` counts a successful log of any draft
  (`workUnitExecution.ts:189`), so a draft that was never approved is complete when the
  logs it is given hold another draft's success; `SuccessWasApproved` therefore speaks
  of a draft's own logs.
- The writability probe of a preflight is written before the check enters its `try`: a
  write that fails half way leaves the file (`preflight.mjs:112-118`,
  `gmailRaw.mjs:132-151`). The check fails, and later preflights do not count the file.
- The local migration ignores a handle whose close throws
  (`d1MigrationRunner.mjs:473`) and may still answer ok.
- The deploy command takes its receipt's start (`cloudflare-deploy.mjs:322`) before its
  own preflight runs and records a receipt; when the clock moves in between, the deploy
  receipt is refused as out of order, although the Worker was uploaded. It is the
  behaviour of `bootstrap_counts` once more. No property needs the receipt: a session
  without it is not accepted as a rollout.

One more case is outside what any caller does today: with two `Slots`, that is a
caller that starts an `acquireNext` before the previous one returned,
`VoidIsTerminal` fails, because the method does not look at its state again after
the await. The proofs therefore state `Serial` as a hypothesis.

## 7. Not modelled

- WorkUnit lifecycle domain: constructors and projections of plain values.
- LLM provider boundary and readiness gates: policy over flags and context text that no
  route calls; the boundary's only result is a refusal.
- Decomposition, candidates and memory selection: classification of text by keywords
  and scores, without stored state.
- Hopper scoring, ranking, ROI and voice push: floating-point arithmetic and text.
- Status loop collector: read-only reports.
- Rendering, the other panels, the launcher, the Electron window: view code.
- External tool clients and the live read adapters: HTTP mapping without state of their own.
- Building and bundling, file modes, SQL text: I/O and layout. The statements' effects
  are modelled where a modelled handler runs them.
- The evaluation harness, test fixtures and mock data.

Hazards met in modelled code that no property reaches, beside those `PROJECT.json`
lists with a note: the plan digest of a migration receipt is computed from a manifest
read again after the run (`cf-d1-migrations-apply.mjs:343`; receipts carry no digest in
`D1Rollout`); review evidence is read again after its validation
(`reviewEvidence/constructors.ts:379`; the values of `ApprovalChain` do not change under
a call); the directory of a checked destination is replaced before the open
(`gmailRaw.mjs:211`; only files are replaced in the model); `run3-preflight` looks at the
configured state path while `run3-select` writes the fixed one (`cli.mjs:254`; the help
text says so).

## 8. Plan

1. Proofs for components that are only model-checked:
   `RateLimitOverTime!StoreStaysBounded` for any number of callers, the keys of
   `ApprovalMac`, `LocalMigration`, and `UnchangedVerifies` of `ApprovalChain`.
2. `OneShotAcquisition`: an abstract specification of at-most-once acquisition that
   `AcquisitionController` implements, with `GmailTransport` composed below
   `acquireRaw`.
3. The approval handlers' audit rows, once something reads them.
