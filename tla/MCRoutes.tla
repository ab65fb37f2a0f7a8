------------------------------ MODULE MCRoutes ------------------------------
(***************************************************************************)
(* What the server answers and what the page shows, each component on its  *)
(* own small instance: the dry-run route, the other routes over the shared *)
(* databases, the rate limiter, approval MACs, the approval stores, the    *)
(* dashboard page, the LLM pipeline behind the tools route and the work    *)
(* unit drafts.  They share no state here, so a behaviour is one of one of *)
(* them: `part` says which, the variables of the others stay Off (those of *)
(* the dry-run route and of the approval stores as they are at the start). *)
(***************************************************************************)
EXTENDS DryRun, ApprovalStores, SequencesExt

CONSTANTS Parts,            \* the components to run
          Off,              \* the value of a variable of a component that does not run
          r1, r2,           \* the requests in flight
          Absent,           \* no value
          RequestScenes, PayloadForms, DashboardScenes, IngestScenes

VARIABLES
    part,
    mix, rt, place, loc, control, work, feedback, audit, usage, limiter, clock, faults, changes,
    since, settled,                                                \* RequestPath
    store, moment, watched, admitted,                              \* RateLimitOverTime
    object, vault, macs, issued, instant, spent,                   \* ApprovalMac
    page, ui, calls, previews, approvals, session, efforts,        \* Dashboard
    ingest, pc, wire, stages, prompts, audits, answer,             \* LlmIngest
    draft, sourceOf, artefacts, desk, results, judgments, granted, accepted  \* WorkUnitDrafting

MCUsers == {"ann", "bob"}

(***************************************************************************)
(* Rows of a dry run: approved by either owner, with previews that lapse   *)
(* before or after the approval, and one row for every way not to bind.    *)
(***************************************************************************)
ApprovedRow(approver, expiry) ==
    [status |-> "approved", approver |-> approver, binding |-> "bound", expiresAt |-> 2,
     previewExpiresAt |-> expiry]

MCStoredRows ==
    {ApprovedRow(u, e) : u \in MCUsers, e \in {1, 3}}
    \cup {[ApprovedRow("bob", 3) EXCEPT !.status = s] : s \in {"absent", "rejected", "used"}}
    \cup {[ApprovedRow("bob", 3) EXCEPT !.binding = b] : b \in {"other_workunit", "other_type"}}

\* Approvals that expire within the second the calls fall in, in both forms
\* of the timestamp.
MCExpiries == {[at |-> 1, short |-> FALSE], [at |-> 2, short |-> FALSE], [at |-> 0, short |-> TRUE]}

----------------------------------------------------------------------------
(***************************************************************************)
(* The signals the sources offer, and the batches and judgments of the     *)
(* drafting agents: batches of one to three events, and a project manager  *)
(* who accepts, rejects and corrects, with blanks, scores outside the scale *)
(* and fields a correction may not touch.                                  *)
(***************************************************************************)
Signal(id, tenant, type, hint, at) ==
    [id |-> id, tenant |-> tenant, type |-> type, hint |-> hint, createdAt |-> at]

OfferedSignals ==
    [mock |-> <<Signal("m1", "dev-tenant", "github_issue_blocked", "none", 1)>>,
     slack |-> <<Signal("s1", "any", "slack_mention_request", "none", 1),
                 Signal("s2", "any", "slack_mention_request", "high", 2)>>,
     github |-> <<>>,
     calendar |-> <<Signal("c1", "any", "calendar_deadline", "low", 1)>>]

Event(id, source, actors, deadline, labels) ==
    [id |-> id, source |-> source, title |-> {"word"}, timestamp |-> {"word"}, actors |-> actors,
     container |-> {}, status |-> {}, deadline |-> deadline, labels |-> labels,
     impact |-> Absent, effort |-> Absent]

EventBatches ==
    {<<Event("e1", "slack", {"ann"}, {"today"}, {})>>,
     <<[Event("e1", "gmail", {""}, {}, {}) EXCEPT !.impact = 40]>>,
     \* Related by an actor and by a label; an unrelated one; a duplicate.
     <<Event("e1", "slack", {"ann"}, {}, {"x"}), Event("e2", "gmail", {"ann"}, {"tomorrow"}, {}),
       Event("e3", "notion", {"bob"}, {}, {"x"})>>,
     <<Event("e1", "google_calendar", {"ann"}, {"today"}, {}), Event("e2", "gmail", {"bob"}, {}, {}),
       Event("e1", "google_calendar", {"ann"}, {"today"}, {})>>,
     \* One suspicious event blocks its batch; one without a title is dropped.
     <<Event("e1", "slack", {"ann"}, {"today"}, {}),
       [Event("e2", "slack", {"bob"}, {}, {}) EXCEPT !.title = {"instruction"}]>>,
     <<[Event("e1", "slack", {"ann"}, {"today"}, {}) EXCEPT !.title = {}],
       [Event("e2", "notion", {}, {"today"}, {}) EXCEPT !.status = {"word"}, !.container = {"word"}]>>}

Judgment(action, correction) ==
    [draft |-> "this", action |-> action, dated |-> TRUE, correction |-> correction]

ManagerJudgments ==
    {Judgment("accept", <<>>), Judgment("reject", <<>>), Judgment("defer", <<>>),
     Judgment("correct", <<>>),
     Judgment("correct", [deadline |-> {"today"}, actors |-> {"ann", ""}]),
     Judgment("correct", [deadline |-> {}, impact |-> 99]),
     Judgment("correct", [nextAction |-> {"word"}, ids |-> {"other"}, status |-> "accepted"]),
     Judgment("correct", [ids |-> {"other"}]),
     [Judgment("accept", <<>>) EXCEPT !.draft = "other"],
     [Judgment("reject", <<>>) EXCEPT !.dated = FALSE],
     Judgment("archive", <<>>)}

----------------------------------------------------------------------------
\* The components' forms of inputs, for the scenes below.
Admission == INSTANCE RequestAdmission

Form == INSTANCE ApprovalMac WITH
    calls <- macs, now <- instant, Objects <- {}, Keys <- {}, Calls <- {},
    MaxNow <- 0, MaxEdits <- 0, MaxRotations <- 0

Texts == INSTANCE LlmIngest WITH
    scene <- ingest, work <- stages, Scenes <- {}

Path == INSTANCE RequestPath WITH
    scene <- mix, pc <- place, now <- clock, Requests <- {r1, r2}, Scenes <- RequestScenes,
    Signals <- OfferedSignals, DevTenant <- "dev-tenant", DevUser <- "dev-user",
    MAX_REQUESTS <- 1, WINDOW_MS <- 5, MAX_STORE_ENTRIES <- 4, EvictedShare <- 10

Limiter == INSTANCE RateLimitOverTime WITH
    now <- moment, Keys <- {"k1", "k2", "k3"}, MaxNow <- 6,
    MAX_REQUESTS <- 2, WINDOW_MS <- 2, MAX_STORE_ENTRIES <- 2, EvictedShare <- 10

Mac == INSTANCE ApprovalMac WITH
    calls <- macs, now <- instant, Objects <- PayloadForms,
    Keys <- {[tenant |-> 1, id |-> 1, version |-> 1], [tenant |-> 1, id |-> 1, version |-> 2],
             [tenant |-> 1, id |-> 2, version |-> 1]},
    Calls <- {<<"compute", 1>>, <<"verify", 1>>}, MaxNow <- 1, MaxEdits <- 1, MaxRotations <- 1

Board == INSTANCE Dashboard WITH
    scene <- page, spent <- efforts, Scenes <- DashboardScenes, Users <- {"u1", "u2"},
    MaxCalls <- 3, MaxPreviews <- 2

Ingest == INSTANCE LlmIngest WITH
    scene <- ingest, work <- stages, Scenes <- IngestScenes

Drafting == INSTANCE WorkUnitDrafting WITH
    made <- artefacts, approvals <- desk, Batches <- EventBatches, Judgments <- ManagerJudgments,
    Refs <- {Absent, "ref"}, MaxJudgments <- 2, MaxApprovals <- 2, MaxResults <- 2

----------------------------------------------------------------------------
(***************************************************************************)
(* Deployments and request mixes: two requests at a time, chosen so that   *)
(* every route, every kind of deployment and every race between a pair of  *)
(* handlers is met.                                                        *)
(***************************************************************************)
Origin == [scheme |-> "https", host |-> "atra", port |-> 443]

Entry1 == <<[origin |-> Origin, exact |-> TRUE]>>

Flags(on) == [f \in Range(Admission!ForbiddenProductionCapabilities) |-> IF f \in on THEN "true" ELSE "absent"]

Env(db, mode, flags, adapter, nodeEnv) ==
    [CONTROL_DB |-> db, TENANT_DB_DEFAULT |-> db, PERSISTENCE_MODE |-> mode,
     EXTERNAL_ACTIONS_ENABLED |-> "absent", flags |-> Flags(flags), AUTH_ADAPTER |-> adapter,
     JWT |-> [secret |-> "strong", issuer |-> TRUE, audience |-> TRUE], LLM |-> "absent",
     ALLOWED_ORIGINS |-> Entry1, NODE_ENV |-> nodeEnv]

NoEnv == Env(FALSE, "absent", {}, "absent", "development")

Cloudflare(env) == [cloudflare |-> [present |-> TRUE, env |-> env],
                    injected |-> [present |-> FALSE, production |-> FALSE, env |-> NoEnv],
                    process |-> NoEnv]

Local(process, db) ==
    [cloudflare |-> [present |-> FALSE, env |-> NoEnv],
     injected |-> [present |-> TRUE, production |-> FALSE, env |-> Env(db, "absent", {}, "absent", "development")],
     process |-> process]

Production == Cloudflare(Env(TRUE, "d1", {}, "jwt", "production"))

Developer == {"ALLOW_DEV_SESSION", "ALLOW_DEV_WORKSPACE_BOOTSTRAP"}

Headers == [method |-> "POST", host |-> [scheme |-> "none", host |-> "atra", port |-> 0],
            origin |-> Origin, referer |-> Admission!NoHeader, declared |-> "within",
            contentType |-> [essence |-> "application/json", params |-> {}]]

Jwt(user) == [form |-> "HS256", signed |-> TRUE,
              claims |-> [sub |-> user, email |-> TRUE, exp |-> 2, nbf |-> 0, iss |-> TRUE, aud |-> TRUE]]

Asking(route, user, source, unit, value) ==
    [route |-> route, token |-> Jwt(user), source |-> source, unit |-> unit, value |-> value,
     headers |-> Headers, parameters |-> TRUE, rid |-> "x1",
     body |-> [bytes |-> "some", json |-> "object", keys |-> {"source"}]]

RefreshBy(user, source) == Asking("refresh", user, source, "s1", "none")

FeedbackBy(user, unit, value) == Asking("feedback", user, "mock", unit, value)

Get(route, user) == Asking(route, user, "slack", "s1", "none")

Pair(a, b) == (r1 :> a) @@ (r2 :> b)

Workspaces == {"dev-tenant", "t1", "t2"}

Accounts == {"dev-user", "u1", "u2"}

Nobody == [status |-> "none", role |-> "none"]

Control(users, member, tenants, registry) ==
    [users |-> users,
     identities |-> [u \in Accounts |-> IF u \in users THEN u ELSE "none"],
     memberships |-> [u \in Accounts |-> [t \in Workspaces |->
                        IF u \in users THEN member[u][t] ELSE Nobody]],
     tenants |-> [t \in Workspaces |-> IF t \in tenants THEN "active" ELSE "none"],
     registry |-> [t \in Workspaces |-> IF t \in tenants THEN registry ELSE "none"]]

NoAccounts == Control({}, <<>>, {}, "none")

\* u1 works for t1 and u2 for the second tenant given, in the second role.
Staff(t, role, registry) ==
    Control({"u1", "u2"},
            [u \in {"u1", "u2"} |-> [x \in Workspaces |->
                IF u = "u1" /\ x = "t1" THEN [status |-> "active", role |-> "admin"]
                ELSE IF u = "u2" /\ x = t THEN [status |-> "active", role |-> role]
                ELSE Nobody]],
            {"t1", "t2"}, registry)

Scene(h, c, units, a, b) ==
    [host |-> h, control |-> c, rows |-> units, requests |-> Pair(a, b),
     maxNow |-> 0, maxFaults |-> 1, maxChanges |-> 0]

\* The same with an administrator, or with a clock.
Governed(s) == {[s EXCEPT !.maxChanges = 1]}

Timed(s) == {[s EXCEPT !.maxNow = 1]}

UnitRow(t, status) == [tenant |-> t, status |-> status]

Nothing == <<>>

CloudflareScenes ==
    \* Two tenants refresh the same ids.
    {Scene(Production, Staff("t2", "pm", "active"), Nothing,
           RefreshBy("u1", "slack"), [RefreshBy("u2", "slack") EXCEPT !.rid = "x2"])}
    \* One tenant: a refresh against a decision, and two decisions.
    \cup Governed(Scene(Production, Staff("t1", "editor", "active"), "s1" :> UnitRow("t1", "open"),
                        RefreshBy("u1", "slack"), FeedbackBy("u2", "s1", "done")))
    \cup Timed(Scene(Production, Staff("t1", "editor", "active"), "s1" :> UnitRow("t1", "open"),
                     [FeedbackBy("u1", "s1", "useful") EXCEPT !.token.claims.exp = 1],
                     FeedbackBy("u2", "s1", "later")))
    \* A viewer and a foreign unit; reads against writes.
    \cup Governed(Scene(Production, Staff("t1", "viewer", "active"), "s1" :> UnitRow("t2", "done"),
                        RefreshBy("u2", "all"), Get("inbox", "u1")))
    \cup Governed(Scene(Production, Staff("t2", "owner", "active"), "s1" :> UnitRow("t1", "open"),
                        FeedbackBy("u1", "s1", "done"), Get("audit", "u2")))
    \* A mapping that is migrating, and one of an unsupported schema.
    \cup Governed(Scene(Production, Staff("t1", "manager", "migrating"), "s1" :> UnitRow("t1", "open"),
                        FeedbackBy("u1", "s1", "done"), Get("inbox", "u2")))
    \cup {Scene(Production, Staff("t1", "guest", "unsupported"), Nothing,
                Get("integrations", "u1"), Get("approvalStatus", "u2")),
    \* A development flag, no usable secret, and a caller over the limit.
          Scene(Cloudflare(Env(TRUE, "d1", {"ALLOW_DEV_SESSION"}, "jwt", "production")), NoAccounts, Nothing,
                RefreshBy("u1", "slack"), Get("inbox", "u1")),
          Scene(Cloudflare([Env(TRUE, "d1", {}, "jwt", "production") EXCEPT !.JWT.issuer = FALSE]),
                Staff("t1", "owner", "active"), Nothing, RefreshBy("u1", "slack"), Get("inbox", "u1")),
          Scene(Production, Staff("t1", "owner", "active"), Nothing,
                RefreshBy("u1", "mock"), [RefreshBy("u1", "mock") EXCEPT !.parameters = FALSE])}

LocalScenes ==
    \* An empty workspace bootstrapped by two requests, or read meanwhile.
    {Scene(Local(Env(FALSE, "d1", Developer, "dev", "development"), TRUE), NoAccounts, Nothing,
           RefreshBy("none", "mock"), [RefreshBy("none", "mock") EXCEPT !.rid = "x2"]),
     Scene(Local(Env(FALSE, "d1", Developer, "dev", "development"), TRUE), NoAccounts, Nothing,
           RefreshBy("none", "mock"), Get("inbox", "none")),
    \* No database at all: in memory, and disabled with the fallback.
     Scene(Local(Env(FALSE, "absent", {"ALLOW_DEV_SESSION", "ALLOW_DEV_CONTROLLESS_SESSION",
                                     "ALLOW_IN_MEMORY_PERSISTENCE"}, "dev", "development"), FALSE),
           NoAccounts, Nothing, RefreshBy("none", "all"), FeedbackBy("none", "s1", "done")),
     Scene(Local(Env(FALSE, "absent", {"ALLOW_DEV_SESSION", "ALLOW_DEV_CONTROLLESS_SESSION"},
                     "dev", "development"), FALSE),
           NoAccounts, Nothing, Get("inbox", "none"), Get("integrations", "none")),
    \* A Node production process, without a tenant database and with one.
     Scene([Local(Env(FALSE, "d1", {}, "jwt", "production"), TRUE)
              EXCEPT !.injected.env.TENANT_DB_DEFAULT = FALSE],
           Staff("t1", "owner", "active"), Nothing, Get("inbox", "u1"), RefreshBy("u1", "slack")),
     Scene(Local([Env(FALSE, "d1", {}, "jwt", "production") EXCEPT !.ALLOWED_ORIGINS = <<>>], TRUE),
           Staff("t1", "owner", "active"), Nothing,
           Get("audit", "u1"), [RefreshBy("u1", "slack") EXCEPT !.headers.origin = Admission!NoHeader])}

RequestMixes == CloudflareScenes \cup LocalScenes

----------------------------------------------------------------------------
(***************************************************************************)
(* Payloads to sign: a valid one, and one for each thing that validation,  *)
(* the gates or a second read can tell apart.                              *)
(***************************************************************************)
Value(kind, n) == [kind |-> kind, n |-> n]

Payload == [f \in Form!Fields |->
           IF f = "human_review_required" THEN Value("boolean", 1)
           ELSE IF f = "no_go_flags" THEN Value("strings", 0)
           ELSE IF f \in Form!NULLABLE_STRING_FIELDS THEN Value("null", 0)
           ELSE IF f \in Form!HASH_FIELDS THEN Value("hash", 1)
           ELSE IF f = "created_at" THEN Value("iso", 0)
           ELSE IF f = "expires_at" THEN Value("iso", 1)
           ELSE Value("text", 1)]

Fixed(values) == [first |-> values, later |-> values]

Having(f, v) == Fixed([Payload EXCEPT ![f] = v])

\* An accessor: a field that answers v on the first read and w afterwards.
Turning(f, v, w) == [Having(f, v) EXCEPT !.later = [Payload EXCEPT ![f] = w]]

PayloadObjects ==
    { Fixed(Payload),
      Having("payload_hash", Value("hash", 2)),
      Having("expires_at", Value("isoInvalid", 1)),
      Having("no_go_flags", Value("strings", 1)),
      Having("canonicalization_algorithm", Value("text", 2)),
      Having("key_version", Value("text", 2)),
      Having("nonce", Value("undefined", 0)),
      Fixed(Payload @@ ("display" :> Value("text", 1))),
      Turning("expires_at", Value("iso", 2), Value("iso", 1)),
      Turning("payload_hash", Value("hash", 2), Value("hash", 1)),
      Turning("key_version", Value("text", 1), Value("text", 2)) }

----------------------------------------------------------------------------
(***************************************************************************)
(* A page over two units, and pages that only load one unit of every       *)
(* classification.                                                         *)
(***************************************************************************)
Unit(id, provider, repository, kind, due, words) ==
    [id |-> id, provider |-> provider, repository |-> repository, kind |-> kind, due |-> due,
     words |-> words]

UnitA == Unit("UnitA", "slack", FALSE, "missed_response", FALSE, {"reply"})

UnitB == Unit("UnitB", "github", TRUE, "review_waiting", FALSE, {"pr"})

Working(gestures, events) ==
    [inbox |-> <<UnitA, UnitB>>, user |-> "u1", maxGestures |-> gestures, maxEvents |-> events]

WorkingPages == {Working(4, 1), Working(2, 2)}

LoadingPages ==
    {[inbox |-> <<Unit("UnitA", p, r, k, due, words)>>, user |-> "u1", maxGestures |-> 0, maxEvents |-> 0] :
        p \in {"slack", "github", "calendar"}, r \in BOOLEAN, due \in BOOLEAN,
        k \in {"deadline", "blocker", "missed_response", "review_waiting"},
        words \in SUBSET {"reply", "issue", "send", "schedule", "upsert"}}
    \cup {[inbox |-> <<>>, user |-> "u1", maxGestures |-> 1, maxEvents |-> 1]}

AnyPage == WorkingPages \cup LoadingPages

\* UnitA colleague's decision is the only thing that happens elsewhere.
SwitchingPage == {Working(4, 1)}

----------------------------------------------------------------------------
(***************************************************************************)
(* Requests of the tools route from hosts of every kind, and library calls *)
(* with a mock and with a remote provider whose answers are good, odd or   *)
(* oversized.                                                              *)
(***************************************************************************)
Plain(len) == Texts!Text(len, {})

Meta == [title |-> Plain(1), actor |-> Plain(1), container |-> Plain(1)]

\* Signals: plain, long, with a list for an actor, with a credential in a
\* field that is never sent, with instructions in one that is or is not.
Metas ==
    {Meta,
     [title |-> Plain(1), summary |-> Plain(3)],
     [title |-> Plain(3), summary |-> Plain(6)],
     [title |-> Texts!Empty, actor |-> Absent, actors |-> Plain(1), body |-> Plain(1)],
     [title |-> Plain(1), container |-> Texts!Text(1, {"sensitive"})],
     [title |-> Texts!Text(1, {"sensitive"}), summary |-> Plain(1)],
     [title |-> Texts!Text(1, {"instruction"})],
     [title |-> Plain(1), summary |-> Texts!Text(1, {"injection", "instruction"})],
     [title |-> Plain(1), rawContent |-> Texts!Text(1, {"injection"})]}

Signalled(meta) ==
    [id |-> "e1", source |-> "slack", title |-> {"word"}, timestamp |-> {"word"}, actors |-> {"ann"},
     container |-> {}, status |-> {}, deadline |-> {"today"}, labels |-> {},
     impact |-> Absent, effort |-> Absent, meta |-> meta]

Size == [nodes |-> 20, depth |-> 3, text |-> 6000, array |-> 3]

ToolRequest(operation, meta) ==
    [id |-> "r1", source |-> "slack", operation |-> operation, event |-> Signalled(meta), draft |-> Absent, size |-> Size]

AcceptedDraft == [Texts!candidateToWorkUnitDraft(Texts!sanitizeSourceEvent(Signalled(Meta))) EXCEPT !.status = "accepted"]

ToolRequests ==
    {ToolRequest("ingest", m) : m \in Metas}
    \cup {ToolRequest("draft", Meta),
          [ToolRequest("draft", Meta) EXCEPT !.event.title = {"instruction"}],
          [ToolRequest("ingest", Meta) EXCEPT !.event.timestamp = {}],
          [ToolRequest("ingest", Meta) EXCEPT !.event.source = "gmail"],
          [ToolRequest("ingest", Meta) EXCEPT !.source = "github"],
          [ToolRequest("ingest", Meta) EXCEPT !.size.depth = 21],
          [ToolRequest("create_task", Meta) EXCEPT !.draft = AcceptedDraft],
          [ToolRequest("create_task", Meta) EXCEPT !.draft = [AcceptedDraft EXCEPT !.deadline = {"unspecified"}]],
          ToolRequest("create_task", Meta)}

Hosts == [production : BOOLEAN, allowMock : BOOLEAN, legacyFallback : BOOLEAN]

Host == [production |-> FALSE, allowMock |-> FALSE, legacyFallback |-> FALSE]

Extraction(summary, problem, actors, flags) ==
    [summary |-> Plain(summary), problem |-> Plain(problem), actors |-> actors, riskFlags |-> flags,
     confidence |-> 150]

Drafted(lens, tasks, actors, missing, score) ==
    [title |-> Plain(lens), situation |-> Plain(1), problem |-> Texts!Empty, nextAction |-> Texts!Text(0, {}),
     tasks |-> Plain(tasks), actors |-> actors, missingFields |-> missing,
     impact |-> score, urgency |-> score, effort |-> Absent, weight |-> score]

Evaluating(complete, executable, missing) ==
    [isComplete |-> complete, isExecutable |-> executable, missingFields |-> missing,
     hallucinationRisk |-> IF complete THEN "none" ELSE "absurd"]

Replies3 ==
    [extract_candidate |->
        {Extraction(1, 1, {"ann"}, {}), Extraction(1, 0, {}, {"hallucinated_field_detected"}),
         Extraction(0, 1, {}, {}), Extraction(2, 2, {}, {}), Extraction(1, 1, {}, {"sensitive_data_detected"})},
     generate_workunit_draft |->
        {Drafted(1, 1, {"ann"}, {}, 9), Drafted(1, 1, {}, {"Deadline"}, -4), Drafted(1, 1, {}, {"A", "B", "C"}, 3),
         Drafted(0, 0, {}, {}, 3), Drafted(2, 0, {}, {}, 3)},
     evaluate_workunit |->
        {Evaluating(TRUE, TRUE, {}), Evaluating(FALSE, TRUE, Absent), Evaluating(TRUE, FALSE, {"Owner"})}]

Mock == [kind |-> "mock", replies |-> Replies3]

DeepSeek(url, production) ==
    [kind |-> "deepseek", key |-> TRUE, baseUrl |-> url, production |-> production, replies |-> Replies3]

Providers == {Mock, DeepSeek("public", TRUE), DeepSeek("loopback", FALSE), DeepSeek("loopback", TRUE),
              DeepSeek("private", FALSE), [DeepSeek("public", TRUE) EXCEPT !.key = FALSE]}

AnyIngest ==
    [via : {"route"}, host : Hosts, request : ToolRequests, permitted : {TRUE}, provider : {Mock}]
    \cup [via : {"route"}, host : {Host}, request : {ToolRequest("ingest", Meta)}, permitted : {FALSE}, provider : {Mock}]
    \cup [via : {"library"}, host : {Host}, request : {ToolRequest("ingest", m) : m \in Metas}, permitted : {TRUE},
          provider : Providers]

----------------------------------------------------------------------------
requestVars == <<mix, rt, place, loc, control, work, feedback, audit, usage, limiter, clock,
                 faults, changes, since, settled>>

limiterVars == <<store, moment, watched, admitted>>

macVars == <<object, vault, macs, issued, instant, spent>>

pageVars == <<page, ui, calls, previews, approvals, session, efforts>>

ingestVars == <<ingest, pc, wire, stages, prompts, audits, answer>>

draftVars == <<draft, sourceOf, artefacts, desk, results, judgments, granted, accepted>>

RequestOff ==
    /\ mix = Off /\ rt = Off /\ place = Off /\ loc = Off /\ control = Off
    /\ work = Off /\ feedback = Off /\ audit = Off /\ usage = Off /\ limiter = Off
    /\ clock = Off /\ faults = Off /\ changes = Off /\ since = Off /\ settled = Off

LimiterOff ==
    /\ store = Off /\ moment = Off /\ watched = Off /\ admitted = Off

MacOff ==
    /\ object = Off /\ vault = Off /\ macs = Off /\ issued = Off /\ instant = Off
    /\ spent = Off

PageOff ==
    /\ page = Off /\ ui = Off /\ calls = Off /\ previews = Off /\ approvals = Off
    /\ session = Off /\ efforts = Off

IngestOff ==
    /\ ingest = Off /\ pc = Off /\ wire = Off /\ stages = Off /\ prompts = Off
    /\ audits = Off /\ answer = Off

DraftOff ==
    /\ draft = Off /\ sourceOf = Off /\ artefacts = Off /\ desk = Off /\ results = Off
    /\ judgments = Off /\ granted = Off /\ accepted = Off

\* A request nobody makes.
DryRunIdle ==
    /\ Init
    /\ \A i \in Refs : rows[i].status = "absent"

RoutesInit ==
    /\ part \in Parts
    /\ IF part = "dry_run" THEN Init ELSE DryRunIdle
    /\ IF part = "requests" THEN Path!Init ELSE RequestOff
    /\ IF part = "limiter" THEN Limiter!Init ELSE LimiterOff
    /\ IF part = "mac" THEN Mac!Init ELSE MacOff
    /\ StoresInit
    /\ IF part = "dashboard" THEN Board!Init ELSE PageOff
    /\ IF part = "ingest" THEN Ingest!Init ELSE IngestOff
    /\ IF part = "drafting" THEN Drafting!Init ELSE DraftOff

RoutesNext ==
    \/ part = "dry_run" /\ Next
       /\ UNCHANGED <<part, requestVars, limiterVars, macVars, storeVars, pageVars, ingestVars, draftVars>>
    \/ part = "requests" /\ Path!Next
       /\ UNCHANGED <<part, vars, limiterVars, macVars, storeVars, pageVars, ingestVars, draftVars>>
    \/ part = "limiter" /\ Limiter!Next
       /\ UNCHANGED <<part, vars, requestVars, macVars, storeVars, pageVars, ingestVars, draftVars>>
    \/ part = "mac" /\ Mac!Next
       /\ UNCHANGED <<part, vars, requestVars, limiterVars, storeVars, pageVars, ingestVars, draftVars>>
    \/ part = "stores" /\ StoresNext
       /\ UNCHANGED <<part, vars, requestVars, limiterVars, macVars, pageVars, ingestVars, draftVars>>
    \/ part = "dashboard" /\ Board!Next
       /\ UNCHANGED <<part, vars, requestVars, limiterVars, macVars, storeVars, ingestVars, draftVars>>
    \/ part = "ingest" /\ Ingest!Next
       /\ UNCHANGED <<part, vars, requestVars, limiterVars, macVars, storeVars, pageVars, draftVars>>
    \/ part = "drafting" /\ Drafting!Next
       /\ UNCHANGED <<part, vars, requestVars, limiterVars, macVars, storeVars, pageVars, ingestVars>>

allVars == <<part, vars, requestVars, limiterVars, macVars, storeVars, pageVars, ingestVars, draftVars>>

(***************************************************************************)
(* The fairness of DryRun, RequestPath, Dashboard and LlmIngest.  Only one *)
(* of them runs, so weak fairness of a disjunction of their steps is weak  *)
(* fairness of the step of the one that runs.                              *)
(***************************************************************************)
OfDryRun(A) == part = "dry_run" /\ A /\ UNCHANGED <<part, requestVars, limiterVars, macVars, storeVars, pageVars, ingestVars, draftVars>>

OfRequest(r) ==
    /\ part = "requests" /\ Path!Step(r) /\ Path!Observe
    /\ UNCHANGED <<part, vars, limiterVars, macVars, storeVars, pageVars, ingestVars, draftVars>>

OfPage(A) == part = "dashboard" /\ A /\ UNCHANGED <<part, vars, requestVars, limiterVars, macVars, storeVars, ingestVars, draftVars>>

OfIngest(A) == part = "ingest" /\ A /\ UNCHANGED <<part, vars, requestVars, limiterVars, macVars, storeVars, pageVars, draftVars>>

RoutesSpec ==
    /\ RoutesInit
    /\ [][RoutesNext]_allVars
    /\ WF_allVars(OfDryRun(Handler) \/ OfRequest(r1) \/ OfPage(Board!Serve(1)) \/ OfIngest(Ingest!Post))
    /\ WF_allVars(OfRequest(r2) \/ OfPage(Board!Deliver(1)) \/ OfIngest(Ingest!Call))
    /\ WF_allVars(OfPage(Board!Serve(2)) \/ OfIngest(Ingest!MockAnswer))
    /\ WF_allVars(OfPage(Board!Deliver(2)) \/ OfIngest(Ingest!Expire))
    /\ WF_allVars(OfPage(Board!Serve(3)))
    /\ WF_allVars(OfPage(Board!Deliver(3)))

----------------------------------------------------------------------------
(***************************************************************************)
(* What each component promises.  The conjuncts are stated and explained   *)
(* in the component's own module.                                          *)
(***************************************************************************)
(***************************************************************************)
(* What a request reads belongs to its tenant; a settled decision survives *)
(* every later refresh; feedback answered with ok is stored and audited; a *)
(* bootstrapped request found or made every record; generated data is      *)
(* never served in production (RequestPath).                               *)
(***************************************************************************)
StoredDataIsSound ==
    part = "requests" =>
        /\ Path!ReadsAreOwn /\ Path!SettledDecisionsSurvive /\ Path!AcknowledgedFeedbackIsStored
        /\ Path!BootstrapIsComplete /\ Path!ProductionServesStoredData

(***************************************************************************)
(* A caller whose entry is not evicted is admitted at most twice the limit *)
(* in any window's length, a window counts exactly its admissions, and the *)
(* store keeps its bound (RateLimitOverTime).                              *)
(***************************************************************************)
AdmissionsAreLimited ==
    part = "limiter" =>
        /\ Limiter!AdmissionsAreLimited /\ Limiter!WindowsCountTheirAdmissions
        /\ Limiter!StoreStaysBounded

(***************************************************************************)
(* A payload verifies if it was signed, value for value and with the key   *)
(* it names, and only then, until it expires, though the payload may       *)
(* change while the key is awaited (ApprovalMac).                          *)
(***************************************************************************)
MacsAreExact ==
    part = "mac" => Mac!VerifiedMeansIssued /\ Mac!IssuedVerifies /\ Mac!MacsUseTheNamedKey

(***************************************************************************)
(* A stored decision concerns a preview of its unit, the previewed action  *)
(* is a drafted one, a created preview's approval is known, being fetched  *)
(* or failed, and the completed gate agrees with the readiness line        *)
(* (Dashboard).                                                            *)
(***************************************************************************)
PageIsConsistent ==
    part = "dashboard" =>
        /\ Board!DecisionsAreForTheirPreview /\ Board!PreviewedActionIsDrafted
        /\ Board!PreviewHasApprovalState /\ Board!GatesAgree

(***************************************************************************)
(* The completed gate speaks of the selected unit's approval: "Returns     *)
(* true when the approval is server-confirmed as completed"                *)
(* (approvalDecisionTraceModel.ts:188-192, Dashboard).                     *)
(***************************************************************************)
ApprovalShownIsOwn == part = "dashboard" => Board!ApprovalShownIsOwn

(***************************************************************************)
(* No credential and no instruction reaches a provider, the prompts of the *)
(* first two stages fit their budget, a production host sends none, and a  *)
(* complete draft has no missing field (LlmIngest).                        *)
(***************************************************************************)
PromptsAreSafe ==
    part = "ingest" =>
        /\ Ingest!PromptsAreClean /\ Ingest!PromptsFitTheirStage
        /\ Ingest!ProvidersStayOff /\ Ingest!CompletionNeedsTheDraft

(***************************************************************************)
(* A success log needs an approval of that draft and target, a draft that  *)
(* is complete by its own logs was accepted, and a draft's missing fields  *)
(* are those of the draft as it stands, in any order of judging,           *)
(* correcting and approving (WorkUnitDrafting).                            *)
(***************************************************************************)
DraftsAreSound ==
    part = "drafting" => Drafting!SuccessWasApproved /\ Drafting!MissingFieldsAreCurrent

(***************************************************************************)
(* What a step may never do: answer "verified" when the ref evaluated last *)
(* is no longer current (DryRun); write in a GET handler, write without    *)
(* being entitled to, or give a work unit another tenant (RequestPath);    *)
(* move a draft to other candidates (WorkUnitDrafting).                    *)
(***************************************************************************)
StepsAreEntitled ==
    [][/\ part = "dry_run" => AnsweringCurrent
       /\ part = "requests" => Path!ReadingOnly /\ Path!OwnersKept /\ Path!WritingEntitled
       /\ part = "drafting" => Drafting!IdentityKept]_allVars

(***************************************************************************)
(* Every dry run and every request is answered unless its worker is        *)
(* evicted, every ingest is answered, and a page that is checking an       *)
(* approval stops checking (DryRun, RequestPath, LlmIngest, Dashboard).    *)
(***************************************************************************)
EveryCallSettles ==
    []<>(/\ part = "dry_run" => dry.pc \in {"idle", "done"}
         /\ part = "requests" => \A r \in {r1, r2} : place[r] \in {"answered", "dropped"}
         /\ part = "ingest" => answer # Absent
         /\ part = "dashboard" => ~ui.loading)

=============================================================================
