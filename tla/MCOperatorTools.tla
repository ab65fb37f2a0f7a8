-------------------------- MODULE MCOperatorTools --------------------------
(***************************************************************************)
(* The programs an operator runs by hand, each on its own small instance:  *)
(* the Run-3 acquisition controller, run3-select, the two preflights, the  *)
(* Gmail transport, the local JWT commands, the hermetic smoke runner, the *)
(* local migration command, the bootstrap plan and the acquisition of      *)
(* recorded sources.  They share no state, so a behaviour is one of one of *)
(* them: `part` says which, the variables of the others stay Off (those of *)
(* the controller, of run3-select and of the smoke runner, whose modules   *)
(* are extended, as they are before the program starts).                   *)
(***************************************************************************)
EXTENDS AcquisitionController, SelectOperator, SmokeRunner, TLC

CONSTANTS Parts,               \* the programs to run
          p1, p2,              \* processes of a program that is run twice
          Off,                 \* the value of a variable of a program that does not run
          Absent, Manual       \* of GmailTransport

VARIABLES
    part,
    workspace, preflights, slips, maxSlips,                       \* RunPreflight
    mail, clock, tokenFile, honoured, issued, files, mailbox, procs,   \* GmailTransport
    local, devVars, worker, boot, db, seeded, token, verified, second,  \* LocalJwt
    checkout, pc, verb, dbs, opened, unclosed, tempRoot, at, step, flags, error, before, cleanup,
                                                                  \* LocalMigration
    env, armed, deploy, plan, run, control, executed, edits,      \* BootstrapPlan
    archives, targets, chosen, capture, hand, output, outcome, exchanges  \* RecordedSource

MCProcs == {p1, p2}

Pair(a, b) == (p1 :> a) @@ (p2 :> b)

----------------------------------------------------------------------------
(***************************************************************************)
(* Preflights: a reuse set of two records between a Gmail record, and the  *)
(* slips an operator can make with it.                                     *)
(***************************************************************************)
Row(id, class, number, path) ==
    [provider |-> "github", id |-> id, universe |-> "u", class |-> class, number |-> number,
     path |-> path, hash |-> path, complete |-> TRUE, observedInWindow |-> TRUE]

Chosen(class, number, text) == [universe |-> "u", class |-> class, number |-> number, text |-> text]

GoodDisk ==
    [manifest |-> <<Row(1, "github_issue", 1, "a"),
                    [Row(2, "mail", 0, "m") EXCEPT !.provider = "gmail"],
                    Row(3, "github_pull_request", 2, "b")>>,
     manifestJson |-> TRUE,
     selection |-> {Chosen("github_issue", 1, FALSE), Chosen("github_pull_request", 2, FALSE)},
     artifacts |-> [path \in {"a", "b"} |-> path],
     plan |-> "ratified", sidecar |-> "ratified", client |-> TRUE, refreshToken |-> TRUE,
     stateDir |-> "private", stateFile |-> "absent", space |-> TRUE,
     root |-> [exists |-> TRUE, entries |-> {}]]

Slips == {"truncate", "repeat", "move", "rename", "renumber", "garble", "rehash", "alter", "lose",
          "select", "unselect", "quote", "restore", "plan", "state", "occupy", "remove"}

Slipped(d, name) ==
    LET last == Len(d.manifest)
    IN CASE name = "truncate" -> IF last = 0 THEN d ELSE [d EXCEPT !.manifest = SubSeq(@, 1, last - 1)]
         [] name = "repeat" -> IF last = 0 THEN d ELSE [d EXCEPT !.manifest = Append(@, @[last])]
         [] name = "move" -> IF last = 0 THEN d ELSE [d EXCEPT !.manifest[last].universe = "v"]
         [] name = "rename" -> IF last = 0 THEN d ELSE [d EXCEPT !.manifest[last].number = 1]
         [] name = "renumber" -> IF last = 0 THEN d ELSE [d EXCEPT !.manifest[last].id = 1]
         [] name = "garble" -> [d EXCEPT !.manifestJson = FALSE]
         [] name = "rehash" -> IF last = 0 THEN d ELSE [d EXCEPT !.manifest[last].hash = "none"]
         [] name = "alter" -> [d EXCEPT !.artifacts["b"] = "other"]
         [] name = "lose" -> [d EXCEPT !.artifacts["a"] = "outside"]
         [] name = "select" -> [d EXCEPT !.selection = @ \cup {Chosen("github_issue", 3, FALSE)}]
         [] name = "unselect" -> [d EXCEPT !.selection = @ \ {Chosen("github_issue", 1, FALSE)}]
         [] name = "quote" -> [d EXCEPT !.selection = {[e EXCEPT !.text = TRUE] : e \in @}]
         [] name = "restore" -> [GoodDisk EXCEPT !.root = d.root]
         [] name = "plan" -> [d EXCEPT !.plan = "draft"]
         [] name = "state" -> [d EXCEPT !.stateFile = "garbled"]
         [] name = "occupy" -> IF d.root.exists THEN [d EXCEPT !.root.entries = @ \cup {"file"}] ELSE d
         [] name = "remove" -> [d EXCEPT !.root = [exists |-> FALSE, entries |-> {}]]

\* One slip while two preflights run; or two before one of them starts.
PreflightScenes ==
    {[disk |-> GoodDisk, maxEdits |-> 1, kinds |-> Pair("run2", "run3")],
     [disk |-> Slipped(GoodDisk, "occupy"), maxEdits |-> 0, kinds |-> Pair("run2", "run2")],
     [disk |-> GoodDisk, maxEdits |-> 0, kinds |-> Pair("run2", "run2")]}
    \cup {[disk |-> Slipped(Slipped(GoodDisk, e), f), maxEdits |-> 0, kinds |-> Pair(k, "none")] :
            e \in Slips, f \in Slips, k \in {"run2", "run3"}}

----------------------------------------------------------------------------
(***************************************************************************)
(* Gmail: two commands at a time against the shared token file, a          *)
(* destination or a mailbox.                                               *)
(***************************************************************************)
Token(refresh, expiry) ==
    [refresh |-> refresh, expiry |-> expiry, access |-> [grant |-> refresh, until |-> expiry]]

Calm == [install |-> 0, revoke |-> 0, tamper |-> 0, arrive |-> 0, leave |-> 0, kill |-> 0]

Mailing(client, stored, commands) ==
    [client |-> client, manual |-> "none", token |-> stored, rotates |-> FALSE,
     commands |-> commands, files |-> [f \in {"f"} |-> Absent], mailbox |-> <<>>,
     dates |-> [m \in {"a", "b", "c"} |-> 1], window |-> <<1, 2>>, pageSize |-> 1, gaps |-> FALSE,
     maxNow |-> 0, changes |-> Calm]

With(s, what) == [s EXCEPT !.changes = what @@ @]

Check == [cmd |-> "check"]

AuthorizeMail == [cmd |-> "authorize"]

Acquire(form, bytes) == [cmd |-> "acquire", raw |-> [form |-> form, bytes |-> bytes]]

Enumerate == [cmd |-> "enumerate"]

Refreshing(e, c) == Mailing("installed", Token(1, e), Pair(Check, c))

GmailScenes ==
    \* Two commands that refresh, with rotation and kills, or on a moving clock.
    {With([Refreshing(0, c) EXCEPT !.rotates = r], [kill |-> 1]) : c \in {Check, AuthorizeMail}, r \in BOOLEAN}
    \cup {With([Refreshing(2, c) EXCEPT !.maxNow = 2], [revoke |-> n]) :
            c \in {Check, Acquire("canonical", "m")}, n \in {0, 1}}
    \* First consent, against a second one and against a check.
    \cup {With(Mailing(k, Absent, Pair(AuthorizeMail, Check)), [kill |-> 1, install |-> 1]) :
            k \in {"none", "invalid", "installed"}}
    \cup {Mailing("installed", Absent, Pair(AuthorizeMail, AuthorizeMail))}
    \* Two acquisitions of one destination, other programs writing to it.
    \cup {With(Mailing("installed", Token(1, 3), Pair(Acquire("canonical", "m"), Acquire("canonical", "n"))),
               [tamper |-> 1, kill |-> 1])}
    \cup {[Mailing("none", Absent, Pair(c, d)) EXCEPT !.manual = m] :
            m \in {"none", "malformed", "valid"},
            c \in {Acquire(f, "m") : f \in {"missing", "malformed", "loose"}},
            d \in {[cmd |-> "acquire", place |-> "outside"], [cmd |-> "acquire", validId |-> FALSE]}}
    \* A mailbox that changes while it is enumerated.
    \cup {With([Mailing("installed", Token(1, 3), Pair(Enumerate, [cmd |-> "acquire", validId |-> FALSE]))
                  EXCEPT !.mailbox = <<"a", "b">>, !.pageSize = n, !.gaps = TRUE],
               [arrive |-> 1, leave |-> 1]) : n \in {1, 2}}

----------------------------------------------------------------------------
(***************************************************************************)
(* Smoke runs: undisturbed ones, one or two signals, a root that is        *)
(* replaced, and an operator who works on during the run.                  *)
(***************************************************************************)
Smoking(signals, tampers, moves) == [signals |-> signals, tampers |-> tampers, moves |-> moves]

AnySmoke == {Smoking(2, 0, 0), Smoking(1, 1, 0), Smoking(1, 0, 1), Smoking(0, 1, 1)}

\* One signal and nothing else.
OneSignal == {Smoking(1, 0, 0)}

----------------------------------------------------------------------------
(***************************************************************************)
(* Local JWT: the files, and shells that disagree with them.               *)
(***************************************************************************)
Vars(secret, subject, email) ==
    [secret |-> secret, realm |-> "r1", provider |-> "jwt", subject |-> subject, email |-> email]

DevVarsFiles == {Vars("k1", "a", "x"), Vars("k2", "a", "y"), Vars("k1", "b", "x"),
                 [Vars("short", "b", "y") EXCEPT !.provider = "google"]}

NoShell == [k \in DOMAIN Vars("k1", "a", "x") |-> "absent"]

Session(shell, override, kills, seeds, ticks) ==
    [file |-> Vars("k1", "a", "x"), shell |-> shell, override |-> override,
     edits |-> 2, kills |-> kills, maxSeeds |-> seeds, maxNow |-> ticks]

\* Repeated seeding, a clock, and shells that disagree with the file.
JwtScenes == {Session(NoShell, FALSE, 1, 2, 0), Session(NoShell, FALSE, 0, 1, 3),
              Session([NoShell EXCEPT !.secret = "k2"], FALSE, 0, 1, 1),
              Session([NoShell EXCEPT !.subject = "b"], TRUE, 0, 1, 0)}

----------------------------------------------------------------------------
(***************************************************************************)
(* Local migration, on a manifest shaped like the committed one.           *)
(***************************************************************************)
Migration(seq, path, apply) == [sequence |-> seq, path |-> path, apply |-> apply, sha |-> "v1"]

TenantLane == {Migration(1, "t1", "replay_safe"), Migration(2, "t2", "replay_safe"),
               Migration(3, "t3", "once")}

Manifest ==
    [lanes |-> [CONTROL_DB |-> {Migration(1, "c1", "replay_safe")}, TENANT_DB_DEFAULT |-> TenantLane],
     planDigest |-> TenantLane]

Committed == [c1 |-> "v1", t1 |-> "v1", t2 |-> "v1", t3 |-> "v1"]

CommandLines ==
    [verb : {"plan", "apply", "verify", "preflight", "other"},
     env : {"local", "staging", "production", "other"},
     remote : BOOLEAN, confirm : BOOLEAN,
     asserted : [account : BOOLEAN, project : BOOLEAN, equal : BOOLEAN],
     trusted : [account : BOOLEAN, project : BOOLEAN, wellFormed : BOOLEAN], unknown : BOOLEAN]

\* The committed checkout; a file rewritten and not re-pinned; a file missing.
LocalCheckouts ==
    {[manifest |-> Manifest, files |-> fs] :
       fs \in {Committed, [Committed EXCEPT !.t3 = "v2"], [c1 |-> "v1", t1 |-> "v1", t2 |-> "v1"]}}

----------------------------------------------------------------------------
(***************************************************************************)
(* Bootstrap plan: two real databases, a spare and a placeholder id.       *)
(***************************************************************************)
RealIds == {"id1", "id2"}

Root == [dir |-> "root", ignored |-> TRUE, link |-> FALSE]

D1(b, id, name) == [binding |-> b, id |-> id, name |-> name]

Config(c, t, names) ==
    [d1 |-> <<D1("CONTROL_DB", c, names[1]), D1("TENANT_DB_DEFAULT", t, names[2])>>, defects |-> {}]

Named == <<"ctl", "ten">>

Good == Config("id1", "id2", Named)

File(where, private, config) ==
    [at |-> where, private |-> private, parses |-> TRUE, config |-> config]

DeployFiles ==
    {File(Root, TRUE, c) : c \in
       {Good, Config("id2", "id1", Named), Config("id1", "id1", Named),
        Config("id1", "id2", <<"ctl", "ctl">>),
        [Good EXCEPT !.defects = {"external_actions_not_false"}],
        [Good EXCEPT !.d1 = @ \o <<D1("EXTRA", "id1", "ten")>>],
        [Good EXCEPT !.d1 = @ \o <<D1("CONTROL_DB", "id2", "ten")>>],
        [Good EXCEPT !.d1 = <<@[1]>>]}}
    \cup {File([Root EXCEPT !.dir = d], TRUE, Good) : d \in {"sub", "outside", "linked"}}
    \cup {File([Root EXCEPT !.ignored = FALSE], TRUE, Good),
          File([Root EXCEPT !.link = TRUE], TRUE, Good),
          File(Root, FALSE, Good), [File(Root, TRUE, Good) EXCEPT !.parses = FALSE]}

OperatorInputs ==
    [databaseId : RealIds, databaseName : {"ten"}, tenant : {"a", "b"}, valid : {TRUE}]
    \cup {[databaseId |-> "id2", databaseName |-> "ctl", tenant |-> "a", valid |-> TRUE],
          [databaseId |-> "id2", databaseName |-> "ten", tenant |-> "a", valid |-> FALSE]}

PreparedIds ==
    [{"CONTROL_DB", "TENANT_DB_DEFAULT"} -> {"id1", "id2", "placeholder"}]

----------------------------------------------------------------------------
(***************************************************************************)
(* Recorded sources: a retained issue, a retained pull request, and each   *)
(* of them with one thing changed.                                         *)
(***************************************************************************)
Instant(number, fraction) ==
    [second |-> number, fraction |-> fraction, shaped |-> TRUE, dated |-> TRUE]

Undated(t) == [t EXCEPT !.dated = FALSE]

Text(name) == [name |-> name, flaws |-> {}]

\* Seven is the largest safe integer of this instance.
Body(pull, id) ==
    [object |-> TRUE, head |-> pull, base |-> pull, id |-> [type |-> "number", n |-> id],
     created_at |-> Instant(0, <<>>)]

Archive(name, body) ==
    [object |-> TRUE, keys |-> {}, archiveVersion |-> "1", captureId |-> Text(name),
     tenantPartition |-> Text("tenant"), acquisitionMode |-> "HUMAN_TRIGGERED_PROVIDER_EXPORT",
     observedAt |-> Instant(1, <<>>),
     capturedFrom |-> [object |-> TRUE, keys |-> {}, texts |-> {Text("url")}, requestMethod |-> "GET",
                       acceptHeader |-> "application/vnd.github+json", providerApiVersion |-> "2022-11-28"],
     retainedContent |-> [object |-> TRUE, keys |-> {}, retention |-> "INLINE_BYTES", canonical |-> TRUE,
                          bytes |-> body]]

WithBody(a, body) == [a EXCEPT !.retainedContent.bytes = body]

Variants(a) ==
    LET body == a.retainedContent.bytes
        flaw == {"control"}
    IN {a} \cup
       {[a EXCEPT !.object = FALSE], [a EXCEPT !.keys = {"unknown", "missing"}], [a EXCEPT !.keys = {"missing"}],
        [a EXCEPT !.archiveVersion = "2"], [a EXCEPT !.captureId.flaws = flaw],
        [a EXCEPT !.tenantPartition.flaws = flaw], [a EXCEPT !.tenantPartition.flaws = {"long"}],
        [a EXCEPT !.tenantPartition = Text("other")], [a EXCEPT !.acquisitionMode = "other"]}
       \cup {[a EXCEPT !.observedAt = t] :
               t \in {Instant(1, <<5>>), Instant(1, <<0, 5>>), Instant(2, <<0>>), Undated(Instant(1, <<>>)),
                      [Instant(1, <<>>) EXCEPT !.shaped = FALSE]}}
       \cup {[a EXCEPT !.capturedFrom.object = FALSE], [a EXCEPT !.capturedFrom.keys = {"missing"}],
             [a EXCEPT !.capturedFrom.texts = {[name |-> "url", flaws |-> flaw]}],
             [a EXCEPT !.capturedFrom.requestMethod = "POST"],
             [a EXCEPT !.capturedFrom.acceptHeader = "diff"],
             [a EXCEPT !.capturedFrom.providerApiVersion = "other"]}
       \cup {[a EXCEPT !.retainedContent.object = FALSE], [a EXCEPT !.retainedContent.keys = {"unknown"}],
             [a EXCEPT !.retainedContent.retention = "other"], [a EXCEPT !.retainedContent.canonical = FALSE]}
       \cup {WithBody(a, b) :
               b \in {[body EXCEPT !.object = FALSE], [body EXCEPT !.head = ~@], [body EXCEPT !.base = ~@],
                      [body EXCEPT !.id.type = "string"], [body EXCEPT !.created_at = Absent],
                      [body EXCEPT !.created_at = Undated(@)]}
                     \cup {[body EXCEPT !.id.n = n] : n \in {0, 7, 8, 9, 11}}}

Issue == Archive("issue", Body(FALSE, 1))

\* Its key is also the key of an issue.
PullRequest == Archive("pull", Body(TRUE, 1))

Retrieval(a, b, name) == [files |-> ("issue" :> a) @@ ("pull-request" :> b), selected |-> name]

SourceScenes ==
    {Retrieval(a, PullRequest, name) : a \in Variants(Issue), name \in {Absent, "issue"}}
    \cup {Retrieval(Issue, b, name) : b \in Variants(PullRequest), name \in {Absent, "pull-request"}}
    \cup {Retrieval(PullRequest, Issue, Absent), Retrieval(Issue, Absent, Absent),
          Retrieval(Issue, PullRequest, "typo")}

\* Date.toISOString gives three digits.
ProcessClock == {Instant(0, <<9, 9, 9>>), Instant(1, <<0, 5, 0>>), Instant(1, <<5, 0, 0>>), Instant(2, <<0, 0, 0>>)}

----------------------------------------------------------------------------
Preflight == INSTANCE RunPreflight WITH
    disk <- workspace, procs <- preflights, edits <- slips, maxEdits <- maxSlips, Procs <- MCProcs,
    Scenes <- PreflightScenes, Edits <- Slips, Edited <- Slipped, EXPECTED_RUN2_GITHUB_REUSE_COUNT <- 2

Gmail == INSTANCE GmailTransport WITH
    scene <- mail, now <- clock, Procs <- MCProcs, Scenes <- GmailScenes,
    EXPIRY_SKEW <- 1, TTL <- 3, MAX_PAGES <- 3, MaxGrants <- 2

Jwt == INSTANCE LocalJwt WITH
    scene <- local, now <- second, Files <- DevVarsFiles, Scenes <- JwtScenes, TTL <- 2, None <- Absent

Migrate == INSTANCE LocalMigration WITH
    root <- tempRoot, Checkouts <- LocalCheckouts, Invocations <- CommandLines,
    TableOf <- [c1 |-> "registry", t1 |-> "units", t2 |-> "approvals", t3 |-> "approvals"]

Plan == INSTANCE BootstrapPlan WITH
    RealId <- RealIds, RealName <- {"ctl", "ten"}, Inputs <- OperatorInputs, Files <- DeployFiles,
    IdPairs <- PreparedIds, Base <- Config("placeholder", "placeholder", Named),
    Approved <- Root, MaxEdits <- 3

Source == INSTANCE RecordedSource WITH
    files <- archives, clock <- hand, edits <- exchanges, Scenes <- SourceScenes,
    Clocks <- ProcessClock, MAX_SAFE_INTEGER <- 7, MaxEdits <- 1

----------------------------------------------------------------------------
preflightVars == <<workspace, preflights, slips, maxSlips>>

gmailVars == <<mail, clock, tokenFile, honoured, issued, files, mailbox, procs>>

jwtVars == <<local, devVars, worker, boot, db, seeded, token, verified, second>>

migrateVars == <<checkout, pc, verb, dbs, opened, unclosed, tempRoot, at, step, flags, error, before, cleanup>>

planVars == <<env, armed, deploy, plan, run, control, executed, edits>>

sourceVars == <<archives, targets, chosen, capture, hand, output, outcome, exchanges>>

PreflightOff == workspace = Off /\ preflights = Off /\ slips = Off /\ maxSlips = Off

GmailOff ==
    /\ mail = Off /\ clock = Off /\ tokenFile = Off /\ honoured = Off
    /\ issued = Off /\ files = Off /\ mailbox = Off /\ procs = Off

JwtOff ==
    /\ local = Off /\ devVars = Off /\ worker = Off /\ boot = Off /\ db = Off
    /\ seeded = Off /\ token = Off /\ verified = Off /\ second = Off

MigrateOff ==
    /\ checkout = Off /\ pc = Off /\ verb = Off /\ dbs = Off /\ opened = Off /\ unclosed = Off
    /\ tempRoot = Off /\ at = Off /\ step = Off /\ flags = Off /\ error = Off /\ before = Off /\ cleanup = Off

PlanOff ==
    /\ env = Off /\ armed = Off /\ deploy = Off /\ plan = Off
    /\ run = Off /\ control = Off /\ executed = Off /\ edits = Off

SourceOff ==
    /\ archives = Off /\ targets = Off /\ chosen = Off /\ capture = Off
    /\ hand = Off /\ output = Off /\ outcome = Off /\ exchanges = Off

ToolsInit ==
    /\ part \in Parts
    /\ Init
    /\ SelectInit
    /\ IF part = "preflight" THEN Preflight!Init ELSE PreflightOff
    /\ IF part = "gmail" THEN Gmail!Init ELSE GmailOff
    /\ IF part = "smoke" THEN SmokeInit ELSE scene = Off /\ AtRest
    /\ IF part = "jwt" THEN Jwt!Init ELSE JwtOff
    /\ IF part = "migrate" THEN Migrate!Init ELSE MigrateOff
    /\ IF part = "plan" THEN Plan!Init ELSE PlanOff
    /\ IF part = "source" THEN Source!Init ELSE SourceOff

ToolsNext ==
    \/ part = "acquisition" /\ Next
       /\ UNCHANGED <<part, selectVars, preflightVars, gmailVars, smokeVars, jwtVars, migrateVars, planVars,
                      sourceVars>>
    \/ part = "select" /\ SelectNext
       /\ UNCHANGED <<part, vars, preflightVars, gmailVars, smokeVars, jwtVars, migrateVars, planVars,
                      sourceVars>>
    \/ part = "preflight" /\ Preflight!Next
       /\ UNCHANGED <<part, vars, selectVars, gmailVars, smokeVars, jwtVars, migrateVars, planVars,
                      sourceVars>>
    \/ part = "gmail" /\ Gmail!Next
       /\ UNCHANGED <<part, vars, selectVars, preflightVars, smokeVars, jwtVars, migrateVars, planVars,
                      sourceVars>>
    \/ part = "smoke" /\ SmokeNext
       /\ UNCHANGED <<part, vars, selectVars, preflightVars, gmailVars, jwtVars, migrateVars, planVars,
                      sourceVars>>
    \/ part = "jwt" /\ Jwt!Next
       /\ UNCHANGED <<part, vars, selectVars, preflightVars, gmailVars, smokeVars, migrateVars, planVars,
                      sourceVars>>
    \/ part = "migrate" /\ Migrate!Next
       /\ UNCHANGED <<part, vars, selectVars, preflightVars, gmailVars, smokeVars, jwtVars, planVars,
                      sourceVars>>
    \/ part = "plan" /\ Plan!Next
       /\ UNCHANGED <<part, vars, selectVars, preflightVars, gmailVars, smokeVars, jwtVars, migrateVars,
                      sourceVars>>
    \/ part = "source" /\ Source!Next
       /\ UNCHANGED <<part, vars, selectVars, preflightVars, gmailVars, smokeVars, jwtVars, migrateVars,
                      planVars>>

allVars == <<part, vars, selectVars, preflightVars, gmailVars, smokeVars, jwtVars,
             migrateVars, planVars, sourceVars>>

\* The fairness of GmailTransport and of SmokeRunner; the others promise nothing.
ToolsSpec ==
    /\ ToolsInit
    /\ [][ToolsNext]_allVars
    /\ \A p \in MCProcs : WF_gmailVars(part = "gmail" /\ Gmail!Step(p))
    /\ WF_smokeVars(part = "smoke" /\ Run)
    /\ WF_smokeVars(part = "smoke" /\ Cleanup)
    /\ WF_smokeVars(part = "smoke" /\ Expire)

----------------------------------------------------------------------------
(***************************************************************************)
(* What each program promises.  The conjuncts are stated and explained in  *)
(* the program's own module.                                               *)
(***************************************************************************)
(***************************************************************************)
(* A preflight that passes has found records that can be reused, though    *)
(* manifests are edited between its reads; preflights that run together,   *)
(* fail or are killed do not make a run root look occupied, and one that   *)
(* reports the destination as writable leaves no probe file                *)
(* (preflight.mjs, RunPreflight).                                          *)
(***************************************************************************)
PreflightsAreSound ==
    part = "preflight" =>
        Preflight!PassMeansReusable /\ Preflight!ProbesNeverBlock /\ Preflight!LeftProbesAreReported

(***************************************************************************)
(* The Gmail commands: byte_equal means that the file held the provider's  *)
(* bytes, READY that a refresh token is stored, a 401 that the grant was   *)
(* revoked or the command outlived the skew; an enumeration that succeeds  *)
(* misses and repeats no message that stayed (gmailRaw.mjs,                *)
(* oauthCredential.mjs, GmailTransport).                                   *)
(***************************************************************************)
MailReportsAreTrue ==
    part = "gmail" =>
        /\ Gmail!EqualMeansFaithful /\ Gmail!ReadyMeansStored
        /\ Gmail!UnauthorizedMeansStale /\ Gmail!EnumerationIsComplete

(***************************************************************************)
(* An issued token of a seeded subject is served until it expires, and the *)
(* local verifier and the Worker agree on a token (localJwt.mjs,           *)
(* LocalJwt).                                                              *)
(***************************************************************************)
LocalTokensWork == part = "jwt" => Jwt!IssuedTokensAreServed /\ Jwt!VerifiersAgree

(***************************************************************************)
(* A successful local run has migrated both databases; whatever throws, a  *)
(* handle stays open only when its own close threw, and a directory stays  *)
(* on disk only when the run reports it; the registry routes only to a     *)
(* completely migrated database; a second application is a no-op           *)
(* (d1MigrationRunner.mjs, LocalMigration).                                *)
(***************************************************************************)
LocalMigrationIsSound ==
    part = "migrate" =>
        /\ Migrate!OkMeansMigrated /\ Migrate!NothingLeaks
        /\ Migrate!RoutableIsComplete /\ Migrate!ReplayNeverFails

(***************************************************************************)
(* What reached Wrangler is what the gates validated, though plan, files   *)
(* and environment are edited in between; a registry row never names the   *)
(* database it sits in; the retained configuration is one that a receipt   *)
(* can be bound to (cf-d1-bootstrap-apply.mjs, BootstrapPlan).             *)
(***************************************************************************)
PlansAreSound ==
    part = "plan" =>
        /\ Plan!ExecutedAsValidated /\ Plan!RegistryNamesAnotherDatabase
        /\ Plan!AuthorityIsReceiptable

(***************************************************************************)
(* A printed source record has the identity of the retained bytes and is   *)
(* not dated before its observation; what an adapter acquires the producer *)
(* accepts, dates and clock apart; exit status 0 means that every chosen   *)
(* resource was printed (acquireRecordedSource.mts, RecordedSource).       *)
(***************************************************************************)
SourceRecordsAreSound ==
    part = "source" =>
        /\ Source!RecordsSpeakForTheirBytes /\ Source!RecordedAfterObserved
        /\ Source!AcquiredIsProducible /\ Source!ZeroExitMeansRecorded

(***************************************************************************)
(* What a step of a program may never do: print a selection that is not in *)
(* the state file under its own run (SelectOperator); write over an        *)
(* acquired file or lose stored consent (GmailTransport); report PASS for  *)
(* a repository it has not compared, remove its root before every child    *)
(* has exited, or remove a root without its own marker (SmokeRunner); fail *)
(* to seed again the values seeded last (LocalJwt).                        *)
(***************************************************************************)
StepsKeepWhatStands ==
    [][/\ part = "select" => Reporting
       /\ part = "gmail" => Gmail!CreatorsKept /\ Gmail!ConsentKept
       /\ part = "smoke" => PassingCompares /\ RemovingAlone /\ ForeignKept
       /\ part = "jwt" => Jwt!FailsOnNews]_allVars

(***************************************************************************)
(* Every Gmail command ends (GmailTransport) and every smoke run concludes *)
(* (SmokeRunner), whatever times out or is signalled.                      *)
(***************************************************************************)
EveryProgramEnds ==
    <>(/\ part = "gmail" => \A p \in MCProcs : Gmail!Ended(p)
       /\ part = "smoke" => Concluded)

=============================================================================
