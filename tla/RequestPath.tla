----------------------------- MODULE RequestPath -----------------------------
(***************************************************************************)
(* HTTP requests to the WorkUnit inbox, feedback, audit, integration and   *)
(* approval-status routes, from the first line of the handler to the       *)
(* answer, over one control database and one shared tenant database.       *)
(*                                                                         *)
(* A handler is cut at every await: each step reads or writes one table,   *)
(* and other requests, administrators and the clock move in between.  A    *)
(* database call may fail before or after it took effect, and the worker   *)
(* may be evicted with the request half done.                              *)
(***************************************************************************)
EXTENDS RequestAdmission, RateLimit

CONSTANTS
    Requests,
    Scenes,      \* deployments, request mixes, and bounds on clock, faults and changes
    Signals,     \* source |-> the normalized signals it offers, in order
    DevTenant, DevUser

VARIABLES
    scene,     \* what each request asks, and the host environment
    rt,        \* the runtime configuration validated from that environment
    pc, loc,   \* where each request is and what its handler holds
    control,   \* CONTROL_DB: users, identities, memberships, tenants, registry
    work, feedback, audit, usage,   \* the tables of TENANT_DB_DEFAULT
    limiter,   \* the process-wide rate limit store
    now, faults, changes,
    since,     \* what the control database said at some moment of a request
    settled    \* units decided on while no refresh was between read and write

tables == <<work, feedback, audit, usage>>

vars == <<scene, rt, pc, loc, control, tables, limiter, now, faults, changes, since, settled>>

req(r) == scene.requests[r]

method(r) == IF req(r).route \in {"refresh", "feedback"} THEN "POST" ELSE "GET"

NoRow == [tenant |-> "none", status |-> "none"]

Units == {s.id : s \in UNION {Range(Signals[src]) : src \in DOMAIN Signals}}

NoRows == [u \in Units |-> NoRow]

Fresh == [user |-> "none", tenant |-> "none", role |-> "none", stage |-> 1, todo |-> <<>>,
          seen |-> "none", served |-> {}, reply |-> "none", started |-> 0, mem |-> NoRows]

(***************************************************************************)
(* Signals and work units.                                                 *)
(***************************************************************************)
DefaultPriority(type) ==
    IF type \in {"slack_mention_request", "github_issue_assigned"} THEN "medium" ELSE "high"

resolvePriority(s) == IF s.hint # "none" THEN s.hint ELSE DefaultPriority(s.type)

PriorityOrder == [high |-> 0, medium |-> 1, low |-> 2]

\* Higher priority first, then the newer signal.
Before(a, b) ==
    LET pa == PriorityOrder[resolvePriority(a)]
        pb == PriorityOrder[resolvePriority(b)]
    IN pa < pb \/ (pa = pb /\ a.createdAt > b.createdAt)

transformSignalsToInboxWorkUnits(signals) ==
    LET sorted == SortSeq(signals, Before) IN [i \in DOMAIN sorted |-> sorted[i].id]

\* Only the mock source filters by tenant; the other sources offer the same
\* ids to every tenant.
resolveInboxSignals(source, tenant) ==
    LET of(src) == Signals[src]
    IN IF source = "mock" THEN SelectSeq(of("mock"), LAMBDA s : s.tenant = tenant)
       ELSE IF source = "all" THEN of("github") \o of("slack") \o of("calendar")
       ELSE of(source)

Generated(r) == transformSignalsToInboxWorkUnits(resolveInboxSignals(req(r).source, loc[r].tenant))

\* Mutant: the generated status replaces the stored decision.
OverlayForgotten(seen) == "open"

\* A stored status other than open wins over the generated one.
Overlay(seen) == IF seen \in {"none", "open"} THEN "open" ELSE seen

(***************************************************************************)
(* Tables.  In-memory bundles are built anew for every call, so what a     *)
(* request writes there is its own and is gone with it.                    *)
(***************************************************************************)
InMemory == rt.ok /\ rt.mode = "in_memory"

Rows(r) == IF InMemory THEN loc[r].mem ELSE work

findById(r, u) == IF Rows(r)[u].tenant = loc[r].tenant THEN Rows(r)[u] ELSE NoRow

\* Mutant: the conflicting row is updated whoever owns it.
UpsertAnyOwner(rows, u, tenant, status) ==
    [rows EXCEPT ![u] = [tenant |-> tenant, status |-> status]]

\* INSERT ... ON CONFLICT(id) DO UPDATE ... WHERE the tenants agree.
Upsert(rows, u, tenant, status) ==
    IF rows[u].tenant \in {"none", tenant}
    THEN [rows EXCEPT ![u] = [tenant |-> tenant, status |-> status]]
    ELSE rows

HasId(table, id) == \E row \in table : row.id = id

(***************************************************************************)
(* Moving a request.                                                       *)
(***************************************************************************)
To(r, label, l) == /\ pc' = [pc EXCEPT ![r] = label]
                   /\ loc' = [loc EXCEPT ![r] = l]

Answer(r, code) == To(r, "answered", [loc[r] EXCEPT !.reply = code])

Served(r, l) == To(r, "answered", [l EXCEPT !.reply = "ok"])

permitted(r, role) ==
    CASE req(r).route = "refresh" -> canRefreshWorkUnitInbox(role)
      [] req(r).route = "feedback" -> canCreateFeedback(role)
      [] req(r).route = "inbox" -> canViewInbox(role)
      [] req(r).route = "audit" -> canViewAudit(role)
      [] req(r).route = "integrations" -> canViewIntegrationStatus(role)
      [] req(r).route = "approvalStatus" -> canCreatePreview(role)

Feedbacks == {"useful", "not_useful", "later", "done"}

\* The strict body schemas of the two mutations.
bodyError(r) ==
    LET read == readBoundedJsonObject(req(r).headers, req(r).body)
    IN IF read # "ok" THEN read
       ELSE IF req(r).route = "refresh"
            THEN IF req(r).body.keys \subseteq {"source"} /\ req(r).source \in DOMAIN Signals \cup {"all"}
                 THEN "ok" ELSE "invalid_request"
       ELSE IF req(r).value \in Feedbacks THEN "ok" ELSE "invalid_request"

\* What follows a resolved repository bundle: a read, or steps 9 to 13 of a
\* mutation (rate limit, then roles, then the body).
WithRepositories(r, l) ==
    LET key == <<req(r).route, l.tenant, l.user>>
        limited == checkRateLimit(limiter, key, now)
    IN IF method(r) = "GET"
       THEN /\ To(r, IF req(r).route = "inbox" THEN "signals" ELSE "list", l)
            /\ UNCHANGED limiter
       ELSE /\ limiter' = limited.store
            /\ IF ~limited.ok THEN Answer(r, "rate_limited")
               ELSE IF ~permitted(r, l.role) THEN Answer(r, "forbidden")
               ELSE IF bodyError(r) # "ok" THEN Answer(r, bodyError(r))
               ELSE To(r, IF req(r).route = "refresh" THEN "signals" ELSE "fb_find", l)

\* A read may be answered with generated data instead of a failure, but only
\* in explicit local development; the approval status never is.
RepositoryFailure(r, code) ==
    LET answer == IF req(r).route \in {"feedback", "approvalStatus"}
                  THEN "integration_missing" ELSE code
    IN /\ IF /\ method(r) = "GET"
             /\ req(r).route # "approvalStatus"
             /\ canUseLocalPersistenceFallback(scene.host, rt)
          THEN Answer(r, "generated")
          ELSE Answer(r, answer)
       /\ UNCHANGED limiter

\* A session is known: reads check the role and parameters first, then both
\* kinds resolve the repositories of the session's tenant.
WithSession(r, l) ==
    IF method(r) = "GET" /\ ~permitted(r, l.role)
    THEN Answer(r, "forbidden") /\ UNCHANGED limiter
    ELSE IF method(r) = "GET" /\ ~req(r).parameters
    THEN Answer(r, "invalid_request") /\ UNCHANGED limiter
    ELSE IF rt.source = "cloudflare"
    THEN To(r, "registry_tenant", l) /\ UNCHANGED limiter
    ELSE IF rt.mode = "in_memory" \/ (rt.mode = "d1" /\ rt.tenantDb)
    THEN WithRepositories(r, l)
    ELSE RepositoryFailure(r, "integration_missing")

(***************************************************************************)
(* Session resolution.                                                     *)
(***************************************************************************)
identity(r) ==
    CASE resolveAuthAdapter(rt) = "dev" -> DevUser
      [] resolveAuthAdapter(rt) = "jwt" /\ rt.jwt.usable -> jwtIdentity(req(r).token, rt.jwt, now)
      [] OTHER -> "none"

isDev == rt.ok /\ resolveAuthAdapter(rt) = "dev"

mayBootstrap(r) ==
    /\ isDev
    /\ {"ALLOW_DEV_SESSION", "ALLOW_DEV_WORKSPACE_BOOTSTRAP"} \subseteq rt.flags
    /\ mayCarryDurableSessionWriteCapability(method(r))

isControlLess == isDev /\ {"ALLOW_DEV_SESSION", "ALLOW_DEV_CONTROLLESS_SESSION"} \subseteq rt.flags

Begin(r) ==
    /\ pc[r] = "start"
    /\ UNCHANGED <<scene, rt, control, tables, now, faults, changes, settled>>
    /\ LET l == [loc[r] EXCEPT !.started = now, !.user = identity(r)]
       IN IF ~rt.ok
          THEN Answer(r, "integration_missing") /\ UNCHANGED limiter
          ELSE IF method(r) = "POST"
                  /\ checkMutationRequestIntegrity(req(r).headers, rt.origins) # "ok"
          THEN Answer(r, "rejected") /\ UNCHANGED limiter
          ELSE IF identity(r) = "none"
          THEN Answer(r, "unauthorized") /\ UNCHANGED limiter
          ELSE IF isControlLess
          THEN WithSession(r, [l EXCEPT !.user = DevUser, !.tenant = DevTenant, !.role = "owner"])
          ELSE IF ~rt.controlDb
          THEN Answer(r, "unauthorized") /\ UNCHANGED limiter
          ELSE /\ To(r, IF mayBootstrap(r) THEN "boot_find" ELSE "find_identity", l)
               /\ UNCHANGED limiter

\* The four records of a development workspace, in the order they are made.
BootStages == <<"user", "tenant", "membership", "identity">>

HasRecord(c, stage) ==
    CASE stage = "user" -> DevUser \in c.users
      [] stage = "tenant" -> c.tenants[DevTenant] # "none"
      [] stage = "membership" -> c.memberships[DevUser][DevTenant].status # "none"
      [] stage = "identity" -> c.identities[DevUser] # "none"

Created(c, stage) ==
    CASE stage = "user" -> [c EXCEPT !.users = @ \cup {DevUser}]
      [] stage = "tenant" -> [c EXCEPT !.tenants[DevTenant] = "active"]
      [] stage = "membership" ->
            [c EXCEPT !.memberships[DevUser][DevTenant] = [status |-> "active", role |-> "owner"]]
      [] stage = "identity" -> [c EXCEPT !.identities[DevUser] = DevUser]

NextStage(r) ==
    IF loc[r].stage = Len(BootStages) THEN To(r, "find_identity", loc[r])
    ELSE To(r, "boot_find", [loc[r] EXCEPT !.stage = @ + 1])

BootFind(r) ==
    /\ pc[r] = "boot_find"
    /\ IF HasRecord(control, BootStages[loc[r].stage]) THEN NextStage(r)
       ELSE To(r, "boot_create", loc[r])
    /\ UNCHANGED <<scene, rt, control, tables, limiter, now, faults, changes, settled>>

\* A plain INSERT: a record made meanwhile is a key conflict, and any error
\* ends the session resolution as internal_error.
BootCreate(r) ==
    LET stage == BootStages[loc[r].stage] IN
    /\ pc[r] = "boot_create"
    /\ IF HasRecord(control, stage)
       THEN /\ Answer(r, "internal_error")
            /\ UNCHANGED <<control, faults>>
       ELSE \/ /\ control' = Created(control, stage)
               /\ NextStage(r)
               /\ UNCHANGED faults
            \/ /\ faults < scene.maxFaults
               /\ faults' = faults + 1
               /\ control' \in {control, Created(control, stage)}
               /\ Answer(r, "internal_error")
    /\ UNCHANGED <<scene, rt, tables, limiter, now, changes, settled>>

FindAuthIdentity(r) ==
    /\ pc[r] = "find_identity"
    /\ IF control.identities[loc[r].user] = "none" THEN Answer(r, "unauthorized")
       ELSE To(r, "find_user", [loc[r] EXCEPT !.user = control.identities[@]])
    /\ UNCHANGED <<scene, rt, control, tables, limiter, now, faults, changes, settled>>

FindUser(r) ==
    /\ pc[r] = "find_user"
    /\ IF loc[r].user \notin control.users THEN Answer(r, "unauthorized")
       ELSE To(r, "list_memberships", loc[r])
    /\ UNCHANGED <<scene, rt, control, tables, limiter, now, faults, changes, settled>>

\* The SELECT has no ORDER BY, so the first active row may be any of them.
ListMemberships(r) ==
    LET of == control.memberships[loc[r].user]
        active == {t \in DOMAIN of : of[t].status = "active"}
    IN /\ pc[r] = "list_memberships"
       /\ \/ active = {} /\ Answer(r, "forbidden")
          \/ \E t \in active :
                To(r, "find_tenant", [loc[r] EXCEPT !.tenant = t, !.role = of[t].role])
       /\ UNCHANGED <<scene, rt, control, tables, limiter, now, faults, changes, settled>>

FindTenant(r) ==
    LET status == control.tenants[loc[r].tenant]
        role == normalizeRoleInput(loc[r].role)
    IN /\ pc[r] = "find_tenant"
       /\ IF status # "active" \/ role = "invalid"
          THEN Answer(r, "forbidden") /\ UNCHANGED limiter
          ELSE WithSession(r, [loc[r] EXCEPT !.role = role])
       /\ UNCHANGED <<scene, rt, control, tables, now, faults, changes, settled>>

(***************************************************************************)
(* The tenant database resolver (Cloudflare only): two control reads.      *)
(***************************************************************************)
RegistryTenant(r) ==
    /\ pc[r] = "registry_tenant"
    /\ IF control.tenants[loc[r].tenant] # "active" THEN RepositoryFailure(r, "forbidden")
       ELSE To(r, "registry_row", loc[r]) /\ UNCHANGED limiter
    /\ UNCHANGED <<scene, rt, control, tables, now, faults, changes, settled>>

validateRegistryRecord(row) == row = "active"

RegistryRow(r) ==
    /\ pc[r] = "registry_row"
    /\ IF validateRegistryRecord(control.registry[loc[r].tenant])
       THEN WithRepositories(r, loc[r])
       ELSE RepositoryFailure(r, "integration_missing")
    /\ UNCHANGED <<scene, rt, control, tables, now, faults, changes, settled>>

(***************************************************************************)
(* The handlers.                                                           *)
(***************************************************************************)
\* Every provider resolves before the first row is touched.
ResolveSignals(r) ==
    LET units == Generated(r)
        next == IF units # <<>> THEN "row_read"
                ELSE IF req(r).route = "refresh" THEN "usage" ELSE "answered"
    IN /\ pc[r] = "signals"
       /\ IF next = "answered" THEN Served(r, loc[r])
          ELSE To(r, next, [loc[r] EXCEPT !.todo = units])
       /\ UNCHANGED <<scene, rt, control, tables, limiter, now, faults, changes, settled>>

\* refreshInbox and projectInbox read the stored status of the next unit.
ReadRow(r) ==
    LET u == Head(loc[r].todo)
        l == [loc[r] EXCEPT !.seen = findById(r, u).status]
        shown == [l EXCEPT !.todo = Tail(@),
                           !.served = @ \cup {[unit |-> u, from |-> findById(r, u).tenant]}]
    IN /\ pc[r] = "row_read"
       /\ IF req(r).route = "refresh" THEN To(r, "owner_read", l)
          ELSE IF Tail(loc[r].todo) = <<>> THEN Served(r, shown)
          ELSE To(r, "row_read", shown)
       /\ UNCHANGED <<scene, rt, control, tables, limiter, now, faults, changes, settled>>

\* upsert looks for another owner before it writes.
ReadOwner(r) ==
    /\ pc[r] = "owner_read"
    /\ IF Rows(r)[Head(loc[r].todo)].tenant \in {"none", loc[r].tenant}
       THEN To(r, "row_write", loc[r])
       ELSE Answer(r, "tenant_boundary_violation")
    /\ UNCHANGED <<scene, rt, control, tables, limiter, now, faults, changes, settled>>

AfterRow(l) == Tail(l.todo)

WriteRow(r) ==
    LET rows == Upsert(Rows(r), Head(loc[r].todo), loc[r].tenant, Overlay(loc[r].seen))
        l == [loc[r] EXCEPT !.todo = AfterRow(loc[r]), !.mem = IF InMemory THEN rows ELSE @]
        stored == IF InMemory THEN work ELSE rows
    IN /\ pc[r] = "row_write"
       /\ \/ /\ work' = stored
             /\ To(r, IF l.todo = <<>> THEN "usage" ELSE "row_read", l)
             /\ UNCHANGED faults
          \/ /\ faults < scene.maxFaults
             /\ faults' = faults + 1
             /\ work' \in {work, stored}
             /\ Answer(r, "unhandled")
       /\ UNCHANGED <<scene, rt, control, feedback, audit, usage, limiter, now, changes, settled>>

\* An append-only row; a key that is taken leaves the table as it was.
Appended(table, row) == IF HasId(table, row.id) THEN table ELSE table \cup {row}

Entry(r, id) == [id |-> id, tenant |-> loc[r].tenant, by |-> r]

RequestId(r) == IF req(r).route = "feedback" THEN <<"fb", req(r).unit, loc[r].started>>
                                             ELSE <<"req", req(r).rid>>

\* usage.recordEvent swallows every failure, for both mutations.
RecordUsage(r) ==
    /\ pc[r] \in {"usage", "fb_usage"}
    /\ \/ /\ usage' = IF InMemory THEN usage ELSE Appended(usage, Entry(r, RequestId(r)))
          /\ UNCHANGED faults
       \/ faults < scene.maxFaults /\ faults' = faults + 1 /\ UNCHANGED usage
    /\ IF pc[r] = "usage" THEN To(r, "audit", loc[r]) ELSE Served(r, loc[r])
    /\ UNCHANGED <<scene, rt, control, work, feedback, audit, limiter, now, changes, settled>>

AppendRefreshAudit(r) ==
    /\ pc[r] = "audit"
    /\ \/ /\ audit' = IF InMemory THEN audit ELSE Appended(audit, Entry(r, RequestId(r)))
          /\ UNCHANGED faults
       \/ faults < scene.maxFaults /\ faults' = faults + 1 /\ UNCHANGED audit
    /\ Served(r, loc[r])
    /\ UNCHANGED <<scene, rt, control, work, feedback, usage, limiter, now, changes, settled>>

\* The route looks the unit up, and the enforced repository looks again.
FindFeedbackUnit(r) ==
    /\ pc[r] \in {"fb_find", "fb_parent"}
    /\ IF findById(r, req(r).unit) = NoRow
       THEN Answer(r, IF pc[r] = "fb_find" THEN "invalid_request" ELSE "unhandled")
       ELSE To(r, IF pc[r] = "fb_find" THEN "fb_parent" ELSE "fb_insert", loc[r])
    /\ UNCHANGED <<scene, rt, control, tables, limiter, now, faults, changes, settled>>

InsertFeedback(r) ==
    LET row == Entry(r, <<req(r).unit, now>>) IN
    /\ pc[r] = "fb_insert"
    /\ IF HasId(feedback, row.id)
       THEN Answer(r, "unhandled") /\ UNCHANGED <<feedback, faults>>
       ELSE \/ /\ feedback' = feedback \cup {row}
               /\ To(r, "fb_status", loc[r])
               /\ UNCHANGED faults
            \/ /\ faults < scene.maxFaults
               /\ faults' = faults + 1
               /\ feedback' \in {feedback, feedback \cup {row}}
               /\ Answer(r, "unhandled")
    /\ UNCHANGED <<scene, rt, control, work, audit, usage, limiter, now, changes, settled>>

\* A refresh that has read u and not yet written it.
HoldsStale(r, u) == pc[r] \in {"owner_read", "row_write"} /\ Head(loc[r].todo) = u

\* later and done move the unit; a failed update is swallowed.
UpdateStatus(r) ==
    LET u == req(r).unit
        moved == IF req(r).value \in {"later", "done"} /\ work[u].tenant = loc[r].tenant
                 THEN [work EXCEPT ![u].status = req(r).value] ELSE work
    IN /\ pc[r] = "fb_status"
       /\ \/ work' = moved /\ UNCHANGED faults
          \/ faults < scene.maxFaults /\ faults' = faults + 1 /\ work' \in {work, moved}
       /\ settled' = IF \E q \in Requests : HoldsStale(q, u) THEN settled \ {u}
                     ELSE IF work'[u].status # "open" THEN settled \cup {u} ELSE settled
       /\ To(r, "fb_audit", loc[r])
       /\ UNCHANGED <<scene, rt, control, feedback, audit, usage, limiter, now, changes>>

AppendFeedbackAudit(r) ==
    LET entry == Entry(r, RequestId(r)) IN
    /\ pc[r] = "fb_audit"
    /\ IF HasId(audit, entry.id)
       THEN Answer(r, "unhandled") /\ UNCHANGED <<audit, faults>>
       ELSE \/ /\ audit' = audit \cup {entry}
               /\ To(r, "fb_usage", loc[r])
               /\ UNCHANGED faults
            \/ /\ faults < scene.maxFaults
               /\ faults' = faults + 1
               /\ audit' \in {audit, audit \cup {entry}}
               /\ Answer(r, "unhandled")
    /\ UNCHANGED <<scene, rt, control, work, feedback, usage, limiter, now, changes, settled>>

\* The remaining reads return rows selected by the session's tenant.
ListRows(r) ==
    LET own == {row \in IF InMemory THEN {} ELSE audit : row.tenant = loc[r].tenant}
        rows == IF req(r).route = "audit" THEN own ELSE {}
    IN /\ pc[r] = "list"
       /\ Served(r, [loc[r] EXCEPT !.served = {[unit |-> row.id, from |-> row.tenant] : row \in rows}])
       /\ UNCHANGED <<scene, rt, control, tables, limiter, now, faults, changes, settled>>

(***************************************************************************)
(* The environment.                                                        *)
(***************************************************************************)
\* How a read that throws is answered.
SessionReads == {"boot_find", "find_identity", "find_user", "list_memberships", "find_tenant"}

RegistryReads == {"registry_tenant", "registry_row"}

HandlerReads == {"row_read", "owner_read", "fb_find", "fb_parent", "list"}

ReadFails(r) ==
    /\ faults < scene.maxFaults
    /\ faults' = faults + 1
    /\ \/ pc[r] \in SessionReads /\ Answer(r, "internal_error") /\ UNCHANGED limiter
       \/ pc[r] \in RegistryReads /\ RepositoryFailure(r, "integration_missing")
       \/ pc[r] \in HandlerReads /\ Answer(r, "unhandled") /\ UNCHANGED limiter
       \/ /\ pc[r] = "signals"
          /\ Answer(r, IF req(r).route = "refresh" THEN "integration_missing" ELSE "unhandled")
          /\ UNCHANGED limiter
    /\ UNCHANGED <<scene, rt, control, tables, now, changes, settled>>

\* The worker is evicted: nobody answers and nothing is undone.
Drop(r) ==
    /\ pc[r] \notin {"start", "answered", "dropped"}
    /\ faults < scene.maxFaults
    /\ faults' = faults + 1
    /\ To(r, "dropped", loc[r])
    /\ UNCHANGED <<scene, rt, control, tables, limiter, now, changes, settled>>

\* An administrator suspends or restores a tenant, a membership or a mapping.
Administer ==
    /\ changes < scene.maxChanges
    /\ changes' = changes + 1
    /\ \/ \E t \in DOMAIN control.tenants, status \in {"active", "suspended"} :
            control.tenants[t] # "none" /\ control' = [control EXCEPT !.tenants[t] = status]
       \/ \E t \in DOMAIN control.registry, status \in {"active", "migrating"} :
            control.registry[t] # "none" /\ control' = [control EXCEPT !.registry[t] = status]
       \/ \E u \in control.users, status \in {"active", "suspended"} :
            \E t \in DOMAIN control.memberships[u] :
                /\ control.memberships[u][t].status # "none"
                /\ control' = [control EXCEPT !.memberships[u][t].status = status]
    /\ UNCHANGED <<scene, rt, pc, loc, tables, limiter, now, faults, settled>>

Tick == /\ now < scene.maxNow
        /\ now' = now + 1
        /\ UNCHANGED <<scene, rt, pc, loc, control, tables, limiter, faults, changes, settled>>

\* What the control database grants at this moment.
Grants(c) ==
    {<<"tenant", t>> : t \in {t \in DOMAIN c.tenants : c.tenants[t] = "active"}}
      \cup {<<"registry", t>> : t \in {t \in DOMAIN c.registry : c.registry[t] = "active"}}
      \cup UNION {{<<"member", u, t, c.memberships[u][t].role>> :
                      t \in {t \in DOMAIN c.memberships[u] : c.memberships[u][t].status = "active"}}
                  : u \in c.users}

Observe == since' = [r \in Requests |->
    IF pc'[r] \in {"start", "answered", "dropped"} THEN since[r] ELSE since[r] \cup Grants(control')]

Init ==
    /\ scene \in Scenes
    /\ rt = resolveValidatedRequestRuntimeConfig(scene.host)
    /\ pc = [r \in Requests |-> "start"]
    /\ loc = [r \in Requests |-> Fresh]
    /\ control = scene.control
    /\ work = [u \in Units |-> IF u \in DOMAIN scene.rows THEN scene.rows[u] ELSE NoRow]
    /\ feedback = {} /\ audit = {} /\ usage = {}
    /\ limiter = <<>>
    /\ now = 0 /\ faults = 0 /\ changes = 0
    /\ since = [r \in Requests |-> {}]
    /\ settled = {}

Step(r) ==
    \/ Begin(r) \/ BootFind(r) \/ BootCreate(r) \/ FindAuthIdentity(r) \/ FindUser(r)
    \/ ListMemberships(r) \/ FindTenant(r) \/ RegistryTenant(r) \/ RegistryRow(r)
    \/ ResolveSignals(r) \/ ReadRow(r) \/ ReadOwner(r) \/ WriteRow(r) \/ RecordUsage(r)
    \/ AppendRefreshAudit(r) \/ FindFeedbackUnit(r) \/ InsertFeedback(r) \/ UpdateStatus(r)
    \/ AppendFeedbackAudit(r) \/ ListRows(r)

Next == /\ \/ \E r \in Requests : Step(r) \/ ReadFails(r) \/ Drop(r)
           \/ Administer
           \/ Tick
        /\ Observe

\* The runtime runs every handler whose await has completed.
Fairness == \A r \in Requests : WF_vars(Step(r) /\ Observe)

Spec == Init /\ [][Next]_vars /\ Fairness

-----------------------------------------------------------------------------
Moves(r) == pc'[r] # pc[r]

ReadingOnly == \A r \in Requests : Moves(r) /\ method(r) = "GET" => UNCHANGED <<control, tables>>

\* A GET handler changes no table of either database at any of its steps: the
\* read bundle has no writers and a safe method never carries the capability
\* to bootstrap a workspace (INV-SAFE-1).
SafeRequestsNeverWrite == [][ReadingOnly]_vars

OwnersKept == \A u \in Units : work[u] # NoRow => work'[u].tenant = work[u].tenant

\* Once a tenant owns a work unit id it owns it for good: two refreshes of
\* different tenants that both found the id free cannot overwrite each other.
OwnersNeverChange == [][OwnersKept]_vars

\* Rows and status overlays an answered read returns belong to the tenant of
\* its session.
ReadsAreOwn ==
    \A r \in Requests : \A row \in loc[r].served : row.from \in {"none", loc[r].tenant}

\* A decision taken while no refresh was between reading the unit and
\* writing it back survives every later refresh.
SettledDecisionsSurvive == \A u \in settled : work[u].status \in {"later", "done"}

\* The caller was entitled to change tables: at some moment of the request
\* the tenant was active, the caller was an active member in a role that
\* permits the route and, on Cloudflare, the tenant's mapping was active.
Entitled(r) ==
    LET t == loc[r].tenant
        granted(g) == \E grant \in since[r] : grant = g
    IN \/ isControlLess
       \/ /\ granted(<<"tenant", t>>)
          /\ rt.source = "cloudflare" => granted(<<"registry", t>>)
          /\ \E role \in {"owner", "admin", "manager", "pm", "member", "editor", "viewer"} :
                /\ granted(<<"member", loc[r].user, t, role>>)
                /\ permitted(r, normalizeRoleInput(role))

WritingEntitled ==
    \A r \in Requests : Moves(r) /\ <<work, feedback>>' # <<work, feedback>> => Entitled(r)

\* No work unit or feedback row is written by a request whose caller was
\* not entitled to it, whatever is suspended meanwhile.
WritesAreEntitled == [][WritingEntitled]_vars

\* Feedback that was answered with ok has its row and its audit entry.
AcknowledgedFeedbackIsStored ==
    \A r \in Requests :
        req(r).route = "feedback" /\ loc[r].reply = "ok" =>
            /\ \E row \in feedback : row.by = r
            /\ \E row \in audit : row.by = r

\* A request that got through the development bootstrap found or made every
\* record, also when another request was making them or an earlier one failed
\* half way.
BootstrapIsComplete ==
    \A r \in Requests :
        mayBootstrap(r) /\ rt.ok /\ ~isControlLess
          /\ pc[r] \notin {"start", "boot_find", "boot_create", "answered", "dropped"}
        => \A i \in DOMAIN BootStages : HasRecord(control, BootStages[i])

\* Generated data is never served where the process is a production one.
ProductionServesStoredData ==
    \A r \in Requests : loc[r].reply = "generated" => ~rt.isProduction /\ isDev

\* Every request is answered unless its worker is evicted.
EveryRequestAnswered == \A r \in Requests : <>(pc[r] \in {"answered", "dropped"})

\* A refresh answered ok has stored the rows it counted: the answer's
\* `refreshed` is the number of generated units.
RefreshedRowsAreStored ==
    \A r \in Requests :
        req(r).route = "refresh" /\ loc[r].reply = "ok" /\ ~InMemory =>
            \A i \in DOMAIN Generated(r) : work[Generated(r)[i]].tenant = loc[r].tenant

\* Telemetry is append-only, one row per call: a refresh that was answered ok
\* with no failure has its own audit row.
RefreshesAreAudited ==
    \A r \in Requests :
        req(r).route = "refresh" /\ loc[r].reply = "ok" /\ ~InMemory /\ faults = 0 =>
            \E row \in audit : row.by = r

=============================================================================
