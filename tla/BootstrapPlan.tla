---------------------------- MODULE BootstrapPlan -----------------------------
(***************************************************************************)
(* From prepared plan to executed bootstrap: cloudflare-deploy-prepare     *)
(* writes the deploy configuration, cf-d1-bootstrap-prepare the SQL plan,  *)
(* and cf-d1-bootstrap-apply runs the bytes it rebuilt itself.  Between    *)
(* any two steps the operator may change the environment, the plan or the  *)
(* configuration, also while an apply has passed its gates and not yet     *)
(* called Wrangler.                                                        *)
(***************************************************************************)
EXTENDS Naturals, Sequences, FiniteSets, SequencesExt

(***************************************************************************)
(* The deploy configuration every remote command is bound to:              *)
(* scripts/lib/cfDeployConfig and cfDeployConfigAuthority, and the checks  *)
(* cf-d1-bootstrap-apply makes on top of it.  A configuration is its list  *)
(* of D1 entries, the set of its other defects (entry point, assets,       *)
(* compatibility flags, safe default variables) and the file it sits in.   *)
(***************************************************************************)
CONSTANTS RealId,      \* well-formed UUIDs that carry no placeholder marker
          RealName     \* well-formed database names

RequiredBindings == {"CONTROL_DB", "TENANT_DB_DEFAULT"}

validateD1Id(id) == id \in RealId

validateD1Name(name) == name \in RealName

\* A path: the directory it is really in, whether its name is one git ignores,
\* whether it is itself a link.  Returns "ok" or the failure.
validateGeneratedConfigLocation(at) ==
  CASE at.dir = "missing" -> "generated_config_path_missing"
    [] at.dir = "sub" -> "generated_config_in_subdirectory"
    [] at.dir = "linked" -> "generated_config_symlink_escape"
    [] at.dir = "outside" -> "generated_config_outside_repo_root"
    [] at.dir = "root" /\ ~at.ignored -> "generated_config_not_ignored"
    [] at.dir = "root" /\ at.ignored /\ at.link -> "generated_config_symlink_escape"
    [] OTHER -> "ok"

\* dbs.find(...): the first entry of a binding.
entriesOf(config, b) == SelectSeq(config.d1, LAMBDA e : e.binding = b)

has(config, b) == entriesOf(config, b) # <<>>

entry(config, b) == Head(entriesOf(config, b))

buildConfigWithIds(base, ids) ==
  [base EXCEPT !.d1 =
     [i \in DOMAIN base.d1 |->
        LET e == base.d1[i] IN IF e.binding \in DOMAIN ids THEN [e EXCEPT !.id = ids[e.binding]] ELSE e]]

\* The two bindings are two physical databases with two names.
separationFailures(config) ==
  LET c == entry(config, "CONTROL_DB")
      t == entry(config, "TENANT_DB_DEFAULT")
      both == has(config, "CONTROL_DB") /\ has(config, "TENANT_DB_DEFAULT")
  IN (IF both /\ validateD1Id(c.id) /\ validateD1Id(t.id) /\ c.id = t.id
      THEN {"d1_database_id_collision"} ELSE {})
     \cup
     (IF both /\ validateD1Name(c.name) /\ validateD1Name(t.name) /\ c.name = t.name
      THEN {"d1_database_name_collision"} ELSE {})

bindingFailures(config) ==
  {"d1_binding_unknown" : i \in {j \in DOMAIN config.d1 : config.d1[j].binding \notin RequiredBindings}}
  \cup {"d1_binding_missing" : b \in {x \in RequiredBindings : ~has(config, x)}}
  \cup {"d1_binding_duplicate" : b \in {x \in RequiredBindings : Len(entriesOf(config, x)) > 1}}
  \cup {"d1_name" : b \in {x \in RequiredBindings : has(config, x) /\ ~validateD1Name(entry(config, x).name)}}

\* Real ids only in a file git ignores.
idFailures(config, at) ==
  LET named == {b \in RequiredBindings : has(config, b)}
      real == {b \in named : validateD1Id(entry(config, b).id)}
      location == validateGeneratedConfigLocation(at)
  IN {"d1_id" : b \in named \ real}
     \cup (IF real # {} /\ location # "ok" THEN {location} ELSE {})

\* validateDeployConfig: the set of failures; empty means ok.
validateDeployConfig(config, at, allowPlaceholderIds) ==
  config.defects \cup bindingFailures(config) \cup separationFailures(config)
    \cup (IF allowPlaceholderIds THEN {} ELSE idFailures(config, at))

\* loadValidatedDeployConfigAuthority: location and file checks before the one
\* read, then the shared validation.
authorityBlocked(file) ==
  LET location == validateGeneratedConfigLocation(file.at) IN
  CASE location = "generated_config_symlink_escape" -> {"deploy_config_symlink"}
    [] location \notin {"ok", "generated_config_symlink_escape"} ->
         {"deploy_config_unapproved_location"}
    [] OTHER ->
         CASE ~file.private -> {"deploy_config_permissions_too_broad"}
           [] file.private /\ ~file.parses -> {"deploy_config_unparseable"}
           [] OTHER -> IF validateDeployConfig(file.config, file.at, FALSE) = {}
                       THEN {} ELSE {"deploy_config_invalid"}

\* evaluateRegistryBinding: the registry row describes the tenant binding.
registryBlocked(values, config) ==
  LET t == entriesOf(config, "TENANT_DB_DEFAULT")
      c == entriesOf(config, "CONTROL_DB")
  IN CASE Len(t) # 1 -> {"tenant_binding_missing"}
       [] Len(t) = 1 /\ Len(c) # 1 -> {"control_binding_missing"}
       [] OTHER ->
            (IF (validateD1Id(t[1].id) /\ t[1].id = c[1].id) \/ values.databaseId = c[1].id
             THEN {"control_tenant_database_collision"} ELSE {})
            \cup (IF values.databaseId # t[1].id THEN {"tenant_database_id_mismatch"} ELSE {})
            \cup (IF values.databaseName # t[1].name THEN {"tenant_database_name_mismatch"} ELSE {})

\* deriveAuthorityEvidence: an evidence receipt is bound only to an authority
\* whose two bindings are two databases with two names.
authorityEvidence(config) ==
  LET c == entry(config, "CONTROL_DB")
      t == entry(config, "TENANT_DB_DEFAULT")
  IN /\ \A b \in RequiredBindings : Len(entriesOf(config, b)) = 1
     /\ validateD1Id(c.id) /\ validateD1Id(t.id)
     /\ c.id # t.id /\ c.name # t.name

-----------------------------------------------------------------------------
CONSTANTS Inputs,        \* operator environments: [databaseId, databaseName, tenant, valid]
          Files,         \* deploy files an operator may put in place by hand
          IdPairs,       \* CLOUDFLARE_*_DB_ID pairs given to prepare
          Base,          \* the committed wrangler.json
          Approved,      \* where prepare writes
          MaxEdits       \* bound: changes made by the operator

VARIABLES env,        \* the operator's CF_D1_BOOTSTRAP_* values
          armed,      \* --remote, EXECUTE=1, the phrase, the one binding; manifest and contract valid
          deploy,     \* the deploy file, or NoFile
          plan,       \* the generated SQL file, or NoPlan
          run,        \* the apply process
          control,    \* rows the batch inserted, per CONTROL database id
          executed,   \* every batch that reached Wrangler
          edits

vars == <<env, armed, deploy, plan, run, control, executed, edits>>

NoFile == [at |-> [dir |-> "missing", ignored |-> FALSE, link |-> FALSE],
           private |-> FALSE, parses |-> FALSE, config |-> Base]

NoPlan == [exists |-> FALSE, plain |-> FALSE, header |-> FALSE, sql |-> {}, extra |-> FALSE]

Idle == [pc |-> "idle", sql |-> {}, authority |-> Base]

\* buildBootstrapSql: the registry row and the rows that go with it, from the
\* values alone (the timestamp is the plan's own).
buildBootstrapSql(values) ==
  {[table |-> "tenants", key |-> values.tenant, names |-> "-"],
   [table |-> "tenant_databases", key |-> values.tenant, names |-> values.databaseId]}

readOperatorInput(values) == values.valid

\* inspectBootstrapArtifact and validateCanonicalArtifact: a plain private file
\* with a readable header, whose whole content is what the values build.
artifactBlocked(values) ==
  CASE ~plan.exists -> {"bootstrap_sql_missing"}
    [] plan.exists /\ ~plan.plain -> {"bootstrap_sql_symlink"}
    [] plan.exists /\ plan.plain /\ readOperatorInput(values) ->
         CASE ~plan.header -> {"bootstrap_sql_format_invalid"}
           [] plan.header /\ plan.sql # buildBootstrapSql(values) ->
                {"bootstrap_sql_values_mismatch"}
           [] OTHER -> IF plan.extra THEN {"bootstrap_sql_noncanonical"} ELSE {}
    [] OTHER -> {}

\* evaluateBootstrapGates.
blocked ==
  (IF armed THEN {} ELSE {"not_armed"})
  \cup (IF readOperatorInput(env) THEN {} ELSE {"operator_input_invalid"})
  \cup authorityBlocked(deploy)
  \cup (IF readOperatorInput(env) /\ authorityBlocked(deploy) = {}
        THEN registryBlocked(env, deploy.config) ELSE {})
  \cup artifactBlocked(env)

----------------------------------------------------------------------------
Init ==
  /\ env \in Inputs
  /\ armed \in BOOLEAN
  /\ deploy = NoFile
  /\ plan = NoPlan
  /\ run = Idle
  /\ control = [id \in RealId |-> {}]
  /\ executed = {}
  /\ edits = 0

Edit == edits < MaxEdits /\ edits' = edits + 1

\* cloudflare-deploy-prepare: the stale file goes first; a new one is written
\* only when the ids and the resulting configuration validate.
DeployPrepare ==
  /\ Edit
  /\ \E ids \in IdPairs :
       LET generated == buildConfigWithIds(Base, ids)
           ok == /\ \A b \in RequiredBindings : validateD1Id(ids[b])
                 /\ validateDeployConfig(generated, Approved, FALSE) = {}
       IN deploy' = IF ok THEN [at |-> Approved, private |-> TRUE, parses |-> TRUE,
                                config |-> generated]
                    ELSE NoFile
  /\ UNCHANGED <<env, armed, plan, run, control, executed>>

\* cf-d1-bootstrap-prepare: a plan from the current values, or none.
BootstrapPrepare ==
  /\ plan' = IF readOperatorInput(env)
             THEN [exists |-> TRUE, plain |-> TRUE, header |-> TRUE,
                   sql |-> buildBootstrapSql(env), extra |-> FALSE]
             ELSE NoPlan
  /\ UNCHANGED <<env, armed, deploy, run, control, executed, edits>>

\* The operator's own changes.  An apply that is under way has its environment.
ChangeEnv ==
  /\ Edit /\ run.pc = "idle"
  /\ env' \in Inputs \ {env}
  /\ UNCHANGED <<armed, deploy, plan, run, control, executed>>

ReplaceFile ==
  /\ Edit
  /\ deploy' \in Files
  /\ UNCHANGED <<env, armed, plan, run, control, executed>>

ReplacePlan ==
  /\ Edit /\ plan.exists
  /\ \/ plan' = [plan EXCEPT !.plain = FALSE]
     \/ plan' = [plan EXCEPT !.header = FALSE]
     \/ plan' = [plan EXCEPT !.extra = TRUE]
     \/ \E values \in Inputs : plan' = [plan EXCEPT !.sql = buildBootstrapSql(values)]
  /\ UNCHANGED <<env, armed, deploy, run, control, executed>>

\* cf-d1-bootstrap-apply up to its latch: the canonical bytes and the
\* configuration are retained; a refusal removes the plan.
Gate ==
  /\ run.pc = "idle"
  /\ IF blocked = {}
     THEN /\ run' = [pc |-> "authorized", sql |-> buildBootstrapSql(env),
                     authority |-> deploy.config]
          /\ plan' = plan
     ELSE plan' = NoPlan /\ run' = run
  /\ UNCHANGED <<env, armed, deploy, control, executed, edits>>

\* Mutant: the plan file is read again after the gates.
ExecutedSqlFromPath == plan.sql

\* applyBootstrapFile: the bytes handed to Wrangler are the retained ones.
ExecutedSql == run.sql

\* withPrivateExecutionConfig: the configuration handed over is the retained one.
ExecutionConfig == run.authority

\* Plain INSERTs: a key that is there fails the batch, and nothing is inserted.
Commits(target, sql) ==
  \A new \in sql, old \in control[target] : new.table = old.table => new.key # old.key

\* One batch, then the read-only counts, then the plan is removed.
Execute ==
  /\ run.pc = "authorized"
  /\ LET target == entry(ExecutionConfig, "CONTROL_DB").id
         batch == [sql |-> ExecutedSql, target |-> target, gate |-> run]
     IN /\ executed' = executed \cup {batch}
        /\ control' = IF target \in RealId /\ Commits(target, ExecutedSql)
                      THEN [control EXCEPT ![target] = @ \cup ExecutedSql] ELSE control
  /\ run' = Idle
  /\ plan' = NoPlan
  /\ UNCHANGED <<env, armed, deploy, edits>>

Next ==
  \/ DeployPrepare \/ BootstrapPrepare \/ ChangeEnv \/ ReplaceFile \/ ReplacePlan
  \/ Gate \/ Execute

Spec == Init /\ [][Next]_vars

----------------------------------------------------------------------------
\* What reached Wrangler is what the gates validated, whatever was done to the
\* plan file and the deploy file since: the retained bytes, on the database the
\* retained configuration calls CONTROL_DB.
ExecutedAsValidated ==
  \A batch \in executed :
    /\ batch.sql = batch.gate.sql
    /\ batch.target = entry(batch.gate.authority, "CONTROL_DB").id

\* A registry row never names the database it sits in: tenant data is not
\* routed into the control registry, whichever of the two files was replaced
\* before the gates looked.
RegistryNamesAnotherDatabase ==
  \A id \in RealId : \A row \in control[id] :
    row.table = "tenant_databases" => row.names \in RealId /\ row.names # id

\* The configuration an apply retains is one every evidence receipt can be
\* bound to: the two independent derivations of "physically separate" agree.
AuthorityIsReceiptable ==
  run.pc = "authorized" => authorityEvidence(run.authority)

=============================================================================
