------------------------------ MODULE D1Rollout -------------------------------
(***************************************************************************)
(* One staged rollout of the two D1 databases and the Worker: the operator *)
(* commands cf:d1:migrations:check, cf:d1:migrations:apply,                *)
(* cf:d1:schema:verify:remote, cf:d1:bootstrap:prepare and :apply,         *)
(* cf:deploy:preflight and cf:deploy, what each leaves in the world, and   *)
(* the receipts they sign into one evidence session.                       *)
(*                                                                         *)
(* A command is a process: its Wrangler calls, its child processes and the *)
(* two file accesses of an emission are where other commands interleave.   *)
(* A remote call may fail without effect or after it.  MigrationApply has  *)
(* the migration command in detail; here it is its outcome.                *)
(***************************************************************************)
EXTENDS Naturals, Sequences, FiniteSets, Functions

(***************************************************************************)
(* The rules of an operational-evidence session: which receipt may be      *)
(* appended to the ones a session holds, and which pack a verifier accepts *)
(* (scripts/lib/d1EvidenceReceipts, d1OperationalEvidence and the command  *)
(* cf:d1:evidence:verify, over contracts/operations/                       *)
(* d1-operational-evidence.v1).  A receipt is reduced to its operation,    *)
(* status, execution boundary and authority digest: digests, signatures    *)
(* and the chain hash are intact for every receipt a command wrote, and    *)
(* the position in the sequence stands for the chain.                      *)
(***************************************************************************)
\* required_successful_sequence of the contract.
Operations == <<"migration_plan_verified", "migration_apply_completed",
                "remote_schema_verified", "bootstrap_apply_completed",
                "bootstrap_counts_verified", "worker_preflight_completed",
                "worker_deploy_completed">>

Operation == Range(Operations)

CanonicalIndex(op) == CHOOSE i \in DOMAIN Operations : Operations[i] = op

\* hard_prerequisites of the contract.
Prerequisites(op) ==
  CASE op = "remote_schema_verified" -> {"migration_apply_completed"}
    [] op = "bootstrap_counts_verified" -> {"bootstrap_apply_completed"}
    [] op = "worker_deploy_completed" -> {"remote_schema_verified"}
    [] OTHER -> {}

Succeeded(receipts) ==
  {receipts[i].operation : i \in {j \in DOMAIN receipts : receipts[j].status = "success"}}

\* The receipt the next one is chained to.
Latest(receipts) == receipts[Len(receipts)]

\* Success after the earlier receipts: none failed, the prerequisites are
\* there, and no later operation of the canonical order has succeeded.
MaySucceed(receipts, op) ==
  /\ \A i \in DOMAIN receipts : receipts[i].status # "failed"
  /\ Prerequisites(op) \subseteq Succeeded(receipts)
  /\ \A done \in Succeeded(receipts) : CanonicalIndex(done) < CanonicalIndex(op)

\* assembleUnsignedReceipt: the append rules.
Appendable(receipts, created, r) ==
  /\ \A i \in DOMAIN receipts : receipts[i].operation # r.operation
  /\ r.status = "success" => MaySucceed(receipts, r.operation)
  /\ created <= r.started
  /\ receipts # <<>> => Latest(receipts).completed <= r.started
  /\ r.started <= r.completed

\* validateOperationOrdering over a whole pack.
WellOrdered(receipts) ==
  \A i \in DOMAIN receipts :
    LET before == SubSeq(receipts, 1, i - 1) r == receipts[i] IN
    /\ \A j \in DOMAIN before : before[j].operation # r.operation
    /\ r.status = "success" => MaySucceed(before, r.operation)
    /\ r.started <= r.completed
    /\ before # <<>> => Latest(before).completed <= r.started

\* verifyReceiptRecord of a receipt after the ones before it.
Verified(before, r) ==
  /\ r.operation \in Operation
  /\ r.started <= r.completed
  /\ before # <<>> => Latest(before).completed <= r.started

\* recordEvidenceOperation: a receipt joins the pack under the same rules it
\* joined the session, and with the pack's authority.
Recordable(before, bound, r) ==
  /\ Verified(before, r) /\ r.authority = bound
  /\ \A i \in DOMAIN before : before[i].operation # r.operation
  /\ r.status = "success" => MaySucceed(before, r.operation)

\* assembleEvidencePackFromSession: every receipt can be recorded in turn and
\* the finalized record is well ordered.
Packable(receipts, bound) ==
  /\ receipts # <<>>
  /\ \A i \in DOMAIN receipts : Recordable(SubSeq(receipts, 1, i - 1), bound, receipts[i])
  /\ WellOrdered(receipts)

\* verifyEvidencePackAtPath on a checkout at the recorded commit: nothing
\* failed and every required operation succeeded.
PackAccepted(receipts, bound) ==
  /\ Packable(receipts, bound)
  /\ \A i \in DOMAIN receipts : receipts[i].status # "failed"
  /\ Operation \subseteq Succeeded(receipts)

-----------------------------------------------------------------------------
CONSTANTS Shells,        \* terminals (numbers) a command may run in
          Authorities,   \* validated deploy-config authorities, by digest
          MaxClock,      \* bound: distinct readings of the millisecond clock
          Scenarios      \* bounds: per scenario how often each command is started,
                         \* how many run at a time, with which authorities, in
                         \* which order, and on migrated databases or fresh ones

\* 0 stands for a session that is not bound yet.
NoAuthority == 0

ASSUME RolloutAssumption ==
  /\ NoAuthority \notin Authorities
  /\ MaxClock \in Nat
  /\ \A scenario \in Scenarios : scenario.migrated \in BOOLEAN

VARIABLES clock,      \* the millisecond clock
          session,    \* the evidence session directory
          world,      \* per authority, what is in its databases and deployed
          artifact,   \* the prepared bootstrap SQL is on disk
          cmd,        \* per shell, the command it runs
          left        \* what the scenario still allows

vars == <<clock, session, world, artifact, cmd, left>>

Kinds == {"check", "migrate", "verify", "prepare", "bootstrap", "preflight", "deploy"}

Idle == [kind |-> "none", pc |-> "idle", authority |-> NoAuthority, execute |-> FALSE,
         started |-> 0, todo |-> <<>>, open |-> FALSE, seen |-> <<>>, counts |-> 0]

Statuses == {"success", "failed", "blocked"}

\* Session and commands keep their types, and a command refused by a gate has
\* left no receipt (only outcomes of operations are recorded).
TypeOK ==
  /\ clock \in 0..MaxClock
  /\ session.bound \in Authorities \cup {NoAuthority}
  /\ \A i \in DOMAIN session.receipts :
       LET r == session.receipts[i] IN
       /\ r.operation \in Operation /\ r.status \in Statuses \ {"blocked"}
       /\ r.started \in 0..MaxClock /\ r.completed \in 0..MaxClock
       /\ r.authority \in Authorities
  /\ world \in [Authorities -> [schema : BOOLEAN, rows : BOOLEAN, deployed : BOOLEAN]]
  /\ artifact \in BOOLEAN
  /\ \A s \in Shells : /\ cmd[s].kind \in Kinds \cup {"none"}
                       /\ Len(cmd[s].todo) <= 2
                       /\ cmd[s].open => cmd[s].todo # <<>>

Init ==
  /\ clock = 0
  /\ session = [created |-> 0, bound |-> NoAuthority, receipts |-> <<>>]
  /\ left \in Scenarios
  /\ world = [a \in Authorities |->
                [schema |-> left.migrated, rows |-> FALSE, deployed |-> FALSE]]
  /\ artifact = FALSE
  /\ cmd = [s \in Shells |-> Idle]

Running == {s \in Shells : cmd[s].kind # "none"}

\* The commands a scenario puts before this one.
Before(order, kind) ==
  {order[i] : i \in {j \in DOMAIN order : \E k \in DOMAIN order : j < k /\ order[k] = kind}}

Wanted(op, status, started) == [operation |-> op, status |-> status, started |-> started]

\* The command moves to pc, with receipts to emit first.
Goto(s, pc, todo) == cmd' = [cmd EXCEPT ![s].pc = pc, ![s].todo = todo]

At(s, kind, pc) == cmd[s].kind = kind /\ cmd[s].pc = pc /\ cmd[s].todo = <<>>

\* What a failing remote call may leave: nothing done, or everything.
LostOrLate(a, field) ==
  \/ UNCHANGED world
  \/ world' = [world EXCEPT ![a][field] = TRUE]

----------------------------------------------------------------------------
\* cf:d1:bootstrap:prepare writes the reviewed artifact.
Prepare ==
  /\ left.starts["prepare"] > 0
  /\ artifact' = TRUE
  /\ left' = [left EXCEPT !.starts["prepare"] = @ - 1]
  /\ UNCHANGED <<clock, session, world, cmd>>

\* A command whose gates pass, with the authority it retains for its whole
\* run.  started is the execution boundary, taken after the gates.
Start(s, kind, a, execute) ==
  /\ s \notin Running /\ Cardinality(Running) < left.width
  /\ \A t \in Shells : t < s => t \in Running
  /\ a \in left.authorities
  /\ \A k \in Before(left.order, kind) : left.starts[k] = 0
  /\ left.starts[kind] > 0
  /\ kind = "bootstrap" => artifact
  /\ kind # "deploy" => execute
  /\ cmd' = [cmd EXCEPT ![s] = [Idle EXCEPT !.kind = kind, !.pc = "run", !.authority = a,
                                            !.execute = execute, !.started = clock]]
  /\ left' = [left EXCEPT !.starts[kind] = @ - 1]
  /\ UNCHANGED <<clock, session, world, artifact>>

\* The gates refuse a bootstrap: the prepared artifact does not survive.
RefuseBootstrap ==
  /\ left.starts["bootstrap"] > 0 /\ Cardinality(Running) < left.width
  /\ artifact' = FALSE
  /\ left' = [left EXCEPT !.starts["bootstrap"] = @ - 1]
  /\ UNCHANGED <<clock, session, world, cmd>>

\* cf:d1:migrations:check: offline; its result is that of the checkout.
Check(s) ==
  /\ At(s, "check", "run")
  /\ \E status \in {"success", "failed"} :
       Goto(s, "end", <<Wanted("migration_plan_verified", status, cmd[s].started)>>)
  /\ UNCHANGED <<clock, session, world, artifact, left>>

\* cf:d1:migrations:apply.
Migrate(s) ==
  LET end(status) ==
        Goto(s, "end", <<Wanted("migration_apply_completed", status, cmd[s].started)>>)
  IN
  /\ At(s, "migrate", "run")
  /\ \/ end("success") /\ world' = [world EXCEPT ![cmd[s].authority].schema = TRUE]
     \/ end("failed") /\ LostOrLate(cmd[s].authority, "schema")
  /\ UNCHANGED <<clock, session, artifact, left>>

\* cf:d1:schema:verify:remote: both databases match the schema contract.
VerifySchema(s) ==
  /\ At(s, "verify", "run")
  /\ \E status \in {"success", "failed"} :
       /\ status = "success" => world[cmd[s].authority].schema
       /\ Goto(s, "end", <<Wanted("remote_schema_verified", status, cmd[s].started)>>)
  /\ UNCHANGED <<clock, session, world, artifact, left>>

\* cf:d1:bootstrap:apply, the batch: five plain INSERTs, all or none, that
\* need the tables and conflict with rows that are there.  The counts boundary
\* is taken when the batch returns.
Bootstrap(s) ==
  LET a == cmd[s].authority
      commits == world[a].schema /\ ~world[a].rows
  IN
  /\ At(s, "bootstrap", "run")
  /\ \/ /\ commits /\ world' = [world EXCEPT ![a].rows = TRUE]
        /\ cmd' = [cmd EXCEPT ![s].pc = "counts", ![s].counts = clock]
        /\ UNCHANGED artifact
     \/ /\ Goto(s, "end", <<Wanted("bootstrap_apply_completed", "failed", cmd[s].started)>>)
        /\ IF commits THEN LostOrLate(a, "rows") ELSE UNCHANGED world
        /\ artifact' = FALSE
  /\ UNCHANGED <<clock, session, left>>

\* The five COUNT queries after the commit.  A failure is reported and nothing
\* is undone.  Both receipts are emitted afterwards, the batch's first; a query
\* that throws leaves no outcome, and so no counts receipt.
Counts(s) ==
  /\ At(s, "bootstrap", "counts")
  /\ LET batch == Wanted("bootstrap_apply_completed", "success", cmd[s].started)
     IN \/ Goto(s, "end", <<batch>>)
        \/ \E status \in {"success", "failed"} :
             /\ status = "success" => world[cmd[s].authority].rows
             /\ Goto(s, "end",
                     <<batch, Wanted("bootstrap_counts_verified", status, cmd[s].counts)>>)
  /\ artifact' = FALSE
  /\ UNCHANGED <<clock, session, world, left>>

\* The preflight's result as a receipt: a passed preflight that did not check
\* a built Worker opens the receipt context and records nothing.
PreflightReceipt(status, checkedArtifacts, started) ==
  Wanted("worker_preflight_completed",
         IF status = "success" /\ ~checkedArtifacts THEN "blocked" ELSE status, started)

\* cf:deploy:preflight on its own.
Preflight(s) ==
  /\ At(s, "preflight", "run")
  /\ \E status \in {"success", "failed"}, artifacts \in BOOLEAN :
       Goto(s, "end", <<PreflightReceipt(status, artifacts, cmd[s].started)>>)
  /\ UNCHANGED <<clock, session, world, artifact, left>>

\* The deploy's own receipt, for a gated attempt only.
DeployReceipt(s, status) ==
  IF cmd[s].execute
  THEN <<Wanted("worker_deploy_completed", status, cmd[s].started)>> ELSE <<>>

\* cf:deploy, the offline steps: a preflight child, the build, and a second
\* preflight child that checks the artifacts.  The children inherit the
\* session.  Without CF_DEPLOY_EXECUTE=1 the pipeline stops here.
DeployOffline(s) ==
  \E status \in {"success", "failed"} :
    LET second == cmd[s].pc = "artifacts"
        inner == PreflightReceipt(status, second, clock)
    IN /\ At(s, "deploy", "run") \/ At(s, "deploy", "artifacts")
       /\ \/ status = "failed" /\ Goto(s, "end", <<inner>> \o DeployReceipt(s, "failed"))
          \/ status = "success" /\ ~second /\ Goto(s, "build", <<inner>>)
          \/ /\ status = "success" /\ second
             /\ Goto(s, IF cmd[s].execute THEN "schema" ELSE "end", <<inner>>)
       /\ UNCHANGED <<clock, session, world, artifact, left>>

Build(s) ==
  /\ At(s, "deploy", "build")
  /\ \/ Goto(s, "artifacts", <<>>)
     \/ Goto(s, "end", DeployReceipt(s, "failed"))
  /\ UNCHANGED <<clock, session, world, artifact, left>>

\* The remote steps, behind the latch: the schemas of the retained authority...
DeploySchema(s) ==
  /\ At(s, "deploy", "schema")
  /\ \/ world[cmd[s].authority].schema /\ Goto(s, "upload", <<>>)
     \/ Goto(s, "end", DeployReceipt(s, "failed"))
  /\ UNCHANGED <<clock, session, world, artifact, left>>

\* ...and the upload with the same authority.
Upload(s) ==
  /\ At(s, "deploy", "upload")
  /\ \/ /\ Goto(s, "end", DeployReceipt(s, "success"))
        /\ world' = [world EXCEPT ![cmd[s].authority].deployed = TRUE]
     \/ /\ Goto(s, "end", DeployReceipt(s, "failed"))
        /\ LostOrLate(cmd[s].authority, "deployed")
  /\ UNCHANGED <<clock, session, artifact, left>>

----------------------------------------------------------------------------

\* bindSessionAuthority: the first authority that comes binds the session, a
\* later different one is refused.
Binds(a) == session.bound \in {NoAuthority, a}

\* openCommandReceiptContext: the authority is bound and the receipts are
\* read.  The result may then still not be one a receipt can be derived from.
Open(s) ==
  /\ cmd[s].todo # <<>> /\ ~cmd[s].open
  /\ \/ /\ Binds(cmd[s].authority)
        /\ session' = [session EXCEPT !.bound = cmd[s].authority]
        /\ cmd' = IF Head(cmd[s].todo).status = "blocked"
                  THEN [cmd EXCEPT ![s].todo = Tail(@)]
                  ELSE [cmd EXCEPT ![s].open = TRUE, ![s].seen = session.receipts]
     \/ /\ ~Binds(cmd[s].authority)
        /\ cmd' = [cmd EXCEPT ![s].todo = Tail(@)] /\ UNCHANGED session
  /\ UNCHANGED <<clock, world, artifact, left>>

\* The receipt the command is about to sign; completed_at is taken now.
Draft(s) ==
  LET w == Head(cmd[s].todo) IN
  [operation |-> w.operation, status |-> w.status, started |-> w.started,
   completed |-> clock, authority |-> cmd[s].authority]

\* Mutant: the receipt goes after whatever the session holds by now.
PersistableAnywhere(s) == Appendable(cmd[s].seen, session.created, Draft(s))

\* persistSignedReceipt reads the session again: the receipt must still be the
\* next one, and its file must not exist.
Persistable(s) ==
  /\ Appendable(cmd[s].seen, session.created, Draft(s))
  /\ Len(session.receipts) = Len(cmd[s].seen)
  /\ Verified(session.receipts, Draft(s))

\* Mutant: a refused receipt is tried again.
PersistRetrying(s) ==
  /\ cmd[s].open
  /\ session' = IF Persistable(s)
                THEN [session EXCEPT !.receipts = Append(@, Draft(s))] ELSE session
  /\ cmd' = [cmd EXCEPT ![s].todo = IF Persistable(s) THEN Tail(@) ELSE @,
                        ![s].open = FALSE, ![s].seen = <<>>]
  /\ UNCHANGED <<clock, world, artifact, left>>

\* Assemble from the receipts read before, sign, and persist; a refused
\* receipt is reported and the command goes on.
Persist(s) ==
  /\ cmd[s].open
  /\ session' = IF Persistable(s)
                THEN [session EXCEPT !.receipts = Append(@, Draft(s))] ELSE session
  /\ cmd' = [cmd EXCEPT ![s].todo = Tail(@), ![s].open = FALSE, ![s].seen = <<>>]
  /\ UNCHANGED <<clock, world, artifact, left>>

\* The session directory, the key or the receipt file cannot be accessed, or a
\* race for session-authority.json is lost: the receipt is refused.
EmitFails(s) ==
  /\ cmd[s].todo # <<>>
  /\ cmd' = [cmd EXCEPT ![s].todo = Tail(@), ![s].open = FALSE, ![s].seen = <<>>]
  /\ UNCHANGED <<clock, session, world, artifact, left>>

Exit(s) ==
  /\ cmd[s].pc = "end" /\ cmd[s].todo = <<>>
  /\ cmd' = [cmd EXCEPT ![s] = Idle]
  /\ UNCHANGED <<clock, session, world, artifact, left>>

\* The process is killed.
Crash(s) ==
  /\ s \in Running
  /\ cmd' = [cmd EXCEPT ![s] = Idle]
  /\ UNCHANGED <<clock, session, world, artifact, left>>

Tick ==
  /\ clock < MaxClock
  /\ clock' = clock + 1
  /\ UNCHANGED <<session, world, artifact, cmd, left>>

Step(s) ==
  \/ Check(s) \/ Migrate(s) \/ VerifySchema(s) \/ Bootstrap(s) \/ Counts(s)
  \/ Preflight(s) \/ DeployOffline(s) \/ Build(s) \/ DeploySchema(s) \/ Upload(s)
  \/ Open(s) \/ Persist(s) \/ EmitFails(s) \/ Exit(s)

Next ==
  \/ \E s \in Shells : Step(s) \/ Crash(s)
  \/ \E s \in Shells, kind \in Kinds \ {"prepare"}, a \in Authorities, x \in BOOLEAN :
       Start(s, kind, a, x)
  \/ Prepare \/ RefuseBootstrap \/ Tick

Spec == Init /\ [][Next]_vars

\* A command that is not killed goes on: its calls are synchronous and return.
FairSpec == Spec /\ \A s \in Shells : WF_vars(Step(s))

----------------------------------------------------------------------------
\* What the success of an operation says of the databases and the Worker.
Claimed(op, w) ==
  CASE op \in {"migration_apply_completed", "remote_schema_verified"} -> w.schema
    [] op \in {"bootstrap_apply_completed", "bootstrap_counts_verified"} -> w.rows
    [] op = "worker_deploy_completed" -> w.schema /\ w.deployed
    [] OTHER -> TRUE

\* What a successful receipt says of its operation is so in the world.
Evidenced(receipts, worlds) ==
  \A i \in DOMAIN receipts :
    receipts[i].status = "success" =>
      Claimed(receipts[i].operation, worlds[receipts[i].authority])

\* Every successful receipt is true: the schema is there, the five rows are
\* there, the Worker is deployed on databases whose schema was verified, for
\* the authority the receipt names - whatever failed, raced or was killed.
ReceiptsAreTrue == Evidenced(session.receipts, world)

\* The receipts of a session always form a chain a pack can be made of: one
\* authority, one receipt an operation, no success after a failure, every
\* prerequisite earlier, and started only after its predecessor completed -
\* though every command assembled its receipt from an earlier read.
SessionAlwaysPackable ==
  session.receipts # <<>> => Packable(session.receipts, session.bound)

\* A pack the verifier accepts is of a finished rollout: one authority whose
\* databases have the schema and the rows and whose Worker is deployed.  (A
\* pack is a copy of the session's receipts at some time, and the commands
\* never read it.)
AcceptedPackIsARollout ==
  PackAccepted(session.receipts, session.bound) =>
    world[session.bound] = [schema |-> TRUE, rows |-> TRUE, deployed |-> TRUE]

\* The Worker is deployed only against databases whose schema is complete
\* (cf:deploy verifies the schema of the authority it uploads, just before).
DeployedOnVerifiedSchema == \A a \in Authorities : world[a].deployed => world[a].schema

\* The evidence of a rollout can be relied on: its receipts are true and form
\* a chain, an accepted pack is a rollout, and no Worker runs on an unverified
\* schema.
EvidenceIsSound ==
  /\ TypeOK /\ ReceiptsAreTrue /\ SessionAlwaysPackable
  /\ AcceptedPackIsARollout /\ DeployedOnVerifiedSchema

\* Every command that is started ends.
EveryCommandEnds == \A s \in Shells : s \in Running ~> s \notin Running

\* cf:d1:bootstrap:apply emits two receipts, the batch outcome and then the
\* COUNT check: when its counts were verified and its batch receipt is the last
\* of the session, the rules let it record the counts receipt.
CountsReceiptFollows ==
  \A s \in Shells :
    /\ cmd[s].open /\ cmd[s].seen # <<>>
    /\ Head(cmd[s].todo).operation = "bootstrap_counts_verified"
    /\ Latest(cmd[s].seen).operation = "bootstrap_apply_completed"
    /\ \A i \in DOMAIN cmd[s].seen : cmd[s].seen[i].status = "success"
    => Appendable(cmd[s].seen, session.created, Draft(s))

----------------------------------------------------------------------------
\* The inductive invariant of EvidenceIsSound.
Receipt == [operation : Operation, status : Statuses \ {"blocked"}, started : 0..MaxClock,
            completed : 0..MaxClock, authority : Authorities]

Result == [operation : Operation, status : Statuses, started : 0..MaxClock]

Pcs == {"idle", "run", "counts", "build", "artifacts", "schema", "upload", "end"}

Command == [kind : Kinds \cup {"none"}, pc : Pcs, authority : Authorities \cup {NoAuthority},
            execute : BOOLEAN, started : 0..MaxClock, todo : Seq(Result), open : BOOLEAN,
            seen : Seq(Receipt), counts : 0..MaxClock]

World == [Authorities -> [schema : BOOLEAN, rows : BOOLEAN, deployed : BOOLEAN]]

\* The receipts form a chain under one authority, and are true.
SessionOk(ses, worlds) ==
  /\ ses \in [created : {0}, bound : Authorities \cup {NoAuthority}, receipts : Seq(Receipt)]
  /\ ses.receipts # <<>> => Packable(ses.receipts, ses.bound)
  /\ Evidenced(ses.receipts, worlds)

\* What a command has read of the session is its beginning, what it is about to
\* sign is true, and what it has checked remotely still holds.
CommandOk(c, ses, worlds) ==
  /\ c.kind = "none" => c.todo = <<>> /\ c.pc = "idle"
  /\ c.kind # "none" => c.authority \in Authorities
  /\ Len(c.todo) <= 2
  /\ c.open => /\ c.todo # <<>> /\ Head(c.todo).status # "blocked"
               /\ ses.bound = c.authority
               /\ Len(c.seen) <= Len(ses.receipts)
               /\ \A i \in 1..Len(c.seen) : c.seen[i] = ses.receipts[i]
  /\ \A i \in 1..Len(c.todo) :
       c.todo[i].status = "success" => Claimed(c.todo[i].operation, worlds[c.authority])
  /\ c.pc = "counts" => worlds[c.authority].rows
  /\ c.pc = "upload" => worlds[c.authority].schema

RolloutInv ==
  /\ clock \in 0..MaxClock /\ world \in World /\ artifact \in BOOLEAN
  /\ cmd \in [Shells -> Command]
  /\ SessionOk(session, world)
  /\ \A s \in Shells : CommandOk(cmd[s], session, world)
  /\ DeployedOnVerifiedSchema
=============================================================================
