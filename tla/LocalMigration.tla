--------------------------- MODULE LocalMigration ---------------------------
(***************************************************************************)
(* cf-d1-migrate: the invocation rules, and the hermetic local run that    *)
(* applies every lane to throw-away databases, replays it, verifies it     *)
(* and removes what it made (lib/d1MigrationRunner), with the schema       *)
(* contract (lib/d1SchemaContract) and the local ledger it runs on.  Any   *)
(* effect of the run may throw.                                            *)
(***************************************************************************)
EXTENDS MigrationLedger

CONSTANTS Checkouts,           \* checkouts: [manifest, files]
          TableOf,             \* the table a migration creates or alters
          Invocations          \* command lines: [verb, env, remote, confirm, asserted, trusted, unknown]

VARIABLES checkout, pc, verb, dbs,
          opened,              \* the handles that are open
          unclosed,            \* those of them whose close threw
          root, at, step, flags, error, before, cleanup

vars == <<checkout, pc, verb, dbs, opened, unclosed, root, at, step, flags, error, before, cleanup>>

----------------------------------------------------------------------------
\* evaluateTrustedStagingContext: both fields set and well formed, or a category.
trustedContext(t) ==
  CASE ~t.account /\ ~t.project -> "staging_context_unconfigured"
    [] t.account # t.project -> "staging_context_incomplete"
    [] OTHER -> IF t.wellFormed THEN "ok" ELSE "staging_context_invalid"

\* evaluateCallerAssertions: none, or both and equal to the trusted ones.
callerAssertions(a) ==
  CASE a.account # a.project -> "staging_context_assertion_incomplete"
    [] ~a.account /\ ~a.project -> "ok"
    [] OTHER -> IF a.equal THEN "ok" ELSE "unexpected_cloudflare_context"

\* validateInvocation, as the error or "ok".
validateInvocation(i) ==
  LET asserts == i.asserted.account \/ i.asserted.project IN
  IF i.verb \notin {"plan", "apply", "verify", "preflight"} THEN "unknown_verb"
  ELSE IF i.unknown THEN "unknown_flag"
  ELSE IF i.env = "production" THEN "production_environment_forbidden"
  ELSE IF i.env \notin {"local", "staging"} THEN "unknown_environment"
  ELSE
       CASE i.verb = "plan" ->
              IF i.remote THEN "remote_flag_forbidden_for_plan"
              ELSE IF asserts THEN "context_assertion_not_allowed_for_plan" ELSE "ok"
         [] i.verb = "preflight" ->
              IF i.env # "staging" THEN "preflight_requires_staging_environment"
              ELSE IF i.remote \/ i.confirm THEN "flag_forbidden_for_preflight"
              ELSE IF trustedContext(i.trusted) # "ok" THEN trustedContext(i.trusted)
              ELSE callerAssertions(i.asserted)
         [] OTHER ->
              IF i.env = "staging" THEN "staging_remote_execution_not_available"
              ELSE IF i.remote \/ i.confirm \/ asserts THEN "flag_forbidden_for_local" ELSE "ok"

----------------------------------------------------------------------------
\* introspect: what the migrations that ran left in the schema.
introspect(db) == {r[1] : r \in db.ran} \cup db.cols

\* resolveValidatedManifest.
ResolvesManifest == validateManifest(checkout.manifest, checkout.files)

\* The contract section of a lane: everything its migrations create.
contractSection(b) == {e.path : e \in checkout.manifest.lanes[b]}

\* verifyIntrospection: no table the section does not know, every object there.
verifyIntrospection(actual, section) ==
  /\ {TableOf[p] : p \in actual} \subseteq {TableOf[p] : p \in section}
  /\ section \subseteq actual

verifyDatabase(db, b) == verifyIntrospection(introspect(db), contractSection(b))

\* schemaSignature: a digest of the introspection.
schemaSignature(db) == introspect(db)

Lane(b) == buildPlan(checkout.manifest, b)

\* reconcileLane on an open database.
reconcileLane(db, b) == Reconciled(Lane(b), historyOf(db, b), db.cols)

\* verifyAll.
verifyAll ==
  \A b \in Binding : reconcileLane(dbs[b], b) /\ verifyDatabase(dbs[b], b)

\* verifyTenantDatabaseCoupling: the registry row, the manifest's version, the
\* ledger and the schema of the database the row routes to, as one verdict.
verifyTenantDatabaseCoupling(row, version, db) ==
  /\ row.present /\ row.active /\ row.version = version
  /\ ResolvesManifest
  /\ reconcileLane(db, "TENANT_DB_DEFAULT")
  /\ verifyDatabase(db, "TENANT_DB_DEFAULT") /\ ~verifyDatabase(db, "CONTROL_DB")

----------------------------------------------------------------------------
NoFlags == [fresh_apply |-> FALSE, replay_noop |-> FALSE, verify_ok |-> FALSE]

Init ==
  /\ checkout \in Checkouts
  /\ pc = "invoke" /\ verb = "none"
  /\ dbs = [b \in Binding |-> FreshDb]
  /\ opened = {} /\ unclosed = {} /\ root = "none"
  /\ at = 0 /\ step = 0
  /\ flags = NoFlags /\ error = "none" /\ before = <<>> /\ cleanup = "none"

\* main: only a local apply or verify goes on; the other accepted verbs print a
\* report and touch nothing.
Invoke ==
  /\ pc = "invoke"
  /\ \E i \in Invocations :
       /\ verb' = i.verb
       /\ IF validateInvocation(i) = "ok" /\ i.verb \in {"apply", "verify"}
          THEN pc' = "temp" /\ error' = error
          ELSE pc' = "exit" /\ error' = validateInvocation(i)
  /\ UNCHANGED <<checkout, dbs, opened, unclosed, root, at, step, flags, before, cleanup>>

\* A throw anywhere in the run is caught and leads to the cleanup.
Throw ==
  /\ pc \in {"temp", "open", "apply", "record", "replay", "verify"}
  /\ error' = "hermetic_run_failed" /\ pc' = "close"
  /\ UNCHANGED <<checkout, verb, dbs, opened, unclosed, root, at, step, flags, before, cleanup>>

makeTempRoot ==
  /\ pc = "temp"
  /\ root' = "made" /\ pc' = "open" /\ at' = 1
  /\ UNCHANGED <<checkout, verb, dbs, opened, unclosed, step, flags, error, before, cleanup>>

\* openDatabase, tracked as it is opened.
openDatabase ==
  /\ pc = "open"
  /\ opened' = opened \cup {KnownBindings[at]}
  /\ IF at < Len(KnownBindings) THEN at' = at + 1 /\ pc' = pc /\ step' = step
     ELSE at' = 1 /\ step' = 1 /\ pc' = "apply"
  /\ UNCHANGED <<checkout, verb, dbs, unclosed, root, flags, error, before, cleanup>>

\* The end of one pass of applyAll over both lanes.
Passed ==
  /\ IF before = <<>> /\ verb = "apply"
     THEN /\ before' = [b \in Binding |-> schemaSignature(dbs'[b])]
          /\ flags' = [flags EXCEPT !.fresh_apply = TRUE]
          /\ pc' = "apply" /\ at' = 1 /\ step' = 1
     ELSE /\ before' = before /\ at' = at /\ step' = step
          /\ flags' = IF verb = "apply"
                      THEN [flags EXCEPT !.replay_noop =
                              before = [b \in Binding |-> schemaSignature(dbs'[b])]]
                      ELSE [flags EXCEPT !.fresh_apply = TRUE]
          /\ pc' = "verify"

\* A "once" step that is satisfied is never replayed.
Skip(s, own, present) == s.apply = "once" /\ StepState(s, own, present) = "satisfied"

Forward ==
  IF step < Len(Lane(KnownBindings[at]))
  THEN step' = step + 1 /\ at' = at /\ pc' = "apply" /\ UNCHANGED <<before, flags>>
  ELSE IF at < Len(KnownBindings)
       THEN at' = at + 1 /\ step' = 1 /\ pc' = "apply" /\ UNCHANGED <<before, flags>>
       ELSE Passed

\* applyAll and applyLaneWithLedger, one step.  The lane is reconciled before its first
\* step; the digest of the file is checked at every step; a "once" step commits
\* with its ledger row, a replay-safe one runs first and is recorded after.
applyStep ==
  /\ pc = "apply"
  /\ LET b == KnownBindings[at]
         s == Lane(b)[step]
         own == historyOf(dbs[b], b).own
         fails == \/ at = 1 /\ step = 1 /\ ~ResolvesManifest
                  \/ step = 1 /\ ~reconcileLane(dbs[b], b)
                  \/ ~validateEntry(s, checkout.files)
                  \/ s.apply = "once" /\ ~Skip(s, own, dbs[b].cols)
                       /\ ~BatchCommits(dbs[b], b, s)
     IN IF fails
        THEN /\ error' = "migration_failed" /\ pc' = "close"
             /\ UNCHANGED <<dbs, at, step, before, flags>>
        ELSE /\ error' = error
             /\ CASE Skip(s, own, dbs[b].cols) -> dbs' = dbs /\ Forward
                  [] ~Skip(s, own, dbs[b].cols) /\ s.apply = "once" ->
                       dbs' = [dbs EXCEPT ![b] = Batch(@, b, s)] /\ Forward
                  [] OTHER ->
                       /\ dbs' = [dbs EXCEPT ![b] = Ran(@, s)]
                       /\ pc' = "record" /\ UNCHANGED <<at, step, before, flags>>
  /\ UNCHANGED <<checkout, verb, opened, unclosed, root, cleanup>>

\* recordApplied, unless the row is there.
RecordIfNew(db, b, s) ==
  IF StepState(s, historyOf(db, b).own, db.cols) = "satisfied" THEN db ELSE Recorded(db, b, s)

recordStep ==
  /\ pc = "record"
  /\ LET b == KnownBindings[at]
     IN dbs' = [dbs EXCEPT ![b] = RecordIfNew(@, b, Lane(b)[step])]
  /\ Forward
  /\ UNCHANGED <<checkout, verb, opened, unclosed, root, error, cleanup>>

verifyStep ==
  /\ pc = "verify"
  /\ flags' = [flags EXCEPT !.verify_ok = verifyAll]
  /\ pc' = "close"
  /\ UNCHANGED <<checkout, verb, dbs, opened, unclosed, root, at, step, error, before, cleanup>>

\* The handles that the cleanup has yet to try.
Untried == {b \in opened : b \notin unclosed}

\* They are tried in the order they were opened in.
NextHandle ==
  KnownBindings[CHOOSE i \in DOMAIN KnownBindings :
                  /\ KnownBindings[i] \in Untried
                  /\ \A j \in 1..(i - 1) : KnownBindings[j] \notin Untried]

\* Mutant: a close that throws is not caught, and the command ends there.
closeHandleUncaught ==
  /\ pc = "close" /\ Untried # {}
  /\ LET h == NextHandle
     IN \/ opened' = opened \ {h} /\ UNCHANGED <<pc, unclosed>>
        \/ unclosed' = unclosed \cup {h} /\ pc' = "exit" /\ UNCHANGED opened
  /\ UNCHANGED <<checkout, verb, dbs, root, at, step, flags, error, before, cleanup>>

\* The single cleanup authority.  First every opened handle is closed, best
\* effort: a close that throws leaves its handle open and is not reported.
closeHandle ==
  /\ pc = "close" /\ Untried # {}
  /\ LET h == NextHandle
     IN \/ opened' = opened \ {h} /\ UNCHANGED unclosed
        \/ unclosed' = unclosed \cup {h} /\ UNCHANGED opened
  /\ UNCHANGED <<checkout, pc, verb, dbs, root, at, step, flags, error, before, cleanup>>

\* Then the root is removed, if it was made, and looked for.  The removal may
\* throw, and so may the look at a root that is gone.
removeRoot ==
  /\ pc = "close" /\ Untried = {}
  /\ \/ root' = "none" /\ cleanup' = "done"
     \/ root # "none" /\ root' = root /\ cleanup' = "cleanup_root_not_removed"
     \/ root # "none" /\ root' \in {root, "none"} /\ cleanup' = "cleanup_root_removal_failed"
  /\ pc' = "exit"
  /\ UNCHANGED <<checkout, verb, dbs, opened, unclosed, at, step, flags, error, before>>

Next ==
  \/ Invoke \/ Throw \/ makeTempRoot \/ openDatabase \/ applyStep \/ recordStep
  \/ verifyStep \/ closeHandle \/ removeRoot \/ (pc = "exit" /\ UNCHANGED vars)

Spec == Init /\ [][Next]_vars

\* The verdict the command exits with.
Ok ==
  /\ pc = "exit" /\ error = "none" /\ cleanup = "done"
  /\ flags.fresh_apply /\ flags.verify_ok /\ (verb = "apply" => flags.replay_noop)

----------------------------------------------------------------------------
\* A run that reports success has migrated both databases completely, in the
\* ledger and in the schema, has run no migration that is not of the lane, and
\* has left no directory behind.
OkMeansMigrated ==
  Ok => /\ \A b \in Binding :
             /\ {RowOf(b, e) : e \in checkout.manifest.lanes[b]} = dbs[b].rows
             /\ contractSection(b) \subseteq introspect(dbs[b])
        /\ root = "none"

\* Whatever throws, and wherever, a command that ran ends with every database it
\* opened closed, but for those whose own close threw, and with its temporary
\* directory gone or reported as left: a close that throws keeps neither the
\* other handles open nor the directory on disk.
NothingLeaks ==
  pc = "exit" =>
    /\ opened \subseteq unclosed
    /\ root # "none" => cleanup \in {"cleanup_root_not_removed", "cleanup_root_removal_failed"}

\* A registry row of the manifest's version routes only to a database whose
\* whole tenant lane has run, never to a half-migrated one or to the control
\* database; and a run that reports success has made a database it may route to.
RoutableIsComplete ==
  LET couples(b) == verifyTenantDatabaseCoupling(
                      [present |-> TRUE, active |-> TRUE, version |-> 1], 1, dbs[b])
  IN /\ Ok => couples("TENANT_DB_DEFAULT")
     /\ \A b \in Binding : couples(b) =>
          /\ b = "TENANT_DB_DEFAULT"
          /\ {<<e.path, e.sha>> : e \in checkout.manifest.lanes[b]} \subseteq dbs[b].ran

\* Applying the lanes a second time is a no-op and never an error: the run of a
\* valid checkout fails only when one of its effects throws.
ReplayNeverFails ==
  /\ error = "migration_failed" => ~ResolvesManifest
  /\ pc = "exit" /\ error = "none" /\ verb = "apply" => flags.replay_noop
=============================================================================
