-------------------------- MODULE MigrationLedger --------------------------
(***************************************************************************)
(* The D1 migration manifest and the ledger it is reconciled with, as the  *)
(* operators the migration commands share: scripts/lib/d1MigrationManifest *)
(* and d1MigrationLedger.  A digest stands for the bytes it is taken of,   *)
(* so an entry's "sha" is compared where the code compares sha256 values,  *)
(* and the effect probe of a "once" migration is named by its path.        *)
(***************************************************************************)
EXTENDS Naturals, Sequences, FiniteSets, Functions

\* KNOWN_BINDINGS, in the order every command walks them.
KnownBindings == <<"CONTROL_DB", "TENANT_DB_DEFAULT">>

Binding == Range(KnownBindings)

\* REGISTRY_BINDING: the lane whose digest the registry version is pinned to.
RegistryBinding == "TENANT_DB_DEFAULT"

\* The elements of a finite set in the order of their sequence numbers; elements
\* with the same number are in some fixed order.
InSequence(S) ==
  CHOOSE p \in Injection(1..Cardinality(S), S) :
    \A i, j \in 1..Cardinality(S) : i < j => p[i].sequence <= p[j].sequence

\* Mutant: the lane is walked from its end.
buildPlanBackwards(manifest, b) ==
  LET p == InSequence(manifest.lanes[b]) IN [i \in DOMAIN p |-> p[Len(p) + 1 - i]]

\* Lane entries, in sequence order.
buildPlan(manifest, b) == InSequence(manifest.lanes[b])

\* validateEntry: the path is a committed file with the pinned digest.
validateEntry(entry, files) ==
  entry.path \in DOMAIN files /\ files[entry.path] = entry.sha

\* validateRegistry: the version the registry rows carry is pinned to the plan
\* of its lane.
validateRegistry(manifest) == manifest.planDigest = manifest.lanes[RegistryBinding]

\* validateManifest over the files of the checkout: no sequence twice in a
\* lane, no path twice in the manifest, and every committed file in a lane.
validateManifest(manifest, files) ==
  LET entries == UNION {manifest.lanes[b] : b \in Binding} IN
  /\ \A b \in Binding : manifest.lanes[b] # {}
  /\ \A b \in Binding : \A e, f \in manifest.lanes[b] :
       e.sequence = f.sequence => e = f
  /\ \A b, c \in Binding : \A e \in manifest.lanes[b], f \in manifest.lanes[c] :
       e.path = f.path => b = c /\ e = f
  /\ \A e \in entries : validateEntry(e, files)
  /\ \A p \in DOMAIN files : \E e \in entries : e.path = p
  /\ validateRegistry(manifest)

----------------------------------------------------------------------------

\* One planned migration against the ledger rows of its own lane and the
\* effects the probes found.
StepState(step, own, present) ==
  LET at == {row \in own : row.sequence = step.sequence}
      row == CHOOSE r \in at : TRUE
      landed == step.apply = "once" /\ step.path \in present
  IN IF at = {} THEN (IF landed THEN "schema_without_history" ELSE "pending")
     ELSE CASE row.path # step.path -> "path_mismatch"
            [] row.path = step.path /\ row.sha # step.sha -> "digest_mismatch"
            [] OTHER -> IF step.apply = "once" /\ ~landed
                        THEN "history_without_schema" ELSE "satisfied"

\* reconcileFromState: nothing foreign, every step pending or satisfied, no
\* row the plan does not know, and no satisfied step after an unsatisfied one.
Reconciled(plan, history, present) ==
  LET state(i) == StepState(plan[i], history.own, present) IN
  /\ history.foreign = {}
  /\ \A i \in DOMAIN plan : state(i) \in {"pending", "satisfied"}
  /\ \A row \in history.own : \E i \in DOMAIN plan : plan[i].sequence = row.sequence
  /\ \A i, j \in DOMAIN plan :
       j < i /\ state(i) = "satisfied" => state(j) = "satisfied"

\* A database is its ledger rows, the columns its "once" migrations add, and
\* the migration bytes that have run on it.
FreshDb == [rows |-> {}, cols |-> {}, ran |-> {}]

historyOf(db, b) ==
  [own |-> {row \in db.rows : row.binding = b},
   foreign |-> {row \in db.rows : row.binding # b}]

\* The ledger row of a step.
RowOf(b, step) ==
  [binding |-> b, sequence |-> step.sequence, path |-> step.path, sha |-> step.sha]

\* PRIMARY KEY (binding, sequence) and UNIQUE (binding, path).
KeyFree(db, row) ==
  \A r \in db.rows : r.binding = row.binding =>
    r.sequence # row.sequence /\ r.path # row.path

\* The migration's SQL on the database.  Adding a column that is there is an
\* error; the SQL of a replay-safe migration never fails.
Runnable(db, step) == ~(step.apply = "once" /\ step.path \in db.cols)

Ran(db, step) ==
  [db EXCEPT !.ran = @ \cup {<<step.path, step.sha>>},
             !.cols = @ \cup IF step.apply = "once" THEN {step.path} ELSE {}]

Recorded(db, b, step) == [db EXCEPT !.rows = @ \cup {RowOf(b, step)}]

\* One D1 batch, the SQL and its ledger row: everything or nothing.
BatchCommits(db, b, step) == Runnable(db, step) /\ KeyFree(db, RowOf(b, step))

Batch(db, b, step) ==
  IF BatchCommits(db, b, step) THEN Recorded(Ran(db, step), b, step) ELSE db
=============================================================================
