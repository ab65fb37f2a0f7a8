--------------------------- MODULE MigrationApply ---------------------------
(***************************************************************************)
(* cf:d1:migrations:apply, run by one or more operators against remote D1  *)
(* databases: the gates, then per lane the history read, the effect probes *)
(* and the migrations one Wrangler call at a time.                         *)
(*                                                                         *)
(* The command is synchronous, but every Wrangler call is a process that   *)
(* other operators' calls and edits of the checkout may fall between, so a *)
(* run is cut at its Wrangler calls.  A call may fail without effect       *)
(* ("lost") or exit non-zero after D1 has committed ("late"), and a run    *)
(* may be killed between two calls.  A migration file is verified and read *)
(* in one step: the code reads it twice, one line apart.                   *)
(***************************************************************************)
EXTENDS MigrationLedger

CONSTANTS Runners,      \* operators that may run the command
          Databases,    \* physical D1 databases
          Checkouts,    \* the contents the checkout may have: manifest and files
          MaxStarts,    \* bound: runs of the command
          MaxEdits,     \* bound: edits of the checkout
          MaxManual     \* bound: schema changes made by hand

\* A checkout's manifest has finite lanes of numbered entries, and rewriting a
\* migration does not turn a "once" one into a replay-safe one or back.
ASSUME CheckoutsAssumption ==
  /\ \A c \in Checkouts, b \in Binding :
       /\ IsFiniteSet(c.manifest.lanes[b])
       /\ \A e \in c.manifest.lanes[b] : e.sequence \in Nat
  /\ \A c, k \in Checkouts, b, l \in Binding :
       \A e \in c.manifest.lanes[b], f \in k.manifest.lanes[l] :
         e.path = f.path => e.apply = f.apply

\* There are two databases to give to the two bindings.
ASSUME DatabasesAssumption == \E d, e \in Databases : d # e

ASSUME BoundsAssumption == MaxStarts \in Nat /\ MaxEdits \in Nat /\ MaxManual \in Nat

VARIABLES repo,     \* the checkout every runner reads
          db,       \* the databases
          run,      \* per runner, the run under way
          starts, edits,
          manual,   \* history: columns added by hand
          overlap   \* history: runs with different authorities were under way together

vars == <<repo, db, run, starts, edits, manual, overlap>>

\* A deploy-config authority gives the two bindings distinct databases
\* (validateDeployConfig: d1_database_id_collision).
Authority == {a \in [Binding -> Databases] :
                a["CONTROL_DB"] # a["TENANT_DB_DEFAULT"]}

NoManifest == [lanes |-> [b \in Binding |-> {}], planDigest |-> {}]

NoHistory == [own |-> {}, foreign |-> {}]

Idle == [pc |-> "idle", authority |-> CHOOSE a \in Authority : TRUE,
         manifest |-> NoManifest, lane |-> 1, i |-> 1,
         history |-> NoHistory, present |-> {}]

Pcs == {"idle", "gated", "read", "probe", "apply", "done", "failed"}

Paths == UNION {DOMAIN c.files : c \in Checkouts}

Entries == UNION {UNION {c.manifest.lanes[b] : b \in Binding} : c \in Checkouts}

Rows == {RowOf(b, e) : b \in Binding, e \in Entries}

Init ==
  /\ repo \in {c \in Checkouts : validateManifest(c.manifest, c.files)}
  /\ db = [d \in Databases |-> FreshDb]
  /\ run = [r \in Runners |-> Idle]
  /\ starts = 0 /\ edits = 0
  /\ manual = [d \in Databases |-> {}]
  /\ overlap = FALSE

Live(r) == run[r].pc \notin {"idle", "done", "failed"}

Lane(r) == KnownBindings[run[r].lane]

Target(r) == run[r].authority[Lane(r)]

Plan(r) == buildPlan(run[r].manifest, Lane(r))

\* The ledgers hold rows of the manifests and every run is at one of its points.
TypeOK ==
  /\ repo \in Checkouts
  /\ \A d \in Databases : /\ db[d].rows \subseteq Rows
                          /\ db[d].cols \subseteq Paths
                          /\ db[d].ran \subseteq {<<e.path, e.sha>> : e \in Entries}
  /\ \A r \in Runners : /\ run[r].pc \in Pcs
                        /\ run[r].authority \in Authority
                        /\ run[r].lane \in 1..Len(KnownBindings)
                        /\ run[r].i \in Nat \ {0}
                        /\ run[r].pc \in {"probe", "apply"} => run[r].i \in DOMAIN Plan(r)
  /\ starts \in 0..MaxStarts /\ edits \in 0..MaxEdits
  /\ manual \in [Databases -> SUBSET Paths] /\ overlap \in BOOLEAN

Ended(rec, pc) == [Idle EXCEPT !.pc = pc, !.authority = rec.authority,
                              !.manifest = rec.manifest]

Stop(r, pc) == run' = [run EXCEPT ![r] = Ended(run[r], pc)]

\* Mutant: the loop does not move on to the next lane.
FromSameLane(rec, i) ==
  IF i <= Len(buildPlan(rec.manifest, KnownBindings[rec.lane]))
  THEN [rec EXCEPT !.pc = "apply", !.i = i]
  ELSE [rec EXCEPT !.pc = "read", !.i = 1]

\* The run at step i of its lane: past the last step comes the next lane, and
\* past the last lane the run is complete.
From(rec, i) ==
  IF i <= Len(buildPlan(rec.manifest, KnownBindings[rec.lane]))
  THEN [rec EXCEPT !.pc = "apply", !.i = i]
  ELSE IF rec.lane < Len(KnownBindings)
       THEN [rec EXCEPT !.pc = "read", !.lane = @ + 1, !.i = 1]
       ELSE Ended(rec, "done")

----------------------------------------------------------------------------
\* evaluateApplyGates: the manifest must be valid here and now, and the
\* authority is retained.  A blocked run changes nothing.
Start(r, a) ==
  /\ ~Live(r) /\ starts < MaxStarts
  /\ validateManifest(repo.manifest, repo.files)
  /\ run' = [run EXCEPT ![r] = [Idle EXCEPT !.pc = "gated", !.authority = a]]
  /\ starts' = starts + 1
  /\ overlap' = (overlap \/ \E s \in Runners \ {r} : Live(s) /\ run[s].authority # a)
  /\ UNCHANGED <<repo, db, edits, manual>>

\* applyAllLanes reads the manifest again, and does not validate it again.
LoadManifest(r) ==
  /\ run[r].pc = "gated"
  /\ run' = [run EXCEPT ![r].pc = "read", ![r].manifest = repo.manifest]
  /\ UNCHANGED <<repo, db, starts, edits, manual, overlap>>

\* After the last probe the lane is reconciled, and nothing is applied to a
\* lane that does not reconcile.
Verdict(r, history, present) ==
  IF Reconciled(Plan(r), history, present)
  THEN run' = [run EXCEPT ![r] =
                 From([@ EXCEPT !.history = history, !.present = present], 1)]
  ELSE Stop(r, "failed")

\* The next "once" step of the plan from position i on, or 0.
NextProbe(plan, i) ==
  LET once == {j \in DOMAIN plan : j >= i /\ plan[j].apply = "once"}
  IN IF once = {} THEN 0 ELSE CHOOSE j \in once : \A k \in once : j <= k

\* readRemoteHistory: the ledger table is created if absent, then read.
ReadHistory(r) ==
  /\ run[r].pc = "read"
  /\ LET history == historyOf(db[Target(r)], Lane(r))
         j == NextProbe(Plan(r), 1)
     IN \/ Stop(r, "failed")
        \/ /\ j = 0 /\ Verdict(r, history, {})
        \/ /\ j # 0
           /\ run' = [run EXCEPT ![r].pc = "probe", ![r].i = j, ![r].present = {},
                                 ![r].history = history]
  /\ UNCHANGED <<repo, db, starts, edits, manual, overlap>>

\* remoteProbe, one call for each "once" step.
Probe(r) ==
  /\ run[r].pc = "probe"
  /\ LET step == Plan(r)[run[r].i]
         present == run[r].present \cup ({step.path} \cap db[Target(r)].cols)
         j == NextProbe(Plan(r), run[r].i + 1)
     IN \/ Stop(r, "failed")
        \/ /\ j = 0 /\ Verdict(r, run[r].history, present)
        \/ /\ j # 0 /\ run' = [run EXCEPT ![r].i = j, ![r].present = present]
  /\ UNCHANGED <<repo, db, starts, edits, manual, overlap>>

Advance(r) == run' = [run EXCEPT ![r] = From(@, run[r].i + 1)]

\* readPinnedMigration: the file still has the digest the manifest pins.
Pinned(step) == step.path \in DOMAIN repo.files /\ repo.files[step.path] = step.sha

\* Mutant: the SQL runs first and a second call records it.
RemoteInTwoCalls(d, b, step, again) ==
  {Ran(d, step), IF again THEN Ran(d, step) ELSE Batch(d, b, step)}

\* What one Wrangler call may leave of the database d when it fails: nothing
\* done, or everything.
Remote(d, b, step, again) ==
  {d, IF again THEN Ran(d, step) ELSE Batch(d, b, step)}

\* One step of the lane.  A satisfied "once" step is skipped without a call.
\* A file that no longer has its pinned digest stops the run.  A satisfied
\* replay-safe step runs again without a row; a pending one is one batch.
ApplyStep(r) ==
  /\ run[r].pc = "apply"
  /\ LET step == Plan(r)[run[r].i]
         again == StepState(step, run[r].history.own, run[r].present) = "satisfied"
         skip == step.apply = "once" /\ again
         d == Target(r)
     IN \/ skip /\ Advance(r) /\ UNCHANGED db
        \/ ~skip /\ ~Pinned(step) /\ Stop(r, "failed") /\ UNCHANGED db
        \/ /\ ~skip /\ Pinned(step) /\ Stop(r, "failed")
           /\ \E left \in Remote(db[d], Lane(r), step, again) :
                db' = [db EXCEPT ![d] = left]
        \/ /\ ~skip /\ Pinned(step)
           /\ again \/ BatchCommits(db[d], Lane(r), step)
           /\ Advance(r)
           /\ db' = [db EXCEPT ![d] = IF again THEN Ran(@, step)
                                      ELSE Batch(@, Lane(r), step)]
  /\ UNCHANGED <<repo, starts, edits, manual, overlap>>

\* The process is killed.
Crash(r) ==
  /\ Live(r)
  /\ Stop(r, "idle")
  /\ UNCHANGED <<repo, db, starts, edits, manual, overlap>>

\* The checkout is edited, in the middle of a run or between two.
Edit(c) ==
  /\ edits < MaxEdits /\ c # repo
  /\ repo' = c /\ edits' = edits + 1
  /\ UNCHANGED <<db, run, starts, manual, overlap>>

\* Somebody adds the column by hand.
AddColumn(d, p) ==
  /\ \A e \in Databases : Cardinality(manual[e]) < MaxManual
  /\ p \notin db[d].cols
  /\ \E e \in Entries : e.path = p /\ e.apply = "once"
  /\ db' = [db EXCEPT ![d].cols = @ \cup {p}]
  /\ manual' = [manual EXCEPT ![d] = @ \cup {p}]
  /\ UNCHANGED <<repo, run, starts, edits, overlap>>

Step(r) == LoadManifest(r) \/ ReadHistory(r) \/ Probe(r) \/ ApplyStep(r)

Next ==
  \/ \E r \in Runners : Step(r) \/ Crash(r) \/ \E a \in Authority : Start(r, a)
  \/ \E c \in Checkouts : Edit(c)
  \/ \E d \in Databases, p \in Paths : AddColumn(d, p)

Spec == Init /\ [][Next]_vars

\* A run that is not killed goes on: spawnSync returns and the loop is plain.
FairSpec == Spec /\ \A r \in Runners : WF_vars(Step(r))

----------------------------------------------------------------------------
\* The ledger tells the truth about every database: what has run on it is what
\* its rows say, byte for byte, and a "once" column that nobody added by hand
\* is there exactly when its migration is recorded - though calls fail after
\* committing, runs are killed, and two operators apply at the same time
\* (applyAllLanes, buildAtomicMigrationBatchSql).
LedgerTellsTheTruth ==
  \A d \in Databases :
    /\ db[d].ran = {<<row.path, row.sha>> : row \in db[d].rows}
    /\ \A e \in Entries : e.apply = "once" /\ e.path \notin manual[d] =>
         (e.path \in db[d].cols <=> \E row \in db[d].rows : row.path = e.path)

\* The steps of lane k that a run has behind it.
Passed(rec, k) ==
  LET plan == buildPlan(rec.manifest, KnownBindings[k]) IN
  IF rec.pc = "done" \/ k < rec.lane THEN DOMAIN plan
  ELSE IF k = rec.lane /\ rec.pc = "apply" THEN 1..(rec.i - 1) ELSE {}

PassedIsRecorded(dbs, rec) ==
  \A k \in DOMAIN KnownBindings : \A i \in Passed(rec, k) :
    LET b == KnownBindings[k]
    IN RowOf(b, buildPlan(rec.manifest, b)[i]) \in dbs[rec.authority[b]].rows

\* A run that is in a lane has every step of the lanes before it, and every
\* step of its own lane before its position, recorded with the pinned digest on
\* the databases of its authority; a run that ended "complete" has them all.
\* The states it works from were read earlier and may be stale by then.
CompletedIsRecorded ==
  \A r \in Runners : Live(r) \/ run[r].pc = "done" => PassedIsRecorded(db, run[r])

\* Control and tenant histories do not mix in one database, unless two runs
\* with different authorities were under way together (d1MigrationLedger: a
\* foreign row stops the lane; it is read once, before the lane is applied).
HistoriesDoNotMix ==
  overlap \/ \A d \in Databases : \A r, s \in db[d].rows : r.binding = s.binding

\* All of this in every state: the ledger is truthful, a run never gets ahead
\* of it, and histories stay apart.
LedgersAreSound == TypeOK /\ LedgerTellsTheTruth /\ CompletedIsRecorded /\ HistoriesDoNotMix

\* The ledgers as logs: the rows of each lane in sequence order.
Applied(rows) ==
  LET p == InSequence(rows) IN [i \in DOMAIN p |-> <<p[i].path, p[i].sha>>]

LogOf(dbs) ==
  [d \in Databases |-> [b \in Binding |-> Applied(historyOf(dbs[d], b).own)]]

Log == INSTANCE MigrationLog WITH
  Lanes <- Binding,
  Migrations <- {<<e.path, e.sha>> : e \in Entries},
  log <- LogOf(db)

\* Per database and lane the recorded migrations, in sequence order, are a log
\* that only grows at its end (MigrationLog), whoever applies and in what
\* interleaving, as long as the manifests themselves only grow at the end.
LedgerIsALog == Log!LogSpec

\* Every run that is started ends, refused, failed, killed or complete
\* (applyAllLanes never waits and always returns an exit code).
EveryRunEnds == \A r \in Runners : Live(r) ~> ~Live(r)

----------------------------------------------------------------------------
\* The inductive invariant of LedgersAreSound.
Manifests == {NoManifest} \cup {c.manifest : c \in Checkouts}

Database == [rows : SUBSET Rows, cols : SUBSET Paths,
             ran : SUBSET {<<e.path, e.sha>> : e \in Entries}]

RunRecord == [pc : Pcs, authority : Authority, manifest : Manifests,
              lane : 1..Len(KnownBindings), i : Nat \ {0},
              history : [own : SUBSET Rows, foreign : SUBSET Rows], present : SUBSET Paths]

OnLedger(dbs, rec) == dbs[rec.authority[KnownBindings[rec.lane]]].rows

\* The position of a run is one of its lane, and what it read of the ledger may
\* be old but is still on it.
ReadIsStillThere(dbs, rec) ==
  /\ rec.pc = "gated" => rec.lane = 1
  /\ rec.pc \in {"probe", "apply"} =>
       /\ rec.i \in DOMAIN buildPlan(rec.manifest, KnownBindings[rec.lane])
       /\ rec.history.own \subseteq
            {row \in OnLedger(dbs, rec) : row.binding = KnownBindings[rec.lane]}

\* A lane that is applied, or may yet be, holds no foreign row.
LaneIsOwn(dbs, rec) ==
  rec.pc = "apply" \/ (rec.pc = "probe" /\ rec.history.foreign = {}) =>
    \A row \in OnLedger(dbs, rec) : row.binding = KnownBindings[rec.lane]

\* Runs that are under way together have one authority.
OneAuthority ==
  \A r, s \in Runners : Live(r) /\ Live(s) => run[r].authority = run[s].authority

Unmixed == \A d \in Databases : \A r, s \in db[d].rows : r.binding = s.binding

MigrationInv ==
  /\ repo \in Checkouts /\ db \in [Databases -> Database] /\ run \in [Runners -> RunRecord]
  /\ starts \in 0..MaxStarts /\ edits \in 0..MaxEdits
  /\ manual \in [Databases -> SUBSET Paths] /\ overlap \in BOOLEAN
  /\ LedgerTellsTheTruth
  /\ \A r \in Runners : ReadIsStillThere(db, run[r])
  /\ CompletedIsRecorded
  /\ overlap \/ (OneAuthority /\ Unmixed /\ \A r \in Runners : LaneIsOwn(db, run[r]))

\* The lanes of the checkouts only grow at their end: an entry numbered below
\* one of a lane has a counterpart with that number in the lane.
LanesGrowAtTheEnd ==
  \A c, k \in Checkouts, b \in Binding :
    \A e \in c.manifest.lanes[b], f \in k.manifest.lanes[b] :
      e.sequence < f.sequence => \E g \in k.manifest.lanes[b] : g.sequence = e.sequence

\* What LedgerIsALog rests on: a ledger has a number at most once in a lane, and
\* below a row of it no number of the lane is missing.
LogIsWhole(rows) ==
  /\ IsFiniteSet(rows)
  /\ \A s, t \in rows : s.binding = t.binding /\ s.sequence = t.sequence => s = t
  /\ \A s \in rows, c \in Checkouts : \A e \in c.manifest.lanes[s.binding] :
       e.sequence < s.sequence =>
         \E t \in rows : t.binding = s.binding /\ t.sequence = e.sequence

LogInv == MigrationInv /\ \A d \in Databases : LogIsWhole(db[d].rows)
=============================================================================
