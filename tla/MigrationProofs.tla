--------------------------- MODULE MigrationProofs ---------------------------
(***************************************************************************)
(* The migration ledger for every number of operators, databases,          *)
(* checkouts, runs and statements run by hand: MigrationInv is inductive   *)
(* and LedgersAreSound follows from it; LogInv is inductive where lanes    *)
(* only grow at their end, and the ledgers implement MigrationLog.         *)
(***************************************************************************)
EXTENDS MigrationApply, FiniteSetTheorems, TLAPS

\* A finite set of numbered elements can be listed in the order of the numbers.
LEMMA Sortable ==
  ASSUME NEW S, IsFiniteSet(S), \A x \in S : x.sequence \in Nat
  PROVE  \E p \in Injection(1..Cardinality(S), S) :
           \A i, j \in 1..Cardinality(S) : i < j => p[i].sequence <= p[j].sequence
<1> DEFINE n == Cardinality(S)
<1>1. n \in Nat /\ \E e : e \in Bijection(1..n, S)
  BY Zenon, FS_CardinalityType DEF ExistsBijection
<1>2. PICK e : e \in Bijection(1..n, S)
  BY Zenon, <1>1
<1>3. /\ \A i \in 1..n : e[i] \in S
      /\ \A i, j \in 1..n : e[i] = e[j] => i = j
      /\ \A x \in S : \E i \in 1..n : e[i] = x
  BY Zenon, <1>2 DEF Bijection, Injection, Surjection, IsInjective
<1> DEFINE idx == [x \in S |-> CHOOSE i \in 1..n : e[i] = x]
<1>4. \A x \in S : idx[x] \in 1..n /\ e[idx[x]] = x /\ idx[x] \in Nat
  BY <1>1, <1>3
<1> HIDE DEF idx, n
<1> DEFINE below(x) == {y \in S : \/ y.sequence < x.sequence
                                  \/ y.sequence = x.sequence /\ idx[y] <= idx[x]}
           rank == [x \in S |-> Cardinality(below(x))]
<1>5. \A x \in S : IsFiniteSet(below(x)) /\ rank[x] \in Nat /\ rank[x] <= n
  BY Zenon, FS_Subset, FS_CardinalityType DEF n
<1>6. \A x \in S : x \in below(x)
  BY <1>4
<1>7. ASSUME NEW x \in S, NEW y \in S, x # y, x \in below(y)
      PROVE  rank[x] < rank[y]
  <2>1. /\ x.sequence \in Nat /\ y.sequence \in Nat /\ idx[x] \in Nat /\ idx[y] \in Nat
        /\ idx[x] # idx[y]
    BY Zenon, <1>4, <1>7
  <2>2. y \notin below(x)
    BY <1>7, <2>1
  <2>3. ASSUME NEW z \in below(x)
        PROVE  z \in below(y)
    <3>1. z \in S /\ z.sequence \in Nat /\ idx[z] \in Nat
      BY Zenon, <1>4
    <3> QED
      BY <1>7, <2>1, <3>1
  <2>4. below(x) \in SUBSET below(y) /\ below(x) # below(y)
    BY Zenon, <1>6, <2>2, <2>3
  <2>5. IsFiniteSet(below(y)) /\ Cardinality(below(x)) \in Nat /\ Cardinality(below(y)) \in Nat
    BY Zenon, <1>5
  <2>6. Cardinality(below(x)) <= Cardinality(below(y)) /\ Cardinality(below(x)) # Cardinality(below(y))
    <3> HIDE DEF below
    <3> QED
      BY Zenon, <2>4, <2>5, FS_Subset
  <2> QED
    BY <2>5, <2>6
<1>8. \A x, y \in S : x \in below(y) \/ y \in below(x)
  BY <1>4
<1>9. \A x \in S : rank[x] \in 1..n
  <2> TAKE x \in S
  <2>1. rank[x] # 0
    <3>1. IsFiniteSet(below(x)) /\ x \in below(x) /\ rank[x] = Cardinality(below(x))
      BY Zenon, <1>5, <1>6
    <3> HIDE DEF below
    <3> QED
      BY Zenon, <3>1, FS_EmptySet
  <2>2. rank[x] \in Nat /\ rank[x] <= n
    BY Zenon, <1>5
  <2> HIDE DEF rank
  <2> QED
    BY <1>1, <2>1, <2>2
<1> HIDE DEF below
<1>10. \A x, y \in S : rank[x] = rank[y] => x = y
  BY <1>5, <1>7, <1>8
<1> HIDE DEF rank
<1>11. rank \in Injection(S, 1..n)
  <2>1. rank \in [S -> 1..n]
    BY Zenon, <1>9 DEF rank
  <2> QED
    BY Zenon, <2>1, <1>10 DEF Injection, IsInjective
<1>12. IsFiniteSet(1..n) /\ Cardinality(1..n) = n
  BY <1>1, FS_Interval DEF n
<1>13. \A i \in 1..n : \E x \in S : rank[x] = i
  <2>1. rank \in Surjection(S, 1..n)
    BY Zenon, <1>11, <1>12, FS_Injection DEF n
  <2> QED
    BY Zenon, <2>1 DEF Surjection
<1> DEFINE p == [i \in 1..n |-> CHOOSE x \in S : rank[x] = i]
<1>14. \A i \in 1..n : p[i] \in S /\ rank[p[i]] = i
  BY Zenon, <1>13
<1>15. p \in [1..n -> S] /\ \A i, j \in 1..n : i # j => p[i] # p[j]
  BY Zenon, <1>14
<1> HIDE DEF p
<1>16. ASSUME NEW i \in 1..n, NEW j \in 1..n, i < j
       PROVE  p[i].sequence <= p[j].sequence
  <2>1. p[i] \in S /\ p[j] \in S /\ rank[p[i]] = i /\ rank[p[j]] = j /\ p[i] # p[j]
    BY <1>14, <1>15, <1>16
  <2>2. p[i] \in below(p[j])
    <3>1. p[j] \in below(p[i]) => rank[p[j]] < rank[p[i]]
      BY Zenon, <1>7, <2>1
    <3> QED
      BY <1>1, <1>8, <1>16, <2>1, <3>1
  <2> QED
    BY <2>1, <2>2 DEF below
<1>17. p \in Injection(1..Cardinality(S), S)
  BY Zenon, <1>15 DEF Injection, IsInjective, n
<1> QED
  BY Zenon, <1>16, <1>17 DEF n

\* So InSequence lists the set: every element once, in the order of the numbers.
LEMMA Listed ==
  ASSUME NEW S, IsFiniteSet(S), \A x \in S : x.sequence \in Nat
  PROVE  /\ Cardinality(S) \in Nat
         /\ InSequence(S) \in [1..Cardinality(S) -> S]
         /\ InSequence(S) \in Seq(S) /\ Len(InSequence(S)) = Cardinality(S)
         /\ \A i, j \in 1..Cardinality(S) : i # j => InSequence(S)[i] # InSequence(S)[j]
         /\ \A i, j \in 1..Cardinality(S) :
              i < j => InSequence(S)[i].sequence <= InSequence(S)[j].sequence
<1> DEFINE n == Cardinality(S)
           good(p) == \A i, j \in 1..n : i < j => p[i].sequence <= p[j].sequence
<1>1. n \in Nat
  BY Zenon, FS_CardinalityType
<1>2. InSequence(S) = CHOOSE p \in Injection(1..Cardinality(S), S) : good(p)
  BY Zenon DEF InSequence
<1>3. \E p \in Injection(1..Cardinality(S), S) : good(p)
  BY Zenon, Sortable
<1>4. InSequence(S) \in Injection(1..Cardinality(S), S) /\ good(InSequence(S))
  <2> HIDE DEF good
  <2> QED
    BY Zenon, <1>2, <1>3
<1>5. /\ InSequence(S) \in [1..n -> S]
      /\ \A i, j \in 1..n : i # j => InSequence(S)[i] # InSequence(S)[j]
  BY Zenon, <1>4 DEF Injection, IsInjective
<1>6. InSequence(S) \in Seq(S) /\ Len(InSequence(S)) = n
  BY <1>1, <1>5
<1> QED
  BY Zenon, <1>1, <1>4, <1>5, <1>6

----------------------------------------------------------------------------
LEMMA Bindings ==
  /\ Binding = {"CONTROL_DB", "TENANT_DB_DEFAULT"}
  /\ Len(KnownBindings) = 2 /\ DOMAIN KnownBindings = 1..2
  /\ \A k \in 1..2 : KnownBindings[k] \in Binding
  /\ KnownBindings[1] # KnownBindings[2]
BY DEF Binding, KnownBindings, Range

\* The plan of a lane lists entries of the checkouts.
LEMMA PlanOf ==
  ASSUME NEW m \in Manifests, NEW b \in Binding
  PROVE  /\ Len(buildPlan(m, b)) \in Nat
         /\ DOMAIN buildPlan(m, b) = 1..Len(buildPlan(m, b))
         /\ \A i \in DOMAIN buildPlan(m, b) : buildPlan(m, b)[i] \in m.lanes[b]
         /\ m.lanes[b] \subseteq Entries
<1>1. IsFiniteSet(m.lanes[b]) /\ (\A x \in m.lanes[b] : x.sequence \in Nat)
      /\ m.lanes[b] \subseteq Entries
  <2>1. CASE m = NoManifest
    <3>1. m.lanes[b] = {}
      BY Zenon, <2>1 DEF NoManifest
    <3> QED
      BY Zenon, <3>1, FS_EmptySet
  <2>2. CASE \E c \in Checkouts : m = c.manifest
    BY <2>2, CheckoutsAssumption DEF Entries
  <2> QED
    BY Zenon, <2>1, <2>2 DEF Manifests
<1>2. /\ InSequence(m.lanes[b]) \in Seq(m.lanes[b])
  BY Zenon, <1>1, Listed
<1> QED
  BY <1>1, <1>2 DEF buildPlan

\* The databases of an authority.
LEMMA AuthorityOf ==
  ASSUME NEW a \in Authority
  PROVE  /\ \A k \in 1..2 : a[KnownBindings[k]] \in Databases
         /\ a[KnownBindings[1]] # a[KnownBindings[2]]
BY DEF Authority, Binding, KnownBindings, Range

\* A run that has not begun.
LEMMA IdleOk == Idle \in RunRecord /\ Idle.lane = 1 /\ Idle.pc = "idle"
<1>1. \E a : a \in Authority
  <2>1. PICK d \in Databases, e \in Databases : d # e
    BY Zenon, DatabasesAssumption
  <2>2. [b \in Binding |-> IF b = "CONTROL_DB" THEN d ELSE e] \in Authority
    BY Zenon, <2>1, Bindings DEF Authority
  <2> QED
    BY Zenon, <2>2
<1>2. (CHOOSE a \in Authority : TRUE) \in Authority
  BY Zenon, <1>1
<1> QED
  BY <1>2, Bindings DEF Idle, RunRecord, Pcs, NoHistory, Manifests

\* The record a run ends with.
LEMMA EndedOk ==
  ASSUME NEW rec \in RunRecord, NEW pc \in Pcs
  PROVE  /\ Ended(rec, pc) \in RunRecord
         /\ Ended(rec, pc).pc = pc /\ Ended(rec, pc).authority = rec.authority
         /\ Ended(rec, pc).manifest = rec.manifest
<1>1. PICK idle : idle = Idle
  BY Zenon
<1>2. /\ [idle EXCEPT !.pc = pc, !.authority = rec.authority, !.manifest = rec.manifest] \in RunRecord
      /\ [idle EXCEPT !.pc = pc, !.authority = rec.authority, !.manifest = rec.manifest].pc = pc
      /\ [idle EXCEPT !.pc = pc, !.authority = rec.authority, !.manifest = rec.manifest].authority
           = rec.authority
      /\ [idle EXCEPT !.pc = pc, !.authority = rec.authority, !.manifest = rec.manifest].manifest
           = rec.manifest
  BY ZenonT(120), <1>1, IdleOk DEF RunRecord
<1> QED
  BY Zenon, <1>1, <1>2 DEF Ended

\* What the ledger owes one run.
RunOk(dbs, rec) ==
  /\ ReadIsStillThere(dbs, rec)
  /\ rec.pc \notin {"idle", "failed"} => PassedIsRecorded(dbs, rec)

Grow == \A d \in Databases : db[d].rows \subseteq db'[d].rows

\* Rows are never taken off a ledger, so what a run relies on stays.
LEMMA Monotone ==
  ASSUME Grow, NEW rec \in RunRecord, RunOk(db, rec)
  PROVE  RunOk(db', rec)
<1>1. rec.authority \in Authority /\ rec.lane \in 1..2
  BY Zenon, Bindings DEF RunRecord
<1>2. \A k \in 1..2 : rec.authority[KnownBindings[k]] \in Databases
  BY Zenon, <1>1, AuthorityOf
<1>3. \A k \in 1..2 : db[rec.authority[KnownBindings[k]]].rows
                        \subseteq db'[rec.authority[KnownBindings[k]]].rows
  BY Zenon, <1>2 DEF Grow
<1>4. ReadIsStillThere(db', rec)
  BY Zenon, <1>1, <1>3 DEF RunOk, ReadIsStillThere, OnLedger
<1>5. rec.pc \notin {"idle", "failed"} => PassedIsRecorded(db', rec)
  BY Zenon, <1>3, Bindings DEF RunOk, PassedIsRecorded
<1> QED
  BY Zenon, <1>4, <1>5 DEF RunOk

\* A step of run r to the record v, whatever it writes.
LEMMA RunStep ==
  ASSUME MigrationInv, NEW r \in Runners, NEW v \in RunRecord,
         run' = [run EXCEPT ![r] = v],
         repo' = repo, edits' = edits, manual' = manual,
         starts' \in 0..MaxStarts, overlap' \in BOOLEAN,
         db' \in [Databases -> Database], LedgerTellsTheTruth', Grow, RunOk(db', v),
         \/ overlap'
         \/ /\ OneAuthority' /\ Unmixed' /\ LaneIsOwn(db', v)
            /\ \A s \in Runners \ {r} : LaneIsOwn(db', run[s])
  PROVE  MigrationInv'
<1>1. run \in [Runners -> RunRecord]
  BY Zenon DEF MigrationInv
<1>2. run' \in [Runners -> RunRecord] /\ run'[r] = v /\ \A s \in Runners \ {r} : run'[s] = run[s]
  BY Zenon, <1>1
<1>3. ASSUME NEW s \in Runners
      PROVE  RunOk(db', run'[s])
  <2>1. CASE s = r
    BY Zenon, <1>2, <2>1
  <2>2. CASE s # r
    <3>1. PICK rec \in RunRecord : rec = run[s]
      BY Zenon, <1>1
    <3>2. RunOk(db, rec)
      BY Zenon, <3>1 DEF RunOk, MigrationInv, CompletedIsRecorded, Live
    <3>3. RunOk(db', rec)
      BY Zenon, <3>2, Monotone
    <3> QED
      BY Zenon, <1>2, <2>2, <3>1, <3>3
  <2> QED
    BY Zenon, <2>1, <2>2
<1>4. CompletedIsRecorded' /\ \A s \in Runners : ReadIsStillThere(db', run'[s])
  BY Zenon, <1>3 DEF RunOk, CompletedIsRecorded, Live
<1>5. \/ overlap'
      \/ OneAuthority' /\ Unmixed' /\ \A s \in Runners : LaneIsOwn(db', run'[s])
  BY Zenon, <1>2
<1> QED
  BY Zenon, <1>2, <1>4, <1>5 DEF MigrationInv

\* A step of run r that leaves the databases alone.
LEMMA QuietStep ==
  ASSUME MigrationInv, NEW r \in Runners, NEW v \in RunRecord,
         run' = [run EXCEPT ![r] = v],
         UNCHANGED <<repo, db, edits, manual>>, starts' \in 0..MaxStarts,
         RunOk(db, v), overlap => overlap', overlap' \in BOOLEAN,
         \/ overlap'
         \/ OneAuthority' /\ LaneIsOwn(db, v)
  PROVE  MigrationInv'
<1>1. db' \in [Databases -> Database] /\ LedgerTellsTheTruth'
  BY Zenon DEF MigrationInv, LedgerTellsTheTruth
<1>2. Grow /\ RunOk(db', v)
  BY Zenon DEF Grow
<1>3. ~overlap' => /\ Unmixed' /\ LaneIsOwn(db', v)
                   /\ \A s \in Runners \ {r} : LaneIsOwn(db', run[s])
  BY Zenon DEF MigrationInv, Unmixed
<1> QED
  BY Zenon, <1>1, <1>2, <1>3, RunStep

\* A run that goes on, or ends, keeps its authority.
LEMMA KeepsAuthority ==
  ASSUME MigrationInv, NEW r \in Runners, NEW v \in RunRecord,
         run' = [run EXCEPT ![r] = v], Live(r), v.authority = run[r].authority, OneAuthority
  PROVE  OneAuthority'
<1>1. run'[r] = v /\ \A s \in Runners \ {r} : run'[s] = run[s]
  BY Zenon DEF MigrationInv
<1>2. \A s \in Runners : Live(s)' => Live(s) /\ run'[s].authority = run[s].authority
  BY Zenon, <1>1 DEF Live
<1> QED
  BY Zenon, <1>2 DEF OneAuthority

\* A record that is dead owes nothing.
LEMMA DeadOk ==
  ASSUME NEW rec \in RunRecord, NEW pc \in {"idle", "failed"}, NEW dbs
  PROVE  /\ Ended(rec, pc) \in RunRecord
         /\ Ended(rec, pc).authority = rec.authority
         /\ RunOk(dbs, Ended(rec, pc)) /\ LaneIsOwn(dbs, Ended(rec, pc))
<1>1. pc \in Pcs
  BY Zenon DEF Pcs
<1>2. Ended(rec, pc).pc = pc /\ Ended(rec, pc) \in RunRecord /\ Ended(rec, pc).authority = rec.authority
  BY Zenon, <1>1, EndedOk
<1> QED
  BY Zenon, <1>2 DEF RunOk, ReadIsStillThere, LaneIsOwn

\* Step j of lane k is recorded for the run.
StepRecorded(dbs, rec, k, j) ==
  RowOf(KnownBindings[k], buildPlan(rec.manifest, KnownBindings[k])[j])
    \in dbs[rec.authority[KnownBindings[k]]].rows

PlanLen(rec, k) == Len(buildPlan(rec.manifest, KnownBindings[k]))

LEMMA PlanDomain ==
  ASSUME NEW rec \in RunRecord, NEW k \in 1..2
  PROVE  /\ PlanLen(rec, k) \in Nat
         /\ DOMAIN buildPlan(rec.manifest, KnownBindings[k]) = 1..PlanLen(rec, k)
<1>1. rec.manifest \in Manifests /\ KnownBindings[k] \in Binding
  BY Zenon, Bindings DEF RunRecord
<1> QED
  BY Zenon, <1>1, PlanOf DEF PlanLen

\* The run that goes on at step i of its lane, when all before is recorded.
LEMMA FromOk ==
  ASSUME NEW dbs, NEW rec \in RunRecord, NEW i \in Nat \ {0},
         i <= PlanLen(rec, rec.lane) + 1,
         \A k \in 1..2 : k < rec.lane => \A j \in 1..PlanLen(rec, k) : StepRecorded(dbs, rec, k, j),
         \A j \in 1..(i - 1) : StepRecorded(dbs, rec, rec.lane, j),
         rec.history.own \subseteq
           {row \in OnLedger(dbs, rec) : row.binding = KnownBindings[rec.lane]}
  PROVE  /\ From(rec, i) \in RunRecord /\ RunOk(dbs, From(rec, i))
         /\ From(rec, i).authority = rec.authority
         /\ (\A row \in OnLedger(dbs, rec) : row.binding = KnownBindings[rec.lane]) =>
              LaneIsOwn(dbs, From(rec, i))
<1>1. rec.lane \in 1..2 /\ Len(KnownBindings) = 2 /\ "apply" \in Pcs /\ "read" \in Pcs /\ "done" \in Pcs
  BY Zenon, Bindings DEF RunRecord, Pcs
<1>2. \A k \in 1..2 : /\ PlanLen(rec, k) \in Nat
                      /\ DOMAIN buildPlan(rec.manifest, KnownBindings[k]) = 1..PlanLen(rec, k)
  BY Zenon, PlanDomain
<1>3. CASE i <= PlanLen(rec, rec.lane)
  <2>1. PICK v : v = [rec EXCEPT !.pc = "apply", !.i = i]
    BY Zenon
  <2>2. /\ v \in RunRecord /\ v.pc = "apply" /\ v.i = i /\ v.lane = rec.lane
        /\ v.manifest = rec.manifest /\ v.authority = rec.authority /\ v.history = rec.history
    BY ZenonT(120), <1>1, <2>1 DEF RunRecord
  <2>3. From(rec, i) = v
    BY Zenon, <1>3, <2>1 DEF From, PlanLen
  <2>4. i \in DOMAIN buildPlan(v.manifest, KnownBindings[v.lane])
    BY <1>1, <1>2, <1>3, <2>2
  <2>5. ReadIsStillThere(dbs, v)
    BY Zenon, <2>2, <2>4 DEF ReadIsStillThere, OnLedger
  <2>6. ASSUME NEW k \in 1..2, NEW j \in Passed(v, k)
        PROVE  StepRecorded(dbs, v, k, j)
    <3>1. CASE k < v.lane
      <4>1. j \in 1..PlanLen(rec, k)
        BY Zenon, <1>2, <2>2, <2>6, <3>1 DEF Passed
      <4> QED
        BY Zenon, <2>2, <3>1, <4>1 DEF StepRecorded
    <3>2. CASE k = v.lane
      <4>1. j \in 1..(i - 1)
        BY <1>1, <2>2, <2>6, <3>2 DEF Passed
      <4> QED
        BY Zenon, <2>2, <3>2, <4>1 DEF StepRecorded
    <3>3. CASE k > v.lane
      <4>1. Passed(v, k) = {}
        BY SMTT(120), <1>1, <2>2, <3>3 DEF Passed
      <4> QED
        BY Zenon, <2>6, <4>1
    <3> QED
      BY SMTT(120), <1>1, <2>2, <3>1, <3>2, <3>3
  <2>7. PassedIsRecorded(dbs, v)
    BY Zenon, <2>6, Bindings DEF PassedIsRecorded, StepRecorded
  <2> QED
    BY Zenon, <2>2, <2>3, <2>5, <2>7 DEF RunOk, LaneIsOwn, OnLedger
<1>4. CASE ~(i <= PlanLen(rec, rec.lane)) /\ rec.lane = 1
  <2>1. PICK v : v = [rec EXCEPT !.pc = "read", !.lane = 2, !.i = 1]
    BY Zenon
  <2>2. /\ v \in RunRecord /\ v.pc = "read" /\ v.lane = 2
        /\ v.manifest = rec.manifest /\ v.authority = rec.authority
    <3>1. 2 \in 1..Len(KnownBindings) /\ 1 \in Nat \ {0}
      BY <1>1
    <3> QED
      BY ZenonT(120), <1>1, <2>1, <3>1 DEF RunRecord
  <2>3. From(rec, i) = v
    BY <1>1, <1>4, <2>1 DEF From, PlanLen
  <2>4. i - 1 = PlanLen(rec, 1)
    BY <1>1, <1>2, <1>4
  <2>5. ASSUME NEW k \in 1..2, NEW j \in Passed(v, k)
        PROVE  StepRecorded(dbs, v, k, j)
    <3>1. k = 1 /\ j \in 1..PlanLen(rec, 1)
      BY SMTT(120), <1>2, <2>2, <2>5 DEF Passed
    <3> QED
      BY Zenon, <1>4, <2>2, <2>4, <3>1 DEF StepRecorded
  <2>6. PassedIsRecorded(dbs, v)
    BY Zenon, <2>5, Bindings DEF PassedIsRecorded, StepRecorded
  <2> QED
    BY Zenon, <2>2, <2>3, <2>6 DEF RunOk, LaneIsOwn, ReadIsStillThere
<1>5. CASE ~(i <= PlanLen(rec, rec.lane)) /\ rec.lane = 2
  <2>1. PICK v : v = Ended(rec, "done")
    BY Zenon
  <2>2. v \in RunRecord /\ v.pc = "done" /\ v.manifest = rec.manifest /\ v.authority = rec.authority
    BY Zenon, <1>1, <2>1, EndedOk
  <2>3. From(rec, i) = v
    BY <1>1, <1>5, <2>1 DEF From, PlanLen
  <2>4. i - 1 = PlanLen(rec, 2)
    BY SMTT(120), <1>1, <1>2, <1>5
  <2>5. ASSUME NEW k \in 1..2, NEW j \in Passed(v, k)
        PROVE  StepRecorded(dbs, v, k, j)
    <3>1. j \in 1..PlanLen(rec, k)
      BY Zenon, <1>2, <2>2, <2>5 DEF Passed
    <3>2. StepRecorded(dbs, rec, k, j)
      BY <1>5, <2>4, <3>1
    <3> QED
      BY Zenon, <2>2, <3>2 DEF StepRecorded
  <2>6. PassedIsRecorded(dbs, v)
    BY Zenon, <2>5, Bindings DEF PassedIsRecorded, StepRecorded
  <2> QED
    BY Zenon, <2>2, <2>3, <2>6 DEF RunOk, LaneIsOwn, ReadIsStillThere
<1> QED
  BY <1>1, <1>3, <1>4, <1>5

\* What a live run has behind it, in the form FromOk takes.
LEMMA LanesBefore ==
  ASSUME NEW dbs, NEW rec \in RunRecord, rec.pc \notin {"idle", "failed"}, RunOk(dbs, rec)
  PROVE  /\ \A k \in 1..2 : k < rec.lane => \A j \in 1..PlanLen(rec, k) : StepRecorded(dbs, rec, k, j)
         /\ rec.pc = "apply" => \A j \in 1..(rec.i - 1) : StepRecorded(dbs, rec, rec.lane, j)
<1>1. rec.lane \in 1..2
  BY Zenon, Bindings DEF RunRecord
<1>2. \A k \in 1..2 : \A j \in Passed(rec, k) : StepRecorded(dbs, rec, k, j)
  BY Zenon, Bindings DEF RunOk, PassedIsRecorded, StepRecorded
<1>3. \A k \in 1..2 : k < rec.lane => Passed(rec, k) = 1..PlanLen(rec, k)
  BY Zenon, PlanDomain DEF Passed
<1>4. rec.pc = "apply" => Passed(rec, rec.lane) = 1..(rec.i - 1)
  BY <1>1 DEF Passed
<1> QED
  BY Zenon, <1>1, <1>2, <1>3, <1>4

\* A step found satisfied has its own row among the rows that were read.
LEMMA SatisfiedRow ==
  ASSUME NEW own \in SUBSET Rows, NEW b, \A row \in own : row.binding = b,
         NEW step, NEW present, StepState(step, own, present) = "satisfied"
  PROVE  RowOf(b, step) \in own
<1> DEFINE at == {row \in own : row.sequence = step.sequence}
<1>1. at # {}
  BY Zenon DEF StepState
<1>2. PICK row : row = CHOOSE r \in at : TRUE
  BY Zenon
<1>3. row \in at
  BY Zenon, <1>1, <1>2
<1>4. row.path = step.path /\ row.sha = step.sha
  BY Zenon, <1>1, <1>2 DEF StepState
<1>5. PICK c \in Binding, e \in Entries : row = RowOf(c, e)
  BY <1>3 DEF Rows
<1> QED
  BY Zenon, <1>3, <1>4, <1>5 DEF RowOf

\* A set of naturals has a least element.
LEMMA LeastElement ==
  ASSUME NEW T, T \subseteq Nat, T # {}
  PROVE  \E j \in T : \A k \in T : j <= k
<1>1. ASSUME NEW R, IsWellFoundedOn(R, Nat)
      PROVE  \E x \in T : \A y \in T : ~(<<y, x>> \in R)
  BY Zenon, <1>1, WFMin
<1>2. PICK x \in T : \A y \in T : ~(<<y, x>> \in OpToRel(<, Nat))
  BY Zenon, <1>1, NatLessThanWellFounded
<1>3. ASSUME NEW y \in T
      PROVE  ~(y < x)
  <2>1. x \in Nat /\ y \in Nat
    BY Zenon
  <2>2. ~(<<y, x>> \in OpToRel(<, Nat))
    BY Zenon, <1>2
  <2> QED
    BY Zenon, <2>1, <2>2 DEF OpToRel
<1> QED
  BY <1>3

\* The next probe is a step of the plan.
LEMMA NextProbeOf ==
  ASSUME NEW plan, NEW n \in Nat, DOMAIN plan = 1..n, NEW i
  PROVE  NextProbe(plan, i) = 0 \/ NextProbe(plan, i) \in 1..n
<1> DEFINE once == {j \in DOMAIN plan : j >= i /\ plan[j].apply = "once"}
<1>1. CASE once = {}
  BY Zenon, <1>1 DEF NextProbe
<1>2. CASE once # {}
  <2>1. once \subseteq Nat /\ once \subseteq 1..n
    OBVIOUS
  <2> HIDE DEF once
  <2>3. \E j \in once : \A k \in once : j <= k
    BY Zenon, <1>2, <2>1, LeastElement
  <2>4. (CHOOSE x \in once : \A k \in once : x <= k) \in once
    BY Zenon, <2>3
  <2>5. NextProbe(plan, i) = CHOOSE x \in once : \A k \in once : x <= k
    BY Zenon, <1>2 DEF NextProbe, once
  <2> QED
    BY Zenon, <2>1, <2>4, <2>5
<1> QED
  BY Zenon, <1>1, <1>2

----------------------------------------------------------------------------
\* The record of a live run, and what holds of it.
LEMMA LiveRun ==
  ASSUME MigrationInv, NEW r \in Runners
  PROVE  /\ run[r] \in RunRecord /\ RunOk(db, run[r])
         /\ run[r].lane \in 1..2 /\ run[r].authority \in Authority
         /\ overlap \/ (OneAuthority /\ LaneIsOwn(db, run[r]))
<1>1. run[r] \in RunRecord
  BY Zenon DEF MigrationInv
<1> QED
  BY Zenon, <1>1, Bindings DEF MigrationInv, RunOk, CompletedIsRecorded, Live, RunRecord

\* A run that stops, or is killed, without touching a database.
LEMMA StopStep ==
  ASSUME MigrationInv, NEW r \in Runners, NEW pc \in {"idle", "failed"}, Live(r), Stop(r, pc),
         UNCHANGED <<repo, db, starts, edits, manual, overlap>>
  PROVE  MigrationInv'
<1>1. PICK rec \in RunRecord : rec = run[r]
  BY Zenon, LiveRun
<1>2. PICK v : v = Ended(rec, pc)
  BY Zenon
<1>3. v \in RunRecord /\ v.authority = rec.authority /\ RunOk(db, v) /\ LaneIsOwn(db, v)
  BY Zenon, <1>2, DeadOk
<1>4. run' = [run EXCEPT ![r] = v]
  BY Zenon, <1>1, <1>2 DEF Stop
<1>5. ~overlap => OneAuthority'
  BY Zenon, <1>1, <1>3, <1>4, LiveRun, KeepsAuthority
<1>6. starts' \in 0..MaxStarts /\ overlap' \in BOOLEAN
  BY Zenon DEF MigrationInv
<1> QED
  BY Zenon, <1>3, <1>4, <1>5, <1>6, QuietStep

LEMMA StartStep ==
  ASSUME MigrationInv, NEW r \in Runners, NEW a \in Authority, Start(r, a)
  PROVE  MigrationInv'
<1>1. PICK v : v = [Idle EXCEPT !.pc = "gated", !.authority = a]
  BY Zenon
<1>2. Idle \in RunRecord /\ Idle.lane = 1
  BY Zenon, IdleOk
<1>3. PICK idle \in RunRecord : idle = Idle
  BY Zenon, <1>2
<1>4. v \in RunRecord /\ v.pc = "gated" /\ v.authority = a /\ v.lane = 1
  BY ZenonT(120), <1>1, <1>2, <1>3 DEF RunRecord, Pcs
<1>5. run' = [run EXCEPT ![r] = v]
  BY Zenon, <1>1 DEF Start
<1>6. \A k \in 1..2 : Passed(v, k) = {}
  BY <1>4 DEF Passed
<1>7. RunOk(db, v) /\ LaneIsOwn(db, v)
  BY Zenon, <1>4, <1>6, Bindings DEF RunOk, ReadIsStillThere, PassedIsRecorded, LaneIsOwn
<1>8. /\ overlap' = (overlap \/ \E s \in Runners \ {r} : Live(s) /\ run[s].authority # a)
      /\ overlap \in BOOLEAN /\ starts' \in 0..MaxStarts
  BY BoundsAssumption DEF Start, MigrationInv
<1>9. ~overlap' => OneAuthority'
  <2> SUFFICES ASSUME ~overlap'
               PROVE  OneAuthority'
    BY Zenon
  <2>1. run'[r] = v /\ \A s \in Runners \ {r} : run'[s] = run[s]
    BY Zenon, <1>5 DEF MigrationInv
  <2>2. \A s \in Runners \ {r} : Live(s) => run[s].authority = a
    BY Zenon, <1>8
  <2>3. \A s \in Runners : Live(s)' => run'[s].authority = a
    BY Zenon, <1>4, <2>1, <2>2 DEF Live
  <2> QED
    BY Zenon, <2>3 DEF OneAuthority
<1> QED
  BY Zenon, <1>4, <1>5, <1>7, <1>8, <1>9, QuietStep DEF Start

LEMMA LoadManifestStep ==
  ASSUME MigrationInv, NEW r \in Runners, LoadManifest(r)
  PROVE  MigrationInv'
<1>1. PICK rec \in RunRecord : rec = run[r]
  BY Zenon, LiveRun
<1>2. PICK v : v = [rec EXCEPT !.pc = "read", !.manifest = repo.manifest]
  BY Zenon
<1>3. rec.pc = "gated" /\ rec.lane = 1 /\ Live(r) /\ repo.manifest \in Manifests
  BY Zenon, <1>1, LiveRun DEF LoadManifest, RunOk, ReadIsStillThere, Live, MigrationInv, Manifests
<1>4. v \in RunRecord /\ v.pc = "read" /\ v.lane = 1 /\ v.authority = rec.authority
  BY Zenon, <1>2, <1>3 DEF RunRecord, Pcs
<1>5. run' = [run EXCEPT ![r] = v]
  BY ZenonT(120), <1>1, <1>2 DEF LoadManifest, MigrationInv
<1>6. \A k \in 1..2 : Passed(v, k) = {}
  BY <1>4 DEF Passed
<1>7. RunOk(db, v) /\ LaneIsOwn(db, v)
  BY Zenon, <1>4, <1>6, Bindings DEF RunOk, ReadIsStillThere, PassedIsRecorded, LaneIsOwn
<1>8. ~overlap => OneAuthority'
  BY ZenonT(120), <1>1, <1>3, <1>4, <1>5, LiveRun, KeepsAuthority
<1>9. starts' \in 0..MaxStarts /\ overlap' \in BOOLEAN
  BY Zenon DEF MigrationInv, LoadManifest
<1> QED
  BY Zenon, <1>4, <1>5, <1>7, <1>8, <1>9, QuietStep DEF LoadManifest

\* After the last probe: the lane is applied from its first step, or the run
\* fails.
LEMMA VerdictStep ==
  ASSUME MigrationInv, NEW r \in Runners, run[r].pc \in {"read", "probe"},
         NEW history \in [own : SUBSET Rows, foreign : SUBSET Rows], NEW present \in SUBSET Paths,
         history.own \subseteq
           {row \in OnLedger(db, run[r]) : row.binding = KnownBindings[run[r].lane]},
         ~overlap /\ history.foreign = {} =>
           \A row \in OnLedger(db, run[r]) : row.binding = KnownBindings[run[r].lane],
         Verdict(r, history, present), UNCHANGED <<repo, db, starts, edits, manual, overlap>>
  PROVE  MigrationInv'
<1>1. PICK rec \in RunRecord : rec = run[r]
  BY Zenon, LiveRun
<1>2. Live(r) /\ rec.lane \in 1..2 /\ RunOk(db, rec)
  BY Zenon, <1>1, LiveRun DEF Live
<1>3. CASE ~Reconciled(Plan(r), history, present)
  BY Zenon, <1>2, <1>3, StopStep DEF Verdict
<1>4. CASE Reconciled(Plan(r), history, present)
  <2>1. PICK mid : mid = [rec EXCEPT !.history = history, !.present = present]
    BY Zenon
  <2>2. /\ mid \in RunRecord /\ mid.history = history /\ mid.lane = rec.lane
        /\ mid.authority = rec.authority /\ mid.manifest = rec.manifest
    BY ZenonT(120), <2>1 DEF RunRecord
  <2>3. /\ PlanLen(mid, mid.lane) \in Nat
        /\ OnLedger(db, mid) = OnLedger(db, rec)
        /\ \A k \in 1..2 : PlanLen(mid, k) = PlanLen(rec, k)
        /\ \A k, j : StepRecorded(db, mid, k, j) <=> StepRecorded(db, rec, k, j)
    BY Zenon, <1>2, <2>2, PlanDomain DEF OnLedger, PlanLen, StepRecorded
  <2>4. \A k \in 1..2 : k < mid.lane => \A j \in 1..PlanLen(mid, k) : StepRecorded(db, mid, k, j)
    BY Zenon, <1>1, <1>2, <2>2, <2>3, LanesBefore
  <2>5. PICK v : v = From(mid, 1)
    BY Zenon
  <2>6. /\ v \in RunRecord /\ RunOk(db, v) /\ v.authority = rec.authority
        /\ (\A row \in OnLedger(db, mid) : row.binding = KnownBindings[mid.lane]) => LaneIsOwn(db, v)
    <3>1. 1 \in Nat \ {0} /\ 1 <= PlanLen(mid, mid.lane) + 1 /\ 1..(1 - 1) = {}
      BY SMTT(120), <2>3
    <3>2. mid.history.own \subseteq {row \in OnLedger(db, mid) : row.binding = KnownBindings[mid.lane]}
      BY Zenon, <1>1, <2>2, <2>3
    <3> QED
      BY SMTT(120), <2>2, <2>4, <2>5, <3>1, <3>2, FromOk
  <2>7. run' = [run EXCEPT ![r] = v]
    BY Zenon, <1>1, <1>4, <2>1, <2>5 DEF Verdict, MigrationInv
  <2>8. ~overlap => OneAuthority' /\ LaneIsOwn(db, v)
    <3>1. history.foreign = {}
      BY Zenon, <1>4 DEF Reconciled
    <3> QED
      BY Zenon, <1>1, <1>2, <2>2, <2>3, <2>6, <2>7, <3>1, LiveRun, KeepsAuthority
  <2>9. starts' \in 0..MaxStarts /\ overlap' \in BOOLEAN
    BY Zenon DEF MigrationInv
  <2> QED
    BY Zenon, <2>6, <2>7, <2>8, <2>9, QuietStep
<1> QED
  BY Zenon, <1>3, <1>4

\* A run that goes on probing at a step of its plan.
LEMMA ProbeOn ==
  ASSUME MigrationInv, NEW r \in Runners, run[r].pc \in {"read", "probe"},
         NEW history \in [own : SUBSET Rows, foreign : SUBSET Rows], NEW present \in SUBSET Paths,
         NEW j \in Nat \ {0}, j \in DOMAIN Plan(r),
         history.own \subseteq
           {row \in OnLedger(db, run[r]) : row.binding = KnownBindings[run[r].lane]},
         ~overlap /\ history.foreign = {} =>
           \A row \in OnLedger(db, run[r]) : row.binding = KnownBindings[run[r].lane],
         run' = [run EXCEPT ![r] = [run[r] EXCEPT !.pc = "probe", !.i = j, !.present = present,
                                                  !.history = history]],
         UNCHANGED <<repo, db, starts, edits, manual, overlap>>
  PROVE  MigrationInv'
<1>1. PICK rec \in RunRecord : rec = run[r]
  BY Zenon, LiveRun
<1>2. Live(r) /\ rec.lane \in 1..2 /\ RunOk(db, rec)
  BY Zenon, <1>1, LiveRun DEF Live
<1>3. PICK v : v = [rec EXCEPT !.pc = "probe", !.i = j, !.present = present, !.history = history]
  BY Zenon
<1>4. /\ v \in RunRecord /\ v.pc = "probe" /\ v.i = j /\ v.history = history /\ v.lane = rec.lane
      /\ v.authority = rec.authority /\ v.manifest = rec.manifest
  BY Zenon, <1>3 DEF RunRecord, Pcs
<1>5. ReadIsStillThere(db, v)
  BY ZenonT(120), <1>1, <1>4 DEF ReadIsStillThere, OnLedger, Plan, Lane
<1>6. \A k \in 1..2 : Passed(v, k) = Passed(rec, k)
  BY Zenon, <1>1, <1>4 DEF Passed
<1>7. PassedIsRecorded(db, v)
  BY Zenon, <1>1, <1>2, <1>4, <1>6, Bindings DEF RunOk, PassedIsRecorded
<1>8. run' = [run EXCEPT ![r] = v]
  BY Zenon, <1>1, <1>3
<1>9. ~overlap => OneAuthority' /\ LaneIsOwn(db, v)
  BY ZenonT(120), <1>1, <1>2, <1>4, <1>8, LiveRun, KeepsAuthority DEF LaneIsOwn, OnLedger
<1>10. starts' \in 0..MaxStarts /\ overlap' \in BOOLEAN
  BY Zenon DEF MigrationInv
<1> QED
  BY Zenon, <1>4, <1>5, <1>7, <1>8, <1>9, <1>10, QuietStep DEF RunOk

\* What a database says of its ledger when it is read.
LEMMA HistoryRead ==
  ASSUME MigrationInv, NEW r \in Runners
  PROVE  /\ Target(r) \in Databases /\ db[Target(r)] \in Database
         /\ OnLedger(db, run[r]) = db[Target(r)].rows
         /\ historyOf(db[Target(r)], Lane(r)) \in [own : SUBSET Rows, foreign : SUBSET Rows]
         /\ historyOf(db[Target(r)], Lane(r)).own
              = {row \in OnLedger(db, run[r]) : row.binding = KnownBindings[run[r].lane]}
         /\ historyOf(db[Target(r)], Lane(r)).foreign = {} =>
              \A row \in OnLedger(db, run[r]) : row.binding = KnownBindings[run[r].lane]
<1>1. Target(r) \in Databases
  BY Zenon, LiveRun, AuthorityOf DEF Target, Lane
<1>2. db[Target(r)] \in Database
  BY Zenon, <1>1 DEF MigrationInv
<1>3. db[Target(r)].rows \subseteq Rows
  BY Zenon, <1>2 DEF Database
<1> QED
  BY ZenonT(120), <1>1, <1>2, <1>3 DEF OnLedger, Target, Lane, historyOf

LEMMA ReadHistoryStep ==
  ASSUME MigrationInv, NEW r \in Runners, ReadHistory(r)
  PROVE  MigrationInv'
<1>1. PICK history : history = historyOf(db[Target(r)], Lane(r))
  BY Zenon
<1>2. PICK j : j = NextProbe(Plan(r), 1)
  BY Zenon
<1>3. run[r].pc = "read" /\ Live(r) /\ UNCHANGED <<repo, db, starts, edits, manual, overlap>>
  BY Zenon DEF ReadHistory, Live
<1>4. /\ history \in [own : SUBSET Rows, foreign : SUBSET Rows]
      /\ history.own \subseteq
           {row \in OnLedger(db, run[r]) : row.binding = KnownBindings[run[r].lane]}
      /\ history.foreign = {} =>
           \A row \in OnLedger(db, run[r]) : row.binding = KnownBindings[run[r].lane]
  BY Zenon, <1>1, HistoryRead
<1>5. {} \in SUBSET Paths
  BY Zenon
<1>6. CASE Stop(r, "failed")
  BY Zenon, <1>3, <1>6, StopStep
<1>7. CASE j = 0 /\ Verdict(r, history, {})
  BY Zenon, <1>3, <1>4, <1>5, <1>7, VerdictStep
<1>8. CASE j # 0 /\ run' = [run EXCEPT ![r].pc = "probe", ![r].i = j, ![r].present = {},
                                       ![r].history = history]
  <2>1. j \in Nat \ {0} /\ j \in DOMAIN Plan(r)
    BY <1>2, <1>8, LiveRun, PlanDomain, NextProbeOf DEF Plan, Lane
  <2>2. run' = [run EXCEPT ![r] = [run[r] EXCEPT !.pc = "probe", !.i = j, !.present = {},
                                                 !.history = history]]
    BY ZenonT(120), <1>8 DEF MigrationInv
  <2> QED
    BY ZenonT(120), <1>3, <1>4, <1>5, <2>1, <2>2, ProbeOn
<1> QED
  BY Zenon, <1>1, <1>2, <1>6, <1>7, <1>8 DEF ReadHistory

LEMMA ProbeStep ==
  ASSUME MigrationInv, NEW r \in Runners, Probe(r)
  PROVE  MigrationInv'
<1>1. PICK present :
        present = run[r].present \cup ({Plan(r)[run[r].i].path} \cap db[Target(r)].cols)
  BY Zenon
<1>2. PICK j : j = NextProbe(Plan(r), run[r].i + 1)
  BY Zenon
<1>3. run[r].pc = "probe" /\ Live(r) /\ UNCHANGED <<repo, db, starts, edits, manual, overlap>>
  BY Zenon DEF Probe, Live
<1>4. PICK history : history = run[r].history
  BY Zenon
<1>5. /\ history \in [own : SUBSET Rows, foreign : SUBSET Rows]
      /\ history.own \subseteq
           {row \in OnLedger(db, run[r]) : row.binding = KnownBindings[run[r].lane]}
      /\ ~overlap /\ history.foreign = {} =>
           \A row \in OnLedger(db, run[r]) : row.binding = KnownBindings[run[r].lane]
  BY Zenon, <1>3, <1>4, LiveRun DEF RunRecord, RunOk, ReadIsStillThere, LaneIsOwn
<1>6. present \in SUBSET Paths
  BY Zenon, <1>1, LiveRun, HistoryRead DEF RunRecord, Database
<1>7. CASE Stop(r, "failed")
  BY Zenon, <1>3, <1>7, StopStep
<1>8. CASE j = 0 /\ Verdict(r, history, present)
  BY Zenon, <1>3, <1>5, <1>6, <1>8, VerdictStep
<1>9. CASE j # 0 /\ run' = [run EXCEPT ![r].i = j, ![r].present = present]
  <2>1. j \in Nat \ {0} /\ j \in DOMAIN Plan(r)
    BY <1>2, <1>9, LiveRun, PlanDomain, NextProbeOf DEF Plan, Lane
  <2>2. PICK rec \in RunRecord : rec = run[r]
    BY Zenon, LiveRun
  <2>3. [rec EXCEPT !.i = j, !.present = present]
          = [rec EXCEPT !.pc = "probe", !.i = j, !.present = present, !.history = history]
    BY Zenon, <1>3, <1>4, <2>2 DEF RunRecord
  <2>4. run' = [run EXCEPT ![r] = [run[r] EXCEPT !.pc = "probe", !.i = j, !.present = present,
                                                 !.history = history]]
    BY ZenonT(120), <1>9, <2>2, <2>3 DEF MigrationInv
  <2> QED
    BY ZenonT(120), <1>3, <1>5, <1>6, <2>1, <2>4, ProbeOn
<1> QED
  BY Zenon, <1>1, <1>2, <1>4, <1>7, <1>8, <1>9 DEF Probe

\* What one Wrangler call may do to its database and to the truth of the ledger.
LEMMA WriteOk ==
  ASSUME MigrationInv, NEW d \in Databases, NEW b \in Binding, NEW step \in Entries,
         step.path \in Paths, NEW left,
         \/ left = db[d]
         \/ /\ left = Ran(db[d], step)
            /\ step.apply # "once" /\ RowOf(b, step) \in db[d].rows
         \/ left = Recorded(Ran(db[d], step), b, step),
         db' = [db EXCEPT ![d] = left], UNCHANGED manual
  PROVE  /\ db' \in [Databases -> Database] /\ Grow /\ LedgerTellsTheTruth'
         /\ db'[d] = left /\ left.rows \subseteq db[d].rows \cup {RowOf(b, step)}
         /\ \A e \in Databases \ {d} : db'[e] = db[e]
<1>1. PICK old \in Database : old = db[d]
  BY Zenon DEF MigrationInv
<1>2. RowOf(b, step) \in Rows /\ <<step.path, step.sha>> \in {<<e.path, e.sha>> : e \in Entries}
  BY SMTT(120) DEF Rows
<1>3. /\ left \in Database /\ old.rows \subseteq left.rows
      /\ left.rows \subseteq old.rows \cup {RowOf(b, step)}
      /\ \/ left = old
         \/ /\ left.rows = old.rows /\ left.cols = old.cols
            /\ left.ran = old.ran \cup {<<step.path, step.sha>>}
            /\ RowOf(b, step) \in old.rows
         \/ /\ left.rows = old.rows \cup {RowOf(b, step)}
            /\ left.ran = old.ran \cup {<<step.path, step.sha>>}
            /\ left.cols = old.cols \cup (IF step.apply = "once" THEN {step.path} ELSE {})
  <2>1. CASE left = old
    BY Zenon, <2>1
  <2>2. CASE left = Ran(old, step) /\ step.apply # "once" /\ RowOf(b, step) \in old.rows
    BY Zenon, <1>2, <2>2 DEF Ran, Database
  <2>3. CASE left = Recorded(Ran(old, step), b, step)
    <3>1. PICK mid : mid = Ran(old, step)
      BY Zenon
    <3>2. /\ mid \in Database /\ mid.rows = old.rows
          /\ mid.ran = old.ran \cup {<<step.path, step.sha>>}
          /\ mid.cols = old.cols \cup (IF step.apply = "once" THEN {step.path} ELSE {})
      BY ZenonT(120), <1>2, <3>1 DEF Ran, Database
    <3>3. left = [mid EXCEPT !.rows = @ \cup {RowOf(b, step)}]
      BY Zenon, <2>3, <3>1 DEF Recorded
    <3> QED
      BY Zenon, <1>2, <3>2, <3>3 DEF Database
  <2> QED
    BY Zenon, <1>1, <2>1, <2>2, <2>3
<1>4. db' \in [Databases -> Database] /\ db'[d] = left /\ \A e \in Databases \ {d} : db'[e] = db[e]
  BY Zenon, <1>3 DEF MigrationInv
<1>5. Grow
  BY Zenon, <1>1, <1>3, <1>4 DEF Grow
<1>6. left.ran = {<<row.path, row.sha>> : row \in left.rows}
  <2>1. old.ran = {<<row.path, row.sha>> : row \in old.rows}
    BY Zenon, <1>1 DEF MigrationInv, LedgerTellsTheTruth
  <2>2. RowOf(b, step).path = step.path /\ RowOf(b, step).sha = step.sha
    BY Zenon DEF RowOf
  <2> QED
    BY Zenon, <1>3, <2>1, <2>2
<1>7. ASSUME NEW e \in Entries, e.apply = "once", e.path \notin manual[d]
      PROVE  e.path \in left.cols <=> \E row \in left.rows : row.path = e.path
  <2>1. e.path \in old.cols <=> \E row \in old.rows : row.path = e.path
    BY Zenon, <1>1, <1>7 DEF MigrationInv, LedgerTellsTheTruth
  <2>2. e.path = step.path => step.apply = "once"
    BY SMTT(120), <1>7, CheckoutsAssumption DEF Entries
  <2>3. RowOf(b, step).path = step.path
    BY Zenon DEF RowOf
  <2> QED
    BY Zenon, <1>3, <2>1, <2>2, <2>3
<1>8. LedgerTellsTheTruth'
  BY Zenon, <1>4, <1>6, <1>7 DEF MigrationInv, LedgerTellsTheTruth
<1> QED
  BY Zenon, <1>1, <1>3, <1>4, <1>5, <1>8

\* While one authority is at work, a call adds its own lane's row to a database
\* that holds that lane alone, and no other lane of a live run is on it.
LEMMA WriteKeepsApart ==
  ASSUME MigrationInv, ~overlap, NEW r \in Runners, run[r].pc = "apply", NEW step,
         db'[Target(r)].rows \subseteq db[Target(r)].rows \cup {RowOf(Lane(r), step)},
         \A e \in Databases \ {Target(r)} : db'[e] = db[e]
  PROVE  /\ Unmixed' /\ \A s \in Runners : LaneIsOwn(db', run[s])
         /\ \A row \in OnLedger(db', run[r]) : row.binding = KnownBindings[run[r].lane]
<1>1. \A row \in db[Target(r)].rows : row.binding = Lane(r)
  BY ZenonT(120), LiveRun DEF LaneIsOwn, OnLedger, Target, Lane
<1>2. \A row \in db'[Target(r)].rows : row.binding = Lane(r)
  BY SMTT(120), <1>1 DEF RowOf
<1>3. Unmixed'
  BY Zenon, <1>2 DEF Unmixed, MigrationInv
<1>4. ASSUME NEW s \in Runners
      PROVE  LaneIsOwn(db', run[s])
  <2> SUFFICES ASSUME run[s].pc = "apply" \/ (run[s].pc = "probe" /\ run[s].history.foreign = {})
               PROVE  \A row \in OnLedger(db', run[s]) : row.binding = KnownBindings[run[s].lane]
    BY Zenon DEF LaneIsOwn
  <2>1. run[s].authority = run[r].authority
    BY Zenon, LiveRun DEF OneAuthority, Live
  <2>2. /\ run[s].lane \in 1..2 /\ run[r].lane \in 1..2 /\ run[r].authority \in Authority
        /\ \A row \in OnLedger(db, run[s]) : row.binding = KnownBindings[run[s].lane]
    BY Zenon, LiveRun DEF LaneIsOwn
  <2>3. CASE run[s].lane = run[r].lane
    BY ZenonT(120), <1>2, <2>1, <2>3 DEF OnLedger, Target, Lane
  <2>4. CASE run[s].lane # run[r].lane
    <3>1. run[s].authority[KnownBindings[run[s].lane]] \in Databases \ {Target(r)}
      <4>1. PICK a \in Authority, k \in 1..2, l \in 1..2 :
              a = run[r].authority /\ k = run[s].lane /\ l = run[r].lane
        BY Zenon, <2>2
      <4>2. /\ a[KnownBindings[k]] \in Databases
            /\ a[KnownBindings[1]] # a[KnownBindings[2]]
        BY Zenon, <4>1, AuthorityOf
      <4>3. (k = 1 /\ l = 2) \/ (k = 2 /\ l = 1)
        BY SMTT(120), <2>4, <4>1
      <4>4. a[KnownBindings[k]] # a[KnownBindings[l]]
        BY Zenon, <4>2, <4>3
      <4> QED
        BY ZenonT(120), <2>1, <4>1, <4>2, <4>4 DEF Target, Lane
    <3>2. OnLedger(db', run[s]) = OnLedger(db, run[s])
      BY ZenonT(120), <3>1 DEF OnLedger
    <3> QED
      BY Zenon, <2>2, <3>2
  <2> QED
    BY Zenon, <2>3, <2>4
<1> QED
  BY ZenonT(120), <1>2, <1>3, <1>4 DEF OnLedger, Target, Lane

\* A run goes on after step i, which is recorded in the databases as they are
\* after the step.
LEMMA AdvanceOk ==
  ASSUME MigrationInv, NEW r \in Runners, run[r].pc = "apply", Grow,
         StepRecorded(db', run[r], run[r].lane, run[r].i),
         NEW v, v = From(run[r], run[r].i + 1)
  PROVE  /\ v \in RunRecord /\ RunOk(db', v) /\ v.authority = run[r].authority
         /\ (\A row \in OnLedger(db', run[r]) : row.binding = KnownBindings[run[r].lane]) =>
              LaneIsOwn(db', v)
<1>1. PICK rec \in RunRecord : rec = run[r]
  BY Zenon, LiveRun
<1>2. rec.lane \in 1..2 /\ RunOk(db, rec) /\ rec.pc = "apply" /\ rec.i \in Nat \ {0}
  BY Zenon, <1>1, LiveRun DEF RunRecord
<1>3. RunOk(db', rec)
  BY Zenon, <1>2, Monotone
<1>4. rec.i \in 1..PlanLen(rec, rec.lane) /\ PlanLen(rec, rec.lane) \in Nat
  BY Zenon, <1>2, PlanDomain DEF RunOk, ReadIsStillThere
<1>5. PICK i : i = rec.i + 1
  BY Zenon
<1>6. i \in Nat \ {0} /\ i <= PlanLen(rec, rec.lane) + 1 /\ 1..(i - 1) = 1..rec.i
  BY SMTT(120), <1>2, <1>4, <1>5
<1>7. \A k \in 1..2 : k < rec.lane => \A j \in 1..PlanLen(rec, k) : StepRecorded(db', rec, k, j)
  BY Zenon, <1>2, <1>3, LanesBefore
<1>8. \A j \in 1..(i - 1) : StepRecorded(db', rec, rec.lane, j)
  <2>1. \A j \in 1..(rec.i - 1) : StepRecorded(db', rec, rec.lane, j)
    BY Zenon, <1>2, <1>3, LanesBefore
  <2>2. \A j \in 1..rec.i : j = rec.i \/ j \in 1..(rec.i - 1)
    BY SMTT(120), <1>2
  <2> QED
    BY ZenonT(120), <1>1, <1>6, <2>1, <2>2
<1>9. rec.history.own \subseteq {row \in OnLedger(db', rec) : row.binding = KnownBindings[rec.lane]}
  BY Zenon, <1>2, <1>3 DEF RunOk, ReadIsStillThere
<1>10. v = From(rec, i)
  BY Zenon, <1>1, <1>5
<1> QED
  BY SMTT(120), <1>1, <1>6, <1>7, <1>8, <1>9, <1>10, FromOk

LEMMA ApplyStepStep ==
  ASSUME MigrationInv, NEW r \in Runners, ApplyStep(r)
  PROVE  MigrationInv'
<1> DEFINE rec == run[r]
           d == Target(r)
           b == Lane(r)
<1>1. PICK step : step = Plan(r)[rec.i]
  BY Zenon
<1>2. PICK again \in BOOLEAN : again = (StepState(step, rec.history.own, rec.present) = "satisfied")
  BY Zenon
<1>3. PICK skip \in BOOLEAN : skip = (step.apply = "once" /\ again)
  BY Zenon
<1>4. /\ rec.pc = "apply" /\ Live(r) /\ UNCHANGED <<repo, starts, edits, manual, overlap>>
      /\ rec \in RunRecord /\ rec.lane \in 1..2 /\ b \in Binding /\ d \in Databases
  BY Zenon, LiveRun, HistoryRead, Bindings DEF ApplyStep, Live, Lane
<1>5. step \in Entries
  <2>1. rec.manifest \in Manifests /\ rec.i \in DOMAIN Plan(r)
    BY ZenonT(120), <1>4, LiveRun DEF RunRecord, RunOk, ReadIsStillThere, Plan, Lane
  <2> QED
    BY Zenon, <1>1, <1>4, <2>1, PlanOf DEF Plan
<1>6. again => RowOf(b, step) \in db[d].rows
  <2>1. rec.history.own \in SUBSET Rows
    BY Zenon, <1>4 DEF RunRecord
  <2>2. \A row \in rec.history.own : row.binding = b /\ row \in db[d].rows
    BY ZenonT(120), <1>4, LiveRun DEF RunOk, ReadIsStillThere, OnLedger, Target, Lane
  <2> QED
    BY ZenonT(120), <1>2, <2>1, <2>2, SatisfiedRow
<1>7. ASSUME NEW dbs
      PROVE  StepRecorded(dbs, rec, rec.lane, rec.i) <=> RowOf(b, step) \in dbs[d].rows
  BY Zenon, <1>1 DEF StepRecorded, Plan, Lane, Target
<1>8. Pinned(step) => step.path \in Paths
  BY Zenon DEF Pinned, Paths, MigrationInv
<1>9. overlap \in BOOLEAN /\ starts \in 0..MaxStarts
  BY Zenon DEF MigrationInv
<1> HIDE DEF rec, d, b
<1>10. CASE skip /\ Advance(r) /\ UNCHANGED db
  <2>1. Grow /\ StepRecorded(db', run[r], run[r].lane, run[r].i)
    BY Zenon, <1>3, <1>6, <1>7, <1>10 DEF Grow, rec
  <2>2. PICK v : v = From(run[r], run[r].i + 1)
    BY Zenon
  <2>3. /\ v \in RunRecord /\ RunOk(db, v) /\ v.authority = run[r].authority
        /\ (\A row \in OnLedger(db, run[r]) : row.binding = KnownBindings[run[r].lane]) =>
             LaneIsOwn(db, v)
    BY Zenon, <1>4, <1>10, <2>1, <2>2, AdvanceOk DEF rec
  <2>4. run' = [run EXCEPT ![r] = v]
    BY Zenon, <1>10, <2>2 DEF Advance, MigrationInv
  <2>5. ~overlap => OneAuthority' /\ LaneIsOwn(db, v)
    BY ZenonT(120), <1>4, <2>3, <2>4, LiveRun, KeepsAuthority DEF LaneIsOwn, rec
  <2> QED
    BY ZenonT(120), <1>4, <1>9, <1>10, <2>3, <2>4, <2>5, QuietStep
<1>11. CASE ~skip /\ ~Pinned(step) /\ Stop(r, "failed") /\ UNCHANGED db
  BY Zenon, <1>4, <1>11, StopStep
<1>12. ASSUME NEW left, ~skip, Pinned(step),
              left \in Remote(db[d], b, step, again), db' = [db EXCEPT ![d] = left]
       PROVE  /\ db' \in [Databases -> Database] /\ Grow /\ LedgerTellsTheTruth'
              /\ db'[d] = left /\ left.rows \subseteq db[d].rows \cup {RowOf(b, step)}
              /\ \A e \in Databases \ {d} : db'[e] = db[e]
  <2>1. \/ left = db[d]
        \/ /\ left = Ran(db[d], step)
           /\ step.apply # "once" /\ RowOf(b, step) \in db[d].rows
        \/ left = Recorded(Ran(db[d], step), b, step)
    <3>1. CASE again
      BY ZenonT(120), <1>3, <1>6, <1>12, <3>1 DEF Remote
    <3>2. CASE ~again
      BY Zenon, <1>12, <3>2 DEF Remote, Batch
    <3> QED
      BY Zenon, <3>1, <3>2
  <2> QED
    BY ZenonT(120), <1>4, <1>5, <1>8, <1>12, <2>1, WriteOk
<1>13. ASSUME ~skip, Pinned(step), Stop(r, "failed"),
              \E left \in Remote(db[d], b, step, again) : db' = [db EXCEPT ![d] = left]
       PROVE  MigrationInv'
  <2>1. PICK left \in Remote(db[d], b, step, again) : db' = [db EXCEPT ![d] = left]
    BY Zenon, <1>13
  <2>2. /\ db' \in [Databases -> Database] /\ Grow /\ LedgerTellsTheTruth'
        /\ db'[d].rows \subseteq db[d].rows \cup {RowOf(b, step)}
        /\ \A e \in Databases \ {d} : db'[e] = db[e]
    BY ZenonT(120), <1>12, <1>13, <2>1
  <2>3. PICK v : v = Ended(run[r], "failed")
    BY Zenon
  <2>4. v \in RunRecord /\ v.authority = run[r].authority /\ RunOk(db', v) /\ LaneIsOwn(db', v)
    BY Zenon, <1>4, <2>3, DeadOk DEF rec
  <2>5. run' = [run EXCEPT ![r] = v]
    BY Zenon, <1>13, <2>3 DEF Stop
  <2>6. ~overlap => /\ OneAuthority' /\ Unmixed'
                    /\ \A s \in Runners : LaneIsOwn(db', run[s])
    BY ZenonT(120), <1>4, <2>2, <2>4, <2>5, LiveRun, KeepsAuthority, WriteKeepsApart DEF rec, d, b
  <2> QED
    BY Zenon, <1>4, <1>9, <2>2, <2>4, <2>5, <2>6, RunStep
<1>14. ASSUME ~skip, Pinned(step), again \/ BatchCommits(db[d], b, step), Advance(r),
              db' = [db EXCEPT ![d] = IF again THEN Ran(@, step) ELSE Batch(@, b, step)]
       PROVE  MigrationInv'
  <2>1. PICK left : left = IF again THEN Ran(db[d], step) ELSE Batch(db[d], b, step)
    BY Zenon
  <2>2. left \in Remote(db[d], b, step, again) /\ db' = [db EXCEPT ![d] = left]
    BY Zenon, <1>4, <1>14, <2>1 DEF Remote, MigrationInv
  <2>3. /\ db' \in [Databases -> Database] /\ Grow /\ LedgerTellsTheTruth'
        /\ db'[d] = left /\ left.rows \subseteq db[d].rows \cup {RowOf(b, step)}
        /\ \A e \in Databases \ {d} : db'[e] = db[e]
    BY Zenon, <1>12, <1>14, <2>2
  <2>4. RowOf(b, step) \in left.rows
    <3>1. CASE again
      BY Zenon, <1>4, <1>6, <2>3, <3>1 DEF Grow
    <3>2. CASE ~again
      <4>1. left = Recorded(Ran(db[d], step), b, step)
        BY Zenon, <1>14, <2>1, <3>2 DEF Batch
      <4>2. PICK old \in Database : old = db[d]
        BY Zenon, <1>4 DEF MigrationInv
      <4>3. PICK mid : mid = Ran(old, step)
        BY Zenon
      <4>4. mid = [old EXCEPT !.ran = old.ran \cup {<<step.path, step.sha>>},
                     !.cols = old.cols \cup IF step.apply = "once" THEN {step.path} ELSE {}]
        BY Zenon, <4>3 DEF Ran
      <4>5. [mid EXCEPT !.rows = mid.rows \cup {RowOf(b, step)}].rows = mid.rows \cup {RowOf(b, step)}
        BY Zenon, <4>4 DEF Database
      <4>6. left = [mid EXCEPT !.rows = mid.rows \cup {RowOf(b, step)}]
        BY Zenon, <4>1, <4>2, <4>3 DEF Recorded
      <4> QED
        BY Zenon, <4>5, <4>6
    <3> QED
      BY Zenon, <3>1, <3>2
  <2>5. StepRecorded(db', run[r], run[r].lane, run[r].i)
    BY Zenon, <1>7, <2>3, <2>4 DEF rec
  <2>6. PICK v : v = From(run[r], run[r].i + 1)
    BY Zenon
  <2>7. /\ v \in RunRecord /\ RunOk(db', v) /\ v.authority = run[r].authority
        /\ (\A row \in OnLedger(db', run[r]) : row.binding = KnownBindings[run[r].lane]) =>
             LaneIsOwn(db', v)
    BY Zenon, <1>4, <2>3, <2>5, <2>6, AdvanceOk DEF rec
  <2>8. run' = [run EXCEPT ![r] = v]
    BY Zenon, <1>14, <2>6 DEF Advance, MigrationInv
  <2>9. ~overlap => /\ OneAuthority' /\ Unmixed' /\ LaneIsOwn(db', v)
                    /\ \A s \in Runners : LaneIsOwn(db', run[s])
    <3> SUFFICES ASSUME ~overlap
                 PROVE  /\ OneAuthority' /\ Unmixed' /\ LaneIsOwn(db', v)
                        /\ \A s \in Runners : LaneIsOwn(db', run[s])
      BY Zenon
    <3>1. /\ Unmixed' /\ \A s \in Runners : LaneIsOwn(db', run[s])
          /\ \A row \in OnLedger(db', run[r]) : row.binding = KnownBindings[run[r].lane]
      BY Zenon, <1>4, <2>3, WriteKeepsApart DEF rec, d, b
    <3>2. OneAuthority'
      BY Zenon, <1>4, <2>7, <2>8, LiveRun, KeepsAuthority DEF rec
    <3> QED
      BY Zenon, <2>7, <3>1, <3>2
  <2> QED
    BY Zenon, <1>4, <1>9, <2>3, <2>7, <2>8, <2>9, RunStep
<1> QED
  BY ZenonT(120), <1>1, <1>2, <1>3, <1>10, <1>11, <1>13, <1>14 DEF ApplyStep, rec, d, b

LEMMA EditStep ==
  ASSUME MigrationInv, NEW c \in Checkouts, Edit(c)
  PROVE  MigrationInv'
<1>1. repo' \in Checkouts /\ edits' \in 0..MaxEdits /\ UNCHANGED <<db, run, starts, manual, overlap>>
  BY BoundsAssumption DEF Edit, MigrationInv
<1>2. LedgerTellsTheTruth' /\ CompletedIsRecorded' /\ (OneAuthority => OneAuthority')
      /\ (Unmixed => Unmixed')
  BY ZenonT(120), <1>1 DEF MigrationInv, LedgerTellsTheTruth, CompletedIsRecorded, OneAuthority, Unmixed, Live
<1> QED
  BY Zenon, <1>1, <1>2 DEF MigrationInv

\* A column added by hand is on no ledger: no row changes.
LEMMA AddColumnStep ==
  ASSUME MigrationInv, NEW d \in Databases, NEW p \in Paths, AddColumn(d, p)
  PROVE  MigrationInv'
<1>1. PICK old \in Database : old = db[d]
  BY Zenon DEF MigrationInv
<1>2. PICK left : left = [old EXCEPT !.cols = old.cols \cup {p}]
  BY Zenon
<1>3. left \in Database /\ left.rows = old.rows /\ left.ran = old.ran /\ left.cols = old.cols \cup {p}
  BY Zenon, <1>2 DEF Database
<1>4. db' = [db EXCEPT ![d] = left]
  BY Zenon, <1>1, <1>2 DEF AddColumn, MigrationInv
<1>5. /\ db' \in [Databases -> Database] /\ db'[d] = left
      /\ \A e \in Databases \ {d} : db'[e] = db[e]
  BY Zenon, <1>3, <1>4 DEF MigrationInv
<1>6. /\ manual' \in [Databases -> SUBSET Paths]
      /\ manual'[d] = manual[d] \cup {p} /\ \A e \in Databases \ {d} : manual'[e] = manual[e]
  BY Zenon DEF AddColumn, MigrationInv
<1>7. UNCHANGED <<repo, run, starts, edits, overlap>>
  BY Zenon DEF AddColumn
<1>8. \A e \in Databases : db'[e].rows = db[e].rows /\ db'[e].ran = db[e].ran
  BY Zenon, <1>1, <1>3, <1>5
<1>9. Grow
  BY Zenon, <1>8 DEF Grow
<1>10. LedgerTellsTheTruth'
  <2>1. ASSUME NEW e \in Databases, NEW f \in Entries, f.apply = "once", f.path \notin manual'[e]
        PROVE  f.path \in db'[e].cols <=> \E row \in db'[e].rows : row.path = f.path
    <3>1. f.path \notin manual[e] /\ (f.path \in db'[e].cols <=> f.path \in db[e].cols)
      BY Zenon, <1>1, <1>3, <1>5, <1>6, <2>1
    <3> QED
      BY Zenon, <1>8, <2>1, <3>1 DEF MigrationInv, LedgerTellsTheTruth
  <2> QED
    BY Zenon, <1>8, <2>1 DEF MigrationInv, LedgerTellsTheTruth
<1>11. \A r \in Runners : run[r] \in RunRecord /\ RunOk(db', run[r])
  BY Zenon, <1>9, LiveRun, Monotone
<1>12. ASSUME NEW r \in Runners
       PROVE  OnLedger(db', run[r]) = OnLedger(db, run[r])
  <2>1. run[r].authority[KnownBindings[run[r].lane]] \in Databases
    BY Zenon, LiveRun, AuthorityOf
  <2> QED
    BY Zenon, <1>8, <2>1 DEF OnLedger
<1>13. ~overlap => /\ OneAuthority' /\ Unmixed'
                   /\ \A r \in Runners : LaneIsOwn(db', run[r])
  BY SMTT(120), <1>7, <1>8, <1>12 DEF MigrationInv, OneAuthority, Unmixed, LaneIsOwn, Live
<1>14. \A r \in Runners : ReadIsStillThere(db', run[r])
  BY Zenon, <1>11 DEF RunOk
<1>15. CompletedIsRecorded'
  BY Zenon, <1>7, <1>11 DEF RunOk, CompletedIsRecorded, Live
<1> QED
  BY Zenon, <1>5, <1>6, <1>7, <1>10, <1>13, <1>14, <1>15 DEF MigrationInv

LEMMA InitMigration ==
  ASSUME Init
  PROVE  MigrationInv
<1>1. repo \in Checkouts /\ starts \in 0..MaxStarts /\ edits \in 0..MaxEdits
  BY SMTT(120), BoundsAssumption DEF Init
<1>2. db \in [Databases -> Database]
  BY Zenon DEF Init, FreshDb, Database
<1>3. manual \in [Databases -> SUBSET Paths] /\ overlap \in BOOLEAN
  BY ZenonT(120) DEF Init
<1>4. ASSUME NEW r \in Runners
      PROVE  run[r] \in RunRecord /\ run[r].pc = "idle"
  <2>1. run[r] = Idle
    BY Zenon DEF Init
  <2> QED
    BY Zenon, <2>1, IdleOk
<1>5. run \in [Runners -> RunRecord]
  BY Zenon, <1>4 DEF Init
<1>6. LedgerTellsTheTruth /\ Unmixed
  BY Zenon DEF Init, FreshDb, LedgerTellsTheTruth, Unmixed
<1>7. /\ CompletedIsRecorded /\ OneAuthority
      /\ \A r \in Runners : ReadIsStillThere(db, run[r]) /\ LaneIsOwn(db, run[r])
  BY Zenon, <1>4 DEF CompletedIsRecorded, OneAuthority, Live, ReadIsStillThere, LaneIsOwn
<1> QED
  BY Zenon, <1>1, <1>2, <1>3, <1>5, <1>6, <1>7 DEF MigrationInv

LEMMA NextMigration ==
  ASSUME MigrationInv, [Next]_vars
  PROVE  MigrationInv'
<1>1. ASSUME NEW r \in Runners, Crash(r) PROVE MigrationInv'
  BY Zenon, <1>1, StopStep DEF Crash
<1>2. CASE UNCHANGED vars
  BY ZenonT(120), <1>2
  DEF vars, MigrationInv, LedgerTellsTheTruth, CompletedIsRecorded, OneAuthority, Unmixed,
              Live
<1> QED
  BY Zenon, <1>1, <1>2, LoadManifestStep, ReadHistoryStep, ProbeStep, ApplyStepStep, StartStep, EditStep,
     AddColumnStep DEF Next, Step

\* In every state the ledger says exactly what has run, no run is ahead of what
\* is recorded, and the two histories stay apart unless runs with different
\* authorities overlapped: for any number of operators, databases, checkouts,
\* runs, edits and schema changes by hand (applyAllLanes).
THEOREM LedgersSound == Spec => []LedgersAreSound
<1>1. MigrationInv => LedgersAreSound
  <2> SUFFICES ASSUME MigrationInv PROVE LedgersAreSound
    BY Zenon
  <2>1. \A d \in Databases : db[d] \in Database
    BY Zenon DEF MigrationInv
  <2>2. \A r \in Runners : run[r] \in RunRecord /\ ReadIsStillThere(db, run[r])
    BY Zenon DEF MigrationInv
  <2>3. TypeOK
    BY ZenonT(120), <2>1, <2>2 DEF TypeOK, MigrationInv, Database, RunRecord, ReadIsStillThere, Plan, Lane
  <2>4. HistoriesDoNotMix
    BY Zenon DEF MigrationInv, HistoriesDoNotMix, Unmixed
  <2> QED
    BY Zenon, <2>3, <2>4 DEF LedgersAreSound, MigrationInv
<1> QED
  BY <1>1, InitMigration, NextMigration, PTL DEF Spec

----------------------------------------------------------------------------
\* p lists the n elements of S in the order of their numbers.
Lists(p, n, S) ==
  /\ p \in [1..n -> S]
  /\ \A i, j \in 1..n : i # j => p[i] # p[j]
  /\ \A x \in S : \E i \in 1..n : p[i] = x
  /\ \A i, j \in 1..n : i < j => p[i].sequence <= p[j].sequence

Numbered(S) == \A x \in S : x.sequence \in Nat

NumberedApart(S) == \A x, y \in S : x.sequence = y.sequence => x = y

\* The listing leaves no element out.
LEMMA ListedAll ==
  ASSUME NEW S, IsFiniteSet(S), Numbered(S)
  PROVE  /\ Cardinality(S) \in Nat /\ Lists(InSequence(S), Cardinality(S), S)
         /\ InSequence(S) \in Seq(S) /\ Len(InSequence(S)) = Cardinality(S)
<1>0. \A x \in S : x.sequence \in Nat
  BY Zenon DEF Numbered
<1>1. PICK n \in Nat : n = Cardinality(S)
  BY Zenon, FS_CardinalityType
<1>2. PICK p \in [1..n -> S] : p = InSequence(S) /\ \A i, j \in 1..n : i # j => p[i] # p[j]
  BY <1>0, <1>1, Listed
<1>3. p \in Injection(1..n, S)
  BY Zenon, <1>2 DEF Injection, IsInjective
<1>4. IsFiniteSet(1..n) /\ Cardinality(1..n) = n
  BY <1>1, FS_Interval
<1>5. p \in Surjection(1..n, S)
  BY Zenon, <1>1, <1>3, <1>4, FS_Injection
<1>6. \A x \in S : \E i \in 1..n : p[i] = x
  BY Zenon, <1>5 DEF Surjection
<1>7. \A i, j \in 1..n : i < j => p[i].sequence <= p[j].sequence
  BY Zenon, <1>0, <1>1, <1>2, Listed
<1>8. Lists(p, n, S)
  BY Zenon, <1>2, <1>6, <1>7 DEF Lists
<1> QED
  BY Zenon, <1>0, <1>1, <1>2, <1>8, Listed

\* Where two listings of elements with different numbers first differ, each
\* has the other's element later on.
LEMMA LaterInOther ==
  ASSUME NEW S, NEW n \in Nat, NEW p, NEW q, Lists(p, n, S), Lists(q, n, S),
         NEW i \in 1..n, p[i] # q[i], \A k \in 1..n : k < i => p[k] = q[k]
  PROVE  p[i].sequence <= q[i].sequence
<1>1. q[i] \in S
  BY Zenon DEF Lists
<1>2. PICK l \in 1..n : p[l] = q[i]
  BY Zenon, <1>1 DEF Lists
<1>3. l # i
  BY Zenon, <1>2
<1>4. ~(l < i)
  BY <1>2, <1>3 DEF Lists
<1>5. i < l
  BY <1>3, <1>4
<1> QED
  BY Zenon, <1>2, <1>5 DEF Lists

\* Two listings in sequence of elements with different numbers are the same.
LEMMA OneListing ==
  ASSUME NEW S, NEW n \in Nat, NEW p, NEW q, Lists(p, n, S), Lists(q, n, S),
         Numbered(S), NumberedApart(S)
  PROVE  p = q
<1> DEFINE T == {i \in 1..n : p[i] # q[i]}
<1>1. p \in [1..n -> S] /\ q \in [1..n -> S]
  BY Zenon DEF Lists
<1>2. T = {}
  <2> SUFFICES ASSUME T # {} PROVE FALSE
    BY Zenon
  <2>1. T \subseteq Nat
    OBVIOUS
  <2>2. PICK i \in T : \A k \in T : i <= k
    <3> HIDE DEF T
    <3> QED
      BY Zenon, <2>1, LeastElement
  <2>3. i \in 1..n /\ p[i] # q[i] /\ \A k \in 1..n : k < i => p[k] = q[k]
    BY <2>2
  <2>4. p[i].sequence <= q[i].sequence
    BY Zenon, <2>3, LaterInOther
  <2>5. q[i].sequence <= p[i].sequence
    BY Zenon, <2>3, LaterInOther
  <2>6. p[i] \in S /\ q[i] \in S /\ p[i].sequence \in Nat /\ q[i].sequence \in Nat
    BY Zenon, <1>1, <2>3 DEF Numbered
  <2>7. p[i].sequence = q[i].sequence
    BY <2>4, <2>5, <2>6
  <2> QED
    BY Zenon, <2>3, <2>6, <2>7 DEF NumberedApart
<1> QED
  BY <1>1, <1>2

\* An element numbered after all of a set is listed after all of it.
LEMMA ListedLast ==
  ASSUME NEW S, IsFiniteSet(S), Numbered(S), NumberedApart(S),
         NEW x, x.sequence \in Nat, \A y \in S : y.sequence < x.sequence
  PROVE  InSequence(S \cup {x}) = Append(InSequence(S), x)
<1>1. PICK n \in Nat : n = Cardinality(S)
  BY Zenon, FS_CardinalityType
<1>2. PICK T : T = S \cup {x}
  BY Zenon
<1>3. x \notin S /\ \A y \in S : y.sequence # x.sequence
  BY DEF Numbered
<1>4. IsFiniteSet(T) /\ Cardinality(T) = n + 1
  BY Zenon, <1>1, <1>2, <1>3, FS_AddElement
<1>5. Numbered(T) /\ NumberedApart(T)
  BY Zenon, <1>2, <1>3 DEF Numbered, NumberedApart
<1>6. PICK s : s = InSequence(S)
  BY Zenon
<1>7. Lists(s, n, S) /\ s \in Seq(S) /\ Len(s) = n
  BY Zenon, <1>1, <1>6, ListedAll
<1>8. PICK p : p = InSequence(T)
  BY Zenon
<1>9. PICK k \in Nat : k = n + 1
  OBVIOUS
<1>10. Lists(p, k, T)
  BY Zenon, <1>4, <1>5, <1>8, <1>9, ListedAll
<1>11. PICK q : q = Append(s, x)
  BY Zenon
<1>12. Lists(q, k, T)
  <2>1. q \in [1..k -> T] /\ q[k] = x /\ \A i \in 1..n : q[i] = s[i]
    <3>1. s \in Seq(T) /\ x \in T
      BY <1>2, <1>7
    <3>2. q \in Seq(T) /\ Len(q) = k
      BY SMTT(120), <1>7, <1>9, <1>11, <3>1
    <3>3. q[k] = x /\ \A i \in 1..n : q[i] = s[i]
      BY SMTT(120), <1>7, <1>9, <1>11, <3>1
    <3> QED
      BY <3>2, <3>3
  <2>2. \A i \in 1..k : i = k \/ i \in 1..n
    BY <1>9
  <2>3. \A i \in 1..n : q[i] \in S /\ q[i].sequence < x.sequence /\ q[i] # x
    BY Zenon, <1>3, <1>7, <2>1 DEF Lists
  <2>4. ASSUME NEW i \in 1..k, NEW j \in 1..k, i # j
        PROVE  q[i] # q[j]
    <3>1. (i \in 1..n /\ j \in 1..n) \/ (i \in 1..n /\ j = k) \/ (i = k /\ j \in 1..n)
      BY Zenon, <2>2, <2>4
    <3>2. CASE i \in 1..n /\ j \in 1..n
      BY Zenon, <1>7, <2>1, <2>4, <3>2 DEF Lists
    <3> QED
      BY Zenon, <2>1, <2>3, <3>1, <3>2
  <2>5. ASSUME NEW i \in 1..k, NEW j \in 1..k, i < j
        PROVE  q[i].sequence <= q[j].sequence
    <3>1. i \in 1..n
      BY SMTT(120), <1>9, <2>5
    <3>2. CASE j \in 1..n
      BY Zenon, <1>7, <2>1, <2>5, <3>1, <3>2 DEF Lists
    <3>3. CASE j = k
      <4>1. q[i].sequence \in Nat /\ q[i].sequence < x.sequence
        BY Zenon, <2>3, <3>1 DEF Numbered
      <4> QED
        BY SMTT(120), <2>1, <3>3, <4>1
    <3> QED
      BY Zenon, <2>2, <3>2, <3>3
  <2>6. ASSUME NEW y \in T
        PROVE  \E i \in 1..k : q[i] = y
    <3>1. CASE y = x
      <4>1. k \in 1..k
        BY <1>9
      <4> QED
        BY Zenon, <2>1, <3>1, <4>1
    <3>2. CASE y \in S
      <4>1. PICK i \in 1..n : s[i] = y
        BY Zenon, <1>7, <3>2 DEF Lists
      <4>2. i \in 1..k
        BY <1>9
      <4> QED
        BY Zenon, <2>1, <4>1, <4>2
    <3> QED
      BY Zenon, <1>2, <3>1, <3>2
  <2> QED
    BY Zenon, <2>1, <2>4, <2>5, <2>6 DEF Lists
<1>13. p = q
  BY Zenon, <1>5, <1>10, <1>12, OneListing
<1> QED
  BY Zenon, <1>2, <1>6, <1>8, <1>11, <1>13

\* A step leaves every ledger as it is, or adds the row of the step that one run
\* is at, where its key is free.
RowAdded(r, row) ==
  /\ run[r].pc = "apply" /\ row = RowOf(Lane(r), Plan(r)[run[r].i])
  /\ KeyFree(db[Target(r)], row)
  /\ db'[Target(r)].rows = db[Target(r)].rows \cup {row}
  /\ \A e \in Databases \ {Target(r)} : db'[e].rows = db[e].rows

LEMMA RowsOfCall ==
  ASSUME NEW old \in Database, NEW b, NEW step
  PROVE  /\ Ran(old, step).rows = old.rows
         /\ \/ Batch(old, b, step).rows = old.rows
            \/ /\ KeyFree(old, RowOf(b, step))
               /\ Batch(old, b, step).rows = old.rows \cup {RowOf(b, step)}
<1>1. PICK mid : mid = Ran(old, step)
  BY Zenon
<1>2. /\ mid.rows = old.rows
      /\ [mid EXCEPT !.rows = mid.rows \cup {RowOf(b, step)}].rows = mid.rows \cup {RowOf(b, step)}
  BY Zenon, <1>1 DEF Ran, Database
<1> QED
  BY Zenon, <1>1, <1>2 DEF Batch, BatchCommits, Recorded

LEMMA ApplyRows ==
  ASSUME MigrationInv, NEW r \in Runners, ApplyStep(r)
  PROVE  \/ \A d \in Databases : db'[d].rows = db[d].rows
         \/ \E row : RowAdded(r, row)
<1>1. PICK d \in Databases : d = Target(r)
  BY Zenon, HistoryRead
<1>2. PICK old \in Database : old = db[d]
  BY Zenon DEF MigrationInv
<1>3. PICK step : step = Plan(r)[run[r].i]
  BY Zenon
<1>4. \/ UNCHANGED db
      \/ \E left : /\ left \in {old, Ran(old, step), Batch(old, Lane(r), step)}
                   /\ db' = [db EXCEPT ![d] = left]
  <2>1. PICK again \in BOOLEAN :
          again = (StepState(Plan(r)[run[r].i], run[r].history.own, run[r].present) = "satisfied")
    BY Zenon
  <2>2. \/ UNCHANGED db
        \/ \E left \in Remote(db[d], Lane(r), step, again) : db' = [db EXCEPT ![d] = left]
        \/ db' = [db EXCEPT ![d] = IF again THEN Ran(db[d], step)
                                   ELSE Batch(db[d], Lane(r), step)]
    BY Zenon, <1>1, <1>3, <2>1 DEF ApplyStep
  <2> QED
    BY Zenon, <1>2, <2>2 DEF Remote
<1>5. CASE UNCHANGED db
  BY Zenon, <1>5
<1>6. ASSUME NEW left, left \in {old, Ran(old, step), Batch(old, Lane(r), step)},
             db' = [db EXCEPT ![d] = left]
      PROVE  \/ \A e \in Databases : db'[e].rows = db[e].rows
             \/ \E row : RowAdded(r, row)
  <2>1. db'[d] = left /\ \A e \in Databases \ {d} : db'[e].rows = db[e].rows
    BY Zenon, <1>6 DEF MigrationInv
  <2>2. \/ left.rows = old.rows
        \/ /\ KeyFree(old, RowOf(Lane(r), step))
           /\ left.rows = old.rows \cup {RowOf(Lane(r), step)}
    BY SMTT(120), <1>6, RowsOfCall
  <2>3. CASE left.rows = old.rows
    BY Zenon, <1>2, <2>1, <2>3
  <2>4. CASE /\ KeyFree(old, RowOf(Lane(r), step))
             /\ left.rows = old.rows \cup {RowOf(Lane(r), step)}
    <3>1. run[r].pc = "apply"
      BY Zenon DEF ApplyStep
    <3>2. RowAdded(r, RowOf(Lane(r), step))
      BY Zenon, <1>1, <1>2, <1>3, <2>1, <2>4, <3>1 DEF RowAdded
    <3> QED
      BY Zenon, <3>2
  <2> QED
    BY Zenon, <2>2, <2>3, <2>4
<1> QED
  BY Zenon, <1>4, <1>5, <1>6

LEMMA StepRows ==
  ASSUME MigrationInv, [Next]_vars
  PROVE  \/ \A d \in Databases : db'[d].rows = db[d].rows
         \/ \E r \in Runners : \E row : RowAdded(r, row)
<1>1. ASSUME NEW r \in Runners, ApplyStep(r)
      PROVE  \/ \A d \in Databases : db'[d].rows = db[d].rows
             \/ \E row : RowAdded(r, row)
  BY Zenon, <1>1, ApplyRows
<1>2. ASSUME NEW d \in Databases, NEW p \in Paths, AddColumn(d, p)
      PROVE  \A e \in Databases : db'[e].rows = db[e].rows
  <2>1. PICK old \in Database : old = db[d]
    BY Zenon DEF MigrationInv
  <2>2. db' = [db EXCEPT ![d] = [old EXCEPT !.cols = old.cols \cup {p}]]
    BY Zenon, <1>2, <2>1 DEF AddColumn, MigrationInv
  <2>3. [old EXCEPT !.cols = old.cols \cup {p}].rows = old.rows
    BY Zenon DEF Database
  <2> QED
    BY Zenon, <2>1, <2>2, <2>3 DEF MigrationInv
<1>3. ASSUME NEW r \in Runners, LoadManifest(r) \/ ReadHistory(r) \/ Probe(r) \/ Crash(r)
      PROVE  UNCHANGED db
  BY Zenon, <1>3 DEF LoadManifest, ReadHistory, Probe, Crash
<1>4. ASSUME NEW r \in Runners, NEW a \in Authority, Start(r, a)
      PROVE  UNCHANGED db
  BY Zenon, <1>4 DEF Start
<1>5. ASSUME NEW c \in Checkouts, Edit(c)
      PROVE  UNCHANGED db
  BY Zenon, <1>5 DEF Edit
<1>6. UNCHANGED vars => UNCHANGED db
  BY Zenon DEF vars
<1> QED
  BY Zenon, <1>1, <1>2, <1>3, <1>4, <1>5, <1>6 DEF Next, Step

\* Of two sequence numbers, one that is neither equal nor later is earlier.
LEMMA NotAfterIsBefore ==
  ASSUME NEW x \in Nat, NEW y \in Nat, x # y, ~(y < x)
  PROVE  x < y
OBVIOUS

\* The plan of a lane is the listing of a checkout's lane.
LEMMA PlanLists ==
  ASSUME NEW m \in Manifests, NEW b \in Binding, NEW i \in DOMAIN buildPlan(m, b)
  PROVE  \E k \in Checkouts, n \in Nat :
           /\ m = k.manifest /\ Numbered(m.lanes[b]) /\ i \in 1..n
           /\ Lists(buildPlan(m, b), n, m.lanes[b])
<1>1. buildPlan(m, b)[i] \in m.lanes[b]
  BY Zenon, PlanOf
<1>2. m # NoManifest
  BY SMTT(120), <1>1 DEF NoManifest
<1>3. PICK k \in Checkouts : m = k.manifest
  BY Zenon, <1>2 DEF Manifests
<1>4. IsFiniteSet(m.lanes[b]) /\ Numbered(m.lanes[b])
  BY Zenon, <1>3, CheckoutsAssumption DEF Numbered
<1>5. PICK n \in Nat : n = Cardinality(m.lanes[b])
  BY Zenon, <1>4, FS_CardinalityType
<1>6. Lists(buildPlan(m, b), n, m.lanes[b])
  BY Zenon, <1>4, <1>5, ListedAll DEF buildPlan
<1>7. DOMAIN buildPlan(m, b) = 1..n
  BY Zenon, <1>6 DEF Lists
<1> QED
  BY Zenon, <1>3, <1>4, <1>6, <1>7

\* An element with a smaller number is listed earlier.
LEMMA EarlierListed ==
  ASSUME NEW S, Numbered(S), NEW n \in Nat, NEW p, Lists(p, n, S), NEW i \in 1..n,
         NEW g \in S, g.sequence < p[i].sequence
  PROVE  \E j \in 1..(i - 1) : p[j] = g
<1>1. PICK j \in 1..n : p[j] = g
  BY Zenon DEF Lists
<1>2. g.sequence \in Nat /\ p[i].sequence \in Nat
  BY Zenon DEF Lists, Numbered
<1>3. j # i
  BY SMTT(120), <1>1, <1>2
<1>4. i < j => p[i].sequence <= p[j].sequence
  BY Zenon DEF Lists
<1>5. j \in 1..(i - 1)
  BY SMTT(120), <1>1, <1>2, <1>3, <1>4
<1> QED
  BY Zenon, <1>1, <1>5

\* The rows and the entries of the checkouts are numbered.
LEMMA RowsNumbered ==
  /\ \A e \in Entries : e.sequence \in Nat
  /\ \A s \in Rows : s.binding \in Binding /\ s.sequence \in Nat
<1>1. \A e \in Entries : e.sequence \in Nat
  BY SMTT(120), CheckoutsAssumption DEF Entries
<1> QED
  BY SMTT(120), <1>1 DEF Rows, RowOf

\* Where the key of a step is free, the rows of its lane are numbered before it:
\* a row after it would not have been written without it.
LEMMA RowsBefore ==
  ASSUME NEW rows \in SUBSET Rows, LogIsWhole(rows), NEW b \in Binding, NEW k \in Checkouts,
         NEW step \in k.manifest.lanes[b], step.sequence \in Nat,
         \A s \in rows : s.binding = b => s.sequence # step.sequence,
         NEW s \in rows, s.binding = b
  PROVE  s.sequence < step.sequence
<1>1. ~(step.sequence < s.sequence)
  BY Zenon DEF LogIsWhole
<1>2. s.sequence \in Nat /\ step.sequence # s.sequence
  BY Zenon, RowsNumbered
<1> QED
  BY Zenon, <1>1, <1>2, NotAfterIsBefore

\* A row whose key is free, and whose predecessors are there, leaves the log whole.
LEMMA LogExtended ==
  ASSUME NEW rows, LogIsWhole(rows), NEW row,
         \A s \in rows : s.binding = row.binding => s.sequence # row.sequence,
         \A c \in Checkouts : \A e \in c.manifest.lanes[row.binding] :
           e.sequence < row.sequence =>
             \E t \in rows : t.binding = row.binding /\ t.sequence = e.sequence
  PROVE  LogIsWhole(rows \cup {row})
<1>1. IsFiniteSet(rows \cup {row})
  BY Zenon, FS_AddElement DEF LogIsWhole
<1>2. \A s, t \in rows \cup {row} : s.binding = t.binding /\ s.sequence = t.sequence => s = t
  BY Zenon DEF LogIsWhole
<1>3. ASSUME NEW s \in rows \cup {row}, NEW c \in Checkouts,
             NEW e \in c.manifest.lanes[s.binding], e.sequence < s.sequence
      PROVE  \E t \in rows \cup {row} : t.binding = s.binding /\ t.sequence = e.sequence
  <2>1. CASE s \in rows
    BY SMTT(120), <1>3, <2>1 DEF LogIsWhole
  <2>2. CASE s = row
    BY Zenon, <1>3, <2>2
  <2> QED
    BY Zenon, <1>3, <2>1, <2>2
<1> QED
  BY Zenon, <1>1, <1>2, <1>3 DEF LogIsWhole

\* The steps before one of a plan are on the ledger.
RecordedBefore(rows, b, plan, i) == \A j \in 1..(i - 1) : RowOf(b, plan[j]) \in rows

HasRow(rows, b, n) == \E t \in rows : t.binding = b /\ t.sequence = n

\* When the steps before one are on a ledger, so are the steps of every other checkout
\* that are numbered before it.
LEMMA EarlierRecorded ==
  ASSUME LanesGrowAtTheEnd, NEW m \in Manifests, NEW b \in Binding,
         NEW i \in DOMAIN buildPlan(m, b), NEW rows,
         RecordedBefore(rows, b, buildPlan(m, b), i),
         NEW c \in Checkouts, NEW e \in c.manifest.lanes[b],
         e.sequence < buildPlan(m, b)[i].sequence
  PROVE  HasRow(rows, b, e.sequence)
<1>1. PICK k \in Checkouts, n \in Nat :
        /\ m = k.manifest /\ Numbered(m.lanes[b]) /\ i \in 1..n
        /\ Lists(buildPlan(m, b), n, m.lanes[b])
  BY Zenon, PlanLists
<1>2. PICK step \in m.lanes[b] : step = buildPlan(m, b)[i]
  BY Zenon, PlanOf
<1>3. PICK g \in m.lanes[b] : g.sequence = e.sequence
  BY SMTT(120), <1>1, <1>2 DEF LanesGrowAtTheEnd
<1>4. g.sequence < buildPlan(m, b)[i].sequence
  BY Zenon, <1>3
<1>5. PICK j \in 1..(i - 1) : buildPlan(m, b)[j] = g
  BY SMTT(120), <1>1, <1>4, EarlierListed
<1>6. RowOf(b, g) \in rows
  BY Zenon, <1>5 DEF RecordedBefore
<1>7. RowOf(b, g).binding = b /\ RowOf(b, g).sequence = g.sequence
  BY Zenon DEF RowOf
<1> QED
  BY Zenon, <1>3, <1>6, <1>7 DEF HasRow

\* The row added is numbered after all rows of its lane, and leaves the log whole.
LEMMA RowIsNext ==
  ASSUME LogInv, LanesGrowAtTheEnd, NEW r \in Runners, NEW row, RowAdded(r, row)
  PROVE  /\ Target(r) \in Databases /\ Lane(r) \in Binding
         /\ row.binding = Lane(r) /\ row.sequence \in Nat
         /\ <<row.path, row.sha>> \in {<<e.path, e.sha>> : e \in Entries}
         /\ \A s \in db[Target(r)].rows : s.binding = Lane(r) => s.sequence < row.sequence
         /\ LogIsWhole(db[Target(r)].rows \cup {row})
<1>1. PICK rec \in RunRecord : rec = run[r] /\ RunOk(db, rec) /\ rec.pc = "apply"
  BY Zenon, LiveRun DEF LogInv, RowAdded
<1>2. PICK b \in Binding, d \in Databases :
        /\ b = Lane(r) /\ d = Target(r) /\ rec.lane \in 1..2 /\ b = KnownBindings[rec.lane]
        /\ d = rec.authority[b]
  BY Zenon, <1>1, LiveRun, HistoryRead, Bindings DEF LogInv, Lane, Target
<1>3. PICK m \in Manifests : m = rec.manifest
  BY Zenon DEF RunRecord
<1>4. rec.i \in DOMAIN buildPlan(m, b)
  BY Zenon, <1>1, <1>2, <1>3 DEF RunOk, ReadIsStillThere
<1>5. PICK step : step = buildPlan(m, b)[rec.i]
  BY Zenon
<1>6. PICK k \in Checkouts : m = k.manifest
  BY Zenon, <1>4, PlanLists
<1>7. step \in m.lanes[b] /\ step \in Entries /\ step.sequence \in Nat
  BY Zenon, <1>4, <1>5, PlanOf, RowsNumbered
<1>8. row = RowOf(b, step)
  BY Zenon, <1>1, <1>2, <1>3, <1>5 DEF RowAdded, Plan
<1>9. /\ row.binding = b /\ row.sequence = step.sequence /\ row.path = step.path
      /\ row.sha = step.sha
  BY Zenon, <1>8 DEF RowOf
<1>10. PICK rows \in SUBSET Rows : rows = db[d].rows /\ LogIsWhole(rows)
  BY Zenon, <1>2, HistoryRead DEF LogInv, MigrationInv, Database
<1>11. \A s \in rows : s.binding = b => s.sequence # row.sequence
  BY Zenon, <1>2, <1>9, <1>10 DEF RowAdded, KeyFree
<1>12. ASSUME NEW s \in rows, s.binding = b
       PROVE  s.sequence < row.sequence
  <2>1. PICK e \in k.manifest.lanes[b] : e = step /\ e.sequence \in Nat
    BY Zenon, <1>6, <1>7
  <2>2. \A t \in rows : t.binding = b => t.sequence # e.sequence
    BY Zenon, <1>9, <1>11, <2>1
  <2>3. s.sequence < e.sequence
    BY Zenon, <1>10, <1>12, <2>1, <2>2, RowsBefore
  <2> QED
    BY Zenon, <1>9, <2>1, <2>3
<1>13. ASSUME NEW c \in Checkouts, NEW e \in c.manifest.lanes[b], e.sequence < row.sequence
       PROVE  \E t \in rows : t.binding = b /\ t.sequence = e.sequence
  <2>1. \A j \in 1..(rec.i - 1) : StepRecorded(db, rec, rec.lane, j)
    <3>1. rec.pc \notin {"idle", "failed"}
      BY Zenon, <1>1
    <3> QED
      BY Zenon, <1>1, <3>1, LanesBefore
  <2>2. \A j \in 1..(rec.i - 1) : RowOf(b, buildPlan(m, b)[j]) \in rows
    BY Zenon, <1>2, <1>3, <1>10, <2>1 DEF StepRecorded
  <2>3. PICK i \in DOMAIN buildPlan(m, b) : i = rec.i
    BY Zenon, <1>4
  <2>4. RecordedBefore(rows, b, buildPlan(m, b), i)
    BY Zenon, <2>2, <2>3 DEF RecordedBefore
  <2>5. e.sequence < buildPlan(m, b)[i].sequence
    BY Zenon, <1>5, <1>9, <1>13, <2>3
  <2>6. HasRow(rows, b, e.sequence)
    BY Zenon, <2>4, <2>5, EarlierRecorded
  <2> QED
    BY Zenon, <2>6 DEF HasRow
<1>14. LogIsWhole(rows \cup {row})
  BY Zenon, <1>9, <1>10, <1>11, <1>13, LogExtended
<1>15. <<row.path, row.sha>> \in {<<e.path, e.sha>> : e \in Entries}
  BY Zenon, <1>7, <1>9
<1> QED
  BY Zenon, <1>2, <1>7, <1>9, <1>10, <1>12, <1>14, <1>15

LEMMA InitLog ==
  ASSUME Init
  PROVE  LogInv
<1>1. \A d \in Databases : db[d].rows = {}
  BY Zenon DEF Init, FreshDb
<1> QED
  BY Zenon, <1>1, InitMigration, FS_EmptySet DEF LogInv, LogIsWhole

LEMMA NextLog ==
  ASSUME LogInv, LanesGrowAtTheEnd, [Next]_vars
  PROVE  LogInv'
<1>1. MigrationInv'
  BY Zenon, NextMigration DEF LogInv
<1>2. CASE \A d \in Databases : db'[d].rows = db[d].rows
  BY Zenon, <1>1, <1>2 DEF LogInv
<1>3. CASE \E r \in Runners : \E row : RowAdded(r, row)
  <2>1. PICK r, row : r \in Runners /\ RowAdded(r, row)
    BY Zenon, <1>3
  <2>2. LogIsWhole(db[Target(r)].rows \cup {row}) /\ Target(r) \in Databases
    BY Zenon, <2>1, RowIsNext
  <2>3. \A d \in Databases : LogIsWhole(db'[d].rows)
    BY Zenon, <2>1, <2>2 DEF LogInv, RowAdded
  <2> QED
    BY Zenon, <1>1, <2>3 DEF LogInv
<1> QED
  BY Zenon, <1>2, <1>3, StepRows DEF LogInv

OwnRows(rows, b) == {row \in rows : row.binding = b}

\* The rows of a lane are numbered, each number once.
LEMMA OwnRowsOk ==
  ASSUME LogInv, NEW d \in Databases, NEW b
  PROVE  /\ IsFiniteSet(OwnRows(db[d].rows, b)) /\ Numbered(OwnRows(db[d].rows, b))
         /\ NumberedApart(OwnRows(db[d].rows, b))
<1>1. PICK rows : rows = db[d].rows /\ rows \subseteq Rows /\ LogIsWhole(rows)
  BY Zenon DEF LogInv, MigrationInv, Database
<1>2. IsFiniteSet(OwnRows(rows, b))
  BY Zenon, <1>1, FS_Subset DEF LogIsWhole, OwnRows
<1>3. \A e \in Entries : e.sequence \in Nat
  BY SMTT(120), CheckoutsAssumption DEF Entries
<1>4. Numbered(OwnRows(rows, b))
  BY <1>1, <1>3 DEF Numbered, OwnRows, Rows, RowOf
<1>5. NumberedApart(OwnRows(rows, b))
  BY Zenon, <1>1 DEF NumberedApart, OwnRows, LogIsWhole
<1> QED
  BY Zenon, <1>1, <1>2, <1>4, <1>5

\* Appending a row to the listing appends its migration to the log.
LEMMA AppliedLast ==
  ASSUME NEW S, IsFiniteSet(S), Numbered(S), NumberedApart(S),
         NEW x, x.sequence \in Nat, \A y \in S : y.sequence < x.sequence
  PROVE  Applied(S \cup {x}) = Append(Applied(S), <<x.path, x.sha>>)
<1>1. PICK p : p = InSequence(S)
  BY Zenon
<1>2. PICK n \in Nat : n = Len(p) /\ p \in Seq(S) /\ DOMAIN p = 1..n
  BY <1>1, ListedAll
<1>3. PICK q : q = Append(p, x)
  BY Zenon
<1>4. InSequence(S \cup {x}) = q
  BY Zenon, <1>1, <1>3, ListedLast
<1>5. DOMAIN q = 1..(n + 1) /\ q[n + 1] = x /\ \A i \in 1..n : q[i] = p[i]
  <2>1. p \in Seq(S \cup {x})
    BY <1>2
  <2> QED
    BY <1>2, <1>3, <2>1
<1>6. PICK a : a = [i \in 1..n |-> <<p[i].path, p[i].sha>>]
  BY Zenon
<1>7. PICK c : c = [i \in 1..(n + 1) |-> <<q[i].path, q[i].sha>>]
  BY Zenon
<1>8. Applied(S) = a /\ Applied(S \cup {x}) = c
  BY Zenon, <1>1, <1>2, <1>4, <1>5, <1>6, <1>7 DEF Applied
<1>9. c = Append(a, <<x.path, x.sha>>)
  <2>1. \E V : a \in Seq(V) /\ Len(a) = n
    <3>1. PICK V : V = {<<p[i].path, p[i].sha>> : i \in 1..n}
      BY Zenon
    <3>2. a \in [1..n -> V]
      BY Zenon, <1>6, <3>1
    <3>3. a \in Seq(V) /\ Len(a) = n
      BY <3>2
    <3> QED
      BY Zenon, <3>3
  <2>2. PICK e : e = Append(a, <<x.path, x.sha>>)
    BY Zenon
  <2>3. e = [i \in 1..(n + 1) |-> IF i <= n THEN a[i] ELSE <<x.path, x.sha>>]
    BY <2>1, <2>2
  <2>4. \A i \in 1..(n + 1) : c[i] = (IF i <= n THEN a[i] ELSE <<x.path, x.sha>>)
    BY SMTT(120), <1>5, <1>6, <1>7
  <2> QED
    BY Zenon, <1>7, <2>2, <2>3, <2>4
<1> QED
  BY Zenon, <1>8, <1>9

LEMMA LogStep ==
  ASSUME LogInv, LanesGrowAtTheEnd, [Next]_vars
  PROVE  [Log!LogNext]_(LogOf(db))
<1>1. \A d \in Databases, b \in Binding :
        /\ historyOf(db[d], b).own = OwnRows(db[d].rows, b)
        /\ historyOf(db'[d], b).own = OwnRows(db'[d].rows, b)
  BY Zenon DEF historyOf, OwnRows
<1>2. PICK l : l = LogOf(db)
  BY Zenon
<1>3. PICK h : h = LogOf(db')
  BY Zenon
<1>4. l = [d \in Databases |-> [b \in Binding |-> Applied(OwnRows(db[d].rows, b))]]
  BY Zenon, <1>1, <1>2 DEF LogOf
<1>5. h = [d \in Databases |-> [b \in Binding |-> Applied(OwnRows(db'[d].rows, b))]]
  BY Zenon, <1>1, <1>3 DEF LogOf
<1>6. CASE \A d \in Databases : db'[d].rows = db[d].rows
  <2>1. h = l
    BY Zenon, <1>4, <1>5, <1>6
  <2> QED
    BY Zenon, <1>2, <1>3, <2>1
<1>7. CASE \E r \in Runners : \E row : RowAdded(r, row)
  <2>1. PICK r, row : r \in Runners /\ RowAdded(r, row)
    BY Zenon, <1>7
  <2>2. PICK d \in Databases, b \in Binding : d = Target(r) /\ b = Lane(r)
    BY Zenon, <2>1, RowIsNext
  <2>3. /\ row.binding = b /\ row.sequence \in Nat
        /\ <<row.path, row.sha>> \in {<<e.path, e.sha>> : e \in Entries}
        /\ \A s \in OwnRows(db[d].rows, b) : s.sequence < row.sequence
    BY Zenon, <2>1, <2>2, RowIsNext DEF OwnRows
  <2>4. /\ OwnRows(db'[d].rows, b) = OwnRows(db[d].rows, b) \cup {row}
        /\ \A c \in Binding \ {b} : OwnRows(db'[d].rows, c) = OwnRows(db[d].rows, c)
        /\ \A e \in Databases \ {d}, c \in Binding :
             OwnRows(db'[e].rows, c) = OwnRows(db[e].rows, c)
    BY Zenon, <2>1, <2>2, <2>3 DEF RowAdded, OwnRows
  <2>5. PICK m \in {<<e.path, e.sha>> : e \in Entries} : m = <<row.path, row.sha>>
    BY Zenon, <2>3
  <2>6. Applied(OwnRows(db'[d].rows, b)) = Append(Applied(OwnRows(db[d].rows, b)), m)
    BY Zenon, <2>3, <2>4, <2>5, OwnRowsOk, AppliedLast
  <2>7. h = [l EXCEPT ![d][b] = Append(l[d][b], m)]
    <3>1. PICK old : old = l[d]
      BY Zenon
    <3>2. old = [c \in Binding |-> Applied(OwnRows(db[d].rows, c))]
      BY Zenon, <1>4, <3>1
    <3>3. h[d] = [old EXCEPT ![b] = Append(old[b], m)]
      BY Zenon, <1>5, <2>4, <2>6, <3>2
    <3>4. \A e \in Databases \ {d} : h[e] = l[e]
      BY Zenon, <1>4, <1>5, <2>4
    <3> QED
      BY Zenon, <1>4, <1>5, <3>1, <3>3, <3>4
  <2>8. Log!Extend(d, b, m)
    BY Zenon, <1>2, <1>3, <2>7 DEF Log!Extend
  <2> QED
    BY Zenon, <2>8 DEF Log!LogNext
<1> QED
  BY Zenon, <1>6, <1>7, StepRows DEF LogInv

\* The ledgers implement the append-only log: every step of every operator
\* leaves the log of a database and lane as it is or adds one migration at its
\* end, provided the lanes of the checkouts only grow at their end
\* (applyAllLanes).
THEOREM LedgerImplementsLog ==
  ASSUME LanesGrowAtTheEnd
  PROVE  Spec => LedgerIsALog
<1>1. Init => Log!LogInit
  <2> SUFFICES ASSUME Init PROVE Log!LogInit
    BY Zenon
  <2>1. Applied({}) = <<>>
    <3>1. IsFiniteSet({}) /\ Cardinality({}) = 0 /\ Numbered({})
      BY Zenon, FS_EmptySet DEF Numbered
    <3>2. InSequence({}) \in Seq({}) /\ Len(InSequence({})) = 0
      BY Zenon, <3>1, ListedAll
    <3>3. InSequence({}) = <<>>
      BY SMTT(120), <3>2
    <3> QED
      BY <3>3 DEF Applied
  <2>2. \A d \in Databases, b \in Binding : historyOf(db[d], b).own = {}
    BY Zenon DEF Init, FreshDb, historyOf
  <2> QED
    BY Zenon, <2>1, <2>2 DEF LogOf, Log!LogInit
<1>2. LogInv /\ [Next]_vars => [Log!LogNext]_(LogOf(db))
  BY Zenon, LogStep
<1>3. LogInv /\ [Next]_vars => LogInv'
  BY Zenon, NextLog
<1> QED
  BY <1>1, <1>2, <1>3, InitLog, PTL DEF Spec, LedgerIsALog, Log!LogSpec
=============================================================================
