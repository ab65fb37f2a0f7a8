-------------------------- MODULE D1RolloutProofs --------------------------
(***************************************************************************)
(* The evidence of a rollout for any number of terminals, authorities and  *)
(* commands, in any order and interleaving: RolloutInv is inductive and    *)
(* EvidenceIsSound follows from it.                                        *)
(***************************************************************************)
EXTENDS D1Rollout, SequenceTheorems, TLAPS

\* Nothing is taken back from the databases or the Worker.
Grows(v, w) ==
  \A a \in Authorities : /\ v[a].schema => w[a].schema
                         /\ v[a].rows => w[a].rows
                         /\ v[a].deployed => w[a].deployed

\* A session is bound once and receipts are only added at its end.
SessionGrows(ses, new) ==
  /\ ses.bound # NoAuthority => new.bound = ses.bound
  /\ Len(ses.receipts) <= Len(new.receipts)
  /\ \A i \in 1..Len(ses.receipts) : new.receipts[i] = ses.receipts[i]

Session == [created : {0}, bound : Authorities \cup {NoAuthority}, receipts : Seq(Receipt)]

Databases == [schema : BOOLEAN, rows : BOOLEAN, deployed : BOOLEAN]

\* What was true of an operation stays true.
LEMMA ClaimStays ==
  ASSUME NEW v \in Databases, NEW w \in Databases, v.schema => w.schema, v.rows => w.rows,
         v.deployed => w.deployed, NEW op, Claimed(op, v)
  PROVE  Claimed(op, w)
BY Zenon DEF Claimed, Databases

LEMMA ClaimsGrow ==
  ASSUME NEW v \in World, NEW w \in World, Grows(v, w), NEW a \in Authorities, NEW op,
         Claimed(op, v[a])
  PROVE  Claimed(op, w[a])
<1>1. v[a] \in Databases /\ w[a] \in Databases
  BY Zenon DEF World, Databases
<1> QED
  BY Zenon, <1>1, ClaimStays DEF Grows

LEMMA SessionStays ==
  ASSUME NEW ses, NEW v \in World, NEW w \in World, SessionOk(ses, v), Grows(v, w)
  PROVE  SessionOk(ses, w)
<1>1. ses \in Session
  BY Zenon DEF SessionOk, Session
<1>2. PICK rs \in Seq(Receipt) : rs = ses.receipts
  BY Zenon, <1>1 DEF Session
<1>3. ASSUME NEW i \in DOMAIN rs, rs[i].status = "success"
      PROVE  Claimed(rs[i].operation, w[rs[i].authority])
  <2>1. rs[i] \in Receipt
    OBVIOUS
  <2>2. rs[i].authority \in Authorities
    BY Zenon, <2>1 DEF Receipt
  <2>3. Claimed(rs[i].operation, v[rs[i].authority])
    BY Zenon, <1>2, <1>3 DEF SessionOk, Evidenced
  <2> QED
    BY Zenon, <2>2, <2>3, ClaimsGrow
<1>4. Evidenced(rs, w)
  BY Zenon, <1>3 DEF Evidenced
<1> QED
  BY Zenon, <1>2, <1>4 DEF SessionOk

LEMMA CommandStays ==
  ASSUME NEW c \in Command, NEW ses \in Session, NEW new \in Session,
         NEW v \in World, NEW w \in World, CommandOk(c, ses, v), Grows(v, w),
         SessionGrows(ses, new)
  PROVE  CommandOk(c, new, w)
<1>1. CASE c.kind = "none"
  BY <1>1 DEF CommandOk, Command
<1>2. CASE c.kind # "none"
  <2>1. c.authority \in Authorities /\ c.authority # NoAuthority
    BY Zenon, <1>2, RolloutAssumption DEF CommandOk
  <2>2. ASSUME NEW i \in 1..Len(c.todo), c.todo[i].status = "success"
        PROVE  Claimed(c.todo[i].operation, w[c.authority])
    BY Zenon, <2>1, <2>2, ClaimsGrow DEF CommandOk
  <2>3. /\ c.pc = "counts" => w[c.authority].rows
        /\ c.pc = "upload" => w[c.authority].schema
    BY Zenon, <2>1 DEF CommandOk, Grows
  <2>4. Len(c.seen) \in Nat /\ Len(ses.receipts) \in Nat /\ Len(new.receipts) \in Nat
    BY DEF Command, Session
  <2>5. c.open => /\ new.bound = c.authority
                  /\ Len(c.seen) <= Len(new.receipts)
                  /\ \A i \in 1..Len(c.seen) : c.seen[i] = new.receipts[i]
    <3> SUFFICES ASSUME c.open
                 PROVE  /\ new.bound = c.authority
                        /\ Len(c.seen) <= Len(new.receipts)
                        /\ \A i \in 1..Len(c.seen) : c.seen[i] = new.receipts[i]
      BY Zenon
    <3>1. /\ ses.bound = c.authority /\ Len(c.seen) <= Len(ses.receipts)
          /\ \A i \in 1..Len(c.seen) : c.seen[i] = ses.receipts[i]
      BY Zenon DEF CommandOk
    <3>2. new.bound = c.authority
      BY Zenon, <2>1, <3>1 DEF SessionGrows
    <3>3. Len(c.seen) <= Len(new.receipts)
      BY <2>4, <3>1 DEF SessionGrows
    <3>4. ASSUME NEW i \in 1..Len(c.seen)
          PROVE  c.seen[i] = new.receipts[i]
      <4>1. i \in 1..Len(ses.receipts)
        BY <2>4, <3>1
      <4> QED
        BY Zenon, <3>1, <4>1 DEF SessionGrows
    <3> QED
      BY Zenon, <3>2, <3>3, <3>4
  <2> QED
    BY Zenon, <1>2, <2>1, <2>2, <2>3, <2>5 DEF CommandOk
<1> QED
  BY Zenon, <1>1, <1>2

\* One command moves, and with it the world and the session only grow.
LEMMA CmdStep ==
  ASSUME RolloutInv, NEW s \in Shells, NEW v \in Command, cmd' = [cmd EXCEPT ![s] = v],
         clock' \in 0..MaxClock, artifact' \in BOOLEAN, world' \in World, Grows(world, world'),
         SessionGrows(session, session'), SessionOk(session', world'),
         DeployedOnVerifiedSchema', CommandOk(v, session', world')
  PROVE  RolloutInv'
<1>1. cmd' \in [Shells -> Command] /\ cmd'[s] = v /\ \A t \in Shells \ {s} : cmd'[t] = cmd[t]
  BY Zenon DEF RolloutInv
<1>2. session \in Session /\ session' \in Session
  BY Zenon DEF RolloutInv, SessionOk, Session
<1>3. ASSUME NEW t \in Shells
      PROVE  CommandOk(cmd'[t], session', world')
  <2>1. CASE t = s
    BY Zenon, <1>1, <2>1
  <2>2. CASE t # s
    <3>1. PICK c \in Command : c = cmd[t] /\ CommandOk(c, session, world)
      BY Zenon DEF RolloutInv
    <3>2. CommandOk(c, session', world')
      BY Zenon, <1>2, <3>1, CommandStays DEF RolloutInv
    <3> QED
      BY Zenon, <1>1, <2>2, <3>1, <3>2
  <2> QED
    BY Zenon, <2>1, <2>2
<1> QED
  BY Zenon, <1>1, <1>3 DEF RolloutInv

LEMMA Reflexive ==
  ASSUME RolloutInv
  PROVE  Grows(world, world) /\ SessionGrows(session, session)
BY DEF Grows, SessionGrows, RolloutInv, SessionOk, Session

\* A command moves and may change its databases.
LEMMA WorkStep ==
  ASSUME RolloutInv, NEW s \in Shells, NEW v \in Command, cmd' = [cmd EXCEPT ![s] = v],
         UNCHANGED <<clock, session>>, artifact' \in BOOLEAN, world' \in World,
         Grows(world, world'), DeployedOnVerifiedSchema', CommandOk(v, session, world')
  PROVE  RolloutInv'
<1>1. SessionOk(session', world')
  BY Zenon, SessionStays DEF RolloutInv
<1>2. SessionGrows(session, session')
  BY Zenon, Reflexive
<1> QED
  BY Zenon, <1>1, <1>2, CmdStep DEF RolloutInv

LEMMA QuietStep ==
  ASSUME RolloutInv, NEW s \in Shells, NEW v \in Command, cmd' = [cmd EXCEPT ![s] = v],
         UNCHANGED <<clock, session, world>>, artifact' \in BOOLEAN, CommandOk(v, session, world)
  PROVE  RolloutInv'
<1>1. Grows(world, world') /\ world' \in World /\ DeployedOnVerifiedSchema'
  BY Zenon, Reflexive DEF RolloutInv, DeployedOnVerifiedSchema
<1> QED
  BY Zenon, <1>1, WorkStep

----------------------------------------------------------------------------
\* The results a command is about to record are true of its databases.
ResultsOk(todo, w) ==
  /\ todo \in Seq(Result) /\ Len(todo) <= 2
  /\ \A i \in 1..Len(todo) : todo[i].status = "success" => Claimed(todo[i].operation, w)

LEMMA Operating ==
  /\ "migration_plan_verified" \in Operation /\ "migration_apply_completed" \in Operation
  /\ "remote_schema_verified" \in Operation /\ "bootstrap_apply_completed" \in Operation
  /\ "bootstrap_counts_verified" \in Operation /\ "worker_preflight_completed" \in Operation
  /\ "worker_deploy_completed" \in Operation
<1>1. \A i \in 1..7 : Operations[i] \in Operation
  BY DEF Operations, Operation, Range
<1> QED
  BY <1>1 DEF Operations

LEMMA NoResult ==
  ASSUME NEW w
  PROVE  ResultsOk(<<>>, w)
BY DEF ResultsOk

LEMMA OneResult ==
  ASSUME NEW w, NEW op \in Operation, NEW status \in Statuses, NEW started \in 0..MaxClock,
         status = "success" => Claimed(op, w)
  PROVE  ResultsOk(<<Wanted(op, status, started)>>, w)
<1>1. PICK x : x = Wanted(op, status, started)
  BY Zenon
<1>2. x \in Result /\ x.status = status /\ x.operation = op
  BY Zenon, <1>1 DEF Wanted, Result
<1>3. <<x>> \in Seq(Result) /\ Len(<<x>>) = 1 /\ <<x>>[1] = x
  BY <1>2
<1> QED
  BY <1>1, <1>2, <1>3 DEF ResultsOk

LEMMA TwoResults ==
  ASSUME NEW w, NEW first \in Result, NEW second \in Result,
         first.status = "success" => Claimed(first.operation, w),
         second.status = "success" => Claimed(second.operation, w)
  PROVE  ResultsOk(<<first, second>>, w)
<1>1. /\ <<first, second>> \in Seq(Result) /\ Len(<<first, second>>) = 2
      /\ <<first, second>>[1] = first /\ <<first, second>>[2] = second
  OBVIOUS
<1>2. \A i \in 1..2 : i = 1 \/ i = 2
  OBVIOUS
<1> QED
  BY <1>1, <1>2 DEF ResultsOk

\* A command with nothing to record goes on, with what it found.
LEMMA GotoOk ==
  ASSUME NEW c \in Command, NEW ses, NEW v, NEW w, CommandOk(c, ses, v), c.kind # "none",
         c.todo = <<>>, NEW pc \in Pcs, NEW todo, ResultsOk(todo, w[c.authority]),
         pc = "counts" => w[c.authority].rows, pc = "upload" => w[c.authority].schema
  PROVE  /\ [c EXCEPT !.pc = pc, !.todo = todo] \in Command
         /\ CommandOk([c EXCEPT !.pc = pc, !.todo = todo], ses, w)
<1>1. PICK d : d = [c EXCEPT !.pc = pc, !.todo = todo]
  BY Zenon
<1>2. /\ d \in Command /\ d.pc = pc /\ d.todo = todo /\ d.kind = c.kind
      /\ d.authority = c.authority /\ d.open = c.open
  BY Zenon, <1>1 DEF Command, ResultsOk
<1>3. ~c.open /\ c.authority \in Authorities
  BY Zenon DEF CommandOk
<1>4. CommandOk(d, ses, w)
  BY Zenon, <1>2, <1>3 DEF CommandOk, ResultsOk
<1> QED
  BY Zenon, <1>1, <1>2, <1>4

LEMMA AtCommand ==
  ASSUME RolloutInv, NEW s \in Shells
  PROVE  /\ cmd[s] \in Command /\ CommandOk(cmd[s], session, world)
         /\ cmd[s].started \in 0..MaxClock /\ cmd[s].counts \in 0..MaxClock
         /\ cmd[s].execute \in BOOLEAN
         /\ cmd[s].kind # "none" => cmd[s].authority \in Authorities
<1>1. cmd[s] \in Command
  BY Zenon DEF RolloutInv
<1> QED
  BY Zenon, <1>1 DEF RolloutInv, Command, CommandOk

\* ... and changes nothing else.
LEMMA QuietGoto ==
  ASSUME RolloutInv, NEW s \in Shells, cmd[s].kind # "none", cmd[s].todo = <<>>,
         NEW pc \in Pcs, NEW todo, Goto(s, pc, todo),
         ResultsOk(todo, world[cmd[s].authority]),
         pc = "counts" => world[cmd[s].authority].rows,
         pc = "upload" => world[cmd[s].authority].schema,
         UNCHANGED <<clock, session, world>>, artifact' \in BOOLEAN
  PROVE  RolloutInv'
<1>1. PICK c \in Command : c = cmd[s] /\ CommandOk(c, session, world)
  BY Zenon, AtCommand
<1>2. PICK v : v = [c EXCEPT !.pc = pc, !.todo = todo]
  BY Zenon
<1>3. v \in Command /\ CommandOk(v, session, world)
  BY ZenonT(30), <1>1, <1>2, GotoOk
<1>4. cmd' = [cmd EXCEPT ![s] = v]
  BY Zenon, <1>1, <1>2 DEF Goto, RolloutInv
<1> QED
  BY Zenon, <1>3, <1>4, QuietStep

\* ... and the world has grown.
LEMMA WorkGoto ==
  ASSUME RolloutInv, NEW s \in Shells, cmd[s].kind # "none", cmd[s].todo = <<>>,
         NEW pc \in Pcs, NEW todo, Goto(s, pc, todo),
         ResultsOk(todo, world'[cmd[s].authority]),
         pc = "counts" => world'[cmd[s].authority].rows,
         pc = "upload" => world'[cmd[s].authority].schema,
         UNCHANGED <<clock, session>>, artifact' \in BOOLEAN,
         world' \in World, Grows(world, world'), DeployedOnVerifiedSchema'
  PROVE  RolloutInv'
<1>1. PICK c \in Command : c = cmd[s] /\ CommandOk(c, session, world)
  BY Zenon, AtCommand
<1>2. PICK v : v = [c EXCEPT !.pc = pc, !.todo = todo]
  BY Zenon
<1>3. v \in Command /\ CommandOk(v, session, world')
  BY ZenonT(30), <1>1, <1>2, GotoOk
<1>4. cmd' = [cmd EXCEPT ![s] = v]
  BY Zenon, <1>1, <1>2 DEF Goto, RolloutInv
<1> QED
  BY Zenon, <1>3, <1>4, WorkStep

\* What a remote call sets in the world.
LEMMA SetSchema ==
  ASSUME RolloutInv, NEW a \in Authorities, world' = [world EXCEPT ![a].schema = TRUE]
  PROVE  /\ world' \in World /\ Grows(world, world') /\ DeployedOnVerifiedSchema'
         /\ world'[a].schema
<1>1. /\ world' \in World /\ world'[a] = [world[a] EXCEPT !.schema = TRUE]
      /\ \A b \in Authorities \ {a} : world'[b] = world[b]
  BY Zenon DEF RolloutInv, World
<1>2. PICK old \in Databases : old = world[a]
  BY Zenon DEF RolloutInv, World, Databases
<1>3. /\ world'[a].schema /\ world'[a].rows = old.rows /\ world'[a].deployed = old.deployed
  BY <1>1, <1>2 DEF Databases
<1> QED
  BY Zenon, <1>1, <1>2, <1>3 DEF Grows, DeployedOnVerifiedSchema, RolloutInv

LEMMA SetRows ==
  ASSUME RolloutInv, NEW a \in Authorities, world' = [world EXCEPT ![a].rows = TRUE]
  PROVE  /\ world' \in World /\ Grows(world, world') /\ DeployedOnVerifiedSchema'
         /\ world'[a].rows
<1>1. /\ world' \in World /\ world'[a] = [world[a] EXCEPT !.rows = TRUE]
      /\ \A b \in Authorities \ {a} : world'[b] = world[b]
  BY Zenon DEF RolloutInv, World
<1>2. PICK old \in Databases : old = world[a]
  BY Zenon DEF RolloutInv, World, Databases
<1>3. /\ world'[a].rows /\ world'[a].schema = old.schema /\ world'[a].deployed = old.deployed
  BY <1>1, <1>2 DEF Databases
<1> QED
  BY Zenon, <1>1, <1>2, <1>3 DEF Grows, DeployedOnVerifiedSchema, RolloutInv

LEMMA SetDeployed ==
  ASSUME RolloutInv, NEW a \in Authorities, world[a].schema,
         world' = [world EXCEPT ![a].deployed = TRUE]
  PROVE  /\ world' \in World /\ Grows(world, world') /\ DeployedOnVerifiedSchema'
         /\ world'[a].schema /\ world'[a].deployed
<1>1. /\ world' \in World /\ world'[a] = [world[a] EXCEPT !.deployed = TRUE]
      /\ \A b \in Authorities \ {a} : world'[b] = world[b]
  BY Zenon DEF RolloutInv, World
<1>2. PICK old \in Databases : old = world[a]
  BY Zenon DEF RolloutInv, World, Databases
<1>3. /\ world'[a].deployed /\ world'[a].schema = old.schema /\ world'[a].rows = old.rows
  BY <1>1, <1>2 DEF Databases
<1> QED
  BY Zenon, <1>1, <1>2, <1>3 DEF Grows, DeployedOnVerifiedSchema, RolloutInv

LEMMA Lost ==
  ASSUME RolloutInv, UNCHANGED world
  PROVE  world' \in World /\ Grows(world, world') /\ DeployedOnVerifiedSchema'
BY Zenon, Reflexive DEF RolloutInv, DeployedOnVerifiedSchema

----------------------------------------------------------------------------
\* The commands, step by step.
LEMMA CheckStep ==
  ASSUME RolloutInv, NEW s \in Shells, Check(s)
  PROVE  RolloutInv'
<1>1. /\ cmd[s].kind # "none" /\ cmd[s].todo = <<>> /\ "end" \in Pcs
      /\ UNCHANGED <<clock, session, world>> /\ artifact' \in BOOLEAN
  BY Zenon DEF Check, At, Pcs, RolloutInv
<1>2. PICK status \in {"success", "failed"} :
        Goto(s, "end", <<Wanted("migration_plan_verified", status, cmd[s].started)>>)
  BY Zenon DEF Check
<1>3. ResultsOk(<<Wanted("migration_plan_verified", status, cmd[s].started)>>,
                world[cmd[s].authority])
  BY Zenon, AtCommand, Operating, OneResult DEF Claimed, Statuses
<1> QED
  BY Zenon, <1>1, <1>2, <1>3, QuietGoto

LEMMA MigrateStep ==
  ASSUME RolloutInv, NEW s \in Shells, Migrate(s)
  PROVE  RolloutInv'
<1>1. /\ cmd[s].kind # "none" /\ cmd[s].todo = <<>> /\ "end" \in Pcs
      /\ UNCHANGED <<clock, session>> /\ artifact' \in BOOLEAN
  BY Zenon DEF Migrate, At, Pcs, RolloutInv
<1>2. cmd[s].authority \in Authorities /\ cmd[s].started \in 0..MaxClock
  BY Zenon, <1>1, AtCommand
<1>3. PICK status \in {"success", "failed"} :
        /\ Goto(s, "end", <<Wanted("migration_apply_completed", status, cmd[s].started)>>)
        /\ \/ world' = [world EXCEPT ![cmd[s].authority].schema = TRUE]
           \/ status = "failed" /\ UNCHANGED world
  BY Zenon DEF Migrate, LostOrLate
<1>4. /\ world' \in World /\ Grows(world, world') /\ DeployedOnVerifiedSchema'
      /\ status = "success" => world'[cmd[s].authority].schema
  BY Zenon, <1>2, <1>3, SetSchema, Lost
<1>5. ResultsOk(<<Wanted("migration_apply_completed", status, cmd[s].started)>>,
                world'[cmd[s].authority])
  BY Zenon, <1>2, <1>4, Operating, OneResult DEF Claimed, Statuses
<1> QED
  BY Zenon, <1>1, <1>3, <1>4, <1>5, WorkGoto

LEMMA VerifyStep ==
  ASSUME RolloutInv, NEW s \in Shells, VerifySchema(s)
  PROVE  RolloutInv'
<1>1. /\ cmd[s].kind # "none" /\ cmd[s].todo = <<>> /\ "end" \in Pcs
      /\ UNCHANGED <<clock, session, world>> /\ artifact' \in BOOLEAN
  BY Zenon DEF VerifySchema, At, Pcs, RolloutInv
<1>2. PICK status \in {"success", "failed"} :
        /\ status = "success" => world[cmd[s].authority].schema
        /\ Goto(s, "end", <<Wanted("remote_schema_verified", status, cmd[s].started)>>)
  BY Zenon DEF VerifySchema
<1>3. ResultsOk(<<Wanted("remote_schema_verified", status, cmd[s].started)>>,
                world[cmd[s].authority])
  BY Zenon, <1>2, AtCommand, Operating, OneResult DEF Claimed, Statuses
<1> QED
  BY Zenon, <1>1, <1>2, <1>3, QuietGoto

LEMMA BootstrapStep ==
  ASSUME RolloutInv, NEW s \in Shells, Bootstrap(s)
  PROVE  RolloutInv'
<1>1. /\ cmd[s].kind # "none" /\ cmd[s].todo = <<>> /\ "end" \in Pcs /\ "counts" \in Pcs
      /\ UNCHANGED <<clock, session>>
  BY Zenon DEF Bootstrap, At, Pcs
<1>2. cmd[s].authority \in Authorities /\ cmd[s].started \in 0..MaxClock
  BY Zenon, <1>1, AtCommand
<1>3. CASE /\ world' = [world EXCEPT ![cmd[s].authority].rows = TRUE]
           /\ cmd' = [cmd EXCEPT ![s].pc = "counts", ![s].counts = clock]
           /\ UNCHANGED artifact
  <2>1. /\ world' \in World /\ Grows(world, world') /\ DeployedOnVerifiedSchema'
        /\ world'[cmd[s].authority].rows
    BY Zenon, <1>2, <1>3, SetRows
  <2>2. PICK c \in Command : c = cmd[s] /\ CommandOk(c, session, world)
    BY Zenon, AtCommand
  <2>3. PICK v : v = [c EXCEPT !.pc = "counts", !.counts = clock]
    BY Zenon
  <2>4. /\ v \in Command /\ v.pc = "counts" /\ v.todo = c.todo /\ v.kind = c.kind
        /\ v.authority = c.authority /\ v.open = c.open
    BY ZenonT(30), <1>1, <2>3 DEF Command, RolloutInv
  <2>5. ~c.open /\ c.authority \in Authorities /\ c.kind # "none" /\ c.todo = <<>>
    BY Zenon, <1>1, <2>2 DEF CommandOk
  <2>6. CommandOk(v, session, world')
    BY <2>1, <2>2, <2>4, <2>5 DEF CommandOk
  <2>7. cmd' = [cmd EXCEPT ![s] = v]
    BY Zenon, <1>3, <2>2, <2>3 DEF RolloutInv
  <2>8. artifact' \in BOOLEAN
    BY Zenon, <1>3 DEF RolloutInv
  <2> QED
    BY Zenon, <1>1, <2>1, <2>4, <2>6, <2>7, <2>8, WorkStep
<1>4. CASE /\ Goto(s, "end", <<Wanted("bootstrap_apply_completed", "failed", cmd[s].started)>>)
           /\ UNCHANGED world \/ world' = [world EXCEPT ![cmd[s].authority].rows = TRUE]
           /\ artifact' = FALSE
  <2>1. world' \in World /\ Grows(world, world') /\ DeployedOnVerifiedSchema'
    BY Zenon, <1>2, <1>4, SetRows, Lost
  <2>2. ResultsOk(<<Wanted("bootstrap_apply_completed", "failed", cmd[s].started)>>,
                  world'[cmd[s].authority])
    BY ZenonT(30), <1>2, Operating, OneResult DEF Statuses
  <2> QED
    BY ZenonT(30), <1>1, <1>4, <2>1, <2>2, WorkGoto
<1> QED
  BY ZenonT(30), <1>3, <1>4 DEF Bootstrap, LostOrLate

LEMMA CountsStep ==
  ASSUME RolloutInv, NEW s \in Shells, Counts(s)
  PROVE  RolloutInv'
<1>1. /\ cmd[s].kind # "none" /\ cmd[s].todo = <<>> /\ "end" \in Pcs /\ cmd[s].pc = "counts"
      /\ UNCHANGED <<clock, session, world>> /\ artifact' \in BOOLEAN
  BY Zenon DEF Counts, At, Pcs
<1>2. /\ cmd[s].started \in 0..MaxClock /\ cmd[s].counts \in 0..MaxClock
      /\ world[cmd[s].authority].rows
  BY Zenon, <1>1, AtCommand DEF CommandOk
<1>3. /\ Claimed("bootstrap_apply_completed", world[cmd[s].authority])
      /\ Claimed("bootstrap_counts_verified", world[cmd[s].authority])
  BY Zenon, <1>2 DEF Claimed
<1>4. PICK first : first = Wanted("bootstrap_apply_completed", "success", cmd[s].started)
  BY Zenon
<1>5. CASE Goto(s, "end", <<first>>)
  <2>1. ResultsOk(<<first>>, world[cmd[s].authority])
    BY ZenonT(30), <1>2, <1>3, <1>4, Operating, OneResult DEF Statuses
  <2> QED
    BY Zenon, <1>1, <1>5, <2>1, QuietGoto
<1>6. ASSUME NEW status \in {"success", "failed"},
             Goto(s, "end", <<first, Wanted("bootstrap_counts_verified", status, cmd[s].counts)>>)
      PROVE  RolloutInv'
  <2>1. PICK second : second = Wanted("bootstrap_counts_verified", status, cmd[s].counts)
    BY Zenon
  <2>2. Goto(s, "end", <<first, second>>)
    BY Zenon, <1>6, <2>1
  <2>3. /\ first \in Result /\ first.operation = "bootstrap_apply_completed"
        /\ second \in Result /\ second.operation = "bootstrap_counts_verified"
    BY Zenon, <1>2, <1>4, <2>1, Operating DEF Wanted, Result, Statuses
  <2>4. ResultsOk(<<first, second>>, world[cmd[s].authority])
    BY Zenon, <1>3, <2>3, TwoResults
  <2> QED
    BY Zenon, <1>1, <2>2, <2>4, QuietGoto
<1>7. \/ Goto(s, "end", <<first>>)
      \/ \E status \in {"success", "failed"} :
           Goto(s, "end", <<first, Wanted("bootstrap_counts_verified", status, cmd[s].counts)>>)
  BY Zenon, <1>4 DEF Counts
<1> QED
  BY Zenon, <1>5, <1>6, <1>7

LEMMA PreflightResult ==
  ASSUME NEW w, NEW status \in {"success", "failed"}, NEW artifacts \in BOOLEAN,
         NEW started \in 0..MaxClock
  PROVE  /\ PreflightReceipt(status, artifacts, started) \in Result
         /\ Claimed(PreflightReceipt(status, artifacts, started).operation, w)
         /\ ResultsOk(<<PreflightReceipt(status, artifacts, started)>>, w)
<1>1. PICK st \in Statuses :
        st = IF status = "success" /\ ~artifacts THEN "blocked" ELSE status
  BY Zenon DEF Statuses
<1>2. PreflightReceipt(status, artifacts, started)
        = Wanted("worker_preflight_completed", st, started)
  BY Zenon, <1>1 DEF PreflightReceipt
<1>3. Claimed("worker_preflight_completed", w)
  BY Zenon DEF Claimed
<1>4. /\ Wanted("worker_preflight_completed", st, started) \in Result
      /\ Wanted("worker_preflight_completed", st, started).operation = "worker_preflight_completed"
  BY Zenon, Operating DEF Wanted, Result
<1> QED
  BY Zenon, <1>2, <1>3, <1>4, Operating, OneResult

LEMMA PreflightStep ==
  ASSUME RolloutInv, NEW s \in Shells, Preflight(s)
  PROVE  RolloutInv'
<1>1. /\ cmd[s].kind # "none" /\ cmd[s].todo = <<>> /\ "end" \in Pcs
      /\ UNCHANGED <<clock, session, world>> /\ artifact' \in BOOLEAN
  BY Zenon DEF Preflight, At, Pcs, RolloutInv
<1>2. PICK status \in {"success", "failed"}, artifacts \in BOOLEAN :
        Goto(s, "end", <<PreflightReceipt(status, artifacts, cmd[s].started)>>)
  BY Zenon DEF Preflight
<1>3. ResultsOk(<<PreflightReceipt(status, artifacts, cmd[s].started)>>,
                world[cmd[s].authority])
  BY Zenon, AtCommand, PreflightResult
<1> QED
  BY Zenon, <1>1, <1>2, <1>3, QuietGoto

LEMMA DeployResult ==
  ASSUME RolloutInv, NEW s \in Shells, NEW status \in {"success", "failed"}, NEW w,
         status = "success" => w.schema /\ w.deployed
  PROVE  /\ ResultsOk(DeployReceipt(s, status), w)
         /\ \/ DeployReceipt(s, status) = <<>>
            \/ \E x \in Result : DeployReceipt(s, status) = <<x>> /\ x.status = status
<1>1. PICK x : x = Wanted("worker_deploy_completed", status, cmd[s].started)
  BY Zenon
<1>2. x \in Result /\ x.status = status
  BY Zenon, <1>1, AtCommand, Operating DEF Wanted, Result, Statuses
<1>3. ResultsOk(<<x>>, w)
  BY Zenon, <1>1, AtCommand, Operating, OneResult DEF Claimed, Statuses
<1> QED
  BY Zenon, <1>1, <1>2, <1>3, NoResult DEF DeployReceipt

LEMMA Pair ==
  ASSUME NEW V, NEW x \in V, NEW y \in V
  PROVE  <<x>> \o <<y>> = <<x, y>>
<1>1. PICK a : a = <<x>>
  BY Zenon
<1>2. PICK b : b = <<y>>
  BY Zenon
<1>3. a \in Seq(V) /\ Len(a) = 1 /\ a[1] = x
  BY <1>1
<1>4. b \in Seq(V) /\ Len(b) = 1 /\ b[1] = y
  BY <1>2
<1>5. PICK c : c = a \o b
  BY Zenon
<1>6. /\ c \in Seq(V) /\ Len(c) = Len(a) + Len(b)
      /\ \A i \in 1..Len(a) + Len(b) : c[i] = IF i <= Len(a) THEN a[i] ELSE b[i - Len(a)]
  BY Zenon, <1>3, <1>4, <1>5, ConcatProperties
<1>7. Len(c) = 2 /\ c[1] = x /\ c[2] = y
  BY <1>3, <1>4, <1>6
<1>8. PICK d : d = <<x, y>>
  BY Zenon
<1>9. d \in Seq(V) /\ Len(d) = 2 /\ d[1] = x /\ d[2] = y
  BY <1>8
<1>10. c = d
  BY <1>6, <1>7, <1>9
<1> QED
  BY Zenon, <1>1, <1>2, <1>5, <1>10, <1>8

LEMMA DeployOfflineStep ==
  ASSUME RolloutInv, NEW s \in Shells, DeployOffline(s)
  PROVE  RolloutInv'
<1>1. /\ cmd[s].kind # "none" /\ cmd[s].todo = <<>> /\ {"end", "build", "schema"} \subseteq Pcs
      /\ UNCHANGED <<clock, session, world>> /\ artifact' \in BOOLEAN
  BY Zenon DEF DeployOffline, At, Pcs, RolloutInv
<1>2. PICK status, second, inner :
        /\ status \in {"success", "failed"} /\ second \in BOOLEAN
        /\ inner = PreflightReceipt(status, second, clock)
        /\ \/ status = "failed" /\ Goto(s, "end", <<inner>> \o DeployReceipt(s, "failed"))
           \/ \E pc \in {"end", "build", "schema"} : Goto(s, pc, <<inner>>)
  BY ZenonT(30) DEF DeployOffline
<1>3. /\ inner \in Result /\ ResultsOk(<<inner>>, world[cmd[s].authority])
      /\ Claimed(inner.operation, world[cmd[s].authority])
  BY Zenon, <1>2, PreflightResult DEF RolloutInv
<1>4. ResultsOk(<<inner>> \o DeployReceipt(s, "failed"), world[cmd[s].authority])
  <2>1. CASE DeployReceipt(s, "failed") = <<>>
    <3>1. <<inner>> \o <<>> = <<inner>>
      BY <1>3
    <3> QED
      BY Zenon, <1>3, <2>1, <3>1
  <2>2. CASE \E x \in Result : DeployReceipt(s, "failed") = <<x>> /\ x.status = "failed"
    <3>1. PICK x \in Result : DeployReceipt(s, "failed") = <<x>> /\ x.status = "failed"
      BY Zenon, <2>2
    <3>2. <<inner>> \o <<x>> = <<inner, x>>
      BY Zenon, <1>3, <3>1, Pair
    <3>3. ResultsOk(<<inner, x>>, world[cmd[s].authority])
      BY Zenon, <1>3, <3>1, TwoResults
    <3> QED
      BY ZenonT(30), <3>1, <3>2, <3>3
  <2> QED
    BY Zenon, <2>1, <2>2, DeployResult
<1> QED
  BY Zenon, <1>1, <1>2, <1>3, <1>4, QuietGoto

LEMMA BuildStep ==
  ASSUME RolloutInv, NEW s \in Shells, Build(s)
  PROVE  RolloutInv'
<1>1. /\ cmd[s].kind # "none" /\ cmd[s].todo = <<>> /\ {"end", "artifacts"} \subseteq Pcs
      /\ UNCHANGED <<clock, session, world>> /\ artifact' \in BOOLEAN
  BY Zenon DEF Build, At, Pcs, RolloutInv
<1>2. /\ ResultsOk(<<>>, world[cmd[s].authority])
      /\ ResultsOk(DeployReceipt(s, "failed"), world[cmd[s].authority])
  BY Zenon, NoResult, DeployResult
<1>3. Goto(s, "artifacts", <<>>) \/ Goto(s, "end", DeployReceipt(s, "failed"))
  BY Zenon DEF Build
<1> QED
  BY Zenon, <1>1, <1>2, <1>3, QuietGoto

LEMMA DeploySchemaStep ==
  ASSUME RolloutInv, NEW s \in Shells, DeploySchema(s)
  PROVE  RolloutInv'
<1>1. /\ cmd[s].kind # "none" /\ cmd[s].todo = <<>> /\ {"end", "upload"} \subseteq Pcs
      /\ UNCHANGED <<clock, session, world>> /\ artifact' \in BOOLEAN
  BY Zenon DEF DeploySchema, At, Pcs, RolloutInv
<1>2. /\ ResultsOk(<<>>, world[cmd[s].authority])
      /\ ResultsOk(DeployReceipt(s, "failed"), world[cmd[s].authority])
  BY Zenon, NoResult, DeployResult
<1>3. \/ world[cmd[s].authority].schema /\ Goto(s, "upload", <<>>)
      \/ Goto(s, "end", DeployReceipt(s, "failed"))
  BY Zenon DEF DeploySchema
<1> QED
  BY Zenon, <1>1, <1>2, <1>3, QuietGoto

LEMMA UploadStep ==
  ASSUME RolloutInv, NEW s \in Shells, Upload(s)
  PROVE  RolloutInv'
<1>1. /\ cmd[s].kind # "none" /\ cmd[s].todo = <<>> /\ cmd[s].pc = "upload" /\ "end" \in Pcs
      /\ UNCHANGED <<clock, session>> /\ artifact' \in BOOLEAN
  BY Zenon DEF Upload, At, Pcs, RolloutInv
<1>2. cmd[s].authority \in Authorities /\ world[cmd[s].authority].schema
  BY Zenon, <1>1, AtCommand DEF CommandOk
<1>3. PICK status \in {"success", "failed"} :
        /\ Goto(s, "end", DeployReceipt(s, status))
        /\ \/ world' = [world EXCEPT ![cmd[s].authority].deployed = TRUE]
           \/ status = "failed" /\ UNCHANGED world
  BY Zenon DEF Upload, LostOrLate
<1>4. /\ world' \in World /\ Grows(world, world') /\ DeployedOnVerifiedSchema'
      /\ status = "success" =>
           world'[cmd[s].authority].schema /\ world'[cmd[s].authority].deployed
  BY Zenon, <1>2, <1>3, SetDeployed, Lost
<1>5. ResultsOk(DeployReceipt(s, status), world'[cmd[s].authority])
  BY Zenon, <1>4, DeployResult
<1> QED
  BY Zenon, <1>1, <1>3, <1>4, <1>5, WorkGoto

----------------------------------------------------------------------------
\* The first result is dealt with.
LEMMA TailOk ==
  ASSUME NEW c \in Command, NEW ses, NEW w, CommandOk(c, ses, w), c.todo # <<>>,
         NEW d, d.todo = Tail(c.todo), ~d.open, d.kind = c.kind, d.pc = c.pc,
         d.authority = c.authority
  PROVE  CommandOk(d, ses, w) /\ Tail(c.todo) \in Seq(Result)
<1>1. PICK todo \in Seq(Result) : todo = c.todo /\ todo # <<>>
  BY Zenon DEF Command
<1>2. /\ Tail(todo) \in Seq(Result) /\ Len(Tail(todo)) = Len(todo) - 1 /\ Len(todo) \in Nat
      /\ \A i \in 1..Len(Tail(todo)) : Tail(todo)[i] = todo[i + 1] /\ i + 1 \in 1..Len(todo)
  BY <1>1
<1>3. c.kind # "none" /\ c.authority \in Authorities /\ Len(todo) <= 2
  BY Zenon, <1>1 DEF CommandOk
<1>4. \A i \in 1..Len(d.todo) :
        d.todo[i].status = "success" => Claimed(d.todo[i].operation, w[d.authority])
  BY <1>1, <1>2 DEF CommandOk
<1>5. Len(d.todo) <= 2
  BY <1>1, <1>2, <1>3
<1> QED
  BY Zenon, <1>1, <1>2, <1>3, <1>4, <1>5 DEF CommandOk

LEMMA EmitFailsStep ==
  ASSUME RolloutInv, NEW s \in Shells, EmitFails(s)
  PROVE  RolloutInv'
<1>1. PICK c \in Command : c = cmd[s] /\ CommandOk(c, session, world)
  BY Zenon, AtCommand
<1>2. c.todo # <<>> /\ UNCHANGED <<clock, session, world>> /\ artifact' \in BOOLEAN
  BY Zenon, <1>1 DEF EmitFails, RolloutInv
<1>3. PICK v : v = [c EXCEPT !.todo = Tail(c.todo), !.open = FALSE, !.seen = <<>>]
  BY Zenon
<1>4. /\ v.todo = Tail(c.todo) /\ ~v.open /\ v.kind = c.kind /\ v.pc = c.pc
      /\ v.authority = c.authority
  BY Zenon, <1>3 DEF Command
<1>5. CommandOk(v, session, world) /\ Tail(c.todo) \in Seq(Result)
  BY Zenon, <1>1, <1>2, <1>4, TailOk
<1>6. v \in Command
  <2>1. <<>> \in Seq(Receipt)
    OBVIOUS
  <2> QED
    BY Zenon, <1>3, <1>5, <2>1 DEF Command
<1>7. cmd' = [cmd EXCEPT ![s] = v]
  BY Zenon, <1>1, <1>3 DEF EmitFails, RolloutInv
<1> QED
  BY Zenon, <1>2, <1>5, <1>6, <1>7, QuietStep

\* A session with receipts is bound to their authority.
LEMMA BoundOk ==
  ASSUME RolloutInv, session.receipts # <<>>
  PROVE  session.bound \in Authorities /\ session.bound # NoAuthority
<1>1. PICK rs \in Seq(Receipt) : rs = session.receipts /\ rs # <<>>
  BY Zenon DEF RolloutInv, SessionOk
<1>2. 1 \in DOMAIN rs /\ rs[1] \in Receipt
  BY <1>1
<1>3. rs[1].authority = session.bound
  BY Zenon, <1>1, <1>2 DEF RolloutInv, SessionOk, Packable, Recordable
<1> QED
  BY Zenon, <1>2, <1>3, RolloutAssumption DEF Receipt

LEMMA OpenStep ==
  ASSUME RolloutInv, NEW s \in Shells, Open(s)
  PROVE  RolloutInv'
<1>1. PICK c \in Command : c = cmd[s] /\ CommandOk(c, session, world)
  BY Zenon, AtCommand
<1>2. /\ c.todo # <<>> /\ ~c.open /\ UNCHANGED <<clock, world>> /\ artifact' \in BOOLEAN
      /\ clock' \in 0..MaxClock
  BY Zenon, <1>1 DEF Open, RolloutInv
<1>3. c.authority \in Authorities
  BY Zenon, <1>1, <1>2 DEF CommandOk
<1>4. PICK passed : passed = [c EXCEPT !.todo = Tail(c.todo)]
  BY Zenon
<1>5. /\ passed.todo = Tail(c.todo) /\ ~passed.open /\ passed.kind = c.kind /\ passed.pc = c.pc
      /\ passed.authority = c.authority
  BY Zenon, <1>2, <1>4 DEF Command
<1>6. \A ses : CommandOk(c, ses, world) => CommandOk(passed, ses, world)
  BY Zenon, <1>2, <1>5, TailOk
<1>7. passed \in Command
  BY Zenon, <1>1, <1>2, <1>4, <1>5, TailOk DEF Command
<1>8. CASE ~Binds(c.authority)
  <2>1. cmd' = [cmd EXCEPT ![s] = passed] /\ UNCHANGED session
    BY Zenon, <1>1, <1>4, <1>8 DEF Open, RolloutInv
  <2> QED
    BY ZenonT(30), <1>1, <1>2, <1>6, <1>7, <2>1, QuietStep
<1>9. CASE Binds(c.authority)
  <2>1. session' = [session EXCEPT !.bound = c.authority]
    BY Zenon, <1>1, <1>9 DEF Open
  <2>2. session \in Session
    BY Zenon DEF RolloutInv, SessionOk, Session
  <2>3. /\ session' \in Session /\ session'.receipts = session.receipts
        /\ session'.bound = c.authority
    BY Zenon, <1>3, <2>1, <2>2 DEF Session
  <2>4. session.bound # NoAuthority => session.bound = c.authority
    BY Zenon, <1>9 DEF Binds
  <2>5. SessionGrows(session, session')
    BY <2>2, <2>3, <2>4 DEF SessionGrows, Session
  <2>6. SessionOk(session', world')
    <3>1. session'.receipts # <<>> => Packable(session'.receipts, session'.bound)
      BY Zenon, <2>3, <2>4, BoundOk DEF RolloutInv, SessionOk
    <3> QED
      BY Zenon, <1>2, <2>3, <3>1 DEF RolloutInv, SessionOk, Session
  <2>7. Grows(world, world') /\ world' \in World /\ DeployedOnVerifiedSchema'
    BY Zenon, <1>2, Lost
  <2>8. CommandOk(c, session', world')
    BY Zenon, <1>1, <2>2, <2>3, <2>5, <2>7, CommandStays DEF RolloutInv
  <2>9. CASE Head(c.todo).status = "blocked"
    <3>1. cmd' = [cmd EXCEPT ![s] = passed]
      BY Zenon, <1>1, <1>4, <1>9, <2>9 DEF Open, RolloutInv
    <3>2. CommandOk(passed, session', world')
      BY Zenon, <1>2, <1>6, <2>8
    <3> QED
      BY ZenonT(30), <1>2, <1>7, <2>5, <2>6, <2>7, <3>1, <3>2, CmdStep
  <2>10. CASE Head(c.todo).status # "blocked"
    <3>1. PICK v : v = [c EXCEPT !.open = TRUE, !.seen = session.receipts]
      BY Zenon
    <3>2. /\ v \in Command /\ v.open /\ v.seen = session.receipts /\ v.todo = c.todo
          /\ v.kind = c.kind /\ v.pc = c.pc /\ v.authority = c.authority
      BY ZenonT(30), <2>2, <3>1 DEF Command, Session
    <3>3. CommandOk(v, session', world')
      <4>1. PICK rs \in Seq(Receipt) : rs = session.receipts
        BY Zenon, <2>2 DEF Session
      <4>2. Len(rs) <= Len(rs) /\ \A i \in 1..Len(rs) : rs[i] = rs[i]
        OBVIOUS
      <4> QED
        BY Zenon, <1>2, <2>3, <2>8, <2>10, <3>2, <4>1, <4>2 DEF CommandOk
    <3>4. cmd' = [cmd EXCEPT ![s] = v]
      BY ZenonT(30), <1>1, <1>9, <2>10, <3>1 DEF Open, RolloutInv
    <3> QED
      BY Zenon, <1>2, <2>5, <2>6, <2>7, <3>2, <3>3, <3>4, CmdStep
  <2> QED
    BY Zenon, <2>9, <2>10
<1> QED
  BY Zenon, <1>8, <1>9

----------------------------------------------------------------------------
\* The receipts before a receipt do not change when another is appended.
LEMMA AppendedBefore ==
  ASSUME NEW rs \in Seq(Receipt), NEW d \in Receipt
  PROVE  /\ Append(rs, d) \in Seq(Receipt) /\ Len(Append(rs, d)) = Len(rs) + 1
         /\ \A i \in 1..Len(rs) : Append(rs, d)[i] = rs[i]
         /\ Append(rs, d)[Len(rs) + 1] = d
         /\ \A i \in 1..Len(rs) : SubSeq(Append(rs, d), 1, i - 1) = SubSeq(rs, 1, i - 1)
         /\ SubSeq(Append(rs, d), 1, Len(rs)) = rs
<1>1. PICK all : all = Append(rs, d)
  BY Zenon
<1>2. /\ all \in Seq(Receipt) /\ Len(all) = Len(rs) + 1 /\ Len(rs) \in Nat /\ all[Len(rs) + 1] = d
      /\ \A i \in 1..Len(rs) : all[i] = rs[i]
  BY <1>1
<1>3. ASSUME NEW i \in 1..Len(rs) + 1
      PROVE  SubSeq(all, 1, i - 1) = SubSeq(rs, 1, i - 1)
  <2>1. i - 1 \in Nat /\ i - 1 <= Len(rs) /\ i - 1 <= Len(all)
    BY <1>2
  <2>2. PICK x : x = SubSeq(all, 1, i - 1)
    BY Zenon
  <2>3. PICK y : y = SubSeq(rs, 1, i - 1)
    BY Zenon
  <2>4. x \in Seq(Receipt) /\ Len(x) = i - 1 /\ \A j \in 1..i - 1 : x[j] = all[j]
    BY <1>2, <2>1, <2>2, SubSeqProperties
  <2>5. y \in Seq(Receipt) /\ Len(y) = i - 1 /\ \A j \in 1..i - 1 : y[j] = rs[j]
    BY <2>1, <2>3, SubSeqProperties
  <2>6. \A j \in 1..i - 1 : x[j] = y[j]
    BY <1>2, <2>1, <2>4, <2>5
  <2>7. x = y
    BY <2>1, <2>4, <2>5, <2>6
  <2> QED
    BY Zenon, <2>2, <2>3, <2>7
<1>4. SubSeq(rs, 1, Len(rs)) = rs
  BY <1>2
<1>5. SubSeq(all, 1, Len(rs)) = rs
  BY <1>2, <1>3, <1>4
<1> QED
  BY <1>1, <1>2, <1>3, <1>5

\* A receipt the append rules allow after the receipts of a session makes a
\* longer chain of them.
LEMMA PackGrows ==
  ASSUME NEW rs \in Seq(Receipt), NEW d \in Receipt, NEW bound, rs # <<>> => Packable(rs, bound),
         Recordable(rs, bound, d)
  PROVE  Packable(Append(rs, d), bound)
<1>1. PICK all : all = Append(rs, d)
  BY Zenon
<1>2. /\ all \in Seq(Receipt) /\ Len(all) = Len(rs) + 1 /\ Len(rs) \in Nat /\ all[Len(rs) + 1] = d
      /\ \A i \in 1..Len(rs) : all[i] = rs[i] /\ SubSeq(all, 1, i - 1) = SubSeq(rs, 1, i - 1)
      /\ SubSeq(all, 1, Len(rs)) = rs
  BY <1>1, AppendedBefore
<1>3. DOMAIN all = 1..Len(rs) + 1 /\ DOMAIN rs = 1..Len(rs) /\ all # <<>>
  BY <1>2
<1>4. ASSUME NEW i \in DOMAIN all
      PROVE  Recordable(SubSeq(all, 1, i - 1), bound, all[i])
  <2>1. CASE i \in 1..Len(rs)
    <3>1. rs # <<>>
      BY <2>1
    <3> QED
      BY Zenon, <1>2, <1>3, <2>1, <3>1 DEF Packable
  <2>2. CASE i = Len(rs) + 1
    <3>1. i - 1 = Len(rs)
      BY <1>2, <2>2
    <3> QED
      BY Zenon, <1>2, <2>2, <3>1
  <2> QED
    BY <1>2, <1>3, <2>1, <2>2
<1>5. WellOrdered(all)
  BY Zenon, <1>4 DEF WellOrdered, Recordable, Verified
<1> QED
  BY Zenon, <1>1, <1>3, <1>4, <1>5 DEF Packable

\* What the command read is the whole session when their lengths agree.
LEMMA ReadWhole ==
  ASSUME NEW seen \in Seq(Receipt), NEW rs \in Seq(Receipt), Len(rs) = Len(seen),
         \A i \in 1..Len(seen) : seen[i] = rs[i]
  PROVE  seen = rs
OBVIOUS

LEMMA PersistStep ==
  ASSUME RolloutInv, NEW s \in Shells, Persist(s)
  PROVE  RolloutInv'
<1>1. PICK c \in Command : c = cmd[s] /\ CommandOk(c, session, world)
  BY Zenon, AtCommand
<1>2. /\ c.todo # <<>> /\ c.open /\ UNCHANGED <<clock, world>> /\ artifact' \in BOOLEAN
      /\ clock \in 0..MaxClock /\ clock' = clock
  BY Zenon, <1>1 DEF Persist, RolloutInv, CommandOk
<1>3. /\ c.authority \in Authorities /\ session.bound = c.authority
      /\ Head(c.todo).status # "blocked"
  BY Zenon, <1>1, <1>2 DEF CommandOk
<1>4. PICK v : v = [c EXCEPT !.todo = Tail(c.todo), !.open = FALSE, !.seen = <<>>]
  BY Zenon
<1>5. /\ v.todo = Tail(c.todo) /\ ~v.open /\ v.kind = c.kind /\ v.pc = c.pc
      /\ v.authority = c.authority
  BY Zenon, <1>4 DEF Command
<1>6. v \in Command
  <2>1. <<>> \in Seq(Receipt)
    OBVIOUS
  <2>2. Tail(c.todo) \in Seq(Result)
    BY Zenon, <1>1, <1>2, <1>5, TailOk
  <2> QED
    BY ZenonT(30), <1>4, <2>1, <2>2 DEF Command
<1>7. cmd' = [cmd EXCEPT ![s] = v]
  BY Zenon, <1>1, <1>4 DEF Persist, RolloutInv
<1>8. Grows(world, world') /\ world' \in World /\ DeployedOnVerifiedSchema'
  BY Zenon, <1>2, Lost
<1>9. CASE ~Persistable(s)
  <2>1. session' = session
    BY Zenon, <1>9 DEF Persist
  <2>2. CommandOk(v, session, world)
    BY Zenon, <1>1, <1>2, <1>5, TailOk
  <2> QED
    BY Zenon, <1>2, <1>6, <1>7, <2>1, <2>2, QuietStep
<1>10. CASE Persistable(s)
  <2>1. PICK todo \in Seq(Result) : todo = c.todo /\ todo # <<>>
    BY Zenon, <1>2 DEF Command
  <2>2. PICK want \in Result : want = todo[1] /\ want = Head(c.todo) /\ 1 \in 1..Len(todo)
    BY <2>1
  <2>3. PICK d : d = Draft(s)
    BY Zenon
  <2>4. d = [operation |-> want.operation, status |-> want.status, started |-> want.started,
             completed |-> clock, authority |-> c.authority]
    BY Zenon, <1>1, <2>2, <2>3 DEF Draft
  <2>5. d \in Receipt
    BY Zenon, <1>2, <1>3, <2>2, <2>4 DEF Receipt, Result
  <2>6. PICK rs \in Seq(Receipt) : rs = session.receipts
    BY Zenon DEF RolloutInv, SessionOk
  <2>7. c.seen = rs
    <3>1. Len(rs) = Len(c.seen) /\ c.seen \in Seq(Receipt)
      BY Zenon, <1>1, <1>10, <2>6 DEF Persistable, Command
    <3>2. \A i \in 1..Len(c.seen) : c.seen[i] = rs[i]
      BY Zenon, <1>1, <1>2, <2>6 DEF CommandOk
    <3> QED
      BY ZenonT(30), <3>1, <3>2, ReadWhole
  <2>8. Recordable(rs, session.bound, d)
    <3>1. Verified(rs, d) /\ Appendable(rs, session.created, d)
      BY Zenon, <1>1, <1>10, <2>3, <2>6, <2>7 DEF Persistable
    <3>2. d.authority = session.bound
      BY Zenon, <1>3, <2>4
    <3> QED
      BY Zenon, <3>1, <3>2 DEF Recordable, Appendable
  <2>9. PICK all : all = Append(rs, d)
    BY Zenon
  <2>10. Packable(all, session.bound)
    BY Zenon, <2>5, <2>6, <2>8, <2>9, PackGrows DEF RolloutInv, SessionOk
  <2>11. /\ all \in Seq(Receipt) /\ Len(all) = Len(rs) + 1 /\ Len(rs) \in Nat
         /\ all[Len(rs) + 1] = d /\ \A i \in 1..Len(rs) : all[i] = rs[i]
    BY <2>5, <2>9, AppendedBefore
  <2>12. session \in Session /\ session' = [session EXCEPT !.receipts = all]
    BY Zenon, <1>1, <1>10, <2>3, <2>6, <2>9 DEF Persist, RolloutInv, SessionOk, Session
  <2>13. session' \in Session /\ session'.receipts = all /\ session'.bound = session.bound
    BY Zenon, <2>11, <2>12 DEF Session
  <2>14. SessionGrows(session, session')
    BY <2>6, <2>11, <2>13 DEF SessionGrows
  <2>15. Evidenced(all, world)
    <3> SUFFICES ASSUME NEW i \in DOMAIN all, all[i].status = "success"
                 PROVE  Claimed(all[i].operation, world[all[i].authority])
      BY Zenon DEF Evidenced
    <3>1. i \in 1..Len(rs) \/ i = Len(rs) + 1
      BY <2>11
    <3>2. CASE i \in 1..Len(rs)
      BY SMTT(30), <2>6, <2>11, <3>2 DEF RolloutInv, SessionOk, Evidenced
    <3>3. CASE i = Len(rs) + 1
      <4>1. want.status = "success" /\ all[i].operation = want.operation
            /\ all[i].authority = c.authority
        BY <2>4, <2>11, <3>3
      <4> QED
        BY Zenon, <1>1, <2>1, <2>2, <4>1 DEF CommandOk
    <3> QED
      BY Zenon, <3>1, <3>2, <3>3
  <2>16. SessionOk(session', world')
    BY Zenon, <1>2, <2>10, <2>13, <2>15 DEF SessionOk, Session
  <2>17. CommandOk(v, session', world')
    <3>1. CommandOk(c, session', world')
      BY Zenon, <1>1, <1>8, <2>12, <2>13, <2>14, CommandStays DEF RolloutInv
    <3> QED
      BY Zenon, <1>2, <1>5, <3>1, TailOk
  <2> QED
    BY ZenonT(30), <1>2, <1>6, <1>7, <1>8, <2>14, <2>16, <2>17, CmdStep
<1> QED
  BY Zenon, <1>9, <1>10

----------------------------------------------------------------------------
LEMMA IdleOk ==
  Idle \in Command /\ \A ses, w : CommandOk(Idle, ses, w)
<1>1. <<>> \in Seq(Result) /\ <<>> \in Seq(Receipt) /\ 0 \in 0..MaxClock
  BY RolloutAssumption
<1>2. Idle \in Command
  BY Zenon, <1>1 DEF Idle, Command, Pcs
<1>3. /\ Idle.kind = "none" /\ Idle.pc = "idle" /\ Idle.todo = <<>> /\ Idle.open = FALSE
      /\ Len(Idle.todo) = 0
  BY Zenon DEF Idle
<1> QED
  BY <1>2, <1>3 DEF CommandOk

\* A command that ends or is killed leaves its shell idle.
LEMMA EndStep ==
  ASSUME RolloutInv, NEW s \in Shells, Exit(s) \/ Crash(s)
  PROVE  RolloutInv'
<1>1. /\ cmd' = [cmd EXCEPT ![s] = Idle] /\ UNCHANGED <<clock, session, world>>
      /\ artifact' \in BOOLEAN
  BY Zenon DEF Exit, Crash, RolloutInv
<1> QED
  BY Zenon, <1>1, IdleOk, QuietStep

LEMMA StartStep ==
  ASSUME RolloutInv, NEW s \in Shells, NEW kind \in Kinds, NEW a \in Authorities,
         NEW x \in BOOLEAN, Start(s, kind, a, x)
  PROVE  RolloutInv'
<1>1. PICK v : v = [Idle EXCEPT !.kind = kind, !.pc = "run", !.authority = a,
                                !.execute = x, !.started = clock]
  BY Zenon
<1>2. clock \in 0..MaxClock
  BY Zenon DEF RolloutInv
<1>3. v \in Command
  BY Zenon, <1>1, <1>2, IdleOk DEF Command, Pcs
<1>4. /\ v.kind = kind /\ v.pc = "run" /\ v.authority = a /\ v.todo = <<>> /\ v.open = FALSE
      /\ kind # "none" /\ Len(v.todo) = 0
  BY Zenon, <1>1 DEF Idle, Kinds
<1>5. CommandOk(v, session, world)
  BY <1>4 DEF CommandOk
<1>6. /\ cmd' = [cmd EXCEPT ![s] = v] /\ UNCHANGED <<clock, session, world>>
      /\ artifact' \in BOOLEAN
  BY Zenon, <1>1 DEF Start, RolloutInv
<1> QED
  BY Zenon, <1>3, <1>5, <1>6, QuietStep

\* No command moves.
LEMMA AsideStep ==
  ASSUME RolloutInv, Prepare \/ RefuseBootstrap \/ Tick \/ UNCHANGED vars
  PROVE  RolloutInv'
<1>1. UNCHANGED <<session, world, cmd>>
  BY Zenon DEF Prepare, RefuseBootstrap, Tick, vars
<1>2. artifact' \in BOOLEAN
  BY Zenon DEF Prepare, RefuseBootstrap, Tick, vars, RolloutInv
<1>3. clock' \in 0..MaxClock
  <2>1. clock \in 0..MaxClock /\ MaxClock \in Nat
    BY Zenon, RolloutAssumption DEF RolloutInv
  <2>2. clock' = clock \/ (clock < MaxClock /\ clock' = clock + 1)
    <3>1. CASE Prepare
      BY Zenon, <3>1 DEF Prepare
    <3>2. CASE RefuseBootstrap
      BY Zenon, <3>2 DEF RefuseBootstrap
    <3>3. CASE Tick
      BY Zenon, <3>3 DEF Tick
    <3>4. CASE UNCHANGED vars
      BY Zenon, <3>4 DEF vars
    <3> QED
      BY Zenon, <3>1, <3>2, <3>3, <3>4
  <2> QED
    BY <2>1, <2>2
<1> QED
  BY Zenon, <1>1, <1>2, <1>3 DEF RolloutInv, DeployedOnVerifiedSchema

LEMMA InitRollout ==
  Init => RolloutInv
<1> SUFFICES ASSUME Init PROVE RolloutInv
  BY Zenon
<1>1. clock \in 0..MaxClock /\ artifact \in BOOLEAN
  <2>1. clock = 0 /\ MaxClock \in Nat
    BY Zenon, RolloutAssumption DEF Init
  <2>2. clock \in 0..MaxClock
    BY <2>1
  <2>3. artifact \in BOOLEAN
    BY Zenon DEF Init
  <2> QED
    BY Zenon, <2>2, <2>3
<1>2. world \in World /\ DeployedOnVerifiedSchema
  BY Zenon, RolloutAssumption DEF Init, World, DeployedOnVerifiedSchema
<1>3. cmd \in [Shells -> Command] /\ \A s \in Shells : CommandOk(cmd[s], session, world)
  BY Zenon, IdleOk DEF Init
<1>4. SessionOk(session, world)
  <2>1. PICK rs : rs = session.receipts
    BY Zenon
  <2>2. rs = <<>> /\ rs \in Seq(Receipt) /\ DOMAIN rs = {}
    BY <2>1 DEF Init
  <2>3. session \in Session
    BY Zenon, <2>1, <2>2 DEF Init, Session
  <2> QED
    BY Zenon, <2>1, <2>2, <2>3 DEF SessionOk, Evidenced, Session
<1> QED
  BY Zenon, <1>1, <1>2, <1>3, <1>4 DEF RolloutInv

LEMMA NextRollout ==
  RolloutInv /\ [Next]_vars => RolloutInv'
<1> SUFFICES ASSUME RolloutInv, [Next]_vars PROVE RolloutInv'
  BY Zenon
<1>1. ASSUME NEW s \in Shells, Step(s)
      PROVE  RolloutInv'
  BY Zenon, <1>1, CheckStep, MigrateStep, VerifyStep, BootstrapStep, CountsStep, PreflightStep,
     DeployOfflineStep, BuildStep, DeploySchemaStep, UploadStep, OpenStep, PersistStep,
     EmitFailsStep, EndStep DEF Step
<1>2. ASSUME NEW s \in Shells, Crash(s)
      PROVE  RolloutInv'
  BY Zenon, <1>2, EndStep
<1>3. ASSUME NEW s \in Shells, NEW kind \in Kinds \ {"prepare"}, NEW a \in Authorities,
             NEW x \in BOOLEAN, Start(s, kind, a, x)
      PROVE  RolloutInv'
  BY Zenon, <1>3, StartStep
<1> QED
  BY Zenon, <1>1, <1>2, <1>3, AsideStep DEF Next

\* A pack with all seven successes names one authority, and each success is true
\* of its databases.
LEMMA PackIsRollout ==
  ASSUME RolloutInv
  PROVE  AcceptedPackIsARollout
<1> SUFFICES ASSUME PackAccepted(session.receipts, session.bound)
             PROVE  world[session.bound] = [schema |-> TRUE, rows |-> TRUE, deployed |-> TRUE]
  BY Zenon DEF AcceptedPackIsARollout
<1>1. PICK rs \in Seq(Receipt) : rs = session.receipts
  BY Zenon DEF RolloutInv, SessionOk
<1>2. PICK bound : bound = session.bound
  BY Zenon
<1>3. Packable(rs, bound) /\ Operation \subseteq Succeeded(rs) /\ rs # <<>>
  BY Zenon, <1>1, <1>2 DEF PackAccepted, Packable
<1>4. \A i \in DOMAIN rs : rs[i].authority = bound
  BY Zenon, <1>3 DEF Packable, Recordable
<1>5. ASSUME NEW op \in Operation
      PROVE  Claimed(op, world[bound])
  <2>1. PICK i \in DOMAIN rs : rs[i].status = "success" /\ rs[i].operation = op
    BY Zenon, <1>3 DEF Succeeded
  <2> QED
    BY Zenon, <1>1, <1>4, <2>1 DEF RolloutInv, SessionOk, Evidenced
<1>6. {"bootstrap_apply_completed", "worker_deploy_completed"} \subseteq Operation
  BY Zenon, Operating
<1>7. bound \in Authorities
  BY Zenon, <1>1, <1>2, <1>3, BoundOk
<1>8. PICK w \in Databases : w = world[bound]
  BY Zenon, <1>7 DEF RolloutInv, World, Databases
<1>9. w.schema /\ w.rows /\ w.deployed
  BY Zenon, <1>5, <1>6, <1>8 DEF Claimed
<1>10. w = [schema |-> TRUE, rows |-> TRUE, deployed |-> TRUE]
  BY Zenon, <1>9 DEF Databases
<1> QED
  BY Zenon, <1>2, <1>8, <1>10

LEMMA RolloutTypes ==
  ASSUME RolloutInv
  PROVE  TypeOK
<1>1. PICK rs \in Seq(Receipt) : rs = session.receipts
  BY Zenon DEF RolloutInv, SessionOk
<1>2. \A i \in DOMAIN rs : rs[i] \in Receipt
  OBVIOUS
<1>3. ASSUME NEW s \in Shells
      PROVE  /\ cmd[s].kind \in Kinds \cup {"none"}
             /\ Len(cmd[s].todo) <= 2
             /\ cmd[s].open => cmd[s].todo # <<>>
  BY Zenon, AtCommand DEF CommandOk, Command
<1>4. session.bound \in Authorities \cup {NoAuthority}
  BY Zenon DEF RolloutInv, SessionOk
<1> QED
  BY Zenon, <1>1, <1>2, <1>3, <1>4 DEF TypeOK, RolloutInv, Receipt, World

\* The evidence of a rollout can be relied on, whatever the commands, their
\* number, their interleaving, and whichever of their remote calls and file
\* accesses fail or are cut off: every successful receipt the commands signed is
\* true of the authority it names, the receipts of a session always make a pack,
\* a pack verifyEvidencePackAtPath accepts is of a finished rollout, and no
\* Worker is deployed on databases whose schema was not there.
THEOREM EvidenceSound == Spec => []EvidenceIsSound
<1>1. RolloutInv => EvidenceIsSound
  BY Zenon, PackIsRollout, RolloutTypes
     DEF EvidenceIsSound, RolloutInv, SessionOk, ReceiptsAreTrue, SessionAlwaysPackable
<1> QED
  BY <1>1, InitRollout, NextRollout, PTL DEF Spec
=============================================================================
