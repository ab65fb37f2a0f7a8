----------------------------- MODULE SmokeRunner -----------------------------
(***************************************************************************)
(* The hermetic smoke run (scripts/lib/localJwtSmokeRunner.mjs): a run that *)
(* owns a temporary root, builds and starts a Worker through a sequence of *)
(* detached child processes, probes it, and always ends with a bounded     *)
(* cleanup.  The run and its signal handler share one event loop: an action *)
(* is what runs between two awaits, so the continuation of an await and    *)
(* the launch of the next operation are one step, and a signal falls only  *)
(* between steps.  Children live on their own: they exit, hang, or are     *)
(* killed, and they go on when the run is over.                            *)
(***************************************************************************)
EXTENDS Naturals, Sequences, FiniteSets, TLAPS

CONSTANTS MaxAttempts,  \* the attempts of startWorker
          Scenes        \* what may happen around the run: [signals, tampers, moves]

ASSUME AttemptsAssumption == MaxAttempts \in Nat \ {0}

VARIABLES scene,    \* the budgets left of what the environment may still do
          main,     \* the run: [at, phase, attempt]
          kids,     \* the child registry: state of every child, by [name, attempt]
          alive,    \* the children whose process exists
          killed,   \* the children that were sent SIGKILL
          root,     \* the temporary root: none, ours, foreign (no marker of ours), gone
          repo,     \* what of the repository the run compares: [head, status]
          aborting, \* a first signal was handled
          port,     \* the run knows its Worker's port
          proof,    \* what the probes established
          cl,       \* the cleanup: [pc, escalated, expired, signal, port, stopped, late, removed]
          result    \* the printed status and the exit code

smokeVars == <<scene, main, kids, alive, killed, root, repo, aborting, port, proof, cl, result>>

(***************************************************************************)
(* The operations of a run, in order.  A "child" is awaited to its exit, a *)
(* "worker" to its readiness; "checked" says that the run looks at aborting *)
(* once the operation is over.                                             *)
(***************************************************************************)
Operation(name, kind, checked) == [name |-> name, kind |-> kind, checked |-> checked]

Steps == <<Operation("mkdir", "await", FALSE),
           Operation("git-archive", "child", FALSE),
           Operation("tar-extract", "child", FALSE),
           Operation("rm-tar", "await", FALSE),
           Operation("node-modules-copy", "child", FALSE),
           Operation("opennext-build", "child", TRUE),
           Operation("config", "await", FALSE),
           Operation("d1:bootstrap", "child", FALSE),
           Operation("d1:verify", "child", TRUE),
           Operation("jwt", "await", FALSE),
           Operation("d1:align", "child", TRUE),
           Operation("wrangler-dev", "worker", TRUE),
           Operation("http", "http", FALSE)>>

Kids == {<<Steps[i].name, 1>> : i \in {j \in DOMAIN Steps : Steps[j].kind = "child"}}
        \cup {<<"wrangler-dev", a>> : a \in 1..MaxAttempts}

Kid == <<Steps[main.at].name, main.attempt>>

Unexited == {"running", "terminating"}

\* createChildRegistry().live: asked to stop is not yet exited.
live == {k \in Kids : kids[k] \in Unexited}

(***************************************************************************)
(* Cleanup.  performCleanup runs up to its first await in the step that    *)
(* starts it: the live children are asked to stop, and the port the run    *)
(* knows at that moment is the one whose release is verified.              *)
(***************************************************************************)
NoCleanup == [pc |-> "idle", escalated |-> FALSE, expired |-> FALSE, signal |-> FALSE,
              port |-> FALSE, stopped |-> FALSE, late |-> FALSE, removed |-> FALSE]

\* finalize: once, by whoever comes first.
Finalize(signal, registry, knownPort) ==
    IF cl.pc = "idle"
    THEN /\ cl' = [NoCleanup EXCEPT !.pc = "confirm", !.signal = signal, !.port = knownPort]
         /\ kids' = [k \in Kids |-> IF registry[k] \in Unexited THEN "terminating" ELSE registry[k]]
    ELSE cl' = cl /\ kids' = registry

\* The run stops after an error or after its last operation, and waits for
\* the cleanup the signal handler started, or starts it.
Stop(registry, knownPort) ==
    /\ main' = [main EXCEPT !.phase = "awaiting"]
    /\ IF aborting THEN kids' = registry /\ cl' = cl ELSE Finalize(FALSE, registry, knownPort)

markerMatches == root = "ours"

\* The root is removed only after the children, and only if it is ours.
Confirmed == [cl EXCEPT !.pc = IF markerMatches THEN "removing" ELSE "verify", !.stopped = TRUE]

\* Mutant: a cleanup that waits for its children however long it takes.
ConfirmPatiently ==
    /\ cl.pc = "confirm"
    /\ \/ /\ live # {}
          /\ ~cl.escalated
          /\ killed' = killed \cup live
          /\ cl' = [cl EXCEPT !.escalated = TRUE]
       \/ /\ live = {}
          /\ killed' = killed
          /\ cl' = Confirmed
    /\ UNCHANGED <<scene, main, kids, alive, root, repo, aborting, port, proof, result>>

\* confirmChildrenExited: one SIGKILL to those live by then, then wait for
\* the registry to empty or for the deadline.
Confirm ==
    /\ cl.pc = "confirm"
    /\ \/ /\ live # {}
          /\ cl.expired
          /\ killed' = killed
          /\ cl' = [cl EXCEPT !.pc = "verify", !.late = TRUE]
       \/ /\ live # {}
          /\ ~cl.expired
          /\ ~cl.escalated
          /\ killed' = killed \cup live
          /\ cl' = [cl EXCEPT !.escalated = TRUE]
       \/ /\ live = {}
          /\ killed' = killed
          /\ cl' = Confirmed
    /\ UNCHANGED <<scene, main, kids, alive, root, repo, aborting, port, proof, result>>

\* The removal itself is awaited: it ends, or the deadline passes first, and
\* what a living child still writes can defeat it.
Remove ==
    /\ cl.pc = "removing"
    /\ \/ /\ root' \in {"gone"} \cup IF alive # {} THEN {root} ELSE {}
          /\ cl' = [cl EXCEPT !.pc = "verify"]
       \/ /\ cl.expired
          /\ cl' = [cl EXCEPT !.pc = "verify", !.late = TRUE]
          /\ UNCHANGED root
    /\ UNCHANGED <<scene, main, kids, alive, killed, repo, aborting, port, proof, result>>

\* Mutant: the built commit is not part of the proof.
evaluateProofUnsourced == proof.aligned /\ proof.answers

\* evaluateProof.
evaluateProof == proof.source /\ proof.aligned /\ proof.answers

\* report.cleanup: the removal, the port, the repository, and no timeout.
Reported(late, portFree) ==
    /\ ~late
    /\ cl.stopped
    /\ root \in {"none", "gone"}
    /\ portFree
    /\ repo.status = "before"

\* The checks after the removal, and the status that is printed.
Verify ==
    /\ cl.pc = "verify"
    /\ LET holding  == \E k \in alive : k[1] = "wrangler-dev"
           late     == cl.late \/ cl.expired
           portFree == cl.port => ~holding
       IN /\ cl' = [cl EXCEPT !.pc = "done", !.late = late, !.removed = root \in {"none", "gone"}]
          /\ result' = [result EXCEPT !.status =
                          IF evaluateProof /\ Reported(late, portFree) /\ ~cl.signal
                          THEN "PASS" ELSE "FAIL"]
    /\ UNCHANGED <<scene, main, kids, alive, killed, root, repo, aborting, port, proof>>

Expire ==
    /\ cl.pc \notin {"idle", "done"}
    /\ ~cl.expired
    /\ cl' = [cl EXCEPT !.expired = TRUE]
    /\ UNCHANGED <<scene, main, kids, alive, killed, root, repo, aborting, port, proof, result>>

(***************************************************************************)
(* The run.  Launch begins operation i in the step that ended the one      *)
(* before; it may find no time left, or fail to spawn.                     *)
(***************************************************************************)
Spawned(registry, k) == [registry EXCEPT ![k] = "running"]

SpawnChild(i, registry) ==
    LET k == <<Steps[i].name, 1>>
    IN /\ root # "gone" \/ Steps[i].name = "git-archive"
       /\ main' = [at |-> i, phase |-> "child", attempt |-> 1]
       /\ kids' = Spawned(registry, k)
       /\ alive' = (alive \cap {c \in Kids : registry[c] \in Unexited}) \cup {k}
       /\ cl' = cl

\* Time is out, or the process cannot be created.
CannotLaunch(registry, knownPort) ==
    /\ Stop(registry, knownPort)
    /\ alive' = alive \cap {c \in Kids : registry[c] \in Unexited}

Launch(i, registry, knownPort) ==
    \/ /\ Steps[i].kind # "await"
       /\ CannotLaunch(registry, knownPort)
    \/ /\ Steps[i].kind = "child"
       /\ SpawnChild(i, registry)
    \/ /\ Steps[i].kind \in {"await", "worker", "http"}
       /\ main' = [at |-> i, phase |-> IF Steps[i].kind = "worker" THEN "port" ELSE Steps[i].kind,
                   attempt |-> 1]
       /\ kids' = registry
       /\ alive' = alive \cap {c \in Kids : registry[c] \in Unexited}
       /\ cl' = cl

\* Operation i went well.
Advance(i, registry, knownPort) ==
    IF Steps[i].checked /\ aborting
    THEN /\ main' = [main EXCEPT !.phase = "awaiting"]
         /\ kids' = registry
         /\ alive' = alive \cap {c \in Kids : registry[c] \in Unexited}
         /\ cl' = cl
    ELSE IF i = Len(Steps)
    THEN CannotLaunch(registry, knownPort)
    ELSE Launch(i + 1, registry, knownPort)

Failed(registry) == CannotLaunch(registry, port)

\* What the run compares at its end is read first; the operator may move on
\* before the next line runs, a signal waits for the first await.
Begin ==
    /\ main.phase = "start"
    /\ main' = [main EXCEPT !.phase = "create"]
    /\ proof' = [proof EXCEPT !.expected = repo.head]
    /\ UNCHANGED <<scene, kids, alive, killed, root, repo, aborting, port, cl, result>>

\* The root is created, marked and registered, or removed again; the build
\* reads the commit it will archive.
Create ==
    /\ main.phase = "create"
    /\ \/ /\ root' = "ours"
          /\ Launch(1, kids, FALSE)
          /\ proof' = [proof EXCEPT !.built = repo.head]
       \/ /\ Failed(kids)
          /\ UNCHANGED <<root, proof>>
    /\ UNCHANGED <<scene, killed, repo, aborting, port, result>>

\* What an awaited operation leaves for the proof.
Established(name, ok) ==
    CASE name = "opennext-build" -> [proof EXCEPT !.source = proof.built = proof.expected]
      [] name = "d1:align" -> [proof EXCEPT !.aligned = ok]
      [] name = "http"     -> [proof EXCEPT !.answers = ok]
      [] OTHER             -> proof

\* A file operation or the token self-check: nothing in the root works once
\* the root is gone.
AwaitEnds ==
    /\ main.phase = "await"
    /\ LET name == Steps[main.at].name
       IN \/ /\ name = "jwt" \/ root # "gone"
             /\ Advance(main.at, kids, port)
             /\ proof' = Established(name, TRUE)
          \/ Failed(kids) /\ UNCHANGED proof
    /\ UNCHANGED <<scene, killed, root, repo, aborting, port, result>>

\* A child's exit is seen by the registry and resumes the run awaiting it.
\* A killed child, or one whose directory is gone, does not end well.
Exit(k) ==
    /\ k \in alive
    /\ LET registry == [kids EXCEPT ![k] = "exited"]
       IN IF main.phase = "child" /\ k = Kid
          THEN \/ /\ k \notin killed
                  /\ root # "gone"
                  /\ \E ok \in BOOLEAN :
                       /\ ~ok => Steps[main.at].name = "d1:align"
                       /\ Advance(main.at, registry, port)
                       /\ proof' = Established(Steps[main.at].name, ok)
               \/ Failed(registry) /\ UNCHANGED proof
          ELSE /\ kids' = registry
               /\ alive' = alive \ {k}
               /\ UNCHANGED <<main, cl, proof>>
    /\ UNCHANGED <<scene, killed, root, repo, aborting, port, result>>

\* Mutant: a timeout that counts the child as exited.
TimeoutSettles ==
    /\ main.phase = "child"
    /\ killed' = killed \cup {Kid}
    /\ main' = [main EXCEPT !.phase = "awaiting"]
    /\ LET registry == [kids EXCEPT ![Kid] = "exited"]
       IN IF aborting THEN kids' = registry /\ cl' = cl ELSE Finalize(FALSE, registry, port)
    /\ UNCHANGED <<scene, alive, root, repo, aborting, port, proof, result>>

\* spawnCapture's timer: the operation is over, the child only asked to die.
Timeout ==
    /\ main.phase = "child"
    /\ killed' = killed \cup {Kid}
    /\ Stop([kids EXCEPT ![Kid] = "terminating"], port)
    /\ UNCHANGED <<scene, alive, root, repo, aborting, port, proof, result>>

\* startWorker: a port, a process, and its readiness; a process that exits
\* early is followed by another one, five times at most.
WorkerSpawns ==
    /\ main.phase = "port"
    /\ \/ /\ root # "gone"
          /\ main' = [main EXCEPT !.phase = "worker"]
          /\ kids' = Spawned(kids, Kid)
          /\ alive' = alive \cup {Kid}
          /\ cl' = cl
       \/ Failed(kids)
    /\ UNCHANGED <<scene, killed, root, repo, aborting, port, proof, result>>

WorkerReady ==
    /\ main.phase = "worker"
    /\ Kid \in alive
    /\ port' = TRUE
    /\ Advance(main.at, kids, TRUE)
    /\ UNCHANGED <<scene, killed, root, repo, aborting, proof, result>>

WorkerMissing ==
    /\ main.phase = "worker"
    /\ \/ /\ Kid \notin alive
          /\ main.attempt < MaxAttempts
          /\ main' = [main EXCEPT !.phase = "port", !.attempt = @ + 1]
          /\ UNCHANGED <<kids, alive, cl>>
       \/ /\ Kid \in alive \/ main.attempt = MaxAttempts
          /\ Failed(kids)
    /\ UNCHANGED <<scene, killed, root, repo, aborting, port, proof, result>>

\* The HTTP cases; without a Worker the request fails.
Probe ==
    /\ main.phase = "http"
    /\ \/ /\ \E k \in alive : k[1] = "wrangler-dev"
          /\ \E ok \in BOOLEAN : proof' = Established("http", ok)
          /\ Advance(main.at, kids, port)
       \/ Failed(kids) /\ UNCHANGED proof
    /\ UNCHANGED <<scene, killed, root, repo, aborting, port, result>>

\* conclude: a signal's own code, whatever was printed.
Conclude ==
    /\ main.phase = "awaiting"
    /\ cl.pc = "done"
    /\ main' = [main EXCEPT !.phase = "concluded"]
    /\ result' = [result EXCEPT !.code = IF ~aborting /\ result.status = "PASS" THEN 0 ELSE 1]
    /\ UNCHANGED <<scene, kids, alive, killed, root, repo, aborting, port, proof, cl>>

(***************************************************************************)
(* Everything else: signals, the operator, other users of the machine.     *)
(***************************************************************************)
Spend(budget) ==
    /\ scene[budget] > 0
    /\ scene' = [scene EXCEPT ![budget] = @ - 1]

onSignal ==
    /\ main.phase \notin {"start", "create", "concluded"}
    /\ Spend("signals")
    /\ IF aborting
       THEN killed' = killed \cup live /\ UNCHANGED <<aborting, kids, cl>>
       ELSE /\ aborting' = TRUE
            /\ Finalize(TRUE, kids, port)
            /\ UNCHANGED killed
    /\ UNCHANGED <<main, alive, root, repo, port, proof, result>>

\* Someone clears the temporary directory and uses the name.
Tamper ==
    /\ root = "ours"
    /\ main.phase # "concluded"
    /\ cl.pc # "removing"
    /\ Spend("tampers")
    /\ root' = "foreign"
    /\ UNCHANGED <<main, kids, alive, killed, repo, aborting, port, proof, cl, result>>

\* The operator commits, or edits a tracked file.
Move ==
    /\ main.phase # "concluded"
    /\ Spend("moves")
    /\ repo' \in {[repo EXCEPT !.head = @ + 1], [repo EXCEPT !.status = "after"]}
    /\ UNCHANGED <<main, kids, alive, killed, root, aborting, port, proof, cl, result>>

Over ==
    /\ main.phase = "concluded"
    /\ alive = {}
    /\ UNCHANGED smokeVars

\* Before runHermeticSmoke.
AtRest ==
    /\ main = [at |-> 1, phase |-> "start", attempt |-> 1]
    /\ kids = [k \in Kids |-> "none"]
    /\ alive = {}
    /\ killed = {}
    /\ root = "none"
    /\ repo = [head |-> 1, status |-> "before"]
    /\ aborting = FALSE
    /\ port = FALSE
    /\ proof = [expected |-> 0, built |-> 0, source |-> FALSE, aligned |-> FALSE, answers |-> FALSE]
    /\ cl = NoCleanup
    /\ result = [status |-> "none", code |-> 9]

SmokeInit == scene \in Scenes /\ AtRest

Run == Begin \/ Create \/ AwaitEnds \/ Timeout \/ WorkerSpawns \/ WorkerReady \/ WorkerMissing \/ Probe
       \/ Conclude

Cleanup == Confirm \/ Remove \/ Verify

SmokeNext ==
    \/ Run \/ Cleanup \/ Expire
    \/ \E k \in Kids : Exit(k)
    \/ onSignal \/ Tamper \/ Move \/ Over

\* The event loop runs its continuations and its timers fire: every await of
\* the run has one, and cleanup has its deadline.  Children owe nothing.
SmokeSpec ==
    /\ SmokeInit
    /\ [][SmokeNext]_smokeVars
    /\ WF_smokeVars(Run) /\ WF_smokeVars(Cleanup) /\ WF_smokeVars(Expire)

(***************************************************************************)
(* Properties.                                                             *)
(***************************************************************************)
\* A run that exits with 0 was not interrupted, tested a Worker built from
\* the commit it started on, left no process, no directory and no port
\* behind, and found the repository as it was (runHermeticSmoke, conclude).
ZeroExitMeansProven ==
    result.code = 0 =>
        /\ ~aborting
        /\ evaluateProof
        /\ proof.built = proof.expected
        /\ alive = {}
        /\ root \in {"none", "gone"}
        /\ ~cl.late

PassingCompares == result.status = "none" /\ result'.status = "PASS" => repo.status = "before"

\* The printed PASS speaks of a repository that was compared
\* (report.repository_status_unchanged).
PassMeansRepositoryCompared == [][PassingCompares]_smokeVars

RemovingAlone == cl.pc # "removing" /\ cl'.pc = "removing" => alive = {}

\* The removal of the root starts only when no child process is left: asking
\* a process to stop, or giving up on it, is not its exit (spawnCapture,
\* confirmChildrenExited, performCleanup step 4).
RemovalWaitsForExits == [][RemovingAlone]_smokeVars

ForeignKept == root = "foreign" => root' = "foreign"

\* A directory that does not carry this run's marker is never removed
\* (markerMatches; the second signal included).
ForeignRootsSurvive == [][ForeignKept]_smokeVars

Concluded == main.phase = "concluded"

\* Whatever its children do, and however many signals come, the run ends
\* (budget, raceDeadline, confirmChildrenExited).
EveryRunConcludes == <>Concluded

\* "A signal terminates every live owned group, runs bounded cleanup, then
\* exits": when a run whose cleanup confirmed its children stopped is over,
\* none of its processes is alive.
NothingOutlivesTheRun ==
    main.phase = "concluded" /\ cl.stopped => alive = {}

-----------------------------------------------------------------------------
(***************************************************************************)
(* The inductive invariant.                                                *)
(***************************************************************************)
Stages == {"await", "child", "port", "worker", "http"}

Fates == {"none", "running", "terminating", "exited"}

Places == [at : DOMAIN Steps, attempt : 1..MaxAttempts,
           phase : Stages \cup {"start", "create", "awaiting", "concluded"}]

Cleanups == [pc : {"idle", "confirm", "removing", "verify", "done"}, escalated : BOOLEAN,
             expired : BOOLEAN, signal : BOOLEAN, port : BOOLEAN, stopped : BOOLEAN,
             late : BOOLEAN, removed : BOOLEAN]

Proofs == [expected : Nat, built : Nat, source : BOOLEAN, aligned : BOOLEAN, answers : BOOLEAN]

SmokeTypes ==
    /\ main \in Places
    /\ kids \in [Kids -> Fates]
    /\ cl \in Cleanups
    /\ proof \in Proofs
    /\ result \in [status : {"none", "PASS", "FAIL"}, code : {0, 1, 9}]
    /\ repo \in [head : Nat, status : {"before", "after"}]
    /\ root \in {"none", "ours", "foreign", "gone"}
    /\ aborting \in BOOLEAN
    /\ port \in BOOLEAN

\* The child the run awaits is one of its registry.
AwaitsOwnKid(at) ==
    /\ at.phase = "child" => Steps[at.at].kind = "child" /\ at.attempt = 1
    /\ at.phase \in {"port", "worker"} => Steps[at.at].kind = "worker"

\* A process that exists is in the registry, running or asked to stop.
NoneForgotten == alive \subseteq live

\* Until its first await nothing of the run exists and no signal is handled.
NothingYet ==
    main.phase \in {"start", "create"} =>
        ~aborting /\ root = "none" /\ cl = NoCleanup /\ ~proof.source

\* A cleanup that no signal started is one the run itself waits for; when it has
\* confirmed its children, nothing is left that could start another.
CleanupIsAwaited ==
    /\ cl.pc = "idle" => cl = NoCleanup
    /\ cl.signal => aborting
    /\ cl.pc # "idle" /\ ~cl.signal => main.phase \in {"awaiting", "concluded"}
    /\ cl.stopped /\ ~cl.signal => alive = {}
    /\ cl.pc = "removing" => root = "ours"

\* What was printed, and the exit code, still stand.
VerdictStands ==
    /\ proof.source => proof.built = proof.expected
    /\ result.status = "PASS" =>
         /\ cl.pc = "done" /\ cl.stopped /\ ~cl.late /\ ~cl.signal
         /\ evaluateProof /\ root \in {"none", "gone"}
    /\ result.code = 0 => result.status = "PASS" /\ ~aborting /\ main.phase = "concluded"

SmokeInv ==
    /\ SmokeTypes
    /\ AwaitsOwnKid(main)
    /\ NoneForgotten
    /\ NothingYet
    /\ CleanupIsAwaited
    /\ VerdictStands

-----------------------------------------------------------------------------
(***************************************************************************)
(* The proofs, for every number of attempts and every scene.               *)
(***************************************************************************)

\* The operations that have a child, and the Worker's, name a child of the
\* registry.
LEMMA StepNames ==
  /\ DOMAIN Steps = 1..13 /\ Len(Steps) = 13
  /\ \A i \in DOMAIN Steps : Steps[i].kind \in {"await", "child", "worker", "http"}
  /\ \A i \in DOMAIN Steps : Steps[i].kind = "child" => <<Steps[i].name, 1>> \in Kids
  /\ \A i \in DOMAIN Steps, a \in 1..MaxAttempts :
       Steps[i].kind = "worker" => <<Steps[i].name, a>> \in Kids
<1>1. DOMAIN Steps = 1..13 /\ Len(Steps) = 13
  BY DEF Steps, Operation
<1>2. \A i \in 1..13 : Steps[i].kind \in {"await", "child", "worker", "http"}
  BY DEF Steps, Operation
<1>3. \A i \in 1..13 : Steps[i].kind = "worker" => Steps[i].name = "wrangler-dev"
  BY DEF Steps, Operation
<1>4. \A i \in DOMAIN Steps : Steps[i].kind = "child" => <<Steps[i].name, 1>> \in Kids
  BY Zenon DEF Kids
<1>5. \A i \in DOMAIN Steps, a \in 1..MaxAttempts :
        Steps[i].kind = "worker" => <<Steps[i].name, a>> \in Kids
  BY Zenon, <1>1, <1>3 DEF Kids
<1> QED
  BY Zenon, <1>1, <1>2, <1>4, <1>5

\* The child a run waits for is in the registry.
LEMMA OwnKid ==
  ASSUME SmokeInv, main.phase \in {"child", "port", "worker"}
  PROVE  Kid \in Kids
<1>1. main.at \in DOMAIN Steps /\ main.attempt \in 1..MaxAttempts
  BY Zenon DEF SmokeInv, SmokeTypes, Places
<1>2. CASE main.phase = "child"
  BY Zenon, <1>1, <1>2, StepNames DEF SmokeInv, AwaitsOwnKid, Kid
<1>3. CASE main.phase \in {"port", "worker"}
  BY Zenon, <1>1, <1>3, StepNames DEF SmokeInv, AwaitsOwnKid, Kid
<1> QED
  BY Zenon, <1>2, <1>3

(***************************************************************************)
(* What the continuation of an await does, however it ends: the registry   *)
(* holds every process, and either the cleanup is left alone or the run    *)
(* starts it and waits for it.                                             *)
(***************************************************************************)
RunGoesOn ==
    /\ main' \in Places /\ main'.phase \notin {"start", "create", "concluded"}
    /\ AwaitsOwnKid(main')
    /\ kids' \in [Kids -> Fates]
    /\ alive' \subseteq {k \in Kids : kids'[k] \in Unexited}
    /\ \/ cl' = cl
       \/ /\ main'.phase = "awaiting" /\ cl.pc = "idle"
          /\ cl' \in Cleanups /\ cl'.pc = "confirm" /\ ~cl'.stopped /\ ~cl'.signal

\* What finalize makes of the registry and of the cleanup.
LEMMA Finalized ==
  ASSUME NEW signal \in BOOLEAN, NEW registry \in [Kids -> Fates], NEW p \in BOOLEAN,
         Finalize(signal, registry, p)
  PROVE  /\ kids' \in [Kids -> Fates]
         /\ \A k \in Kids : registry[k] \in Unexited => kids'[k] \in Unexited
         /\ \/ cl' = cl
            \/ /\ cl.pc = "idle"
               /\ cl' \in Cleanups /\ cl'.pc = "confirm" /\ ~cl'.stopped /\ cl'.signal = signal
<1>1. CASE cl.pc # "idle"
  BY Zenon, <1>1 DEF Finalize
<1>2. CASE cl.pc = "idle"
  <2>1. kids' = [k \in Kids |-> IF registry[k] \in Unexited THEN "terminating" ELSE registry[k]]
    BY Zenon, <1>2 DEF Finalize
  <2>2. /\ cl' \in Cleanups /\ cl'.pc = "confirm" /\ ~cl'.stopped /\ cl'.signal = signal
    BY Zenon, <1>2 DEF Finalize, NoCleanup, Cleanups
  <2> QED
    BY Zenon, <1>2, <2>1, <2>2 DEF Unexited, Fates
<1> QED
  BY Zenon, <1>1, <1>2

LEMMA Stopped ==
  ASSUME SmokeTypes, NEW registry \in [Kids -> Fates], NEW p \in BOOLEAN, Stop(registry, p),
         alive' \subseteq {k \in Kids : registry[k] \in Unexited}
  PROVE  RunGoesOn
<1>1. main' \in Places /\ main'.phase = "awaiting"
  BY Zenon DEF Stop, SmokeTypes, Places
<1>2. CASE aborting
  BY Zenon, <1>1, <1>2 DEF Stop, RunGoesOn, AwaitsOwnKid
<1>3. CASE ~aborting
  <2>1. Finalize(FALSE, registry, p)
    BY Zenon, <1>3 DEF Stop
  <2> QED
    BY Zenon, <1>1, <2>1, Finalized DEF RunGoesOn, AwaitsOwnKid
<1> QED
  BY Zenon, <1>2, <1>3

LEMMA Launched ==
  ASSUME SmokeTypes, NEW registry \in [Kids -> Fates], NEW p \in BOOLEAN,
         NEW i \in DOMAIN Steps, Launch(i, registry, p)
  PROVE  RunGoesOn
<1>1. CASE CannotLaunch(registry, p)
  BY Zenon, <1>1, Stopped DEF CannotLaunch
<1>2. CASE Steps[i].kind = "child" /\ SpawnChild(i, registry)
  <2>1. PICK k \in Kids : k = <<Steps[i].name, 1>>
    BY Zenon, <1>2, StepNames
  <2>2. /\ main' = [at |-> i, phase |-> "child", attempt |-> 1] /\ cl' = cl
        /\ kids' = [registry EXCEPT ![k] = "running"]
        /\ alive' = (alive \cap {c \in Kids : registry[c] \in Unexited}) \cup {k}
    BY Zenon, <1>2, <2>1 DEF SpawnChild, Spawned
  <2>3. main' \in Places /\ main'.phase = "child" /\ AwaitsOwnKid(main')
    BY <1>2, <2>2, AttemptsAssumption DEF Places, Stages, AwaitsOwnKid
  <2>4. kids' \in [Kids -> Fates] /\ alive' \subseteq {c \in Kids : kids'[c] \in Unexited}
    BY Zenon, <2>2 DEF Fates, Unexited
  <2> QED
    BY Zenon, <2>2, <2>3, <2>4 DEF RunGoesOn
<1>3. CASE /\ Steps[i].kind \in {"await", "worker", "http"}
           /\ main' = [at |-> i, attempt |-> 1,
                       phase |-> IF Steps[i].kind = "worker" THEN "port" ELSE Steps[i].kind]
           /\ kids' = registry
           /\ alive' = alive \cap {c \in Kids : registry[c] \in Unexited}
           /\ cl' = cl
  <2>1. main' \in Places /\ main'.phase \in {"await", "port", "http"} /\ AwaitsOwnKid(main')
    BY <1>3, AttemptsAssumption DEF Places, Stages, AwaitsOwnKid
  <2> QED
    BY Zenon, <1>3, <2>1 DEF RunGoesOn
<1> QED
  BY Zenon, <1>1, <1>2, <1>3 DEF Launch

LEMMA Advanced ==
  ASSUME SmokeTypes, NEW registry \in [Kids -> Fates], NEW p \in BOOLEAN,
         Advance(main.at, registry, p)
  PROVE  RunGoesOn
<1>1. main.at \in DOMAIN Steps
  BY Zenon DEF SmokeTypes, Places
<1>2. CASE Steps[main.at].checked /\ aborting
  BY Zenon, <1>2 DEF Advance, RunGoesOn, SmokeTypes, Places, AwaitsOwnKid
<1>3. CASE ~(Steps[main.at].checked /\ aborting) /\ main.at = Len(Steps)
  BY Zenon, <1>3, Stopped DEF Advance, CannotLaunch
<1>4. CASE ~(Steps[main.at].checked /\ aborting) /\ main.at # Len(Steps)
  <2>1. main.at + 1 \in DOMAIN Steps
    BY <1>1, <1>4, StepNames
  <2>2. Launch(main.at + 1, registry, p)
    BY Zenon, <1>4 DEF Advance
  <2> QED
    BY Zenon, <2>1, <2>2, Launched
<1> QED
  BY Zenon, <1>2, <1>3, <1>4

LEMMA FailedGoesOn ==
  ASSUME SmokeTypes, port \in BOOLEAN, NEW registry \in [Kids -> Fates], Failed(registry)
  PROVE  RunGoesOn
BY Zenon, Stopped DEF Failed, CannotLaunch

\* What a step may never do, whoever takes it.
StepKeeps == PassingCompares /\ RemovingAlone /\ ForeignKept

\* A step that prints nothing, and neither starts to remove nor touches the root.
LEMMA KeepsAll ==
  ASSUME result' = result, cl'.pc = "removing" => cl.pc = "removing",
         root = "foreign" => root' = "foreign"
  PROVE  StepKeeps
BY Zenon DEF StepKeeps, PassingCompares, RemovingAlone, ForeignKept

\* In the middle of the run no cleanup of its own is under way, and no verdict
\* is printed.
LEMMA MidRun ==
  ASSUME SmokeInv, main.phase \notin {"awaiting", "concluded"}
  PROVE  /\ cl.signal \/ cl = NoCleanup
         /\ result.status # "PASS" /\ result.code # 0
         /\ NoCleanup.pc = "idle" /\ ~NoCleanup.signal /\ ~NoCleanup.stopped
<1>1. NoCleanup.pc = "idle" /\ ~NoCleanup.signal /\ ~NoCleanup.stopped
  BY Zenon DEF NoCleanup
<1>2. cl.signal \/ cl = NoCleanup
  BY Zenon DEF SmokeInv, CleanupIsAwaited
<1>3. result.status # "PASS"
  <2>1. SUFFICES ASSUME result.status = "PASS" PROVE FALSE
    BY Zenon
  <2>2. cl.pc = "done" /\ ~cl.signal
    BY Zenon, <2>1 DEF SmokeInv, VerdictStands
  <2> QED
    BY Zenon, <1>1, <1>2, <2>2
<1> QED
  BY Zenon, <1>1, <1>2, <1>3 DEF SmokeInv, VerdictStands

\* A continuation of the run keeps the invariant, whatever it leaves in the root
\* and in the proof, as long as the proof stays honest about the source.
LEMMA RunStep ==
  ASSUME SmokeInv, main.phase \notin {"awaiting", "concluded"}, RunGoesOn,
         proof' \in Proofs, proof'.source => proof'.built = proof'.expected,
         root' \in {"none", "ours", "foreign", "gone"}, cl.pc = "removing" => root' = "ours",
         root = "foreign" => root' = "foreign",
         port' \in BOOLEAN, UNCHANGED <<repo, aborting, result>>
  PROVE  SmokeInv' /\ StepKeeps
<1>1. /\ cl.signal \/ cl = NoCleanup
      /\ result.status # "PASS" /\ result.code # 0
      /\ NoCleanup.pc = "idle" /\ ~NoCleanup.signal /\ ~NoCleanup.stopped
  BY Zenon, MidRun
<1>2. cl' \in Cleanups
  BY Zenon DEF RunGoesOn, SmokeInv, SmokeTypes
<1>3. SmokeTypes'
  BY Zenon, <1>2 DEF RunGoesOn, SmokeInv, SmokeTypes
<1>4. AwaitsOwnKid(main)' /\ NoneForgotten'
  BY Zenon DEF RunGoesOn, NoneForgotten, live, AwaitsOwnKid
<1>5. NothingYet'
  BY Zenon DEF RunGoesOn, NothingYet
<1>6. CleanupIsAwaited'
  <2>1. CASE cl' = cl
    BY Zenon, <1>1, <2>1 DEF SmokeInv, CleanupIsAwaited
  <2>2. CASE /\ main'.phase = "awaiting" /\ cl.pc = "idle"
             /\ cl'.pc = "confirm" /\ ~cl'.stopped /\ ~cl'.signal
    BY Zenon, <2>2 DEF CleanupIsAwaited
  <2> QED
    BY Zenon, <2>1, <2>2 DEF RunGoesOn
<1>7. VerdictStands'
  BY Zenon, <1>1 DEF VerdictStands
<1>8. StepKeeps
  BY Zenon, KeepsAll DEF RunGoesOn
<1> QED
  BY Zenon, <1>3, <1>4, <1>5, <1>6, <1>7, <1>8 DEF SmokeInv

\* The steps of the run.
LEMMA CreateStep ==
  ASSUME SmokeInv, Create
  PROVE  SmokeInv' /\ StepKeeps
<1>1. main.phase = "create" /\ UNCHANGED <<repo, aborting, port, result>>
  BY Zenon DEF Create
<1>2. cl = NoCleanup /\ ~proof.source /\ NoCleanup.pc = "idle" /\ root = "none"
  BY Zenon, <1>1 DEF SmokeInv, NothingYet, NoCleanup
<1>3. RunGoesOn
  <2>1. kids \in [Kids -> Fates] /\ port \in BOOLEAN /\ 1 \in DOMAIN Steps
    BY StepNames DEF SmokeInv, SmokeTypes
  <2>2. Launch(1, kids, FALSE) \/ Failed(kids)
    BY Zenon DEF Create
  <2> QED
    BY Zenon, <2>1, <2>2, Launched, FailedGoesOn DEF SmokeInv
<1>4. proof' \in Proofs /\ ~proof'.source
  <2>1. CASE proof' = [proof EXCEPT !.built = repo.head]
    BY Zenon, <1>2, <2>1 DEF SmokeInv, SmokeTypes, Proofs
  <2>2. CASE proof' = proof
    BY Zenon, <1>2, <2>2 DEF SmokeInv, SmokeTypes
  <2> QED
    BY Zenon, <2>1, <2>2 DEF Create
<1>5. root' \in {"none", "ours", "foreign", "gone"}
  BY Zenon DEF Create, SmokeInv, SmokeTypes
<1> QED
  BY Zenon, <1>1, <1>2, <1>3, <1>4, <1>5, RunStep DEF SmokeInv, SmokeTypes

LEMMA BeginStep ==
  ASSUME SmokeInv, Begin
  PROVE  SmokeInv' /\ StepKeeps
<1>1. /\ main.phase = "start" /\ main' = [main EXCEPT !.phase = "create"]
      /\ proof' = [proof EXCEPT !.expected = repo.head]
      /\ UNCHANGED <<kids, alive, root, repo, aborting, port, cl, result>>
  BY Zenon DEF Begin
<1>2. ~aborting /\ root = "none" /\ cl = NoCleanup /\ ~proof.source
  BY Zenon, <1>1 DEF SmokeInv, NothingYet
<1>3. main' \in Places /\ main'.phase = "create"
  BY Zenon, <1>1 DEF SmokeInv, SmokeTypes, Places
<1>4. proof' \in Proofs /\ ~proof'.source
  BY Zenon, <1>1, <1>2 DEF SmokeInv, SmokeTypes, Proofs
<1>5. SmokeTypes'
  BY Zenon, <1>1, <1>3, <1>4 DEF SmokeInv, SmokeTypes
<1>6. AwaitsOwnKid(main)' /\ NoneForgotten' /\ NothingYet'
  BY Zenon, <1>1, <1>2, <1>3, <1>4 DEF SmokeInv, AwaitsOwnKid, NoneForgotten, live, NothingYet
<1>7. /\ NoCleanup.pc = "idle" /\ ~NoCleanup.signal /\ ~NoCleanup.stopped
      /\ result.status # "PASS" /\ result.code # 0
  BY Zenon, <1>1, MidRun
<1>8. CleanupIsAwaited' /\ VerdictStands'
  BY Zenon, <1>1, <1>2, <1>4, <1>7 DEF CleanupIsAwaited, VerdictStands
<1> QED
  BY Zenon, <1>1, <1>5, <1>6, <1>8, KeepsAll DEF SmokeInv

\* An operation's outcome never makes the proof claim another source.
LEMMA EstablishedProof ==
  ASSUME SmokeInv, NEW name, NEW ok \in BOOLEAN
  PROVE  /\ Established(name, ok) \in Proofs
         /\ Established(name, ok).source =>
              Established(name, ok).built = Established(name, ok).expected
<1>1. proof \in Proofs /\ (proof.source => proof.built = proof.expected)
  BY Zenon DEF SmokeInv, SmokeTypes, VerdictStands
<1>2. CASE name = "opennext-build"
  <2>1. Established(name, ok) = [proof EXCEPT !.source = proof.built = proof.expected]
    BY Zenon, <1>2 DEF Established
  <2> QED
    BY Zenon, <1>1, <2>1 DEF Proofs
<1>3. CASE name = "d1:align"
  <2>1. Established(name, ok) = [proof EXCEPT !.aligned = ok]
    BY Zenon, <1>3 DEF Established
  <2> QED
    BY Zenon, <1>1, <2>1 DEF Proofs
<1>4. CASE name = "http"
  <2>1. Established(name, ok) = [proof EXCEPT !.answers = ok]
    BY Zenon, <1>4 DEF Established
  <2> QED
    BY Zenon, <1>1, <2>1 DEF Proofs
<1>5. CASE name \notin {"opennext-build", "d1:align", "http"}
  <2>1. Established(name, ok) = proof
    BY Zenon, <1>5 DEF Established
  <2> QED
    BY Zenon, <1>1, <2>1
<1> QED
  BY Zenon, <1>2, <1>3, <1>4, <1>5

LEMMA HonestProof ==
  ASSUME SmokeInv, NEW name,
         UNCHANGED proof \/ \E ok \in BOOLEAN : proof' = Established(name, ok)
  PROVE  proof' \in Proofs /\ (proof'.source => proof'.built = proof'.expected)
<1>1. CASE proof' = proof
  BY Zenon, <1>1 DEF SmokeInv, SmokeTypes, VerdictStands
<1>2. ASSUME NEW ok \in BOOLEAN, proof' = Established(name, ok)
      PROVE  proof' \in Proofs /\ (proof'.source => proof'.built = proof'.expected)
  BY Zenon, <1>2, EstablishedProof
<1> QED
  BY Zenon, <1>1, <1>2

LEMMA AwaitEndsStep ==
  ASSUME SmokeInv, AwaitEnds
  PROVE  SmokeInv' /\ StepKeeps
<1>1. /\ main.phase = "await" /\ UNCHANGED <<root, repo, aborting, port, result>>
      /\ \/ /\ Advance(main.at, kids, port)
            /\ proof' = Established(Steps[main.at].name, TRUE)
         \/ Failed(kids) /\ UNCHANGED proof
  BY Zenon DEF AwaitEnds
<1>2. kids \in [Kids -> Fates] /\ port \in BOOLEAN
  BY Zenon DEF SmokeInv, SmokeTypes
<1>3. RunGoesOn
  BY Zenon, <1>1, <1>2, Advanced, FailedGoesOn DEF SmokeInv
<1>4. proof' \in Proofs /\ (proof'.source => proof'.built = proof'.expected)
  BY Zenon, <1>1, HonestProof
<1>5. root' \in {"none", "ours", "foreign", "gone"} /\ (cl.pc = "removing" => root' = "ours")
  BY Zenon, <1>1 DEF SmokeInv, SmokeTypes, CleanupIsAwaited
<1> QED
  BY Zenon, <1>1, <1>2, <1>3, <1>4, <1>5, RunStep

LEMMA ProbeStep ==
  ASSUME SmokeInv, Probe
  PROVE  SmokeInv' /\ StepKeeps
<1>1. /\ main.phase = "http" /\ UNCHANGED <<root, repo, aborting, port, result>>
      /\ \/ /\ Advance(main.at, kids, port)
            /\ \E ok \in BOOLEAN : proof' = Established("http", ok)
         \/ Failed(kids) /\ UNCHANGED proof
  BY Zenon DEF Probe
<1>2. kids \in [Kids -> Fates] /\ port \in BOOLEAN
  BY Zenon DEF SmokeInv, SmokeTypes
<1>3. RunGoesOn
  BY Zenon, <1>1, <1>2, Advanced, FailedGoesOn DEF SmokeInv
<1>4. proof' \in Proofs /\ (proof'.source => proof'.built = proof'.expected)
  BY Zenon, <1>1, HonestProof
<1>5. root' \in {"none", "ours", "foreign", "gone"} /\ (cl.pc = "removing" => root' = "ours")
  BY Zenon, <1>1 DEF SmokeInv, SmokeTypes, CleanupIsAwaited
<1> QED
  BY Zenon, <1>1, <1>2, <1>3, <1>4, <1>5, RunStep

\* The steps that leave root, repository and proof alone.
LEMMA PlainRunStep ==
  ASSUME SmokeInv, main.phase \notin {"awaiting", "concluded"}, RunGoesOn, port' \in BOOLEAN,
         UNCHANGED <<root, repo, aborting, proof, result>>
  PROVE  SmokeInv' /\ StepKeeps
<1>1. proof' \in Proofs /\ (proof'.source => proof'.built = proof'.expected)
  BY Zenon DEF SmokeInv, SmokeTypes, VerdictStands
<1>2. root' \in {"none", "ours", "foreign", "gone"} /\ (cl.pc = "removing" => root' = "ours")
  BY Zenon DEF SmokeInv, SmokeTypes, CleanupIsAwaited
<1> QED
  BY Zenon, <1>1, <1>2, RunStep

LEMMA TimeoutStep ==
  ASSUME SmokeInv, Timeout
  PROVE  SmokeInv' /\ StepKeeps
<1>1. PICK registry : registry = [kids EXCEPT ![Kid] = "terminating"]
  BY Zenon
<1>2. /\ main.phase = "child" /\ Stop(registry, port)
      /\ UNCHANGED <<alive, root, repo, aborting, port, proof, result>>
  BY Zenon, <1>1 DEF Timeout
<1>3. kids \in [Kids -> Fates] /\ port \in BOOLEAN /\ SmokeTypes /\ Kid \in Kids
  BY Zenon, <1>2, OwnKid DEF SmokeInv, SmokeTypes
<1>4. registry \in [Kids -> Fates]
  BY Zenon, <1>1, <1>3 DEF Fates
<1>5. alive' \subseteq {k \in Kids : registry[k] \in Unexited}
  BY Zenon, <1>1, <1>2, <1>3 DEF SmokeInv, NoneForgotten, live, Unexited
<1>6. RunGoesOn
  BY Zenon, <1>2, <1>3, <1>4, <1>5, Stopped
<1> QED
  BY Zenon, <1>2, <1>3, <1>6, PlainRunStep

LEMMA WorkerSteps ==
  ASSUME SmokeInv, WorkerSpawns \/ WorkerReady \/ WorkerMissing
  PROVE  SmokeInv' /\ StepKeeps
<1>1. kids \in [Kids -> Fates] /\ port \in BOOLEAN /\ SmokeTypes /\ main \in Places
  BY Zenon DEF SmokeInv, SmokeTypes
<1>2. CASE WorkerSpawns
  <2>1. main.phase = "port" /\ UNCHANGED <<root, repo, aborting, port, proof, result>>
    BY Zenon, <1>2 DEF WorkerSpawns
  <2>2. CASE /\ main' = [main EXCEPT !.phase = "worker"] /\ cl' = cl
             /\ kids' = [kids EXCEPT ![Kid] = "running"] /\ alive' = alive \cup {Kid}
    <3>1. main' \in Places /\ main'.phase = "worker" /\ main'.at = main.at
      BY Zenon, <1>1, <2>2 DEF Places, Stages
    <3>2. AwaitsOwnKid(main')
      BY Zenon, <2>1, <3>1 DEF SmokeInv, AwaitsOwnKid
    <3>3. Kid \in Kids
      BY Zenon, <2>1, OwnKid
    <3>4. kids' \in [Kids -> Fates] /\ alive' \subseteq {k \in Kids : kids'[k] \in Unexited}
      BY Zenon, <1>1, <2>2, <3>3 DEF SmokeInv, NoneForgotten, live, Unexited, Fates
    <3>5. RunGoesOn
      BY Zenon, <2>2, <3>1, <3>2, <3>4 DEF RunGoesOn
    <3> QED
      BY Zenon, <1>1, <2>1, <3>5, PlainRunStep
  <2>3. CASE Failed(kids)
    BY Zenon, <1>1, <2>1, <2>3, FailedGoesOn, PlainRunStep
  <2> QED
    BY Zenon, <1>2, <2>2, <2>3 DEF WorkerSpawns, Spawned
<1>3. CASE WorkerReady
  <2>1. /\ main.phase = "worker" /\ port' = TRUE /\ Advance(main.at, kids, TRUE)
        /\ UNCHANGED <<root, repo, aborting, proof, result>>
    BY Zenon, <1>3 DEF WorkerReady
  <2> QED
    BY Zenon, <1>1, <2>1, Advanced, PlainRunStep
<1>4. CASE WorkerMissing
  <2>1. main.phase = "worker" /\ UNCHANGED <<root, repo, aborting, port, proof, result>>
    BY Zenon, <1>4 DEF WorkerMissing
  <2>2. CASE /\ main.attempt < MaxAttempts /\ UNCHANGED <<kids, alive, cl>>
             /\ main' = [main EXCEPT !.phase = "port", !.attempt = @ + 1]
    <3>1. main.attempt + 1 \in 1..MaxAttempts
      BY <1>1, <2>2, AttemptsAssumption DEF Places
    <3>2. main' \in Places /\ main'.phase = "port" /\ main'.at = main.at
      BY Zenon, <1>1, <2>2, <3>1 DEF Places, Stages
    <3>3. AwaitsOwnKid(main')
      BY Zenon, <2>1, <3>2 DEF SmokeInv, AwaitsOwnKid
    <3>4. RunGoesOn
      BY Zenon, <1>1, <2>2, <3>2, <3>3 DEF SmokeInv, NoneForgotten, live, RunGoesOn
    <3> QED
      BY Zenon, <1>1, <2>1, <3>4, PlainRunStep
  <2>3. CASE Failed(kids)
    BY Zenon, <1>1, <2>1, <2>3, FailedGoesOn, PlainRunStep
  <2> QED
    BY Zenon, <1>4, <2>2, <2>3 DEF WorkerMissing
<1> QED
  BY Zenon, <1>2, <1>3, <1>4

LEMMA ExitStep ==
  ASSUME SmokeInv, NEW k \in Kids, Exit(k)
  PROVE  SmokeInv' /\ StepKeeps
<1>1. PICK registry : registry = [kids EXCEPT ![k] = "exited"]
  BY Zenon
<1>2. kids \in [Kids -> Fates] /\ port \in BOOLEAN /\ SmokeTypes
  BY Zenon DEF SmokeInv, SmokeTypes
<1>3. registry \in [Kids -> Fates]
  BY Zenon, <1>1, <1>2 DEF Fates
<1>4. UNCHANGED <<root, repo, aborting, port, result>>
  BY Zenon DEF Exit
<1>5. CASE main.phase = "child" /\ k = Kid
  <2>1. \/ \E ok \in BOOLEAN : /\ Advance(main.at, registry, port)
                               /\ proof' = Established(Steps[main.at].name, ok)
        \/ Failed(registry) /\ UNCHANGED proof
    BY Zenon, <1>1, <1>5 DEF Exit
  <2>2. RunGoesOn
    BY Zenon, <1>2, <1>3, <2>1, Advanced, FailedGoesOn
  <2>3. proof' \in Proofs /\ (proof'.source => proof'.built = proof'.expected)
    BY Zenon, <2>1, HonestProof
  <2>4. root' \in {"none", "ours", "foreign", "gone"} /\ (cl.pc = "removing" => root' = "ours")
    BY Zenon, <1>4 DEF SmokeInv, SmokeTypes, CleanupIsAwaited
  <2> QED
    BY Zenon, <1>2, <1>4, <1>5, <2>2, <2>3, <2>4, RunStep
<1>6. CASE ~(main.phase = "child" /\ k = Kid)
  <2>1. kids' = registry /\ alive' = alive \ {k} /\ UNCHANGED <<main, cl, proof>>
    BY Zenon, <1>1, <1>6 DEF Exit
  <2>2. SmokeTypes'
    BY Zenon, <1>2, <1>3, <1>4, <2>1 DEF SmokeTypes
  <2>3. NoneForgotten'
    BY Zenon, <1>1, <1>2, <2>1 DEF SmokeInv, NoneForgotten, live
  <2>4. AwaitsOwnKid(main)' /\ NothingYet'
    BY Zenon, <1>4, <2>1 DEF SmokeInv, AwaitsOwnKid, NothingYet
  <2>5. CleanupIsAwaited'
    <3>1. alive = {} => alive' = {}
      BY Zenon, <2>1
    <3> QED
      BY Zenon, <1>4, <2>1, <3>1 DEF SmokeInv, CleanupIsAwaited
  <2>6. VerdictStands'
    BY Zenon, <1>4, <2>1 DEF SmokeInv, VerdictStands, evaluateProof
  <2> QED
    BY Zenon, <1>4, <2>1, <2>2, <2>3, <2>4, <2>5, <2>6, KeepsAll DEF SmokeInv
<1> QED
  BY Zenon, <1>5, <1>6

\* The steps of the cleanup.
LEMMA ConfirmStep ==
  ASSUME SmokeInv, Confirm
  PROVE  SmokeInv' /\ StepKeeps
<1>1. /\ cl.pc = "confirm" /\ cl \in Cleanups
      /\ UNCHANGED <<main, kids, alive, root, repo, aborting, port, proof, result>>
  BY Zenon DEF Confirm, SmokeInv, SmokeTypes
<1>2. /\ cl' \in Cleanups /\ cl'.pc # "idle" /\ cl'.signal = cl.signal
      /\ cl'.pc = "removing" => root = "ours" /\ live = {}
      /\ cl'.stopped => cl.stopped \/ live = {}
  BY Zenon, <1>1 DEF Confirm, Confirmed, markerMatches, Cleanups
<1>3. live = {} => alive = {}
  BY Zenon DEF SmokeInv, NoneForgotten
<1>4. SmokeTypes'
  BY Zenon, <1>1, <1>2 DEF SmokeInv, SmokeTypes
<1>5. AwaitsOwnKid(main)' /\ NoneForgotten'
  BY Zenon, <1>1 DEF SmokeInv, AwaitsOwnKid, NoneForgotten, live
<1>6. NoCleanup.pc = "idle" /\ main.phase \notin {"start", "create"} /\ result.status # "PASS"
  BY <1>1 DEF NoCleanup, SmokeInv, NothingYet, VerdictStands
<1>7. NothingYet' /\ VerdictStands'
  BY Zenon, <1>1, <1>6 DEF SmokeInv, NothingYet, VerdictStands
<1>8. CleanupIsAwaited'
  BY Zenon, <1>1, <1>2, <1>3 DEF SmokeInv, CleanupIsAwaited
<1>9. StepKeeps
  BY Zenon, <1>1, <1>2, <1>3, <1>6 DEF StepKeeps, PassingCompares, RemovingAlone, ForeignKept
<1> QED
  BY Zenon, <1>4, <1>5, <1>7, <1>8, <1>9 DEF SmokeInv

\* The cleanup goes on from the removal or from the deadline: it becomes neither
\* idle nor removing, and confirms nothing.
CleansOn ==
    /\ cl.pc \notin {"idle", "done"}
    /\ cl' \in Cleanups /\ cl'.pc # "idle" /\ cl'.signal = cl.signal /\ cl'.stopped = cl.stopped
    /\ cl'.pc = "removing" => cl.pc = "removing" /\ root' = "ours"
    /\ root' \in {root, "gone"} /\ (root = "foreign" => root' = "foreign")
    /\ UNCHANGED <<main, kids, alive, repo, aborting, port, proof>>

LEMMA CleansOnStep ==
  ASSUME SmokeInv, CleansOn,
         result' \in [status : {"none", "PASS", "FAIL"}, code : {0, 1, 9}],
         result'.code = result.code,
         result'.status = "PASS" =>
           /\ cl'.pc = "done" /\ cl.stopped /\ ~cl'.late /\ ~cl.signal
           /\ evaluateProof /\ root' \in {"none", "gone"} /\ (result = result' \/ repo.status = "before")
  PROVE  SmokeInv' /\ StepKeeps
<1>1. NoCleanup.pc = "idle" /\ main.phase \notin {"start", "create"}
  BY DEF CleansOn, NoCleanup, SmokeInv, NothingYet
<1>2. SmokeTypes'
  BY Zenon DEF CleansOn, SmokeInv, SmokeTypes
<1>3. AwaitsOwnKid(main)' /\ NoneForgotten' /\ NothingYet'
  BY Zenon, <1>1 DEF CleansOn, SmokeInv, AwaitsOwnKid, NoneForgotten, live, NothingYet
<1>4. CleanupIsAwaited'
  BY Zenon DEF CleansOn, SmokeInv, CleanupIsAwaited
<1>5. result.code # 0
  BY Zenon DEF CleansOn, SmokeInv, VerdictStands
<1>6. evaluateProof' = evaluateProof
  BY Zenon DEF CleansOn, evaluateProof
<1>7. VerdictStands'
  BY Zenon, <1>5, <1>6 DEF CleansOn, SmokeInv, VerdictStands
<1>8. StepKeeps
  BY Zenon DEF CleansOn, StepKeeps, PassingCompares, RemovingAlone, ForeignKept
<1> QED
  BY Zenon, <1>2, <1>3, <1>4, <1>7, <1>8 DEF SmokeInv

LEMMA RemoveStep ==
  ASSUME SmokeInv, Remove
  PROVE  SmokeInv' /\ StepKeeps
<1>1. cl.pc = "removing" /\ root = "ours" /\ result.status # "PASS"
  BY Zenon DEF Remove, SmokeInv, CleanupIsAwaited, VerdictStands
<1>2. CleansOn
  <2>1. cl \in Cleanups
    BY Zenon DEF SmokeInv, SmokeTypes
  <2>2. /\ cl' \in Cleanups /\ cl'.pc = "verify" /\ cl'.signal = cl.signal
        /\ cl'.stopped = cl.stopped
    BY Zenon, <2>1 DEF Remove, Cleanups
  <2>3. root' \in {root, "gone"} /\ UNCHANGED <<main, kids, alive, repo, aborting, port, proof>>
    BY Zenon DEF Remove
  <2> QED
    BY Zenon, <1>1, <2>2, <2>3 DEF CleansOn
<1>3. result' = result
  BY Zenon DEF Remove
<1> QED
  BY Zenon, <1>1, <1>2, <1>3, CleansOnStep DEF SmokeInv, SmokeTypes

LEMMA ExpireStep ==
  ASSUME SmokeInv, Expire
  PROVE  SmokeInv' /\ StepKeeps
<1>1. cl.pc \notin {"idle", "done"} /\ result.status # "PASS"
  BY Zenon DEF Expire, SmokeInv, VerdictStands
<1>2. CleansOn
  BY Zenon, <1>1 DEF Expire, CleansOn, SmokeInv, SmokeTypes, CleanupIsAwaited, Cleanups
<1>3. result' = result
  BY Zenon DEF Expire
<1> QED
  BY Zenon, <1>1, <1>2, <1>3, CleansOnStep DEF SmokeInv, SmokeTypes

LEMMA VerifyStep ==
  ASSUME SmokeInv, Verify
  PROVE  SmokeInv' /\ StepKeeps
<1>1. PICK late, portFree, removed :
        /\ late = (cl.late \/ cl.expired)
        /\ removed = (root \in {"none", "gone"})
        /\ cl' = [cl EXCEPT !.pc = "done", !.late = late, !.removed = removed]
        /\ result' = [result EXCEPT !.status =
                        IF evaluateProof /\ Reported(late, portFree) /\ ~cl.signal
                        THEN "PASS" ELSE "FAIL"]
  BY Zenon DEF Verify
<1>2. /\ cl.pc = "verify" /\ cl \in Cleanups
      /\ UNCHANGED <<main, kids, alive, root, repo, aborting, port, proof>>
  BY Zenon DEF Verify, SmokeInv, SmokeTypes
<1>3. late \in BOOLEAN /\ removed \in BOOLEAN
  BY <1>1
<1>4. /\ cl' \in Cleanups /\ cl'.pc = "done" /\ cl'.signal = cl.signal
      /\ cl'.stopped = cl.stopped /\ cl'.late = late
  BY Zenon, <1>1, <1>2, <1>3 DEF Cleanups
<1>5. CleansOn
  BY Zenon, <1>2, <1>4 DEF CleansOn
<1>6. result \in [status : {"none", "PASS", "FAIL"}, code : {0, 1, 9}]
  BY Zenon DEF SmokeInv, SmokeTypes
<1>7. /\ result' \in [status : {"none", "PASS", "FAIL"}, code : {0, 1, 9}]
      /\ result'.code = result.code
      /\ result'.status = "PASS" => evaluateProof /\ Reported(late, portFree) /\ ~cl.signal
  BY Zenon, <1>1, <1>6
<1> QED
  BY Zenon, <1>2, <1>4, <1>5, <1>7, CleansOnStep DEF Reported

LEMMA ConcludeStep ==
  ASSUME SmokeInv, Conclude
  PROVE  SmokeInv' /\ StepKeeps
<1>1. /\ main.phase = "awaiting" /\ main' = [main EXCEPT !.phase = "concluded"]
      /\ UNCHANGED <<kids, alive, root, repo, aborting, port, proof, cl>>
      /\ result' = [result EXCEPT !.code = IF ~aborting /\ result.status = "PASS" THEN 0 ELSE 1]
  BY Zenon DEF Conclude
<1>2. main' \in Places /\ main'.phase = "concluded"
  BY Zenon, <1>1 DEF SmokeInv, SmokeTypes, Places
<1>3. /\ result' \in [status : {"none", "PASS", "FAIL"}, code : {0, 1, 9}]
      /\ result'.status = result.status
      /\ result'.code = 0 => ~aborting /\ result.status = "PASS"
  BY <1>1 DEF SmokeInv, SmokeTypes
<1>4. SmokeTypes'
  BY Zenon, <1>1, <1>2, <1>3 DEF SmokeInv, SmokeTypes
<1>5. AwaitsOwnKid(main)' /\ NoneForgotten' /\ NothingYet'
  BY Zenon, <1>1, <1>2 DEF SmokeInv, AwaitsOwnKid, NoneForgotten, live, NothingYet
<1>6. CleanupIsAwaited'
  BY Zenon, <1>1, <1>2 DEF SmokeInv, CleanupIsAwaited
<1>7. VerdictStands'
  BY Zenon, <1>1, <1>2, <1>3 DEF SmokeInv, VerdictStands, evaluateProof
<1>8. StepKeeps
  BY Zenon, <1>1, <1>3 DEF StepKeeps, PassingCompares, RemovingAlone, ForeignKept
<1> QED
  BY Zenon, <1>4, <1>5, <1>6, <1>7, <1>8 DEF SmokeInv

\* A signal: the first starts the cleanup if the run has not, the second only
\* kills.  A verdict that was printed before stands, but no longer gives 0.
LEMMA SignalStep ==
  ASSUME SmokeInv, onSignal
  PROVE  SmokeInv' /\ StepKeeps
<1>1. /\ main.phase \notin {"start", "create", "concluded"}
      /\ UNCHANGED <<main, alive, root, repo, port, proof, result>>
  BY Zenon DEF onSignal
<1>2. kids \in [Kids -> Fates] /\ port \in BOOLEAN /\ result.code # 0
  BY Zenon, <1>1 DEF SmokeInv, SmokeTypes, VerdictStands
<1>3. CASE aborting
  <2>1. UNCHANGED <<aborting, kids, cl>>
    BY Zenon, <1>3 DEF onSignal
  <2>2. SmokeTypes' /\ AwaitsOwnKid(main)' /\ NoneForgotten' /\ NothingYet'
    BY <1>1, <2>1 DEF SmokeInv, SmokeTypes, AwaitsOwnKid, NoneForgotten, live, NothingYet
  <2>3. CleanupIsAwaited' /\ VerdictStands'
    BY Zenon, <1>1, <2>1 DEF SmokeInv, CleanupIsAwaited, VerdictStands, evaluateProof
  <2> QED
    BY Zenon, <1>1, <2>1, <2>2, <2>3, KeepsAll DEF SmokeInv
<1>4. CASE ~aborting
  <2>1. aborting' = TRUE /\ Finalize(TRUE, kids, port)
    BY Zenon, <1>4 DEF onSignal
  <2>2. /\ kids' \in [Kids -> Fates]
        /\ \A k \in Kids : kids[k] \in Unexited => kids'[k] \in Unexited
        /\ \/ cl' = cl
           \/ /\ cl.pc = "idle"
              /\ cl' \in Cleanups /\ cl'.pc = "confirm" /\ ~cl'.stopped /\ cl'.signal = TRUE
    BY Zenon, <1>2, <2>1, Finalized
  <2>3. SmokeTypes'
    BY Zenon, <1>1, <2>1, <2>2 DEF SmokeInv, SmokeTypes
  <2>4. AwaitsOwnKid(main)' /\ NoneForgotten' /\ NothingYet'
    BY Zenon, <1>1, <2>2 DEF SmokeInv, AwaitsOwnKid, NoneForgotten, live, NothingYet
  <2>5. CleanupIsAwaited'
    <3>1. CASE cl' = cl
      BY Zenon, <1>1, <2>1, <3>1 DEF SmokeInv, CleanupIsAwaited
    <3>2. CASE cl'.pc = "confirm" /\ ~cl'.stopped /\ cl'.signal = TRUE
      BY Zenon, <2>1, <3>2 DEF CleanupIsAwaited
    <3> QED
      BY Zenon, <2>2, <3>1, <3>2
  <2>6. VerdictStands'
    <3>1. CASE cl' = cl
      BY Zenon, <1>1, <1>2, <3>1 DEF SmokeInv, VerdictStands, evaluateProof
    <3>2. CASE cl.pc = "idle"
      <4>1. result.status # "PASS"
        BY Zenon, <3>2 DEF SmokeInv, VerdictStands
      <4> QED
        BY Zenon, <1>1, <1>2, <4>1 DEF SmokeInv, VerdictStands
    <3> QED
      BY Zenon, <2>2, <3>1, <3>2
  <2>7. StepKeeps
    BY Zenon, <1>1, <2>2, KeepsAll
  <2> QED
    BY Zenon, <2>3, <2>4, <2>5, <2>6, <2>7 DEF SmokeInv
<1> QED
  BY Zenon, <1>3, <1>4

LEMMA TamperStep ==
  ASSUME SmokeInv, Tamper
  PROVE  SmokeInv' /\ StepKeeps
<1>1. /\ root = "ours" /\ root' = "foreign" /\ cl.pc # "removing"
      /\ UNCHANGED <<main, kids, alive, repo, aborting, port, proof, cl, result>>
  BY Zenon DEF Tamper
<1>2. SmokeTypes' /\ AwaitsOwnKid(main)' /\ NoneForgotten' /\ NothingYet'
  BY Zenon, <1>1 DEF SmokeInv, SmokeTypes, AwaitsOwnKid, NoneForgotten, live, NothingYet
<1>3. result.status # "PASS"
  BY Zenon, <1>1 DEF SmokeInv, VerdictStands
<1>4. CleanupIsAwaited' /\ VerdictStands'
  BY Zenon, <1>1, <1>3 DEF SmokeInv, CleanupIsAwaited, VerdictStands
<1>5. StepKeeps
  BY Zenon, <1>1, KeepsAll
<1> QED
  BY Zenon, <1>2, <1>4, <1>5 DEF SmokeInv

LEMMA MoveStep ==
  ASSUME SmokeInv, Move \/ UNCHANGED smokeVars
  PROVE  SmokeInv' /\ StepKeeps
<1>1. UNCHANGED <<main, kids, alive, root, aborting, port, proof, cl, result>>
  BY Zenon DEF Move, smokeVars
<1>2. repo' \in [head : Nat, status : {"before", "after"}]
  BY DEF Move, smokeVars, SmokeInv, SmokeTypes
<1>3. SmokeTypes' /\ AwaitsOwnKid(main)' /\ NoneForgotten' /\ NothingYet'
  BY Zenon, <1>1, <1>2 DEF SmokeInv, SmokeTypes, AwaitsOwnKid, NoneForgotten, live, NothingYet
<1>4. CleanupIsAwaited' /\ VerdictStands'
  BY Zenon, <1>1 DEF SmokeInv, CleanupIsAwaited, VerdictStands, evaluateProof
<1> QED
  BY Zenon, <1>1, <1>3, <1>4, KeepsAll DEF SmokeInv

LEMMA SmokeStarts ==
  ASSUME SmokeInit
  PROVE  SmokeInv
<1>1. main \in Places /\ main.phase = "start" /\ 1 \in DOMAIN Steps
  BY StepNames, AttemptsAssumption DEF SmokeInit, AtRest, Places
<1>2. cl = NoCleanup /\ cl \in Cleanups /\ cl.pc = "idle" /\ ~cl.signal /\ ~cl.stopped
  BY Zenon DEF SmokeInit, AtRest, NoCleanup, Cleanups
<1>3. SmokeTypes
  BY Zenon, <1>1, <1>2 DEF SmokeInit, AtRest, SmokeTypes, Fates, Proofs
<1>4. AwaitsOwnKid(main) /\ NoneForgotten /\ NothingYet
  BY Zenon, <1>1 DEF SmokeInit, AtRest, AwaitsOwnKid, NoneForgotten, NothingYet
<1>5. result.status = "none" /\ result.code = 9 /\ ~proof.source
  BY Zenon DEF SmokeInit, AtRest
<1>6. CleanupIsAwaited /\ VerdictStands
  BY <1>2, <1>5 DEF CleanupIsAwaited, VerdictStands
<1> QED
  BY Zenon, <1>3, <1>4, <1>6 DEF SmokeInv

LEMMA SmokeStep ==
  ASSUME SmokeInv, [SmokeNext]_smokeVars
  PROVE  SmokeInv' /\ StepKeeps
<1>1. Run => SmokeInv' /\ StepKeeps
  BY Zenon, BeginStep, CreateStep, AwaitEndsStep, TimeoutStep, WorkerSteps, ProbeStep, ConcludeStep DEF Run
<1>2. Cleanup \/ Expire => SmokeInv' /\ StepKeeps
  BY Zenon, ConfirmStep, RemoveStep, VerifyStep, ExpireStep DEF Cleanup
<1>3. onSignal \/ Tamper \/ Move \/ Over \/ UNCHANGED smokeVars => SmokeInv' /\ StepKeeps
  BY Zenon, SignalStep, TamperStep, MoveStep DEF Over
<1> QED
  BY Zenon, <1>1, <1>2, <1>3, ExitStep DEF SmokeNext

\* SmokeInv holds in every state of a smoke run (runHermeticSmoke).
THEOREM SmokeInvariant == SmokeSpec => []SmokeInv
BY SmokeStarts, SmokeStep, PTL DEF SmokeSpec

\* Exit code 0 means an uninterrupted run, a proof of the commit the run started
\* on, and nothing left behind, for every number of attempts and every scene
\* (conclude, evaluateProof, performCleanup).
THEOREM ZeroExitIsProven == SmokeSpec => []ZeroExitMeansProven
<1>1. SmokeInv => ZeroExitMeansProven
  BY Zenon DEF SmokeInv, CleanupIsAwaited, VerdictStands, ZeroExitMeansProven, evaluateProof
<1> QED
  BY <1>1, SmokeInvariant, PTL

\* A PASS is printed for a repository found unchanged, the root is removed only
\* after the last child has exited, and a root without the run's marker is never
\* removed (performCleanup, confirmChildrenExited, markerMatches).
THEOREM SmokeStepsKeep ==
  SmokeSpec => PassMeansRepositoryCompared /\ RemovalWaitsForExits /\ ForeignRootsSurvive
<1>1. SmokeInv /\ [SmokeNext]_smokeVars => [PassingCompares]_smokeVars
  BY Zenon, SmokeStep DEF StepKeeps
<1>2. SmokeInv /\ [SmokeNext]_smokeVars => [RemovingAlone]_smokeVars
  BY Zenon, SmokeStep DEF StepKeeps
<1>3. SmokeInv /\ [SmokeNext]_smokeVars => [ForeignKept]_smokeVars
  BY Zenon, SmokeStep DEF StepKeeps
<1> QED
  BY <1>1, <1>2, <1>3, SmokeInvariant, PTL
  DEF SmokeSpec, PassMeansRepositoryCompared, RemovalWaitsForExits, ForeignRootsSurvive

=============================================================================
