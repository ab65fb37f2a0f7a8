------------------------------ MODULE LocalJwt -------------------------------
(***************************************************************************)
(* Local sign-in: an operator's .dev.vars, the commands that seed an       *)
(* identity from it, issue a token and verify one (scripts/lib/localJwt,   *)
(* cf-d1-bootstrap-jwt-local), and the local Worker that loaded the same   *)
(* file at its start.  The file is edited, the shell has variables of its  *)
(* own, time passes, and a seeding command can be killed between any two   *)
(* of its statements.                                                      *)
(***************************************************************************)
EXTENDS RequestAdmission, TLC

CONSTANTS Files,    \* the contents .dev.vars can have
          Scenes,   \* how a session starts, and its bounds: [file, shell, override, edits,
                    \* kills, maxSeeds, maxNow]
          TTL,
          None      \* not there yet; a statement that failed

VARIABLES scene, devVars, worker, boot, db, seeded, token, verified, now

vars == <<scene, devVars, worker, boot, db, seeded, token, verified, now>>

PROTECTED_LOCAL_JWT_KEYS == {"secret", "realm", "provider", "subject", "email"}

\* The file is the authority: a shell variable that differs from it is a
\* conflict, and one the file does not have is ignored, unless the operator
\* asked for the override.
resolveLocalJwtAuthority(file, shell, override) ==
    LET conflict(k) == file[k] # Unset /\ shell[k] # Unset /\ file[k] # shell[k]
    IN IF override
       THEN [ok |-> TRUE, env |-> [k \in PROTECTED_LOCAL_JWT_KEYS |->
                                     IF shell[k] # Unset THEN shell[k] ELSE file[k]]]
       ELSE [ok |-> \A k \in PROTECTED_LOCAL_JWT_KEYS : ~conflict(k), env |-> file]

\* Every variable but the provider is needed, and the secret has 32 bytes.
validateLocalJwtEnv(env) ==
    /\ \A k \in PROTECTED_LOCAL_JWT_KEYS \ {"provider"} : env[k] # Unset
    /\ env.secret # "short"

\* What a command works with, or nothing.
Authority == resolveLocalJwtAuthority(devVars, scene.shell, scene.override)

Usable == Authority.ok /\ validateLocalJwtEnv(Authority.env)

(***************************************************************************)
(* Seeding.  The ids of the user, the membership and the identity follow   *)
(* from the subject; each statement updates the row its conflict clause    *)
(* names, and fails on any other uniqueness.                               *)
(***************************************************************************)

Statements == <<"tenant", "registry", "user", "membership", "identity">>

\* buildIdempotentBootstrapSql, one statement: None is a failed constraint.
Seeded(rows, statement, env) ==
    CASE statement = "user" ->
           IF \E s \in DOMAIN rows.users : s # env.subject /\ rows.users[s] = env.email THEN None
           ELSE [rows EXCEPT !.users = (env.subject :> env.email) @@ @]
      [] statement = "membership" -> [rows EXCEPT !.members = @ \cup {env.subject}]
      [] statement = "identity" -> [rows EXCEPT !.identities = @ \cup {env.subject}]
      [] OTHER -> [rows EXCEPT !.tenant = @ \cup {statement}]

NoBoot == [pc |-> "idle", at |-> 0, env |-> None]

\* buildLocalJwtBootstrapPlan reads the file once; the migrations it applies
\* first are those of LocalMigration.
BootstrapPlan ==
    /\ boot.pc = "idle"
    /\ Usable
    /\ Authority.env.provider \in {Unset, "jwt"}
    /\ boot' = [pc |-> "seeding", at |-> 1, env |-> Authority.env]
    /\ UNCHANGED <<scene, devVars, worker, db, seeded, token, verified, now>>

\* runLocalJwtBootstrap, statement by statement.
Seed ==
    /\ boot.pc = "seeding"
    /\ LET rows == Seeded(db, Statements[boot.at], boot.env)
       IN IF rows = None
          THEN /\ boot' = [boot EXCEPT !.pc = "failed"]
               /\ UNCHANGED <<db, seeded>>
          ELSE /\ db' = rows
               /\ IF boot.at = Len(Statements)
                  THEN boot' = [boot EXCEPT !.pc = "ok"] /\ seeded' = Append(seeded, boot.env)
                  ELSE boot' = [boot EXCEPT !.at = @ + 1] /\ UNCHANGED seeded
    /\ UNCHANGED <<scene, devVars, worker, token, verified, now>>

Return ==
    /\ boot.pc \in {"ok", "failed"}
    /\ Len(seeded) < scene.maxSeeds
    /\ boot' = NoBoot
    /\ UNCHANGED <<scene, devVars, worker, db, seeded, token, verified, now>>

Kill ==
    /\ boot.pc = "seeding"
    /\ scene.kills > 0
    /\ scene' = [scene EXCEPT !.kills = @ - 1]
    /\ boot' = NoBoot
    /\ UNCHANGED <<devVars, worker, db, seeded, token, verified, now>>

(***************************************************************************)
(* Tokens.  file is the file a token was issued from.                      *)
(***************************************************************************)
generateLocalJwt(env) ==
    [key |-> env.secret, realm |-> env.realm, sub |-> env.subject, email |-> env.email,
     iat |-> now, exp |-> now + TTL]

Generate ==
    /\ Usable
    /\ token' = [jwt |-> generateLocalJwt(Authority.env), file |-> devVars]
    /\ UNCHANGED <<scene, devVars, worker, boot, db, seeded, verified, now>>

\* Mutant: a token is still good at the second it expires.
verifyLocalJwtLate(t, env) ==
    /\ t.key = env.secret
    /\ t.sub = env.subject
    /\ t.email = env.email
    /\ t.realm = env.realm
    /\ now <= t.exp
    /\ t.iat <= now + 60

\* The sequence of refusals of verifyLocalJwt, as one condition; the form of
\* the token and its algorithm are those of a token these commands issue.
verifyLocalJwt(t, env) ==
    /\ t.key = env.secret
    /\ t.sub = env.subject
    /\ t.email = env.email
    /\ t.realm = env.realm
    /\ now < t.exp
    /\ t.iat <= now + 60

Verify ==
    /\ Usable
    /\ token # None
    /\ verified' = [ok |-> verifyLocalJwt(token.jwt, Authority.env), at |-> now, file |-> devVars,
                    jwt |-> token.jwt]
    /\ UNCHANGED <<scene, devVars, worker, boot, db, seeded, token, now>>

(***************************************************************************)
(* The Worker: the request path's own verification under the file it       *)
(* loaded, and the identity and membership lookup.                         *)
(***************************************************************************)
Presented(t) ==
    [form |-> "HS256", signed |-> t.key = worker.secret,
     claims |-> [sub |-> t.sub, email |-> TRUE, exp |-> t.exp, nbf |-> now,
                 iss |-> t.realm = worker.realm, aud |-> t.realm = worker.realm]]

Authenticated(t) == jwtIdentity(Presented(t), [issuer |-> TRUE, audience |-> TRUE], now)

Served(t) ==
    /\ worker # None
    /\ Authenticated(t) \in db.identities \cap db.members \cap DOMAIN db.users
    /\ db.tenant = {"tenant", "registry"}

StartWorker ==
    /\ worker # devVars
    /\ devVars.secret \notin {Unset, "short"}
    /\ worker' = devVars
    /\ UNCHANGED <<scene, devVars, boot, db, seeded, token, verified, now>>

Edit ==
    /\ scene.edits > 0
    /\ scene' = [scene EXCEPT !.edits = @ - 1]
    /\ devVars' \in Files \ {devVars}
    /\ UNCHANGED <<worker, boot, db, seeded, token, verified, now>>

Tick ==
    /\ now < scene.maxNow
    /\ now' = now + 1
    /\ UNCHANGED <<scene, devVars, worker, boot, db, seeded, token, verified>>

Init ==
    /\ scene \in Scenes
    /\ devVars = scene.file
    /\ worker = None
    /\ boot = NoBoot
    /\ db = [tenant |-> {}, users |-> <<>>, members |-> {}, identities |-> {}]
    /\ seeded = <<>>
    /\ token = None
    /\ verified = None
    /\ now = 0

Next == BootstrapPlan \/ Seed \/ Return \/ Kill \/ Generate \/ Verify \/ StartWorker \/ Edit \/ Tick

Spec == Init /\ [][Next]_vars

(***************************************************************************)
(* Properties.                                                             *)
(***************************************************************************)
\* A token issued from the file the Worker runs on, whose subject that file
\* or an earlier one seeded, is served until it expires, whatever the shell
\* holds and whatever was seeded since (resolveLocalJwtAuthority: "can never
\* silently diverge").
IssuedTokensAreServed ==
    /\ token # None
    /\ ~scene.override
    /\ worker = token.file
    /\ \E i \in DOMAIN seeded : seeded[i].subject = token.file.subject
    /\ now < token.jwt.exp
    => Served(token.jwt)

\* What auth:jwt:verify-local accepts, a Worker on the same file accepts in
\* the same second: the two verifiers are separate code (verifyLocalJwt,
\* jwtAuthAdapter.verifyJwt).
VerifiersAgree ==
    /\ verified # None
    /\ ~scene.override
    /\ worker = verified.file
    /\ now = verified.at
    => (verified.ok <=> Authenticated(verified.jwt) = verified.file.subject /\ verified.jwt.email = verified.file.email)

FailsOnNews ==
    boot.pc = "seeding" /\ boot'.pc = "failed" /\ seeded # <<>> => boot.env # seeded[Len(seeded)]

\* Seeding the values of the last successful run again does not fail, also
\* when another run was killed half-way in between
\* (buildIdempotentBootstrapSql).
ReseedingSucceeds == [][FailsOnNews]_vars

=============================================================================
