--------------------------- MODULE RequestAdmission ---------------------------
(***************************************************************************)
(* What a route decides from a request before and after it knows who is    *)
(* calling: the mutation guard on the headers, the bounded body reader,    *)
(* the server-owned-field check, the method classifier and the roles.      *)
(***************************************************************************)
EXTENDS Naturals, Sequences, FiniteSets

(***************************************************************************)
(* The request-scoped runtime configuration and the header-only admission  *)
(* of a request: what app/lib/runtime and the HTTP guards of               *)
(* app/lib/security compute from the environment and from the headers.     *)
(*                                                                         *)
(* An environment variable is one of the values the code tells apart:      *)
(* Unset, the literals "true" and "false", or a value the code rejects.   *)
(* A D1 binding is TRUE when it has a callable `prepare`.                  *)
(***************************************************************************)
Unset == "absent"

\* The development and fallback flags a Cloudflare environment must not set.
DevFlags == {"ALLOW_DEV_SESSION", "ALLOW_DEV_WORKSPACE_BOOTSTRAP",
             "ALLOW_DEV_CONTROLLESS_SESSION"}

ForbiddenProductionCapabilities ==
    <<"ALLOW_LEGACY_INGEST_FALLBACK", "ALLOW_MOCK_LLM", "ALLOW_IN_MEMORY_PERSISTENCE",
      "ALLOW_IN_MEMORY_APPROVAL_STORE", "ALLOW_DEV_SESSION",
      "ALLOW_DEV_WORKSPACE_BOOTSTRAP", "ALLOW_DEV_CONTROLLESS_SESSION">>

\* parseBoolLiteral returns null for anything but the two exact literals.
parseBoolLiteral(v) == CASE v \in {Unset, "false"} -> "false"
                         [] v = "true" -> "true"
                         [] OTHER -> "malformed"

Failed(error) == [ok |-> FALSE, error |-> error]

(***************************************************************************)
(* Trusted origins.  An entry is [origin, exact]: the origin new URL(entry) *)
(* yields ("none" when it does not parse or is opaque) and whether the     *)
(* entry is spelled exactly as that origin, with no wildcard or blank.     *)
(***************************************************************************)
LocalDefaultTrustedOrigin == [scheme |-> "http", host |-> "localhost", port |-> 3000]

parseTrustedOrigins(raw, requireConfigured) ==
    IF raw = <<>>
    THEN IF requireConfigured THEN Failed("malformed_trusted_origins")
         ELSE [ok |-> TRUE, value |-> {LocalDefaultTrustedOrigin}]
    ELSE IF \A i \in DOMAIN raw : raw[i].exact
         THEN [ok |-> TRUE, value |-> {raw[i].origin : i \in DOMAIN raw}]
         ELSE Failed("malformed_trusted_origins")

(***************************************************************************)
(* The two projections of an environment.                                  *)
(***************************************************************************)
\* The JWT settings are kept only when they are strong enough to verify with.
jwtUsable(jwt, strict) ==
    IF strict THEN jwt.secret = "strong" /\ jwt.issuer /\ jwt.audience
              ELSE jwt.secret \in {"weak", "strong"}

JwtConfig(adapter, jwt, strict) ==
    [usable |-> adapter = "jwt" /\ jwtUsable(jwt, strict),
     issuer |-> jwt.issuer, audience |-> jwt.audience]

Runtime(source, mode, controlDb, tenantDb, adapter, isProduction, jwt, flags, origins) ==
    [ok |-> TRUE, source |-> source, mode |-> mode, controlDb |-> controlDb,
     tenantDb |-> tenantDb, adapter |-> adapter, isProduction |-> isProduction,
     jwt |-> jwt, flags |-> flags, origins |-> origins]

\* The checks run in this order and the first one that fails is reported.
cloudflareError(raw) ==
    LET flag(i) == parseBoolLiteral(raw.flags[ForbiddenProductionCapabilities[i]])
        offending == {i \in DOMAIN ForbiddenProductionCapabilities : flag(i) # "false"}
        first == CHOOSE i \in offending : \A j \in offending : i <= j
    IN IF ~raw.CONTROL_DB THEN "missing_control_db"
       ELSE IF ~raw.TENANT_DB_DEFAULT THEN "missing_tenant_db"
       ELSE IF raw.PERSISTENCE_MODE \notin {Unset, "d1"} THEN "malformed_persistence_mode"
       ELSE IF parseBoolLiteral(raw.EXTERNAL_ACTIONS_ENABLED) = "malformed" THEN "malformed_var"
       ELSE IF offending # {}
            THEN IF flag(first) = "malformed" THEN "malformed_var"
                 ELSE IF ForbiddenProductionCapabilities[first] \in DevFlags
                      THEN "dev_flag_forbidden" ELSE "forbidden_capability"
       ELSE IF raw.AUTH_ADAPTER = "dev" THEN "dev_adapter_forbidden"
       ELSE IF raw.AUTH_ADAPTER \notin {Unset, "none", "jwt"} THEN "malformed_var"
       ELSE IF raw.AUTH_ADAPTER = "jwt" /\ raw.JWT.secret = "overlong" THEN "malformed_var"
       ELSE IF raw.LLM = "overlong" THEN "malformed_var"
       ELSE "none"

resolveCloudflareConfig(raw) ==
    LET origins == parseTrustedOrigins(raw.ALLOWED_ORIGINS, TRUE)
        adapter == IF raw.AUTH_ADAPTER = "jwt" THEN "jwt" ELSE "none"
    IN IF cloudflareError(raw) # "none" THEN Failed(cloudflareError(raw))
       ELSE IF ~origins.ok THEN origins
       ELSE Runtime("cloudflare", "d1", TRUE, TRUE, adapter, TRUE,
                    JwtConfig(adapter, raw.JWT, TRUE),
                    IF raw.EXTERNAL_ACTIONS_ENABLED = "true"
                    THEN {"EXTERNAL_ACTIONS_ENABLED"} ELSE {},
                    origins.value)

\* injected is the D1 environment of a local test or wrangler session.
resolveLocalConfig(env, injected) ==
    LET isProduction == env.NODE_ENV = "production"
        on(flag) == env.flags[flag] = "true"
        mode == IF env.PERSISTENCE_MODE = "d1" THEN "d1"
                ELSE IF ~isProduction /\ on("ALLOW_IN_MEMORY_PERSISTENCE") THEN "in_memory"
                ELSE "disabled"
        adapter == CASE env.AUTH_ADAPTER = "jwt" -> "jwt"
                     [] env.AUTH_ADAPTER = "dev" /\ ~isProduction -> "dev"
                     [] OTHER -> "none"
        configured == IF injected.ALLOWED_ORIGINS # <<>> THEN injected.ALLOWED_ORIGINS
                                                         ELSE env.ALLOWED_ORIGINS
        origins == parseTrustedOrigins(configured, FALSE)
        devOnly == DevFlags \cup {"ALLOW_MOCK_LLM"}
        granted == {f \in devOnly : ~isProduction /\ on(f)}
                     \cup {f \in {"ALLOW_LEGACY_INGEST_FALLBACK"} : on(f)}
                     \cup IF env.EXTERNAL_ACTIONS_ENABLED = "true"
                          THEN {"EXTERNAL_ACTIONS_ENABLED"} ELSE {}
    IN IF ~origins.ok THEN origins
       ELSE Runtime("local", mode, injected.CONTROL_DB, injected.TENANT_DB_DEFAULT,
                    adapter, isProduction,
                    JwtConfig(adapter, env.JWT, isProduction), granted,
                    origins.value)

\* getCloudflareContext yields the env of a genuine request context or nothing.
NoInjection == [CONTROL_DB |-> FALSE, TENANT_DB_DEFAULT |-> FALSE, ALLOWED_ORIGINS |-> <<>>]

\* A genuine Cloudflare context outranks an injected one, which outranks
\* the process environment.  host is [cloudflare, injected, production, process].
resolveValidatedRequestRuntimeConfig(host) ==
    CASE host.cloudflare.present -> resolveCloudflareConfig(host.cloudflare.env)
      [] ~host.cloudflare.present /\ host.injected.present ->
            IF host.injected.production THEN resolveCloudflareConfig(host.injected.env)
            ELSE resolveLocalConfig(host.process, host.injected.env)
      [] OTHER -> resolveLocalConfig(host.process, NoInjection)

\* Generated data may stand in for a persistence failure only here.
canUseLocalPersistenceFallback(host, rt) ==
    /\ rt.source = "local"
    /\ ~rt.isProduction
    /\ rt.adapter = "dev"
    /\ "ALLOW_DEV_SESSION" \in rt.flags
    /\ ~host.cloudflare.present

\* The auth adapter a request verifies with, chosen by the composition root.
resolveAuthAdapter(rt) ==
    CASE rt.adapter = "jwt" -> "jwt"
      [] rt.adapter = "dev" /\ ~rt.isProduction /\ "ALLOW_DEV_SESSION" \in rt.flags -> "dev"
      [] OTHER -> "noop"

-----------------------------------------------------------------------------
(***************************************************************************)
(* Hosts and origins.  A port of 0 stands for a port that is not written;  *)
(* a URL parser drops the default port of the scheme it parses with.       *)
(***************************************************************************)
DefaultPort(scheme) == IF scheme = "https" THEN 443 ELSE 80

urlHost(scheme, host, port) ==
    [host |-> host, port |-> IF port = DefaultPort(scheme) THEN 0 ELSE port]

\* The Host header carries no scheme and is parsed as an http authority.
parseHost(header) == urlHost("http", header.host, header.port)

resolveTrustedTargetHosts(origins) ==
    {urlHost(o.scheme, o.host, o.port) : o \in origins}

normalizeOrigin(o) == [scheme |-> o.scheme, at |-> urlHost(o.scheme, o.host, o.port)]

\* An absent header and one that does not parse have no host to compare.
NoHeader == [scheme |-> "none", host |-> "none", port |-> 0]

Malformed == [scheme |-> "malformed", host |-> "none", port |-> 0]

\* Origin decides alone when it is present; Referer only when it is not.  The
\* opaque origin "null" is Malformed here: it is refused on the same ground.
validateCsrfOrigin(h, origins) ==
    LET candidate == IF h.origin # NoHeader THEN h.origin ELSE h.referer
    IN IF candidate = NoHeader THEN "csrf_failed"
       ELSE IF \E o \in origins : normalizeOrigin(o) = normalizeOrigin(candidate)
       THEN "ok"
       ELSE "invalid_origin"

\* Exactly application/json, and utf-8 as the only parameter.
isAcceptedJsonContentType(ct) ==
    /\ ct.essence = "application/json"
    /\ \A p \in ct.params : p = [name |-> "charset", value |-> "utf-8"]

\* Steps 1 to 6 of the executable order; the first failure is the answer.
checkMutationRequestIntegrity(h, origins) ==
    LET csrf == validateCsrfOrigin(h, origins)
    IN IF h.method # "POST" THEN "method_not_allowed"
       ELSE IF h.host \in {NoHeader, Malformed} THEN "host_missing"
       ELSE IF parseHost(h.host) \notin resolveTrustedTargetHosts(origins)
            THEN "host_untrusted"
       ELSE IF csrf = "csrf_failed" THEN "origin_missing"
       ELSE IF csrf = "invalid_origin" THEN "origin_untrusted"
       ELSE IF h.declared = "over" THEN "body_size_precheck"
       ELSE IF ~isAcceptedJsonContentType(h.contentType) THEN "content_type_invalid"
       ELSE "ok"

(***************************************************************************)
(* The body.  bytes is "over" when the stream exceeds the limit, json says *)
(* whether it decodes and parses to a plain object within the structural   *)
(* limits, keys are its keys as written.                                   *)
(***************************************************************************)
readBoundedJsonObject(h, body) ==
    IF h.declared = "over" \/ body.bytes = "over" THEN "payload_too_large"
    ELSE IF body.bytes = "empty" \/ body.json = "invalid" THEN "invalid_json"
    ELSE IF body.json = "unsafe" THEN "invalid_structure"
    ELSE "ok"

\* Keys are compared in lower case; lower maps a key to its lower-case form.
hasClientOwnedFields(keys, lower, owned) == \E k \in keys : lower[k] \in owned

(***************************************************************************)
(* Bearer tokens.  A token has a form ("none", "malformed", or its alg),   *)
(* a signature that does or does not verify under the configured secret,   *)
(* and claims; an issuer or audience that is not configured is not asked   *)
(* for.                                                                    *)
(***************************************************************************)
claimsAreValid(claims, jwt, now) ==
    /\ now < claims.exp
    /\ now >= claims.nbf
    /\ jwt.issuer => claims.iss
    /\ jwt.audience => claims.aud

verifyJwt(token, jwt, now) ==
    /\ token.form = "HS256"
    /\ token.signed
    /\ claimsAreValid(token.claims, jwt, now)

\* The subject a bearer token proves, or "none".
jwtIdentity(token, jwt, now) ==
    IF verifyJwt(token, jwt, now) /\ token.claims.email THEN token.claims.sub ELSE "none"

(***************************************************************************)
(* Methods, roles and permissions.                                         *)
(***************************************************************************)
classifyRequestMethod(method) ==
    CASE method \in {"GET", "HEAD", "OPTIONS"} -> "safe"
      [] method \in {"POST", "PUT", "PATCH", "DELETE"} -> "unsafe"
      [] OTHER -> "unknown"

mayCarryDurableSessionWriteCapability(method) == classifyRequestMethod(method) = "unsafe"

normalizeRoleInput(role) ==
    CASE role = "admin" -> "manager"
      [] role \in {"pm", "member"} -> "editor"
      [] role \in {"owner", "manager", "editor", "viewer"} -> role
      [] OTHER -> "invalid"

DefaultRolePermissions(role) ==
    {"workunit.read", "integration.read"}
      \cup (IF role = "viewer" THEN {} ELSE
              {"workunit.create", "workunit.edit", "workunit.review",
               "workunit.create_action_preview", "workunit.approve_external_action"})
      \cup (IF role \in {"owner", "manager"} THEN {"integration.manage", "audit.read"} ELSE {})
      \cup (IF role = "owner" THEN {"workunit.execute_external_action", "tenant.manage"} ELSE {})

hasPermission(role, permission) == permission \in DefaultRolePermissions(role)

canRefreshWorkUnitInbox(role) ==
    hasPermission(role, "workunit.create") /\ hasPermission(role, "workunit.edit")

canCreateFeedback(role) == hasPermission(role, "workunit.edit")

canViewInbox(role) == hasPermission(role, "workunit.read")

canViewAudit(role) == hasPermission(role, "audit.read") \/ role \in {"owner", "manager"}

canViewIntegrationStatus(role) == hasPermission(role, "integration.read")

canCreatePreview(role) == hasPermission(role, "workunit.create_action_preview")

=============================================================================
