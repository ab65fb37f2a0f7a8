------------------------- MODULE RuntimeEligibility -------------------------
(***************************************************************************)
(* The pure policy layer of runtime authorization                          *)
(* (app/lib/phase6/approvalLinkage, app/lib/phase6/runtimeAuthorization):  *)
(* how the verifier turns the issues of an approval chain into one linkage *)
(* state, and how the evaluator turns that state, the executor and the     *)
(* expiries into "eligible" or into one reason for refusal.                *)
(*                                                                         *)
(* An evidence bundle is a record                                          *)
(*   content            target and payload hash of the intended action     *)
(*   approver           linkage.approver_id                                *)
(*   flaws              classes of the non-temporal issues of the chain    *)
(*   previewExpiresAt, approvalExpiresAt, reviewExpiresAt                  *)
(* Timestamps are natural numbers.                                         *)
(***************************************************************************)
EXTENDS Naturals

CONSTANT MAX_AUTHORIZATION_TTL   \* types.ts: MAX_AUTHORIZATION_TTL_MS

ASSUME AuthorizationTtlAssumption == MAX_AUTHORIZATION_TTL \in Nat

(***************************************************************************)
(* Issue classes the verifier tells apart.  "hash_mismatch" is an issue of *)
(* the linkage record itself; "unreadable" a Human Decision at which the   *)
(* evaluation of the chain stops early; "mismatch" every other source,     *)
(* identity or timeline issue.  Outside the linkage, "decision" is a Human *)
(* Decision that fails the runtime matrix, "envelope" an intended action   *)
(* that differs from the request and "binding" one that differs from the   *)
(* verified linkage.                                                       *)
(***************************************************************************)
LinkageFlaws == {"hash_mismatch", "replayed", "used", "revoked", "unreadable", "mismatch"}

Flaws == LinkageFlaws \cup {"decision", "envelope", "binding"}

EligibilityStates == {"eligible", "invalid", "replayed", "used", "revoked",
                      "expired", "stale", "not_ready", "forbidden"}

MinIso(a, b) == IF a <= b THEN a ELSE b

(* A bundle's linkage expires with the first of its three sources. *)
LinkageExpiresAt(b) ==
  MinIso(MinIso(b.reviewExpiresAt, b.previewExpiresAt), b.approvalExpiresAt)

(***************************************************************************)
(* evaluateApprovalChain at time t: the issue classes of the whole chain.  *)
(* Only linkage-level revocation and replay are recorded before an         *)
(* unreadable Human Decision ends the evaluation.                          *)
(***************************************************************************)
ChainIssues(b, t) ==
  IF "unreadable" \in b.flaws
  THEN b.flaws \cap {"hash_mismatch", "replayed", "revoked", "unreadable"}
  ELSE (b.flaws \cap LinkageFlaws) \cup
       (IF \/ t >= b.previewExpiresAt
           \/ t >= b.approvalExpiresAt
           \/ t >= b.reviewExpiresAt
           \/ t >= LinkageExpiresAt(b)
        THEN {"expired"} ELSE {})

(* verifyApprovalLinkage: the fixed precedence of the issue classes. *)
LinkageState(issues) ==
  IF "hash_mismatch" \in issues THEN "invalid"
  ELSE IF "replayed" \in issues THEN "replayed"
  ELSE IF "used" \in issues THEN "used"
  ELSE IF "revoked" \in issues THEN "revoked"
  ELSE IF "expired" \in issues THEN "expired"
  ELSE IF issues # {} THEN "stale"
  ELSE "verified"

(* Mutant: the sources' expiries are left out of the receipt's expiry. *)
AuthorizationExpiryCeilingOnly(b, sessionExpiresAt, t) ==
  MinIso(sessionExpiresAt, t + MAX_AUTHORIZATION_TTL)

(* The receipt may not outlive any of its sources, nor the TTL ceiling. *)
AuthorizationExpiry(b, sessionExpiresAt, t) ==
  MinIso(MinIso(MinIso(MinIso(LinkageExpiresAt(b), b.previewExpiresAt),
                       b.approvalExpiresAt),
                sessionExpiresAt),
         t + MAX_AUTHORIZATION_TTL)

(* Mutant: the executor is not compared with the approver. *)
EligibilityOfAnyExecutor(b, executor, sessionExpiresAt, t) ==
  IF "envelope" \in b.flaws \/ LinkageState(ChainIssues(b, t)) # "verified" THEN "stale"
  ELSE IF t >= sessionExpiresAt THEN "forbidden"
  ELSE IF {"decision", "binding"} \cap b.flaws # {} THEN "not_ready"
  ELSE IF t >= AuthorizationExpiry(b, sessionExpiresAt, t) THEN "expired"
  ELSE "eligible"

(***************************************************************************)
(* evaluateResolvedRuntimeAuthorization: the first refusal in code order.  *)
(* The gate compares the envelope with the request and builds the executor *)
(* identity (refused once the session has expired) before the evaluator    *)
(* looks at linkage, human decision, executor and bounded expiry.          *)
(***************************************************************************)
Eligibility(b, executor, sessionExpiresAt, t) ==
  LET linkage == LinkageState(ChainIssues(b, t)) IN
  IF "envelope" \in b.flaws THEN "stale"
  ELSE IF t >= sessionExpiresAt THEN "forbidden"
  ELSE IF linkage # "verified" THEN linkage
  ELSE IF "decision" \in b.flaws THEN "not_ready"
  ELSE IF "binding" \in b.flaws THEN "stale"
  ELSE IF executor = b.approver THEN "forbidden"
  ELSE IF t >= AuthorizationExpiry(b, sessionExpiresAt, t) THEN "expired"
  ELSE "eligible"
=============================================================================
