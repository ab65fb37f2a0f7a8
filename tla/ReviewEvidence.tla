---------------------------- MODULE ReviewEvidence ----------------------------
(***************************************************************************)
(* Four-eyes review (app/lib/phase6/reviewEvidence): two reviewers attest  *)
(* what they reviewed, two attestations make one evidence record, and a    *)
(* verifier checks it against the current context.                         *)
(*                                                                         *)
(* A hash is the pair of the word "hash" and what was hashed, so two       *)
(* hashes are equal when their contents are; anything else is malformed.   *)
(* A Human Decision is a record with its id, its tenant, its content and   *)
(* whether validateHumanDecisionRecord accepts it (PersistenceRecords      *)
(* models that validator).  Attestation ids are compared as text: they are *)
(* numbers here, 0 for one that is missing.                                *)
(***************************************************************************)
EXTENDS Integers, FiniteSets, Sequences

(***************************************************************************)
(* Who somebody is (app/lib/phase6/canonicalIdentity): an identity is      *)
(* derived from a live authenticated session or from the creator stored    *)
(* with an action preview, never from what a caller says.                  *)
(*                                                                         *)
(* A JavaScript object is a record, with the keys outside its type in the  *)
(* field "extra" and "" for a field that is missing or not a usable        *)
(* string; NotAnObject is a value that is no object at all.  Timestamps      *)
(* are natural numbers (IsoTime models their text), NoTime a malformed     *)
(* one.  Issues are sets of codes: every rule reports its own, and no      *)
(* reader looks at their order.                                            *)
(***************************************************************************)
NotAnObject == [undefined |-> TRUE]

NoTime == -1

isIsoUtcTimestamp(t) == t >= 0

When(condition, code) == IF condition THEN {code} ELSE {}

CANONICAL_ACTOR_KINDS == {"requester", "creator", "reviewer", "approver", "executor"}

SESSION_DERIVABLE_ACTOR_KINDS == CANONICAL_ACTOR_KINDS \ {"creator"}

CANONICAL_IDENTITY_SOURCES == {"authenticated_session", "stored_action_preview_creator"}

\* One name for each group of marker fields.
DELEGATION_MARKER_FIELDS == {"on_behalf_of"}

SERVICE_ACCOUNT_MARKER_FIELDS == {"isServiceAccount"}

collectUnsupportedIdentityMarkerIssues(extra) ==
    When(extra \cap DELEGATION_MARKER_FIELDS # {}, "delegation_not_supported")
    \cup When(extra \cap SERVICE_ACCOUNT_MARKER_FIELDS # {}, "identity_subject_unsupported")

\* Markers have codes of their own; every other key is unknown.
UnknownKeyIssues(extra) ==
    collectUnsupportedIdentityMarkerIssues(extra)
    \cup When(extra \ (DELEGATION_MARKER_FIELDS \cup SERVICE_ACCOUNT_MARKER_FIELDS) # {},
              "invalid_identity_input")

(***************************************************************************)
(* The structural validator every reader of an identity runs again.        *)
(***************************************************************************)
validateCanonicalIdentity(i) ==
    IF i = NotAnObject THEN {"invalid_identity_input"}
    ELSE UnknownKeyIssues(i.extra)
         \cup When("" \in {i.tenant_id, i.user_id, i.source_record_id}, "identity_state_missing")
         \cup When(i.actor_kind \notin CANONICAL_ACTOR_KINDS, "identity_actor_kind_mismatch")
         \cup When(\/ i.identity_source \notin CANONICAL_IDENTITY_SOURCES
                   \/ /\ i.actor_kind \in CANONICAL_ACTOR_KINDS
                      /\ (i.actor_kind = "creator") # (i.identity_source = "stored_action_preview_creator"),
                   "identity_source_untrusted")
         \cup When(i.subject_type # "human_user", "identity_subject_unsupported")
         \cup When(~isIsoUtcTimestamp(i.observed_at), "invalid_identity_input")

isSameCanonicalUser(a, b) == a.tenant_id = b.tenant_id /\ a.user_id = b.user_id

produceCanonicalIdentity(tenant, user, kind, source, record, at) ==
    LET candidate == [tenant_id |-> tenant, user_id |-> user, actor_kind |-> kind,
                      identity_source |-> source, source_record_id |-> record,
                      observed_at |-> at, subject_type |-> "human_user", extra |-> {}]
    IN IF validateCanonicalIdentity(candidate) = {} THEN candidate ELSE NotAnObject

(***************************************************************************)
(* createCanonicalSessionIdentity.  The input names the position, the      *)
(* tenant the caller believes to be in and the time, and nothing else.  A  *)
(* session that expires at the moment of observation has expired;          *)
(* isDevSession must be exactly false.                                     *)
(***************************************************************************)
SessionIssues(session, input) ==
    collectUnsupportedIdentityMarkerIssues(session.extra)
    \cup When("" \in {session.userId, session.tenantId, session.sessionId}
              \/ ~isIsoUtcTimestamp(session.expiresAt), "identity_state_missing")
    \cup When(/\ isIsoUtcTimestamp(session.expiresAt)
              /\ isIsoUtcTimestamp(input.observed_at)
              /\ input.observed_at >= session.expiresAt, "identity_session_expired")
    \cup When(session.isDevSession # "false", "identity_source_untrusted")
    \cup When(/\ "" \notin {input.expected_tenant_id, session.tenantId}
              /\ input.expected_tenant_id # session.tenantId, "identity_tenant_mismatch")

InputIssues(input) ==
    UnknownKeyIssues(input.extra)
    \cup When(input.expected_tenant_id = "", "identity_state_missing")
    \cup When(~isIsoUtcTimestamp(input.observed_at), "invalid_identity_input")

createCanonicalSessionIdentity(session, input) ==
    IF /\ InputIssues(input) = {}
       /\ input.actor_kind \in SESSION_DERIVABLE_ACTOR_KINDS
       /\ session # NotAnObject
       /\ SessionIssues(session, input) = {}
    THEN produceCanonicalIdentity(session.tenantId, session.userId, input.actor_kind,
                                  "authenticated_session", session.sessionId, input.observed_at)
    ELSE NotAnObject

(***************************************************************************)
(* createCanonicalPreviewCreatorIdentity: a stored row without a creator   *)
(* gives no identity.                                                      *)
(***************************************************************************)
PreviewIssues(preview, input) ==
    collectUnsupportedIdentityMarkerIssues(preview.extra)
    \cup When("" \in {preview.creatorUserId, preview.tenantId, preview.id, preview.workUnitId},
              "identity_state_missing")
    \cup When(/\ "" \notin {input.expected_tenant_id, preview.tenantId}
              /\ input.expected_tenant_id # preview.tenantId, "identity_tenant_mismatch")

createCanonicalPreviewCreatorIdentity(preview, input) ==
    IF InputIssues(input) = {} /\ preview # NotAnObject /\ PreviewIssues(preview, input) = {}
    THEN produceCanonicalIdentity(preview.tenantId, preview.creatorUserId, "creator",
                                  "stored_action_preview_creator", preview.id, input.observed_at)
    ELSE NotAnObject

-----------------------------------------------------------------------------
Hash(content) == <<"hash", content>>

isReviewPayloadHash(h) == Len(h) = 2

Redacted == "(invalid)"

validateHumanDecisionRecord(d) == d # NotAnObject /\ d.valid

(***************************************************************************)
(* Structural validators.                                                  *)
(***************************************************************************)
collectFieldIssues(r, identifiers, attestations, timestamps) ==
    When("grant" \in r.extra, "forbidden_grant_field_present")
    \cup When(r.extra \ {"grant"} # {}, "unknown_field")
    \cup When("" \in identifiers \/ 0 \in attestations, "invalid_identifier")
    \cup When(~isReviewPayloadHash(r.reviewed_payload_hash), "invalid_payload_hash")
    \cup When(\E t \in timestamps : ~isIsoUtcTimestamp(t), "invalid_timestamp")

validateReviewAttestation(a) ==
    IF a = NotAnObject THEN {"invalid_input"}
    ELSE collectFieldIssues(a, {a.tenant_id, a.reviewer_id, a.source_human_decision_id,
                                a.source_workunit_id},
                            {a.review_attestation_id}, {a.reviewed_at})

\* The reviews in order, ties broken by attestation id; completion after
\* both; expiry strictly after completion.
TimelineIssues(e) ==
    When(\/ e.first_reviewed_at > e.second_reviewed_at
         \/ /\ e.first_reviewed_at = e.second_reviewed_at
            /\ 0 \notin {e.first_review_attestation_id, e.second_review_attestation_id}
            /\ e.first_review_attestation_id > e.second_review_attestation_id
         \/ e.review_completed_at < e.second_reviewed_at
         \/ e.review_completed_at < e.first_reviewed_at
         \/ e.review_expires_at <= e.review_completed_at,
         "invalid_review_timeline")

validateFourEyesReviewEvidence(e) ==
    LET attestations == {e.first_review_attestation_id, e.second_review_attestation_id}
        reviewers == {e.first_reviewer_id, e.second_reviewer_id}
        times == {e.first_reviewed_at, e.second_reviewed_at, e.review_completed_at, e.review_expires_at}
    IN IF e = NotAnObject THEN {"invalid_input"}
       ELSE collectFieldIssues(e, reviewers \cup {e.review_evidence_id, e.tenant_id,
                                  e.source_human_decision_id, e.source_workunit_id},
                               attestations, times)
            \cup When(Cardinality(attestations) = 1 /\ 0 \notin attestations, "duplicate_review_attestation")
            \cup When(Cardinality(reviewers) = 1 /\ "" \notin reviewers, "duplicate_reviewer_identity")
            \cup (IF \A t \in times : isIsoUtcTimestamp(t) THEN TimelineIssues(e) ELSE {})

(***************************************************************************)
(* createReviewAttestation: tenant and reviewer come from the canonical    *)
(* identity and the decision's id from the decision; an input that even    *)
(* mentions one of them is refused, other unknown keys are not copied.     *)
(***************************************************************************)
ATTESTATION_SERVER_OWNED_FIELDS == {"tenant_id", "reviewer_id", "source_human_decision_id"}

collectReviewerIdentityIssues(reviewer) ==
    When(\/ validateCanonicalIdentity(reviewer) # {}
         \/ reviewer.actor_kind # "reviewer"
         \/ reviewer.identity_source # "authenticated_session"
         \/ reviewer.subject_type # "human_user",
         "invalid_reviewer_identity")

AttestationIssues(input, reviewer, decision) ==
    LET identity == collectReviewerIdentityIssues(reviewer)
        source == When(~validateHumanDecisionRecord(decision), "invalid_source_human_decision")
    IN When(input.extra \cap ATTESTATION_SERVER_OWNED_FIELDS # {}, "client_owned_identity_field")
       \cup identity \cup source
       \cup (IF identity \cup source = {}
             THEN When(reviewer.tenant_id # decision.tenant_id, "review_tenant_mismatch") ELSE {})

createReviewAttestation(input, reviewer, decision) ==
    LET artifact == [review_attestation_id |-> input.review_attestation_id,
                     source_workunit_id |-> input.source_workunit_id,
                     reviewed_payload_hash |-> input.reviewed_payload_hash,
                     reviewed_at |-> input.reviewed_at,
                     tenant_id |-> reviewer.tenant_id, reviewer_id |-> reviewer.user_id,
                     source_human_decision_id |-> decision.human_decision_id, extra |-> {}]
    IN IF AttestationIssues(input, reviewer, decision) # {} THEN NotAnObject
       ELSE IF validateReviewAttestation(artifact) # {} THEN NotAnObject
       ELSE artifact

(***************************************************************************)
(* createFourEyesReviewEvidence: everything but the evidence's own id and  *)
(* its times is taken from the two attestations.                           *)
(***************************************************************************)
EVIDENCE_SERVER_OWNED_FIELDS ==
    {"tenant_id", "source_human_decision_id", "source_workunit_id", "reviewed_payload_hash",
     "first_review_attestation_id", "second_review_attestation_id",
     "first_reviewer_id", "second_reviewer_id", "first_reviewed_at", "second_reviewed_at"}

\* Mutant: the attestations are not compared with each other.
BindingIssuesOfFirst(first, second, decision) ==
    When(first.review_attestation_id = second.review_attestation_id, "duplicate_review_attestation")
    \cup When(first.reviewer_id = second.reviewer_id, "duplicate_reviewer_identity")
    \cup When(decision.tenant_id # first.tenant_id, "review_tenant_mismatch")

BindingIssues(first, second, decision) ==
    When(first.review_attestation_id = second.review_attestation_id, "duplicate_review_attestation")
    \cup When(first.reviewer_id = second.reviewer_id, "duplicate_reviewer_identity")
    \cup When({first.tenant_id, second.tenant_id} # {decision.tenant_id}, "review_tenant_mismatch")
    \cup When({first.source_human_decision_id, second.source_human_decision_id}
                # {decision.human_decision_id}, "review_source_human_decision_mismatch")
    \cup When(first.source_workunit_id # second.source_workunit_id, "review_source_workunit_mismatch")
    \cup When(first.reviewed_payload_hash # second.reviewed_payload_hash, "review_payload_hash_mismatch")

createFourEyesReviewEvidence(input, first, second, decision) ==
    LET artifact == [review_evidence_id |-> input.review_evidence_id,
                     review_completed_at |-> input.review_completed_at,
                     review_expires_at |-> input.review_expires_at,
                     tenant_id |-> first.tenant_id,
                     source_human_decision_id |-> first.source_human_decision_id,
                     source_workunit_id |-> first.source_workunit_id,
                     reviewed_payload_hash |-> first.reviewed_payload_hash,
                     first_review_attestation_id |-> first.review_attestation_id,
                     second_review_attestation_id |-> second.review_attestation_id,
                     first_reviewer_id |-> first.reviewer_id, second_reviewer_id |-> second.reviewer_id,
                     first_reviewed_at |-> first.reviewed_at, second_reviewed_at |-> second.reviewed_at,
                     extra |-> {}]
    IN IF \/ input.extra \cap EVIDENCE_SERVER_OWNED_FIELDS # {}
          \/ validateReviewAttestation(first) # {}
          \/ validateReviewAttestation(second) # {}
          \/ ~validateHumanDecisionRecord(decision) THEN NotAnObject
       ELSE IF BindingIssues(first, second, decision) # {} THEN NotAnObject
       ELSE IF validateFourEyesReviewEvidence(artifact) # {} THEN NotAnObject
       ELSE artifact

(***************************************************************************)
(* verifyFourEyesReviewEvidence: the context, then the structure, then     *)
(* binding, expiry (inclusive), revocation and replay together.            *)
(***************************************************************************)
ContextIssues(context) ==
    When(\/ context = NotAnObject
         \/ "" \in {context.tenant_id, context.human_decision_id, context.workunit_id}
         \/ ~isReviewPayloadHash(context.current_payload_hash)
         \/ ~isIsoUtcTimestamp(context.evaluated_at),
         "review_evidence_state_missing")

verifyFourEyesReviewEvidence(e, context) ==
    IF ContextIssues(context) # {} THEN ContextIssues(context)
    ELSE IF validateFourEyesReviewEvidence(e) # {} THEN validateFourEyesReviewEvidence(e)
    ELSE When(e.tenant_id # context.tenant_id, "review_tenant_mismatch")
         \cup When(e.source_human_decision_id # context.human_decision_id,
                   "review_source_human_decision_mismatch")
         \cup When(e.source_workunit_id # context.workunit_id, "review_source_workunit_mismatch")
         \cup When(e.reviewed_payload_hash # context.current_payload_hash, "review_payload_hash_mismatch")
         \cup When(context.evaluated_at >= e.review_expires_at, "review_evidence_expired")
         \cup When(e.review_evidence_id \in context.revoked_review_evidence_ids, "review_evidence_revoked")
         \cup When(e.review_evidence_id \in context.consumed_review_evidence_ids, "review_evidence_replayed")

(***************************************************************************)
(* createReviewEvidenceAuditEvent verifies again itself, and shows the     *)
(* evidence's ids only when the evidence is well formed.                   *)
(***************************************************************************)
createReviewEvidenceAuditEvent(e, context) ==
    LET issues == verifyFourEyesReviewEvidence(e, context)
        shown == validateFourEyesReviewEvidence(e) = {}
    IN [event_kind |-> IF issues = {} THEN "four_eyes_review_evidence_verified" ELSE "four_eyes_review_evidence_rejected",
        id |-> IF shown THEN e.review_evidence_id ELSE Redacted,
        ok |-> issues = {}, issue_codes |-> issues,
        evaluated_at |-> IF context # NotAnObject /\ isIsoUtcTimestamp(context.evaluated_at)
                         THEN context.evaluated_at ELSE NoTime]

=============================================================================
