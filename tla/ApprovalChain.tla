----------------------------- MODULE ApprovalChain -----------------------------
(***************************************************************************)
(* An approval chain over time: people with sessions review the action of  *)
(* a preview and approve it, evidence is combined and linked, and          *)
(* meanwhile the sources change, ids are revoked and consumed and the      *)
(* clock moves.  The constructors and verifiers are pure; the server that  *)
(* would call them is the environment, and takes identities from sessions  *)
(* and the time from its clock.                                            *)
(*                                                                         *)
(* Each linkage record is kept with the sources it was made from, so that  *)
(* later verdicts can be held against what was linked.                     *)
(***************************************************************************)
EXTENDS ReviewEvidence, TLAPS

-----------------------------------------------------------------------------
(***************************************************************************)
(* The approval linkage record (app/lib/phase6/approvalLinkage): one       *)
(* record that binds a Human Decision, its review evidence, the identities *)
(* around it, the action preview and the approval, built once and checked  *)
(* again against the current sources whenever it is used.                  *)
(*                                                                         *)
(* A context holds the tenant, the current sources, the input of the       *)
(* independence check and, for each of "review", "approval" and "linkage", *)
(* the ids revoked and consumed so far.  A preview's target and payload    *)
(* are what its JSON parses to, "" when it does not parse to an object.    *)
(***************************************************************************)

(***************************************************************************)
(* Independence of the actors around one decision                          *)
(* (app/lib/phase6/identityIndependence).  The input carries the Human     *)
(* Decision, the review evidence, an identity for each position (Undefined *)
(* for one that is not supplied) and the ids the caller expects.           *)
(***************************************************************************)
Position(kind, source, required) == [actorKind |-> kind, source |-> source, required |-> required]

IDENTITY_POSITIONS ==
    [requester_identity |-> Position("requester", "authenticated_session", TRUE),
     creator_identity |-> Position("creator", "stored_action_preview_creator", TRUE),
     first_reviewer_identity |-> Position("reviewer", "authenticated_session", TRUE),
     second_reviewer_identity |-> Position("reviewer", "authenticated_session", TRUE),
     approver_identity |-> Position("approver", "authenticated_session", TRUE),
     executor_identity |-> Position("executor", "authenticated_session", FALSE)]

\* Stage A: without the expected ids and a time nothing is evaluated.
EvaluationContextIssues(input) ==
    When(input.extra # {}, "invalid_identity_input")
    \cup When(\/ "" \in {input.expected_tenant_id, input.expected_human_decision_id,
                         input.expected_workunit_id, input.expected_action_preview_id}
              \/ ~isIsoUtcTimestamp(input.evaluated_at), "identity_state_missing")

\* Stage B: the artifacts and every supplied identity, validated again.
StructuralIssues(input) ==
    When(\/ ~validateHumanDecisionRecord(input.human_decision)
         \/ validateFourEyesReviewEvidence(input.review_evidence) # {}, "invalid_identity_input")
    \cup UNION { IF input.identities[p] = NotAnObject
                 THEN When(IDENTITY_POSITIONS[p].required, "identity_state_missing")
                 ELSE validateCanonicalIdentity(input.identities[p])
                 : p \in DOMAIN IDENTITY_POSITIONS }

\* Stage C: provenance of every position, and one chain of records.
ProvenanceIssues(input, p) ==
    LET identity == input.identities[p]
    IN IF identity = NotAnObject THEN {}
       ELSE When(identity.actor_kind # IDENTITY_POSITIONS[p].actorKind, "identity_actor_kind_mismatch")
            \cup When(identity.identity_source # IDENTITY_POSITIONS[p].source, "identity_source_untrusted")
            \cup When(identity.tenant_id # input.expected_tenant_id, "identity_tenant_mismatch")

RecordIssues(input) ==
    LET decision == input.human_decision
        evidence == input.review_evidence
        who == input.identities
    IN When({decision.tenant_id, evidence.tenant_id} # {input.expected_tenant_id}, "identity_tenant_mismatch")
       \cup When(\/ decision.human_decision_id # input.expected_human_decision_id
                 \/ evidence.source_human_decision_id # input.expected_human_decision_id
                 \/ evidence.source_workunit_id # input.expected_workunit_id
                 \/ who.creator_identity.source_record_id # input.expected_action_preview_id
                 \/ evidence.first_reviewer_id # who.first_reviewer_identity.user_id
                 \/ evidence.second_reviewer_id # who.second_reviewer_identity.user_id,
                 "identity_evidence_mismatch")

\* Stage D: two different reviewers, and an approver who is none of the
\* others.  The executor is compared with nobody here.
IndependenceIssues(who) ==
    When(isSameCanonicalUser(who.first_reviewer_identity, who.second_reviewer_identity),
         "duplicate_reviewer_identity")
    \cup When(\E p \in {"requester_identity", "creator_identity", "first_reviewer_identity",
                        "second_reviewer_identity"} :
                 isSameCanonicalUser(who[p], who.approver_identity),
              "self_approval_forbidden")

verifyIdentityIndependence(input) ==
    IF input = NotAnObject THEN {"invalid_identity_input"}
    ELSE IF EvaluationContextIssues(input) # {} THEN EvaluationContextIssues(input)
    ELSE IF StructuralIssues(input) # {} THEN StructuralIssues(input)
    ELSE (UNION {ProvenanceIssues(input, p) : p \in DOMAIN IDENTITY_POSITIONS})
         \cup RecordIssues(input) \cup IndependenceIssues(input.identities)

createIdentityIndependenceAuditEvent(input) ==
    LET issues == verifyIdentityIndependence(input)
        id(value) == IF value = "" THEN Redacted ELSE value
    IN [event_kind |-> IF issues = {} THEN "identity_independence_verified"
                       ELSE IF "self_approval_forbidden" \in issues THEN "self_approval_forbidden"
                       ELSE "identity_independence_rejected",
        id |-> IF input = NotAnObject THEN Redacted ELSE id(input.expected_action_preview_id),
        ok |-> issues = {},
        issue_codes |-> IF input = NotAnObject THEN {"identity_validation_exception"} ELSE issues]

-----------------------------------------------------------------------------
CONSTANT APPROVAL_LINKAGE_ACTION_TYPES

(***************************************************************************)
(* The four hash domains.  The domain names keep the hashes of different   *)
(* things apart.                                                           *)
(***************************************************************************)
hashHumanDecisionSnapshot(snapshot) == Hash(<<"snapshot", snapshot>>)

hashApprovalReviewEnvelope(tenant, decision, preview) ==
    Hash(<<"envelope", tenant, decision.human_decision_id, hashHumanDecisionSnapshot(decision),
           preview.workUnitId, preview.id, preview.actionType,
           Hash(preview.target), Hash(preview.payload)>>)

\* Users, positions and sources; neither the session nor the time.
hashApprovalIdentityChain(tenant, who) ==
    Hash(<<"chain", tenant, who.creator_identity.source_record_id,
           [p \in DOMAIN IDENTITY_POSITIONS \ {"executor_identity"} |->
               <<who[p].user_id, who[p].identity_source, who[p].actor_kind>>]>>)

\* Everything but the hash itself.
LinkagePayload(record) ==
    [f \in DOMAIN record \ {"linkage_hash"} |-> record[f]]

hashApprovalLinkagePayload(record) == Hash(<<"linkage", LinkagePayload(record)>>)

(***************************************************************************)
(* evaluateApprovalChain, source by source, each with the issues it adds.  *)
(* A source that cannot be read ends the evaluation there.                 *)
(***************************************************************************)
minIso(a, b) == IF a <= b THEN a ELSE b

(***************************************************************************)
(* The context.  It is a record the server builds, with the fields of its  *)
(* type and with all six collections: the checks of a context that is not  *)
(* a record, of an unknown field and of a collection that cannot be read   *)
(* never fire.                                                             *)
(***************************************************************************)
\* Mutant: only the consumed ids are looked up.
StateIssuesConsumedOnly(context, linkageId) ==
    When(context.tenant_id = "" \/ ~isIsoUtcTimestamp(context.evaluated_at), "approval_linkage_state_missing")
    \cup When(linkageId # "" /\ linkageId \in context.consumed.linkage, "approval_linkage_replayed")

StateIssues(context, linkageId) ==
    When(context.tenant_id = "" \/ ~isIsoUtcTimestamp(context.evaluated_at), "approval_linkage_state_missing")
    \cup When(linkageId # "" /\ linkageId \in context.consumed.linkage, "approval_linkage_replayed")
    \cup When(linkageId # "" /\ linkageId \in context.revoked.linkage, "approval_linkage_revoked")

DecisionReadable(context) == validateHumanDecisionRecord(context.human_decision)

\* A missing tenant has an issue of its own.
OtherTenant(context, tenant) == context.tenant_id \notin {"", tenant}

DecisionIssues(context) ==
    When(OtherTenant(context, context.human_decision.tenant_id), "approval_linkage_tenant_mismatch")

PreviewReadable(preview) ==
    /\ preview # NotAnObject
    /\ "" \notin {preview.id, preview.tenantId, preview.workUnitId, preview.actionType,
                  preview.target, preview.payload}
    /\ isIsoUtcTimestamp(preview.createdAt) /\ isIsoUtcTimestamp(preview.expiresAt)

\* The stored hashes must be the hashes of the current content.
ActionPreviewIssues(context, preview) ==
    When(preview.targetHash # Hash(preview.target), "approval_linkage_target_hash_mismatch")
    \cup When(preview.payloadHash # Hash(preview.payload), "approval_linkage_payload_hash_mismatch")
    \cup When(preview.status # "preview" \/ ~preview.requiresApproval,
              "approval_linkage_action_preview_mismatch")
    \cup When(preview.creatorUserId = "", "approval_linkage_identity_mismatch")
    \cup When(preview.actionType \notin APPROVAL_LINKAGE_ACTION_TYPES, "approval_linkage_action_type_mismatch")
    \cup When(OtherTenant(context, preview.tenantId), "approval_linkage_tenant_mismatch")
    \cup When(context.evaluated_at >= preview.expiresAt, "approval_linkage_expired")

\* An approval nobody has approved yet has no approvedAt.
ApprovalReadable(approval) ==
    /\ approval # NotAnObject
    /\ approval.id # ""
    /\ \A t \in {approval.createdAt, approval.approvedAt, approval.expiresAt} : isIsoUtcTimestamp(t)

ApprovalIssues(context, preview, approval) ==
    When(approval.status # "approved", "approval_linkage_approval_record_mismatch")
    \cup When(approval.approvedByUserId = "", "approval_linkage_approver_mismatch")
    \cup When(\/ isIsoUtcTimestamp(approval.usedAt)
              \/ approval.status = "used"
              \/ approval.id \in context.consumed.approval, "approval_linkage_used")
    \cup When(OtherTenant(context, approval.tenantId), "approval_linkage_tenant_mismatch")
    \cup When(approval.workUnitId # preview.workUnitId, "approval_linkage_workunit_mismatch")
    \cup When(approval.actionPreviewId # preview.id, "approval_linkage_action_preview_mismatch")
    \cup When(approval.actionType # preview.actionType, "approval_linkage_action_type_mismatch")
    \cup When(approval.targetHash # Hash(preview.target), "approval_linkage_target_hash_mismatch")
    \cup When(approval.payloadHash # Hash(preview.payload), "approval_linkage_payload_hash_mismatch")
    \cup When(approval.id \in context.revoked.approval, "approval_linkage_revoked")
    \cup When(context.evaluated_at >= approval.expiresAt, "approval_linkage_expired")

\* The evidence must be of this very envelope; its verifier runs here.
ReviewContext(context, preview, envelopeHash) ==
    [tenant_id |-> context.tenant_id, human_decision_id |-> context.human_decision.human_decision_id,
     workunit_id |-> preview.workUnitId, current_payload_hash |-> envelopeHash,
     evaluated_at |-> context.evaluated_at,
     revoked_review_evidence_ids |-> context.revoked.review,
     consumed_review_evidence_ids |-> context.consumed.review]

LinkageCodeOfReview(code) ==
    IF code = "review_evidence_expired" THEN "approval_linkage_expired"
    ELSE IF code = "review_evidence_revoked" THEN "approval_linkage_revoked"
    ELSE IF code = "review_evidence_replayed" THEN "approval_linkage_replayed"
    ELSE "approval_linkage_review_evidence_mismatch"

ReviewIssues(context, preview, envelopeHash) ==
    When(context.review_evidence.reviewed_payload_hash # envelopeHash, "approval_linkage_review_envelope_mismatch")
    \cup {LinkageCodeOfReview(code) :
             code \in verifyFourEyesReviewEvidence(context.review_evidence,
                                                   ReviewContext(context, preview, envelopeHash))}

\* The nested artifacts must have the content of the outer ones, and the
\* independence check runs on the outer ones.
IdentitiesReadable(ii) ==
    /\ ii # NotAnObject
    /\ \A p \in DOMAIN IDENTITY_POSITIONS \ {"executor_identity"} :
          validateCanonicalIdentity(ii.identities[p]) = {}

IdentityIssues(context, preview, approval, ii) ==
    LET who == ii.identities
        verified == [ii EXCEPT !.human_decision = context.human_decision,
                               !.review_evidence = context.review_evidence,
                               !.extra = {}]
    IN When(\/ ii.extra # {}
            \/ ii.evaluated_at # context.evaluated_at
            \/ /\ who.executor_identity # NotAnObject
               /\ validateCanonicalIdentity(who.executor_identity) # {}
            \/ verifyIdentityIndependence(verified) # {}
            \/ who.creator_identity.user_id # preview.creatorUserId
            \/ who.creator_identity.source_record_id # preview.id,
            "approval_linkage_identity_mismatch")
       \cup When(\/ ii.human_decision # context.human_decision
                 \/ ii.expected_human_decision_id # context.human_decision.human_decision_id,
                 "approval_linkage_human_decision_mismatch")
       \cup When(ii.review_evidence # context.review_evidence, "approval_linkage_review_evidence_mismatch")
       \cup When(ii.expected_tenant_id # context.tenant_id, "approval_linkage_tenant_mismatch")
       \cup When(ii.expected_workunit_id # preview.workUnitId, "approval_linkage_workunit_mismatch")
       \cup When(ii.expected_action_preview_id # preview.id, "approval_linkage_action_preview_mismatch")
       \cup When(\/ who.approver_identity.user_id # approval.approvedByUserId
                 \/ who.approver_identity.identity_source # "authenticated_session",
                 "approval_linkage_approver_mismatch")

LinkageExpiry(evidence, preview, approval) ==
    minIso(minIso(evidence.review_expires_at, preview.expiresAt), approval.expiresAt)

TimelineOfChain(context, preview, approval, linkedAt) ==
    LET evidence == context.review_evidence
    IN When(\/ preview.createdAt >= preview.expiresAt
            \/ evidence.review_completed_at >= evidence.review_expires_at
            \/ approval.createdAt > approval.approvedAt
            \/ approval.approvedAt >= approval.expiresAt
            \/ linkedAt < evidence.review_completed_at
            \/ linkedAt < approval.approvedAt
            \/ \E t \in {evidence.review_expires_at, preview.expiresAt, approval.expiresAt} : linkedAt >= t,
            "approval_linkage_stale")
       \cup When(context.evaluated_at >= LinkageExpiry(evidence, preview, approval), "approval_linkage_expired")

(***************************************************************************)
(* The binding fields derived from the current sources.                    *)
(***************************************************************************)
Derived(context, preview, approval, ii) ==
    LET decision == context.human_decision
        evidence == context.review_evidence
    IN [tenant_id |-> context.tenant_id,
        human_decision_id |-> decision.human_decision_id,
        human_decision_hash |-> hashHumanDecisionSnapshot(decision),
        review_evidence_id |-> evidence.review_evidence_id,
        review_evidence_hash |-> hashHumanDecisionSnapshot(evidence),
        review_envelope_hash |-> hashApprovalReviewEnvelope(context.tenant_id, decision, preview),
        first_review_attestation_id |-> evidence.first_review_attestation_id,
        second_review_attestation_id |-> evidence.second_review_attestation_id,
        identity_chain_hash |-> hashApprovalIdentityChain(context.tenant_id, ii.identities),
        workunit_id |-> preview.workUnitId, action_preview_id |-> preview.id,
        approval_id |-> approval.id, action_type |-> preview.actionType,
        target_hash |-> Hash(preview.target), payload_hash |-> Hash(preview.payload),
        approver_id |-> approval.approvedByUserId,
        preview_created_at |-> preview.createdAt, preview_expires_at |-> preview.expiresAt,
        review_completed_at |-> evidence.review_completed_at,
        review_expires_at |-> evidence.review_expires_at,
        approval_created_at |-> approval.createdAt, approval_approved_at |-> approval.approvedAt,
        approval_expires_at |-> approval.expiresAt,
        linkage_expires_at |-> LinkageExpiry(evidence, preview, approval)]

NotDerived(issues) == [derived |-> NotAnObject, issues |-> issues]

evaluateApprovalChain(context, linkedAt, linkageId) ==
    LET preview == context.action_preview
        approval == context.approval_record
        ii == context.identity_input
        envelopeHash == hashApprovalReviewEnvelope(context.tenant_id, context.human_decision, preview)
        i1 == StateIssues(context, linkageId)
              \cup When(~isIsoUtcTimestamp(linkedAt), "approval_linkage_state_missing")
        i2 == i1 \cup DecisionIssues(context)
        i3 == i2 \cup ActionPreviewIssues(context, preview)
        i4 == i3 \cup ApprovalIssues(context, preview, approval)
        i5 == i4 \cup ReviewIssues(context, preview, envelopeHash)
        i6 == i5 \cup IdentityIssues(context, preview, approval, ii)
                 \cup TimelineOfChain(context, preview, approval, linkedAt)
    IN IF ~DecisionReadable(context) THEN NotDerived(i1 \cup {"approval_linkage_human_decision_mismatch"})
       ELSE IF ~PreviewReadable(preview) THEN NotDerived(i2 \cup {"approval_linkage_action_preview_mismatch"})
       ELSE IF ~ApprovalReadable(approval) THEN NotDerived(i3 \cup {"approval_linkage_approval_record_mismatch"})
       ELSE IF validateFourEyesReviewEvidence(context.review_evidence) # {}
            THEN NotDerived(i4 \cup {"approval_linkage_review_evidence_mismatch"})
       ELSE IF ~IdentitiesReadable(ii) THEN NotDerived(i5 \cup {"approval_linkage_identity_mismatch"})
       ELSE IF "" \in {context.tenant_id, approval.approvedByUserId}
            THEN NotDerived(i6 \cup {"approval_linkage_state_missing"})
       ELSE [derived |-> Derived(context, preview, approval, ii), issues |-> i6]

(***************************************************************************)
(* createApprovalLinkageRecord: no issue at all, and every binding field   *)
(* from the evaluation.                                                    *)
(***************************************************************************)
createApprovalLinkageRecord(input, context) ==
    LET evaluation == evaluateApprovalChain(context, input.linked_at, input.approval_linkage_id)
        unsealed == [f \in DOMAIN evaluation.derived \cup {"approval_linkage_id", "linked_at"} |->
                        IF f = "approval_linkage_id" THEN input.approval_linkage_id
                        ELSE IF f = "linked_at" THEN input.linked_at ELSE evaluation.derived[f]]
    IN IF \/ input.extra # {} \/ input.approval_linkage_id = "" \/ ~isIsoUtcTimestamp(input.linked_at)
          \/ evaluation.issues # {}
       THEN NotAnObject
       ELSE [f \in DOMAIN unsealed \cup {"linkage_hash"} |->
                IF f = "linkage_hash" THEN hashApprovalLinkagePayload(unsealed) ELSE unsealed[f]]

(***************************************************************************)
(* verifyApprovalLinkage: the record, its own hash, the current chain, and *)
(* every binding field against it; then one state by fixed precedence.     *)
(***************************************************************************)
RECORD_HASHES == {"human_decision_hash", "review_evidence_hash", "review_envelope_hash",
                  "identity_chain_hash", "target_hash", "payload_hash", "linkage_hash"}

RECORD_TIMES == {"preview_created_at", "preview_expires_at", "review_completed_at", "review_expires_at",
                 "approval_created_at", "approval_approved_at", "approval_expires_at", "linked_at",
                 "linkage_expires_at"}

validateApprovalLinkageRecord(record) ==
    When(\/ record = NotAnObject
         \/ "" \in {record.approval_linkage_id, record.tenant_id, record.human_decision_id,
                    record.review_evidence_id, record.workunit_id, record.action_preview_id,
                    record.approval_id, record.approver_id}
         \/ 0 \in {record.first_review_attestation_id, record.second_review_attestation_id}
         \/ record.action_type \notin APPROVAL_LINKAGE_ACTION_TYPES
         \/ \E f \in RECORD_HASHES : ~isReviewPayloadHash(record[f])
         \/ \E f \in RECORD_TIMES : ~isIsoUtcTimestamp(record[f]),
         "invalid_approval_linkage_input")

LinkageStateOf(recordIssues, issues) ==
    IF recordIssues # {} THEN "invalid"
    ELSE IF "approval_linkage_replayed" \in issues THEN "replayed"
    ELSE IF "approval_linkage_used" \in issues THEN "used"
    ELSE IF "approval_linkage_revoked" \in issues THEN "revoked"
    ELSE IF "approval_linkage_expired" \in issues THEN "expired"
    ELSE IF issues # {} THEN "stale"
    ELSE "verified"

StaleFields(record, derived) ==
    IF derived = NotAnObject THEN {}
    ELSE {f \in DOMAIN derived : record[f] # derived[f]}

verifyApprovalLinkage(record, context) ==
    LET evaluation == evaluateApprovalChain(context, record.linked_at, record.approval_linkage_id)
        self == When(hashApprovalLinkagePayload(record) # record.linkage_hash, "approval_linkage_hash_mismatch")
        issues == self \cup evaluation.issues
                  \cup When(StaleFields(record, evaluation.derived) # {}, "approval_linkage_stale")
        malformed == validateApprovalLinkageRecord(record)
    IN IF malformed # {} THEN [state |-> "invalid", issues |-> malformed]
       ELSE [state |-> LinkageStateOf(self, issues), issues |-> issues]

(***************************************************************************)
(* createApprovalLinkageAuditEvent: an invalid record shows nothing.       *)
(***************************************************************************)
eventKindForState(state) ==
    IF state \in {"verified", "stale", "replayed"} THEN state ELSE "rejected"

createApprovalLinkageAuditEvent(record, context) ==
    LET verification == verifyApprovalLinkage(record, context)
    IN IF verification.state = "invalid"
       THEN [event_kind |-> "rejected", id |-> Redacted, state |-> "invalid", ok |-> FALSE,
             issue_codes |-> {"approval_linkage_validation_exception"}]
       ELSE [event_kind |-> eventKindForState(verification.state), id |-> record.approval_linkage_id,
             state |-> verification.state, ok |-> verification.state = "verified",
             issue_codes |-> verification.issues]

-----------------------------------------------------------------------------
\* The chain over time.

CONSTANT Scenes   \* sessions, sources, identity choices and bounds

\* Stored rows have the columns of their tables and nothing else, and times
\* are numbers, well formed or not.
PREVIEW_FIELDS == {"id", "tenantId", "workUnitId", "actionType", "target", "payload", "targetHash",
                   "payloadHash", "status", "requiresApproval", "creatorUserId", "createdAt",
                   "expiresAt", "extra"}

APPROVAL_FIELDS == {"id", "tenantId", "workUnitId", "actionPreviewId", "actionType", "targetHash",
                    "payloadHash", "status", "createdAt", "approvedAt", "expiresAt",
                    "approvedByUserId", "usedAt"}

IsPreviewRow(p) ==
    /\ p = [f \in PREVIEW_FIELDS |-> p[f]]
    /\ p.extra = {} /\ p.requiresApproval \in BOOLEAN /\ p.expiresAt \in Int

IsApprovalRow(a) ==
    /\ a = [f \in APPROVAL_FIELDS |-> a[f]]
    /\ a.usedAt \in Nat \cup {NoTime} /\ a.expiresAt \in Int

ASSUME ChainAssumption ==
    \A s \in Scenes : /\ \A x \in s.sessions : x.expiresAt \in Int
                      /\ IsPreviewRow(s.preview) /\ IsApprovalRow(s.approval)
                      /\ \A v \in s.versions : IsPreviewRow(v.preview)
                      /\ s.reviewTtl \in Int

VARIABLES
    scene, now,
    decision, preview, approval,     \* the stored sources
    attestations, evidences,         \* artifacts made so far
    linkages,                        \* [record, sources, who]
    revoked, consumed                \* ids by kind

chainVars == <<scene, now, decision, preview, approval, attestations, evidences, linkages, revoked, consumed>>

sources == [decision |-> decision, preview |-> preview, approval |-> approval]

SessionInput(kind, tenant) ==
    [actor_kind |-> kind, expected_tenant_id |-> tenant, observed_at |-> now, extra |-> {}]

SessionIdentity(session, kind) ==
    createCanonicalSessionIdentity(session, SessionInput(kind, scene.tenant))

\* The identities of a choice of sessions, and the preview's creator.
Identities(choice) ==
    [requester_identity |-> SessionIdentity(choice.requester, "requester"),
     creator_identity |-> createCanonicalPreviewCreatorIdentity(preview, SessionInput("creator", scene.tenant)),
     first_reviewer_identity |-> SessionIdentity(choice.first, "reviewer"),
     second_reviewer_identity |-> SessionIdentity(choice.second, "reviewer"),
     approver_identity |-> SessionIdentity(choice.approver, "approver"),
     executor_identity |-> SessionIdentity(choice.executor, "executor")]

Context(evidence, who) ==
    [tenant_id |-> scene.tenant, human_decision |-> decision, review_evidence |-> evidence,
     action_preview |-> preview, approval_record |-> approval, evaluated_at |-> now,
     identity_input |->
         [human_decision |-> decision, review_evidence |-> evidence, identities |-> who,
          expected_tenant_id |-> scene.tenant, expected_human_decision_id |-> decision.human_decision_id,
          expected_workunit_id |-> preview.workUnitId, expected_action_preview_id |-> preview.id,
          evaluated_at |-> now, extra |-> {}],
     revoked |-> revoked, consumed |-> consumed]

Nothing == [review |-> {}, approval |-> {}, linkage |-> {}]

ChainInit ==
    /\ scene \in Scenes
    /\ now = 0
    /\ decision = scene.decision /\ preview = scene.preview /\ approval = scene.approval
    /\ attestations = {} /\ evidences = {} /\ linkages = {}
    /\ revoked = Nothing /\ consumed = Nothing

(***************************************************************************)
(* Reviewing, combining and linking.                                       *)
(***************************************************************************)
Attest(session, kind, hash) ==
    LET id == Cardinality(attestations) + 1
        made == createReviewAttestation(
                    [review_attestation_id |-> id, source_workunit_id |-> preview.workUnitId,
                     reviewed_payload_hash |-> hash, reviewed_at |-> now, extra |-> {}],
                    SessionIdentity(session, kind), decision)
    IN /\ id <= scene.maxAttestations
       /\ made # NotAnObject
       /\ attestations' = attestations \cup {made}
       /\ UNCHANGED <<scene, now, decision, preview, approval, evidences, linkages, revoked, consumed>>

\* What a reviewer may have read: the envelope as it is, or another one.
ReviewedHashes == {hashApprovalReviewEnvelope(scene.tenant, decision, preview)} \cup scene.otherHashes

Combine(first, second) ==
    LET id == scene.evidenceIds[Cardinality(evidences) + 1]
        made == createFourEyesReviewEvidence(
                    [review_evidence_id |-> id, review_completed_at |-> now,
                     review_expires_at |-> now + scene.reviewTtl, extra |-> {}],
                    first, second, decision)
    IN /\ Cardinality(evidences) < Len(scene.evidenceIds)
       /\ made # NotAnObject
       /\ evidences' = evidences \cup {made}
       /\ UNCHANGED <<scene, now, decision, preview, approval, attestations, linkages, revoked, consumed>>

Link(evidence, choice) ==
    LET id == scene.linkageIds[Cardinality(linkages) + 1]
        who == Identities(choice)
        made == createApprovalLinkageRecord(
                    [approval_linkage_id |-> id, linked_at |-> now, extra |-> {}], Context(evidence, who))
    IN /\ Cardinality(linkages) < Len(scene.linkageIds)
       /\ made # NotAnObject
       /\ linkages' = linkages \cup {[record |-> made, sources |-> sources, evidence |-> evidence, who |-> who]}
       /\ UNCHANGED <<scene, now, decision, preview, approval, attestations, evidences, revoked, consumed>>

(***************************************************************************)
(* The stored sources and the ids the server keeps.                        *)
(***************************************************************************)
Approve(session) ==
    /\ approval.status = "pending"
    /\ approval' = [approval EXCEPT !.status = "approved", !.approvedAt = now,
                                    !.approvedByUserId = session.userId]
    /\ UNCHANGED <<scene, now, decision, preview, attestations, evidences, linkages, revoked, consumed>>

Use ==
    /\ approval.status = "approved"
    /\ approval' = [approval EXCEPT !.status = "used", !.usedAt = now]
    /\ UNCHANGED <<scene, now, decision, preview, attestations, evidences, linkages, revoked, consumed>>

\* Another version of a source is stored under the same id.
Replace(version) ==
    /\ decision' = version.decision /\ preview' = version.preview
    /\ <<decision', preview'>> # <<decision, preview>>
    /\ UNCHANGED <<scene, now, approval, attestations, evidences, linkages, revoked, consumed>>

Record(kind, id) ==
    /\ \/ revoked' = [revoked EXCEPT ![kind] = @ \cup {id}] /\ UNCHANGED consumed
       \/ consumed' = [consumed EXCEPT ![kind] = @ \cup {id}] /\ UNCHANGED revoked
    /\ Cardinality(UNION {revoked'[k] \cup consumed'[k] : k \in DOMAIN Nothing}) <= scene.maxRecorded
    /\ UNCHANGED <<scene, now, decision, preview, approval, attestations, evidences, linkages>>

Ids == [review |-> {e.review_evidence_id : e \in evidences}, approval |-> {approval.id},
        linkage |-> {l.record.approval_linkage_id : l \in linkages}]

Tick ==
    /\ now < scene.maxNow
    /\ now' = now + 1
    /\ UNCHANGED <<scene, decision, preview, approval, attestations, evidences, linkages, revoked, consumed>>

ChainNext ==
    \/ \E s \in scene.sessions, k \in {"reviewer", "approver"}, h \in ReviewedHashes : Attest(s, k, h)
    \/ \E a, b \in attestations : Combine(a, b)
    \/ \E e \in evidences, c \in scene.choices : Link(e, c)
    \/ \E s \in scene.sessions : Approve(s)
    \/ Use
    \/ \E v \in scene.versions : Replace(v)
    \/ \E k \in DOMAIN Nothing : \E id \in Ids[k] : Record(k, id)
    \/ Tick

ChainSpec == ChainInit /\ [][ChainNext]_chainVars

(***************************************************************************)
(* Properties.                                                             *)
(***************************************************************************)
Readable(who) == \A p \in DOMAIN IDENTITY_POSITIONS \ {"executor_identity"} : who[p] # NotAnObject

UserIds(who) == [p \in DOMAIN IDENTITY_POSITIONS \ {"executor_identity"} |-> who[p].user_id]

\* The identities a verifier of this linkage may be given.
Presented(l) == {who \in {l.who} \cup {Identities(c) : c \in scene.choices} : Readable(who)}

Verdict(l, evidence, who) == verifyApprovalLinkage(l.record, Context(evidence, who)).state

Live(user, at) ==
    \E s \in scene.sessions : /\ s.userId = user /\ s.tenantId = scene.tenant
                              /\ s.isDevSession = "false" /\ at < s.expiresAt

(***************************************************************************)
(* Four eyes stand behind every linkage record                             *)
(* (createReviewAttestation through createApprovalLinkageRecord): two      *)
(* attestations of exactly the linked content, by two people whose         *)
(* sessions were live when they reviewed, made before the record, and an   *)
(* approver who is neither of them, nor the requester, nor the creator.    *)
(***************************************************************************)
FourEyesStandBehind ==
    \A l \in linkages : \E a, b \in attestations :
        /\ a.reviewer_id # b.reviewer_id
        /\ {a.reviewed_payload_hash, b.reviewed_payload_hash}
             = {hashApprovalReviewEnvelope(scene.tenant, l.sources.decision, l.sources.preview)}
        /\ \A r \in {a, b} : Live(r.reviewer_id, r.reviewed_at) /\ r.reviewed_at <= l.record.linked_at
        /\ <<a.review_attestation_id, b.review_attestation_id>>
             = <<l.record.first_review_attestation_id, l.record.second_review_attestation_id>>
        /\ l.record.approver_id \notin {a.reviewer_id, b.reviewer_id, l.sources.preview.creatorUserId,
                                        l.who.requester_identity.user_id}

Withdrawn(l) ==
    \E gone \in {revoked, consumed} :
        \/ l.record.approval_linkage_id \in gone.linkage
        \/ l.record.approval_id \in gone.approval
        \/ l.record.review_evidence_id \in gone.review

Current(l, evidence, who) ==
    /\ evidence = l.evidence /\ sources = l.sources /\ UserIds(who) = UserIds(l.who)
    /\ ~Withdrawn(l)
    /\ now < minIso(l.evidence.review_expires_at,
                    minIso(l.sources.preview.expiresAt, l.sources.approval.expiresAt))

(***************************************************************************)
(* A verified record speaks of the present (verifyApprovalLinkage): the    *)
(* sources, the evidence and the people are those it was made from, none   *)
(* of its ids has been revoked or consumed, and nothing has expired.       *)
(***************************************************************************)
VerifiedMeansUnchanged ==
    \A l \in linkages, e \in evidences : \A who \in Presented(l) :
        Verdict(l, e, who) = "verified" => Current(l, e, who)

(***************************************************************************)
(* Nothing else makes a record unusable: while the sources stay as they    *)
(* were the record verifies, whichever live sessions its people use and    *)
(* whenever their identities were observed.                                *)
(***************************************************************************)
UnchangedVerifies ==
    \A l \in linkages : \A who \in Presented(l) :
        Current(l, l.evidence, who) => Verdict(l, l.evidence, who) = "verified"

Alterations(r) ==
    {[r EXCEPT !.approver_id = "altered"], [r EXCEPT !.payload_hash = Hash("altered")],
     [r EXCEPT !.linkage_expires_at = @ + 1], [r EXCEPT !.second_review_attestation_id = @ + 1]}

Sealed(r) == [r EXCEPT !.linkage_hash = hashApprovalLinkagePayload(r)]

(***************************************************************************)
(* An altered record shows (the linkage's own hash, and the comparison     *)
(* with the current sources): unless it is sealed again it is invalid, and *)
(* a bound field that is altered and sealed again does not verify.         *)
(***************************************************************************)
AlterationsShow ==
    \A l \in linkages :
        LET context == Context(l.evidence, l.who)
            state(r) == verifyApprovalLinkage(r, context).state
        IN /\ \A r \in Alterations(l.record) : state(r) = "invalid" /\ state(Sealed(r)) # "verified"
           /\ state([l.record EXCEPT !.linked_at = @ + 1]) = "invalid"
           /\ state([l.record EXCEPT !.approval_linkage_id = "altered"]) = "invalid"
           /\ state(Sealed([l.record EXCEPT !.linked_at = NoTime])) = "invalid"

(***************************************************************************)
(* The three audit trails agree (createApprovalLinkageAuditEvent,          *)
(* createReviewEvidenceAuditEvent, createIdentityIndependenceAuditEvent,   *)
(* each of which verifies for itself): a linkage reported as verified has  *)
(* its evidence and its identities reported as verified at that moment.    *)
(***************************************************************************)
AuditsAgree ==
    \A l \in linkages, e \in evidences : \A who \in Presented(l) :
        LET context == Context(e, who)
            envelopeHash == hashApprovalReviewEnvelope(scene.tenant, decision, preview)
        IN createApprovalLinkageAuditEvent(l.record, context).event_kind = "verified" =>
             /\ createReviewEvidenceAuditEvent(e, ReviewContext(context, preview, envelopeHash)).ok
             /\ createIdentityIndependenceAuditEvent(context.identity_input).ok

Policy == INSTANCE RuntimeEligibility WITH MAX_AUTHORIZATION_TTL <- 1

Class(code) ==
    IF code = "approval_linkage_hash_mismatch" THEN "hash_mismatch"
    ELSE IF code = "approval_linkage_replayed" THEN "replayed"
    ELSE IF code = "approval_linkage_used" THEN "used"
    ELSE IF code = "approval_linkage_revoked" THEN "revoked"
    ELSE "mismatch"

Bundle(issues, evidence) ==
    [flaws |-> {Class(code) : code \in issues \ {"approval_linkage_expired"}},
     previewExpiresAt |-> preview.expiresAt, approvalExpiresAt |-> approval.expiresAt,
     reviewExpiresAt |-> evidence.review_expires_at]

(***************************************************************************)
(* The policy that RuntimeEligibility states over classes of issues is the *)
(* verdict of this chain, for sources that can be read.                    *)
(***************************************************************************)
PolicyAgrees ==
    \A l \in linkages, e \in evidences : \A who \in Presented(l) :
        LET verification == verifyApprovalLinkage(l.record, Context(e, who))
        IN DecisionReadable(Context(e, who)) /\ PreviewReadable(preview) /\ ApprovalReadable(approval) =>
             verification.state
               = Policy!LinkageState(Policy!ChainIssues(Bundle(verification.issues, e), now))

(***************************************************************************)
(* identityIndependence/verifier.ts: "the requester, preview creator, two  *)
(* reviewers, and approver are distinct canonical users" once independence *)
(* has been verified.                                                      *)
(***************************************************************************)
IndependentActorsAreDistinct ==
    \A l \in linkages : Cardinality({UserIds(l.who)[p] : p \in DOMAIN UserIds(l.who)}) = 5

-----------------------------------------------------------------------------
(***************************************************************************)
(* The proofs: any sessions, sources, versions, choices and bounds.        *)
(***************************************************************************)

\* A rule that reports nothing was not broken.
LEMMA NoIssue == ASSUME NEW c, NEW code, When(c, code) = {} PROVE ~c
BY Zenon DEF When

LEMMA NoneOfThree == ASSUME NEW A, NEW B, NEW C, A \cup B \cup C = {} PROVE A = {} /\ B = {} /\ C = {}
BY Zenon

\* An identity that is derived from a session: the session is live, of the
\* expected tenant and no development session.
LEMMA SessionDerives ==
    ASSUME NEW session, NEW kind, NEW tenant, now \in Int, session.expiresAt \in Int,
           NEW i, i = createCanonicalSessionIdentity(session, SessionInput(kind, tenant)),
           i # NotAnObject
    PROVE  /\ i.user_id = session.userId /\ i.tenant_id = tenant /\ session.tenantId = tenant
           /\ session.isDevSession = "false" /\ now < session.expiresAt
<1> DEFINE input == SessionInput(kind, tenant)
<1>1. /\ InputIssues(input) = {} /\ SessionIssues(session, input) = {}
      /\ i = produceCanonicalIdentity(session.tenantId, session.userId, input.actor_kind,
                                      "authenticated_session", session.sessionId, input.observed_at)
    BY Zenon DEF createCanonicalSessionIdentity
<1>2. input.expected_tenant_id = tenant /\ input.observed_at = now /\ input.actor_kind = kind
    BY Zenon DEF SessionInput
<1>3. i.user_id = session.userId /\ i.tenant_id = session.tenantId
    <2> DEFINE candidate == [tenant_id |-> session.tenantId, user_id |-> session.userId, actor_kind |-> kind,
                             identity_source |-> "authenticated_session",
                             source_record_id |-> session.sessionId, observed_at |-> now,
                             subject_type |-> "human_user", extra |-> {}]
    <2>1. i = candidate
        BY Zenon, <1>1, <1>2 DEF produceCanonicalIdentity
    <2> QED
        BY <2>1
<1>4. tenant # "" /\ isIsoUtcTimestamp(now)
    BY Zenon, <1>1, <1>2, NoIssue DEF InputIssues
<1> HIDE DEF input
<1>5. /\ ~("" \in {session.userId, session.tenantId, session.sessionId} \/ ~isIsoUtcTimestamp(session.expiresAt))
      /\ ~(/\ isIsoUtcTimestamp(session.expiresAt) /\ isIsoUtcTimestamp(input.observed_at)
           /\ input.observed_at >= session.expiresAt)
      /\ ~(session.isDevSession # "false")
      /\ ~(/\ "" \notin {input.expected_tenant_id, session.tenantId}
           /\ input.expected_tenant_id # session.tenantId)
    BY Zenon, <1>1, NoIssue DEF SessionIssues
<1>6. isIsoUtcTimestamp(session.expiresAt) /\ session.tenantId = tenant
    BY Zenon, <1>2, <1>4, <1>5
<1>7. now < session.expiresAt
    <2>1. ~(now >= session.expiresAt)
        BY Zenon, <1>2, <1>4, <1>5, <1>6
    <2> QED
        BY <2>1
<1> QED
    BY Zenon, <1>3, <1>5, <1>6, <1>7

\* An attestation carries its reviewer and time, and the reviewer is somebody.
LEMMA AttestationMade ==
    ASSUME NEW input, NEW reviewer, NEW d, NEW made,
           made = createReviewAttestation(input, reviewer, d), made # NotAnObject
    PROVE  /\ reviewer # NotAnObject
           /\ made.reviewer_id = reviewer.user_id /\ made.reviewed_at = input.reviewed_at
           /\ made.reviewed_payload_hash = input.reviewed_payload_hash
           /\ made.review_attestation_id = input.review_attestation_id
<1> DEFINE artifact == [review_attestation_id |-> input.review_attestation_id,
                        source_workunit_id |-> input.source_workunit_id,
                        reviewed_payload_hash |-> input.reviewed_payload_hash,
                        reviewed_at |-> input.reviewed_at,
                        tenant_id |-> reviewer.tenant_id, reviewer_id |-> reviewer.user_id,
                        source_human_decision_id |-> d.human_decision_id, extra |-> {}]
<1>1. made = artifact /\ AttestationIssues(input, reviewer, d) = {}
    BY Zenon DEF createReviewAttestation
<1>2. collectReviewerIdentityIssues(reviewer) = {}
    BY Zenon, <1>1 DEF AttestationIssues
<1>3. validateCanonicalIdentity(reviewer) = {}
    BY Zenon, <1>2, NoIssue DEF collectReviewerIdentityIssues
<1>4. reviewer # NotAnObject
    BY Zenon, <1>3 DEF validateCanonicalIdentity
<1> QED
    BY <1>1, <1>4

LEMMA TwoReviewers ==
    ASSUME NEW first, NEW second, NEW d, BindingIssues(first, second, d) = {}
    PROVE  first.reviewer_id # second.reviewer_id /\ first.reviewed_payload_hash = second.reviewed_payload_hash
<1>1. /\ When(first.reviewer_id = second.reviewer_id, "duplicate_reviewer_identity") = {}
      /\ When(first.reviewed_payload_hash # second.reviewed_payload_hash, "review_payload_hash_mismatch") = {}
    BY Zenon DEF BindingIssues
<1> QED
    BY Zenon, <1>1, NoIssue

\* Evidence is of two attestations of one content by two reviewers.
LEMMA EvidenceMade ==
    ASSUME NEW input, NEW first, NEW second, NEW d, NEW made,
           made = createFourEyesReviewEvidence(input, first, second, d), made # NotAnObject
    PROVE  /\ first.reviewer_id # second.reviewer_id
           /\ first.reviewed_payload_hash = second.reviewed_payload_hash
           /\ made.reviewed_payload_hash = first.reviewed_payload_hash
           /\ made.first_reviewer_id = first.reviewer_id
           /\ made.second_reviewer_id = second.reviewer_id
           /\ made.first_review_attestation_id = first.review_attestation_id
           /\ made.second_review_attestation_id = second.review_attestation_id
           /\ made.review_expires_at = input.review_expires_at
<1> DEFINE artifact == [review_evidence_id |-> input.review_evidence_id,
                        review_completed_at |-> input.review_completed_at,
                        review_expires_at |-> input.review_expires_at,
                        tenant_id |-> first.tenant_id,
                        source_human_decision_id |-> first.source_human_decision_id,
                        source_workunit_id |-> first.source_workunit_id,
                        reviewed_payload_hash |-> first.reviewed_payload_hash,
                        first_review_attestation_id |-> first.review_attestation_id,
                        second_review_attestation_id |-> second.review_attestation_id,
                        first_reviewer_id |-> first.reviewer_id, second_reviewer_id |-> second.reviewer_id,
                        first_reviewed_at |-> first.reviewed_at, second_reviewed_at |-> second.reviewed_at,
                        extra |-> {}]
<1>1. made = artifact /\ BindingIssues(first, second, d) = {}
    BY Zenon DEF createFourEyesReviewEvidence
<1>2. first.reviewer_id # second.reviewer_id /\ first.reviewed_payload_hash = second.reviewed_payload_hash
    BY Zenon, <1>1, TwoReviewers
<1> QED
    BY <1>1, <1>2

\* A chain without an issue was read to its end, and every source passed.
LEMMA ChainAccepted ==
    ASSUME NEW context, NEW linkedAt, NEW id, evaluateApprovalChain(context, linkedAt, id).issues = {}
    PROVE  LET p == context.action_preview
               a == context.approval_record
               ii == context.identity_input
               hash == hashApprovalReviewEnvelope(context.tenant_id, context.human_decision, p)
           IN /\ DecisionReadable(context) /\ PreviewReadable(p) /\ ApprovalReadable(a)
              /\ validateFourEyesReviewEvidence(context.review_evidence) = {} /\ IdentitiesReadable(ii)
              /\ evaluateApprovalChain(context, linkedAt, id).derived = Derived(context, p, a, ii)
              /\ StateIssues(context, id) = {} /\ DecisionIssues(context) = {}
              /\ ActionPreviewIssues(context, p) = {} /\ ApprovalIssues(context, p, a) = {}
              /\ ReviewIssues(context, p, hash) = {} /\ IdentityIssues(context, p, a, ii) = {}
              /\ TimelineOfChain(context, p, a, linkedAt) = {}
<1> DEFINE p == context.action_preview
           a == context.approval_record
           ii == context.identity_input
           hash == hashApprovalReviewEnvelope(context.tenant_id, context.human_decision, p)
           i1 == StateIssues(context, id) \cup When(~isIsoUtcTimestamp(linkedAt), "approval_linkage_state_missing")
           i2 == i1 \cup DecisionIssues(context)
           i3 == i2 \cup ActionPreviewIssues(context, p)
           i4 == i3 \cup ApprovalIssues(context, p, a)
           i5 == i4 \cup ReviewIssues(context, p, hash)
           i6 == i5 \cup IdentityIssues(context, p, a, ii) \cup TimelineOfChain(context, p, a, linkedAt)
           evaluation == evaluateApprovalChain(context, linkedAt, id)
<1>1. evaluation =
        IF ~DecisionReadable(context) THEN NotDerived(i1 \cup {"approval_linkage_human_decision_mismatch"})
        ELSE IF ~PreviewReadable(p) THEN NotDerived(i2 \cup {"approval_linkage_action_preview_mismatch"})
        ELSE IF ~ApprovalReadable(a) THEN NotDerived(i3 \cup {"approval_linkage_approval_record_mismatch"})
        ELSE IF validateFourEyesReviewEvidence(context.review_evidence) # {}
             THEN NotDerived(i4 \cup {"approval_linkage_review_evidence_mismatch"})
        ELSE IF ~IdentitiesReadable(ii) THEN NotDerived(i5 \cup {"approval_linkage_identity_mismatch"})
        ELSE IF "" \in {context.tenant_id, a.approvedByUserId}
             THEN NotDerived(i6 \cup {"approval_linkage_state_missing"})
        ELSE [derived |-> Derived(context, p, a, ii), issues |-> i6]
    BY Zenon DEF evaluateApprovalChain
<1>2. ASSUME NEW issues, NEW code PROVE NotDerived(issues \cup {code}).issues # {}
    BY Zenon DEF NotDerived
<1> HIDE DEF i1, i2, i3, i4, i5, i6
<1>3. /\ DecisionReadable(context) /\ PreviewReadable(p) /\ ApprovalReadable(a)
      /\ validateFourEyesReviewEvidence(context.review_evidence) = {} /\ IdentitiesReadable(ii)
      /\ evaluation = [derived |-> Derived(context, p, a, ii), issues |-> i6]
    BY Zenon, <1>1, <1>2
<1>4. i6 = {} /\ evaluation.derived = Derived(context, p, a, ii)
    BY <1>3
<1>5. /\ i5 = {} /\ IdentityIssues(context, p, a, ii) = {} /\ TimelineOfChain(context, p, a, linkedAt) = {}
    BY Zenon, <1>4 DEF i6
<1>6. /\ i3 = {} /\ ReviewIssues(context, p, hash) = {} /\ ApprovalIssues(context, p, a) = {}
    BY Zenon, <1>5 DEF i5, i4
<1>7. /\ StateIssues(context, id) = {} /\ DecisionIssues(context) = {} /\ ActionPreviewIssues(context, p) = {}
    BY Zenon, <1>6 DEF i3, i2, i1
<1> QED
    BY Zenon, <1>3, <1>4, <1>5, <1>6, <1>7

LEMMA ChainDerives ==
    ASSUME NEW context, NEW linkedAt, NEW id, evaluateApprovalChain(context, linkedAt, id).issues = {}
    PROVE  evaluateApprovalChain(context, linkedAt, id).derived
             = Derived(context, context.action_preview, context.approval_record, context.identity_input)
BY Zenon, ChainAccepted

\* A record has the fields d, with these values.
Carries(record, d) == \A f \in DOMAIN d : record[f] = d[f]

\* A record's own fields, and those of the chain it was made from.
LEMMA RecordMade ==
    ASSUME NEW input, NEW context, NEW made,
           made = createApprovalLinkageRecord(input, context), made # NotAnObject
    PROVE  LET d == Derived(context, context.action_preview, context.approval_record, context.identity_input)
           IN /\ evaluateApprovalChain(context, input.linked_at, input.approval_linkage_id).issues = {}
              /\ made.linked_at = input.linked_at /\ made.approval_linkage_id = input.approval_linkage_id
              /\ Carries(made, d)
<1> DEFINE d == Derived(context, context.action_preview, context.approval_record, context.identity_input)
           evaluation == evaluateApprovalChain(context, input.linked_at, input.approval_linkage_id)
           unsealed == [f \in DOMAIN evaluation.derived \cup {"approval_linkage_id", "linked_at"} |->
                           IF f = "approval_linkage_id" THEN input.approval_linkage_id
                           ELSE IF f = "linked_at" THEN input.linked_at ELSE evaluation.derived[f]]
<1>1. /\ evaluation.issues = {}
      /\ made = [f \in DOMAIN unsealed \cup {"linkage_hash"} |->
                    IF f = "linkage_hash" THEN hashApprovalLinkagePayload(unsealed) ELSE unsealed[f]]
    BY Zenon DEF createApprovalLinkageRecord
<1>2. evaluation.derived = d
    <2>1. evaluation.issues = {}
        BY Zenon, <1>1
    <2> QED
        BY Zenon, <2>1, ChainDerives
<1>3. /\ "approval_linkage_id" \notin DOMAIN d /\ "linked_at" \notin DOMAIN d
      /\ "linkage_hash" \notin DOMAIN d
    BY Zenon DEF Derived
<1> HIDE DEF d, evaluation
<1>4. DOMAIN unsealed = DOMAIN d \cup {"approval_linkage_id", "linked_at"}
    BY Zenon, <1>2
<1>5. /\ unsealed["approval_linkage_id"] = input.approval_linkage_id
      /\ unsealed["linked_at"] = input.linked_at
      /\ \A f \in DOMAIN d : unsealed[f] = d[f]
    BY Zenon, <1>2, <1>3
<1> HIDE DEF unsealed
<1>6. /\ made["approval_linkage_id"] = input.approval_linkage_id
      /\ made["linked_at"] = input.linked_at
      /\ \A f \in DOMAIN d : made[f] = d[f]
    BY Zenon, <1>1, <1>3, <1>4, <1>5
<1> QED
    BY Zenon, <1>1, <1>6 DEF d, evaluation, Carries

\* The binding fields that name people, attestations and ids.
LEMMA DerivedFields ==
    ASSUME NEW context, NEW p, NEW a, NEW ii
    PROVE  LET d == Derived(context, p, a, ii)
           IN /\ {"first_review_attestation_id", "second_review_attestation_id", "approver_id"} \subseteq DOMAIN d
              /\ d["first_review_attestation_id"] = context.review_evidence.first_review_attestation_id
              /\ d["second_review_attestation_id"] = context.review_evidence.second_review_attestation_id
              /\ d["approver_id"] = a.approvedByUserId
BY Zenon DEF Derived

\* Independence that is verified: one tenant, two reviewers who are the
\* evidence's, and an approver who is none of the others.
LEMMA Independent ==
    ASSUME NEW ii, ii # NotAnObject, verifyIdentityIndependence(ii) = {}
    PROVE  LET who == ii.identities
           IN /\ ii.review_evidence.first_reviewer_id = who.first_reviewer_identity.user_id
              /\ ii.review_evidence.second_reviewer_id = who.second_reviewer_identity.user_id
              /\ \A q \in {"requester_identity", "creator_identity", "first_reviewer_identity",
                           "second_reviewer_identity"} : who[q].user_id # who.approver_identity.user_id
<1> DEFINE who == ii.identities
           others == {"requester_identity", "creator_identity", "first_reviewer_identity",
                      "second_reviewer_identity"}
           provenance == UNION {ProvenanceIssues(ii, p) : p \in DOMAIN IDENTITY_POSITIONS}
<1>1. /\ StructuralIssues(ii) = {} /\ provenance = {}
      /\ RecordIssues(ii) = {} /\ IndependenceIssues(who) = {}
    <2>1. /\ StructuralIssues(ii) = {}
          /\ provenance \cup RecordIssues(ii) \cup IndependenceIssues(who) = {}
        <3>1. verifyIdentityIndependence(ii) =
                IF ii = NotAnObject THEN {"invalid_identity_input"}
                ELSE IF EvaluationContextIssues(ii) # {} THEN EvaluationContextIssues(ii)
                ELSE IF StructuralIssues(ii) # {} THEN StructuralIssues(ii)
                ELSE provenance \cup RecordIssues(ii) \cup IndependenceIssues(who)
            BY Zenon DEF verifyIdentityIndependence
        <3> HIDE DEF provenance, who
        <3> QED
            BY Zenon, <3>1
    <2> HIDE DEF provenance, who
    <2> QED
        BY Zenon, <2>1, NoneOfThree
<1>2. ASSUME NEW q \in others \cup {"approver_identity"}
      PROVE  q \in DOMAIN IDENTITY_POSITIONS /\ IDENTITY_POSITIONS[q].required
    BY DEF IDENTITY_POSITIONS, Position
<1>3. ASSUME NEW q \in others \cup {"approver_identity"}
      PROVE  who[q] # NotAnObject
    <2> SUFFICES ASSUME who[q] = NotAnObject PROVE FALSE
        BY Zenon
    <2>1. When(IDENTITY_POSITIONS[q].required, "identity_state_missing") \subseteq StructuralIssues(ii)
        BY Zenon, <1>2 DEF StructuralIssues
    <2> QED
        BY Zenon, <1>1, <1>2, <2>1, NoIssue
<1>4. ASSUME NEW q \in others \cup {"approver_identity"}
      PROVE  who[q].tenant_id = ii.expected_tenant_id
    <2>1. ProvenanceIssues(ii, q) = {}
        BY Zenon, <1>1, <1>2
    <2> QED
        BY Zenon, <1>3, <2>1, NoIssue DEF ProvenanceIssues
<1>5. ~ \E q \in others : isSameCanonicalUser(who[q], who.approver_identity)
    BY Zenon, <1>1, NoIssue DEF IndependenceIssues
<1>6. ASSUME NEW q \in others PROVE who[q].user_id # who.approver_identity.user_id
    <2>1. who[q].tenant_id = who["approver_identity"].tenant_id
        BY Zenon, <1>4
    <2> QED
        BY Zenon, <1>5, <2>1 DEF isSameCanonicalUser
<1>7. /\ ii.review_evidence.first_reviewer_id = who.first_reviewer_identity.user_id
      /\ ii.review_evidence.second_reviewer_id = who.second_reviewer_identity.user_id
    BY Zenon, <1>1, NoIssue DEF RecordIssues
<1> QED
    BY Zenon, <1>6, <1>7

-----------------------------------------------------------------------------
(***************************************************************************)
(* The inductive invariant: what stands behind an attestation and behind   *)
(* evidence, which nothing takes back, so that it still stands when the    *)
(* record is made.                                                         *)
(***************************************************************************)
AttestedLive ==
    \A a \in attestations : /\ Live(a.reviewer_id, a.reviewed_at)
                            /\ a.reviewed_at \in Nat /\ a.reviewed_at <= now

\* The two attestations that evidence was combined from.
Combines(e, a, b) ==
    /\ a.reviewer_id # b.reviewer_id
    /\ e.reviewed_payload_hash = a.reviewed_payload_hash /\ e.reviewed_payload_hash = b.reviewed_payload_hash
    /\ e.first_reviewer_id = a.reviewer_id /\ e.second_reviewer_id = b.reviewer_id
    /\ e.first_review_attestation_id = a.review_attestation_id
    /\ e.second_review_attestation_id = b.review_attestation_id

EvidenceStands == \A e \in evidences : \E a, b \in attestations : Combines(e, a, b)

StandsBehind(a, b, l) ==
    /\ a.reviewer_id # b.reviewer_id
    /\ {a.reviewed_payload_hash, b.reviewed_payload_hash}
         = {hashApprovalReviewEnvelope(scene.tenant, l.sources.decision, l.sources.preview)}
    /\ \A r \in {a, b} : Live(r.reviewer_id, r.reviewed_at) /\ r.reviewed_at <= l.record.linked_at
    /\ <<a.review_attestation_id, b.review_attestation_id>>
         = <<l.record.first_review_attestation_id, l.record.second_review_attestation_id>>
    /\ l.record.approver_id \notin {a.reviewer_id, b.reviewer_id, l.sources.preview.creatorUserId,
                                    l.who.requester_identity.user_id}

ChainInv ==
    /\ scene \in Scenes /\ now \in Nat
    /\ AttestedLive
    /\ EvidenceStands
    /\ \A l \in linkages : \E a, b \in attestations : StandsBehind(a, b, l)

\* Liveness of a session when it reviewed is a fact of the scene alone.
LEMMA LiveStays == ASSUME scene' = scene, NEW user, NEW at PROVE Live(user, at)' <=> Live(user, at)
BY Zenon DEF Live

\* Steps that only add artifacts, or touch none of them, keep what stands.
LEMMA ChainKeeps ==
    ASSUME ChainInv, scene' = scene, now' \in Nat, now <= now', attestations \subseteq attestations',
           AttestedLive', EvidenceStands',
           \A l \in linkages' \ linkages : \E a, b \in attestations' : StandsBehind(a, b, l)'
    PROVE  ChainInv'
<1>1. ASSUME NEW l, NEW a, NEW b, StandsBehind(a, b, l) PROVE StandsBehind(a, b, l)'
    BY Zenon, <1>1, LiveStays DEF StandsBehind
<1> QED
    BY Zenon, <1>1 DEF ChainInv

LEMMA AttestStep ==
    ASSUME ChainInv, NEW s \in scene.sessions, NEW k, NEW h, Attest(s, k, h)
    PROVE  ChainInv'
<1> DEFINE input == [review_attestation_id |-> Cardinality(attestations) + 1,
                     source_workunit_id |-> preview.workUnitId,
                     reviewed_payload_hash |-> h, reviewed_at |-> now, extra |-> {}]
           i == SessionIdentity(s, k)
           made == createReviewAttestation(input, i, decision)
<1>1. /\ made # NotAnObject /\ attestations' = attestations \cup {made}
      /\ scene' = scene /\ now' = now /\ evidences' = evidences /\ linkages' = linkages
    BY Zenon DEF Attest
<1>2. i # NotAnObject /\ made.reviewer_id = i.user_id /\ made.reviewed_at = now
    BY <1>1, AttestationMade
<1>3. now \in Nat /\ s.expiresAt \in Int
    BY Zenon, ChainAssumption DEF ChainInv
<1>4. /\ i.user_id = s.userId /\ s.tenantId = scene.tenant
      /\ s.isDevSession = "false" /\ now < s.expiresAt
    <2>1. i = createCanonicalSessionIdentity(s, SessionInput(k, scene.tenant))
        BY Zenon DEF SessionIdentity
    <2> HIDE DEF i
    <2> QED
        BY <1>2, <1>3, <2>1, SessionDerives
<1> HIDE DEF made, i
<1>5. Live(made.reviewer_id, made.reviewed_at)
    BY Zenon, <1>2, <1>4 DEF Live
<1>6. AttestedLive'
    BY <1>1, <1>2, <1>3, <1>5, LiveStays DEF AttestedLive, ChainInv
<1>7. EvidenceStands'
    BY <1>1 DEF EvidenceStands, ChainInv, Combines
<1> QED
    BY <1>1, <1>3, <1>6, <1>7, ChainKeeps

LEMMA CombineStep ==
    ASSUME ChainInv, NEW a \in attestations, NEW b \in attestations, Combine(a, b)
    PROVE  ChainInv'
<1> DEFINE input == [review_evidence_id |-> scene.evidenceIds[Cardinality(evidences) + 1],
                     review_completed_at |-> now,
                     review_expires_at |-> now + scene.reviewTtl, extra |-> {}]
           made == createFourEyesReviewEvidence(input, a, b, decision)
<1>1. /\ made # NotAnObject /\ evidences' = evidences \cup {made}
      /\ scene' = scene /\ now' = now /\ attestations' = attestations /\ linkages' = linkages
    BY Zenon DEF Combine
<1>2. Combines(made, a, b)
    <2> HIDE DEF input
    <2> QED
        BY <1>1, EvidenceMade DEF Combines
<1> HIDE DEF made
<1>3. EvidenceStands'
    <2>1. PICK m : m = made
        BY Zenon
    <2>2. evidences' = evidences \cup {m} /\ Combines(m, a, b)
        BY Zenon, <1>1, <1>2, <2>1
    <2>3. \A e \in evidences : \E x, y \in attestations : Combines(e, x, y)
        BY Zenon DEF ChainInv, EvidenceStands
    <2> QED
        BY Zenon, <1>1, <2>2, <2>3 DEF EvidenceStands
<1>4. AttestedLive'
    BY Zenon, <1>1, LiveStays DEF AttestedLive, ChainInv
<1>5. now \in Nat
    BY Zenon DEF ChainInv
<1> QED
    BY <1>1, <1>3, <1>4, <1>5, ChainKeeps

\* What the chain's evaluation says of the people around a record.
LEMMA PeopleOfChain ==
    ASSUME NEW context, NEW linkedAt, NEW id, evaluateApprovalChain(context, linkedAt, id).issues = {},
           {"review_evidence", "identities"} \subseteq DOMAIN context.identity_input
    PROVE  LET p == context.action_preview
               a == context.approval_record
               who == context.identity_input.identities
               e == context.review_evidence
           IN /\ e.reviewed_payload_hash = hashApprovalReviewEnvelope(context.tenant_id, context.human_decision, p)
              /\ a.approvedByUserId \notin {e.first_reviewer_id, e.second_reviewer_id, p.creatorUserId,
                                            who.requester_identity.user_id}
<1> DEFINE p == context.action_preview
           a == context.approval_record
           ii == context.identity_input
           who == ii.identities
           e == context.review_evidence
           hash == hashApprovalReviewEnvelope(context.tenant_id, context.human_decision, p)
           verified == [ii EXCEPT !.human_decision = context.human_decision,
                                  !.review_evidence = context.review_evidence,
                                  !.extra = {}]
<1>1. ReviewIssues(context, p, hash) = {} /\ IdentityIssues(context, p, a, ii) = {}
    BY Zenon, ChainAccepted
<1>2. e.reviewed_payload_hash = hash
    <2>1. When(e.reviewed_payload_hash # hash, "approval_linkage_review_envelope_mismatch") = {}
        BY Zenon, <1>1 DEF ReviewIssues
    <2> QED
        BY Zenon, <2>1, NoIssue
<1>3. /\ verifyIdentityIndependence(verified) = {}
      /\ who.creator_identity.user_id = p.creatorUserId
      /\ who.approver_identity.user_id = a.approvedByUserId
    <2>1. When(\/ ii.extra # {}
               \/ ii.evaluated_at # context.evaluated_at
               \/ /\ who.executor_identity # NotAnObject
                  /\ validateCanonicalIdentity(who.executor_identity) # {}
               \/ verifyIdentityIndependence(verified) # {}
               \/ who.creator_identity.user_id # p.creatorUserId
               \/ who.creator_identity.source_record_id # p.id,
               "approval_linkage_identity_mismatch") = {}
        BY Zenon, <1>1 DEF IdentityIssues
    <2>2. When(\/ who.approver_identity.user_id # a.approvedByUserId
               \/ who.approver_identity.identity_source # "authenticated_session",
               "approval_linkage_approver_mismatch") = {}
        BY Zenon, <1>1 DEF IdentityIssues
    <2> QED
        BY Zenon, <2>1, <2>2, NoIssue
<1>4. verified # NotAnObject /\ verified.identities = who /\ verified.review_evidence = e
    <2>1. /\ DOMAIN verified = DOMAIN ii
          /\ verified["identities"] = who /\ verified["review_evidence"] = e
        BY Zenon
    <2>2. "identities" \notin DOMAIN NotAnObject
        BY Zenon DEF NotAnObject
    <2> QED
        BY Zenon, <2>1, <2>2
<1>5. /\ e.first_reviewer_id = who.first_reviewer_identity.user_id
      /\ e.second_reviewer_id = who.second_reviewer_identity.user_id
      /\ \A q \in {"requester_identity", "creator_identity", "first_reviewer_identity",
                   "second_reviewer_identity"} : who[q].user_id # who.approver_identity.user_id
    <2> HIDE DEF verified, who, e
    <2> QED
        BY Zenon, <1>3, <1>4, Independent
<1> QED
    BY Zenon, <1>2, <1>3, <1>5

LEMMA LinkStep ==
    ASSUME ChainInv, NEW e \in evidences, NEW c, Link(e, c)
    PROVE  ChainInv'
<1> DEFINE who == Identities(c)
           context == Context(e, who)
           input == [approval_linkage_id |-> scene.linkageIds[Cardinality(linkages) + 1],
                     linked_at |-> now, extra |-> {}]
           made == createApprovalLinkageRecord(input, context)
           l == [record |-> made, sources |-> sources, evidence |-> e, who |-> who]
<1>1. /\ made # NotAnObject /\ linkages' = linkages \cup {l}
      /\ scene' = scene /\ now' = now /\ attestations' = attestations /\ evidences' = evidences
    BY Zenon DEF Link
<1>2. /\ context.tenant_id = scene.tenant /\ context.human_decision = decision
      /\ context.review_evidence = e /\ context.action_preview = preview
      /\ context.approval_record = approval /\ context.identity_input.identities = who
      /\ {"review_evidence", "identities"} \subseteq DOMAIN context.identity_input
    BY Zenon DEF Context
<1>3. input.linked_at = now
    BY Zenon
<1> HIDE DEF who, context, input, made
<1>4. /\ evaluateApprovalChain(context, input.linked_at, input.approval_linkage_id).issues = {}
      /\ made.linked_at = now
      /\ made.first_review_attestation_id = e.first_review_attestation_id
      /\ made.second_review_attestation_id = e.second_review_attestation_id
      /\ made.approver_id = approval.approvedByUserId
    BY <1>1, <1>2, <1>3, RecordMade, DerivedFields DEF made, Carries
<1>5. /\ e.reviewed_payload_hash = hashApprovalReviewEnvelope(scene.tenant, decision, preview)
      /\ approval.approvedByUserId \notin {e.first_reviewer_id, e.second_reviewer_id, preview.creatorUserId,
                                           who.requester_identity.user_id}
    BY Zenon, <1>2, <1>4, PeopleOfChain
<1>6. PICK a \in attestations, b \in attestations : Combines(e, a, b)
    BY Zenon DEF ChainInv, EvidenceStands
<1>7. /\ Live(a.reviewer_id, a.reviewed_at) /\ a.reviewed_at <= now
      /\ Live(b.reviewer_id, b.reviewed_at) /\ b.reviewed_at <= now
    BY Zenon DEF ChainInv, AttestedLive
<1>8. StandsBehind(a, b, l)
    <2>1. /\ l.record = made /\ l.sources.decision = decision /\ l.sources.preview = preview /\ l.who = who
        BY Zenon DEF sources
    <2> HIDE DEF l
    <2> QED
        BY Zenon, <1>4, <1>5, <1>6, <1>7, <2>1 DEF StandsBehind, Combines
<1>9. AttestedLive' /\ EvidenceStands' /\ now \in Nat
    BY Zenon, <1>1, LiveStays DEF AttestedLive, EvidenceStands, ChainInv
<1>10. PICK m : m = l
    BY Zenon
<1>11. StandsBehind(a, b, m)'
    <2>1. StandsBehind(a, b, m)
        BY Zenon, <1>8, <1>10
    <2> QED
        BY Zenon, <1>1, <2>1, LiveStays DEF StandsBehind
<1>12. linkages' = linkages \cup {m}
    BY Zenon, <1>1, <1>10
<1> HIDE DEF l
<1> QED
    BY <1>1, <1>9, <1>11, <1>12, ChainKeeps

\* Sources change, ids are recorded and time passes: no artifact is touched.
LEMMA QuietStep ==
    ASSUME ChainInv, scene' = scene, now' \in Nat, now <= now', attestations' = attestations,
           evidences' = evidences, linkages' = linkages
    PROVE  ChainInv'
<1>1. AttestedLive'
    BY LiveStays DEF ChainInv, AttestedLive
<1>2. EvidenceStands'
    BY Zenon DEF ChainInv, EvidenceStands
<1> QED
    BY Zenon, <1>1, <1>2, ChainKeeps

LEMMA ChainNextKeeps == ASSUME ChainInv, [ChainNext]_chainVars PROVE ChainInv'
<1>1. now \in Nat
    BY Zenon DEF ChainInv
<1>2. ASSUME NEW s \in scene.sessions, NEW k \in {"reviewer", "approver"}, NEW h \in ReviewedHashes,
             Attest(s, k, h)
      PROVE  ChainInv'
    BY Zenon, <1>2, AttestStep
<1>3. ASSUME NEW a \in attestations, NEW b \in attestations, Combine(a, b) PROVE ChainInv'
    BY Zenon, <1>3, CombineStep
<1>4. ASSUME NEW e \in evidences, NEW c \in scene.choices, Link(e, c) PROVE ChainInv'
    BY Zenon, <1>4, LinkStep
<1>5. ASSUME NEW s \in scene.sessions, Approve(s) PROVE ChainInv'
    BY <1>1, <1>5, QuietStep DEF Approve
<1>6. CASE Use
    BY <1>1, <1>6, QuietStep DEF Use
<1>7. ASSUME NEW v \in scene.versions, Replace(v) PROVE ChainInv'
    BY <1>1, <1>7, QuietStep DEF Replace
<1>8. ASSUME NEW k, NEW id, Record(k, id) PROVE ChainInv'
    BY <1>1, <1>8, QuietStep DEF Record
<1>9. CASE Tick
    BY <1>1, <1>9, QuietStep DEF Tick
<1>10. CASE UNCHANGED chainVars
    BY <1>1, <1>10, QuietStep DEF chainVars
<1> QED
    BY Zenon, <1>2, <1>3, <1>4, <1>5, <1>6, <1>7, <1>8, <1>9, <1>10 DEF ChainNext

-----------------------------------------------------------------------------
(***************************************************************************)
(* Whoever reviews, combines, approves and links in whatever order, and    *)
(* however often the sources are replaced in between, every linkage record *)
(* (createApprovalLinkageRecord) has two attestations of the linked        *)
(* content by two live reviewers behind it, and an approver who is none of *)
(* the others.                                                             *)
(***************************************************************************)
THEOREM RecordsHaveFourEyes == ChainSpec => []FourEyesStandBehind
<1>1. ChainInit => ChainInv
    BY DEF ChainInit, ChainInv, AttestedLive, EvidenceStands
<1>2. ChainInv /\ [ChainNext]_chainVars => ChainInv'
    BY Zenon, ChainNextKeeps
<1>3. ChainInv => FourEyesStandBehind
    BY Zenon DEF ChainInv, StandsBehind, FourEyesStandBehind
<1> QED
    BY <1>1, <1>2, <1>3, PTL DEF ChainSpec

-----------------------------------------------------------------------------
(***************************************************************************)
(* What verification binds.  Accepted sources satisfy fixed equations, and *)
(* the rest of their content is in the record's fields, so a record that   *)
(* verifies twice was twice given the same sources.                        *)
(***************************************************************************)

\* The equations between accepted sources, in one tenant.
Agreeing(tenant, p, a, who) ==
    /\ p.targetHash = Hash(p.target) /\ p.payloadHash = Hash(p.payload)
    /\ p.status = "preview" /\ p.requiresApproval /\ p.tenantId = tenant
    /\ a.status = "approved" /\ ~isIsoUtcTimestamp(a.usedAt) /\ a.tenantId = tenant
    /\ a.workUnitId = p.workUnitId /\ a.actionPreviewId = p.id /\ a.actionType = p.actionType
    /\ a.targetHash = Hash(p.target) /\ a.payloadHash = Hash(p.payload)
    /\ who.creator_identity.user_id = p.creatorUserId

\* An approval that passes every rule of ApprovalIssues.
LEMMA ApprovalPasses ==
    ASSUME NEW context, NEW p, NEW a, ApprovalIssues(context, p, a) = {}
    PROVE  /\ a.status = "approved"
           /\ ~isIsoUtcTimestamp(a.usedAt) /\ a.id \notin context.consumed.approval
           /\ ~OtherTenant(context, a.tenantId)
           /\ a.workUnitId = p.workUnitId /\ a.actionPreviewId = p.id /\ a.actionType = p.actionType
           /\ a.targetHash = Hash(p.target) /\ a.payloadHash = Hash(p.payload)
           /\ a.id \notin context.revoked.approval
<1> DEFINE r1 == When(a.status # "approved", "approval_linkage_approval_record_mismatch")
           r2 == When(a.approvedByUserId = "", "approval_linkage_approver_mismatch")
           r3 == When(\/ isIsoUtcTimestamp(a.usedAt)
                      \/ a.status = "used"
                      \/ a.id \in context.consumed.approval, "approval_linkage_used")
           r4 == When(OtherTenant(context, a.tenantId), "approval_linkage_tenant_mismatch")
           r5 == When(a.workUnitId # p.workUnitId, "approval_linkage_workunit_mismatch")
           r6 == When(a.actionPreviewId # p.id, "approval_linkage_action_preview_mismatch")
           r7 == When(a.actionType # p.actionType, "approval_linkage_action_type_mismatch")
           r8 == When(a.targetHash # Hash(p.target), "approval_linkage_target_hash_mismatch")
           r9 == When(a.payloadHash # Hash(p.payload), "approval_linkage_payload_hash_mismatch")
           r10 == When(a.id \in context.revoked.approval, "approval_linkage_revoked")
           r11 == When(context.evaluated_at >= a.expiresAt, "approval_linkage_expired")
<1>1. r1 \cup r2 \cup r3 \cup r4 \cup r5 \cup r6 \cup r7 \cup r8 \cup r9 \cup r10 \cup r11 = {}
    BY Zenon DEF ApprovalIssues
<1>2. /\ r1 = {} /\ r3 = {} /\ r4 = {} /\ r5 = {} /\ r6 = {} /\ r7 = {} /\ r8 = {} /\ r9 = {}
      /\ r10 = {}
    <2> HIDE DEF r1, r2, r3, r4, r5, r6, r7, r8, r9, r10, r11
    <2> QED
        BY Zenon, <1>1
<1>3. a.status = "approved" /\ ~OtherTenant(context, a.tenantId) /\ a.workUnitId = p.workUnitId
    BY Zenon, <1>2, NoIssue
<1>4. a.actionPreviewId = p.id /\ a.actionType = p.actionType
    BY Zenon, <1>2, NoIssue
<1>5. a.targetHash = Hash(p.target) /\ a.payloadHash = Hash(p.payload)
    BY Zenon, <1>2, NoIssue
<1>6. /\ ~isIsoUtcTimestamp(a.usedAt) /\ a.id \notin context.consumed.approval
      /\ a.id \notin context.revoked.approval
    BY Zenon, <1>2, NoIssue
<1> QED
    BY Zenon, <1>3, <1>4, <1>5, <1>6

LEMMA SourcesAgree ==
    ASSUME NEW context, NEW linkedAt, NEW id, evaluateApprovalChain(context, linkedAt, id).issues = {}
    PROVE  Agreeing(context.tenant_id, context.action_preview, context.approval_record,
                    context.identity_input.identities)
<1> DEFINE p == context.action_preview
           a == context.approval_record
           ii == context.identity_input
<1>1. /\ StateIssues(context, id) = {} /\ ActionPreviewIssues(context, p) = {}
      /\ ApprovalIssues(context, p, a) = {} /\ IdentityIssues(context, p, a, ii) = {}
    BY Zenon, ChainAccepted
<1>2. context.tenant_id # ""
    BY Zenon, <1>1, NoIssue DEF StateIssues
<1>3. /\ p.targetHash = Hash(p.target) /\ p.payloadHash = Hash(p.payload)
      /\ ~(p.status # "preview" \/ ~p.requiresApproval) /\ ~OtherTenant(context, p.tenantId)
    BY Zenon, <1>1, NoIssue DEF ActionPreviewIssues
<1>4. /\ a.status = "approved" /\ ~isIsoUtcTimestamp(a.usedAt)
      /\ ~OtherTenant(context, a.tenantId)
      /\ a.workUnitId = p.workUnitId /\ a.actionPreviewId = p.id /\ a.actionType = p.actionType
      /\ a.targetHash = Hash(p.target) /\ a.payloadHash = Hash(p.payload)
    <2> HIDE DEF p, a
    <2> QED
        BY <1>1, ApprovalPasses
<1>5. ii.identities.creator_identity.user_id = p.creatorUserId
    BY Zenon, <1>1, NoIssue DEF IdentityIssues
<1>6. p.tenantId = context.tenant_id /\ a.tenantId = context.tenant_id
    BY Zenon, <1>2, <1>3, <1>4 DEF OtherTenant
<1> QED
    BY Zenon, <1>3, <1>4, <1>5, <1>6 DEF Agreeing

\* None of the ids is withdrawn, and nothing has expired.
LEMMA StillGood ==
    ASSUME NEW context, NEW linkedAt, NEW id, evaluateApprovalChain(context, linkedAt, id).issues = {},
           id # ""
    PROVE  LET p == context.action_preview
               a == context.approval_record
               e == context.review_evidence
           IN /\ id \notin context.consumed.linkage /\ id \notin context.revoked.linkage
              /\ a.id \notin context.consumed.approval /\ a.id \notin context.revoked.approval
              /\ e.review_evidence_id \notin context.consumed.review
              /\ e.review_evidence_id \notin context.revoked.review
              /\ ~(context.evaluated_at >= LinkageExpiry(e, p, a))
<1> DEFINE p == context.action_preview
           a == context.approval_record
           e == context.review_evidence
           hash == hashApprovalReviewEnvelope(context.tenant_id, context.human_decision, p)
           review == ReviewContext(context, p, hash)
<1>1. /\ StateIssues(context, id) = {} /\ ApprovalIssues(context, p, a) = {}
      /\ ReviewIssues(context, p, hash) = {} /\ TimelineOfChain(context, p, a, linkedAt) = {}
    BY Zenon, ChainAccepted
<1>2. id \notin context.consumed.linkage /\ id \notin context.revoked.linkage
    BY Zenon, <1>1, NoIssue DEF StateIssues
<1>3. a.id \notin context.consumed.approval /\ a.id \notin context.revoked.approval
    BY Zenon, <1>1, ApprovalPasses
<1>4. ~(context.evaluated_at >= LinkageExpiry(e, p, a))
    BY Zenon, <1>1, NoIssue DEF TimelineOfChain
<1>5. verifyFourEyesReviewEvidence(e, review) = {}
    BY Zenon, <1>1 DEF ReviewIssues
<1>6. /\ review.revoked_review_evidence_ids = context.revoked.review
      /\ review.consumed_review_evidence_ids = context.consumed.review
    BY Zenon DEF ReviewContext
<1> HIDE DEF review
<1>7. /\ e.review_evidence_id \notin review.revoked_review_evidence_ids
      /\ e.review_evidence_id \notin review.consumed_review_evidence_ids
    BY Zenon, <1>5, NoIssue DEF verifyFourEyesReviewEvidence
<1> QED
    BY Zenon, <1>2, <1>3, <1>4, <1>6, <1>7

\* The binding fields of sources, evidence and people.
Bound(tenant, src, e, who) ==
    Derived([tenant_id |-> tenant, human_decision |-> src.decision, review_evidence |-> e],
            src.preview, src.approval, [identities |-> who])

LEMMA BoundIsDerived ==
    ASSUME NEW e, NEW who
    PROVE  LET context == Context(e, who)
           IN Derived(context, context.action_preview, context.approval_record, context.identity_input)
                = Bound(scene.tenant, sources, e, who)
BY Zenon DEF Bound, Derived, Context, sources

LEMMA HashIsExact == ASSUME NEW x, NEW y, Hash(x) = Hash(y) PROVE x = y
BY Zenon DEF Hash

\* The binding fields that, with the equations, determine the sources.
DETERMINING == {"human_decision_hash", "review_evidence_hash", "identity_chain_hash", "workunit_id",
                "action_preview_id", "action_type", "target_hash", "payload_hash",
                "preview_created_at", "preview_expires_at", "approval_id", "approver_id",
                "approval_created_at", "approval_approved_at", "approval_expires_at"}

HasFields(b, tenant, src, e, who) ==
    LET p == src.preview
        a == src.approval
    IN /\ b["human_decision_hash"] = hashHumanDecisionSnapshot(src.decision)
       /\ b["review_evidence_hash"] = hashHumanDecisionSnapshot(e)
       /\ b["identity_chain_hash"] = hashApprovalIdentityChain(tenant, who)
       /\ b["workunit_id"] = p.workUnitId /\ b["action_preview_id"] = p.id /\ b["action_type"] = p.actionType
       /\ b["target_hash"] = Hash(p.target) /\ b["payload_hash"] = Hash(p.payload)
       /\ b["preview_created_at"] = p.createdAt /\ b["preview_expires_at"] = p.expiresAt
       /\ b["approval_id"] = a.id /\ b["approver_id"] = a.approvedByUserId
       /\ b["approval_created_at"] = a.createdAt /\ b["approval_approved_at"] = a.approvedAt
       /\ b["approval_expires_at"] = a.expiresAt

LEMMA BoundFields ==
    ASSUME NEW tenant, NEW src, NEW e, NEW who, NEW b, b = Bound(tenant, src, e, who)
    PROVE  DETERMINING \subseteq DOMAIN b /\ HasFields(b, tenant, src, e, who)
<1>1. DETERMINING \subseteq DOMAIN b
    BY Zenon DEF Bound, Derived, DETERMINING
<1> QED
    BY Zenon, <1>1 DEF Bound, Derived, HasFields

SameFields(b1, b2) == \A f \in DETERMINING : b1[f] = b2[f]

SamePreviewColumns(p1, p2) ==
    /\ p1.workUnitId = p2.workUnitId /\ p1.id = p2.id /\ p1.actionType = p2.actionType
    /\ Hash(p1.target) = Hash(p2.target) /\ Hash(p1.payload) = Hash(p2.payload)
    /\ p1.createdAt = p2.createdAt /\ p1.expiresAt = p2.expiresAt

SameApprovalColumns(a1, a2) ==
    /\ a1.id = a2.id /\ a1.approvedByUserId = a2.approvedByUserId
    /\ a1.createdAt = a2.createdAt /\ a1.approvedAt = a2.approvedAt /\ a1.expiresAt = a2.expiresAt

LEMMA SameBound ==
    ASSUME NEW tenant, NEW s1, NEW s2, NEW e1, NEW e2, NEW who1, NEW who2,
           SameFields(Bound(tenant, s1, e1, who1), Bound(tenant, s2, e2, who2))
    PROVE  /\ hashHumanDecisionSnapshot(s1.decision) = hashHumanDecisionSnapshot(s2.decision)
           /\ hashHumanDecisionSnapshot(e1) = hashHumanDecisionSnapshot(e2)
           /\ hashApprovalIdentityChain(tenant, who1) = hashApprovalIdentityChain(tenant, who2)
           /\ SamePreviewColumns(s1.preview, s2.preview) /\ SameApprovalColumns(s1.approval, s2.approval)
<1>0. PICK b1, b2 : b1 = Bound(tenant, s1, e1, who1) /\ b2 = Bound(tenant, s2, e2, who2)
    BY Zenon
<1>1. HasFields(b1, tenant, s1, e1, who1) /\ HasFields(b2, tenant, s2, e2, who2)
    BY Zenon, <1>0, BoundFields
<1>2. \A f \in DETERMINING : b1[f] = b2[f]
    BY Zenon, <1>0 DEF SameFields
<1>3. /\ b1["human_decision_hash"] = b2["human_decision_hash"]
      /\ b1["review_evidence_hash"] = b2["review_evidence_hash"]
      /\ b1["identity_chain_hash"] = b2["identity_chain_hash"]
      /\ b1["workunit_id"] = b2["workunit_id"] /\ b1["action_preview_id"] = b2["action_preview_id"]
      /\ b1["action_type"] = b2["action_type"] /\ b1["target_hash"] = b2["target_hash"]
      /\ b1["payload_hash"] = b2["payload_hash"]
    BY Zenon, <1>2 DEF DETERMINING
<1>4. /\ b1["preview_created_at"] = b2["preview_created_at"]
      /\ b1["preview_expires_at"] = b2["preview_expires_at"]
      /\ b1["approval_id"] = b2["approval_id"] /\ b1["approver_id"] = b2["approver_id"]
      /\ b1["approval_created_at"] = b2["approval_created_at"]
      /\ b1["approval_approved_at"] = b2["approval_approved_at"]
      /\ b1["approval_expires_at"] = b2["approval_expires_at"]
    BY Zenon, <1>2 DEF DETERMINING
<1> QED
    BY Zenon, <1>1, <1>3, <1>4 DEF HasFields, SamePreviewColumns, SameApprovalColumns

\* The same people, by the hash of the identity chain.
LEMMA SamePeople ==
    ASSUME NEW tenant, NEW who1, NEW who2,
           hashApprovalIdentityChain(tenant, who1) = hashApprovalIdentityChain(tenant, who2)
    PROVE  /\ UserIds(who1) = UserIds(who2)
           /\ who1.creator_identity.user_id = who2.creator_identity.user_id
<1> DEFINE named == DOMAIN IDENTITY_POSITIONS \ {"executor_identity"}
<1>1. \A p \in named : who1[p].user_id = who2[p].user_id
    BY Zenon, HashIsExact DEF hashApprovalIdentityChain
<1>2. "creator_identity" \in named
    BY Zenon DEF IDENTITY_POSITIONS
<1>3. UserIds(who1) = UserIds(who2)
    BY Zenon, <1>1 DEF UserIds
<1> QED
    BY Zenon, <1>1, <1>2, <1>3

LEMMA SamePreview ==
    ASSUME NEW p1, NEW p2, IsPreviewRow(p1), IsPreviewRow(p2),
           p1.requiresApproval, p2.requiresApproval,
           \A f \in PREVIEW_FIELDS \ {"requiresApproval", "extra"} : p1[f] = p2[f]
    PROVE  p1 = p2
<1>1. p1.requiresApproval = p2.requiresApproval /\ p1.extra = p2.extra
    BY Zenon DEF IsPreviewRow
<1>2. \A f \in PREVIEW_FIELDS : p1[f] = p2[f]
    BY Zenon, <1>1
<1> QED
    BY Zenon, <1>2 DEF IsPreviewRow

LEMMA SameApproval ==
    ASSUME NEW a1, NEW a2, IsApprovalRow(a1), IsApprovalRow(a2),
           ~isIsoUtcTimestamp(a1.usedAt), ~isIsoUtcTimestamp(a2.usedAt),
           \A f \in APPROVAL_FIELDS \ {"usedAt"} : a1[f] = a2[f]
    PROVE  a1 = a2
<1>1. a1.usedAt = NoTime /\ a2.usedAt = NoTime
    BY DEF IsApprovalRow, isIsoUtcTimestamp, NoTime
<1>2. \A f \in APPROVAL_FIELDS : a1[f] = a2[f]
    BY Zenon, <1>1
<1> QED
    BY Zenon, <1>2 DEF IsApprovalRow

\* Two bundles of accepted sources with the same binding fields are the same.
LEMMA BoundIsExact ==
    ASSUME NEW tenant, NEW s1, NEW s2, NEW e1, NEW e2, NEW who1, NEW who2,
           IsPreviewRow(s1.preview), IsPreviewRow(s2.preview),
           IsApprovalRow(s1.approval), IsApprovalRow(s2.approval),
           Agreeing(tenant, s1.preview, s1.approval, who1), Agreeing(tenant, s2.preview, s2.approval, who2),
           SameFields(Bound(tenant, s1, e1, who1), Bound(tenant, s2, e2, who2))
    PROVE  /\ e1 = e2 /\ s1.decision = s2.decision /\ s1.preview = s2.preview
           /\ s1.approval = s2.approval /\ UserIds(who1) = UserIds(who2)
<1>0. PICK p1, p2, a1, a2 : p1 = s1.preview /\ p2 = s2.preview /\ a1 = s1.approval /\ a2 = s2.approval
    BY Zenon
<1>1. /\ hashHumanDecisionSnapshot(s1.decision) = hashHumanDecisionSnapshot(s2.decision)
      /\ hashHumanDecisionSnapshot(e1) = hashHumanDecisionSnapshot(e2)
      /\ hashApprovalIdentityChain(tenant, who1) = hashApprovalIdentityChain(tenant, who2)
      /\ SamePreviewColumns(s1.preview, s2.preview) /\ SameApprovalColumns(s1.approval, s2.approval)
    BY Zenon, SameBound
<1>2. /\ p1.workUnitId = p2.workUnitId /\ p1.id = p2.id /\ p1.actionType = p2.actionType
      /\ Hash(p1.target) = Hash(p2.target) /\ Hash(p1.payload) = Hash(p2.payload)
      /\ p1.createdAt = p2.createdAt /\ p1.expiresAt = p2.expiresAt
    BY Zenon, <1>0, <1>1 DEF SamePreviewColumns
<1>3. /\ a1.id = a2.id /\ a1.approvedByUserId = a2.approvedByUserId /\ a1.createdAt = a2.createdAt
      /\ a1.approvedAt = a2.approvedAt /\ a1.expiresAt = a2.expiresAt
    BY Zenon, <1>0, <1>1 DEF SameApprovalColumns
<1>4. e1 = e2 /\ s1.decision = s2.decision
    <2>1. ASSUME NEW x, NEW y, hashHumanDecisionSnapshot(x) = hashHumanDecisionSnapshot(y) PROVE x = y
        BY Zenon, <2>1, HashIsExact DEF hashHumanDecisionSnapshot
    <2> QED
        BY Zenon, <1>1, <2>1
<1>5. UserIds(who1) = UserIds(who2) /\ who1.creator_identity.user_id = who2.creator_identity.user_id
    BY Zenon, <1>1, SamePeople
<1>6. p1.target = p2.target /\ p1.payload = p2.payload
    BY Zenon, <1>2, HashIsExact
<1>7. /\ Agreeing(tenant, p1, a1, who1) /\ Agreeing(tenant, p2, a2, who2)
      /\ IsPreviewRow(p1) /\ IsPreviewRow(p2) /\ IsApprovalRow(a1) /\ IsApprovalRow(a2)
    BY Zenon, <1>0
<1>8. /\ p1.tenantId = p2.tenantId /\ p1.status = p2.status /\ p1.creatorUserId = p2.creatorUserId
      /\ p1.targetHash = p2.targetHash /\ p1.payloadHash = p2.payloadHash
      /\ p1.requiresApproval /\ p2.requiresApproval
    <2>1. /\ p1.tenantId = tenant /\ p1.status = "preview" /\ p1.requiresApproval
          /\ p1.targetHash = Hash(p1.target) /\ p1.payloadHash = Hash(p1.payload)
          /\ who1.creator_identity.user_id = p1.creatorUserId
        BY Zenon, <1>7 DEF Agreeing
    <2>2. /\ p2.tenantId = tenant /\ p2.status = "preview" /\ p2.requiresApproval
          /\ p2.targetHash = Hash(p2.target) /\ p2.payloadHash = Hash(p2.payload)
          /\ who2.creator_identity.user_id = p2.creatorUserId
        BY Zenon, <1>7 DEF Agreeing
    <2> QED
        BY Zenon, <1>5, <1>6, <2>1, <2>2
<1>9. /\ a1.tenantId = a2.tenantId /\ a1.status = a2.status /\ a1.workUnitId = a2.workUnitId
      /\ a1.actionPreviewId = a2.actionPreviewId /\ a1.actionType = a2.actionType
      /\ a1.targetHash = a2.targetHash /\ a1.payloadHash = a2.payloadHash
      /\ ~isIsoUtcTimestamp(a1.usedAt) /\ ~isIsoUtcTimestamp(a2.usedAt)
    <2>1. /\ a1.tenantId = tenant /\ a1.status = "approved" /\ ~isIsoUtcTimestamp(a1.usedAt)
          /\ a1.workUnitId = p1.workUnitId /\ a1.actionPreviewId = p1.id /\ a1.actionType = p1.actionType
          /\ a1.targetHash = Hash(p1.target) /\ a1.payloadHash = Hash(p1.payload)
        BY Zenon, <1>7 DEF Agreeing
    <2>2. /\ a2.tenantId = tenant /\ a2.status = "approved" /\ ~isIsoUtcTimestamp(a2.usedAt)
          /\ a2.workUnitId = p2.workUnitId /\ a2.actionPreviewId = p2.id /\ a2.actionType = p2.actionType
          /\ a2.targetHash = Hash(p2.target) /\ a2.payloadHash = Hash(p2.payload)
        BY Zenon, <1>7 DEF Agreeing
    <2> QED
        BY Zenon, <1>2, <1>6, <2>1, <2>2
<1>10. p1 = p2
    <2>1. \A f \in PREVIEW_FIELDS \ {"requiresApproval", "extra"} : p1[f] = p2[f]
        BY Zenon, <1>2, <1>6, <1>8 DEF PREVIEW_FIELDS
    <2> QED
        BY Zenon, <1>7, <1>8, <2>1, SamePreview
<1>11. a1 = a2
    <2>1. \A f \in APPROVAL_FIELDS \ {"usedAt"} : a1[f] = a2[f]
        BY Zenon, <1>3, <1>9 DEF APPROVAL_FIELDS
    <2> QED
        BY Zenon, <1>7, <1>9, <2>1, SameApproval
<1> QED
    BY Zenon, <1>0, <1>4, <1>5, <1>10, <1>11

-----------------------------------------------------------------------------
(***************************************************************************)
(* The second inductive invariant: the stored rows keep their columns, and *)
(* every record holds the binding fields of the sources kept with it,      *)
(* which agreed with each other when it was made.                          *)
(***************************************************************************)
Binds(l) ==
    /\ l.sources = [decision |-> l.sources.decision, preview |-> l.sources.preview,
                    approval |-> l.sources.approval]
    /\ IsPreviewRow(l.sources.preview) /\ IsApprovalRow(l.sources.approval)
    /\ l.evidence.review_expires_at \in Int
    /\ Agreeing(scene.tenant, l.sources.preview, l.sources.approval, l.who)
    /\ Carries(l.record, Bound(scene.tenant, l.sources, l.evidence, l.who))

BindInv ==
    /\ scene \in Scenes /\ now \in Nat
    /\ IsPreviewRow(preview) /\ IsApprovalRow(approval)
    /\ \A e \in evidences : e.review_expires_at \in Int
    /\ \A l \in linkages : Binds(l)

LEMMA BindsStays == ASSUME scene' = scene, NEW l, Binds(l) PROVE Binds(l)'
BY Zenon DEF Binds, Bound, Agreeing, Carries

\* Steps that make no record and no evidence.
LEMMA BindKeeps ==
    ASSUME BindInv, scene' = scene, now' \in Nat, IsPreviewRow(preview'), IsApprovalRow(approval'),
           evidences' = evidences, linkages' = linkages
    PROVE  BindInv'
<1>1. \A l \in linkages' : Binds(l)'
    BY Zenon, BindsStays DEF BindInv
<1>2. IsPreviewRow(preview)' /\ IsApprovalRow(approval)'
    BY Zenon DEF IsPreviewRow, IsApprovalRow
<1> QED
    BY Zenon, <1>1, <1>2 DEF BindInv

LEMMA ApprovalRowStays ==
    ASSUME BindInv, NEW s, Approve(s) \/ Use
    PROVE  IsApprovalRow(approval')
<1>1. IsApprovalRow(approval) /\ now \in Nat
    BY Zenon DEF BindInv
<1>2. DOMAIN approval = APPROVAL_FIELDS
    BY Zenon, <1>1 DEF IsApprovalRow
<1>3. CASE Approve(s)
    BY Zenon, <1>1, <1>2, <1>3 DEF Approve, IsApprovalRow, APPROVAL_FIELDS
<1>4. CASE Use
    BY Zenon, <1>1, <1>2, <1>4 DEF Use, IsApprovalRow, APPROVAL_FIELDS
<1> QED
    BY Zenon, <1>3, <1>4

LEMMA CombineBinds ==
    ASSUME BindInv, NEW a \in attestations, NEW b \in attestations, Combine(a, b)
    PROVE  BindInv'
<1> DEFINE input == [review_evidence_id |-> scene.evidenceIds[Cardinality(evidences) + 1],
                     review_completed_at |-> now,
                     review_expires_at |-> now + scene.reviewTtl, extra |-> {}]
           made == createFourEyesReviewEvidence(input, a, b, decision)
<1>1. /\ made # NotAnObject /\ evidences' = evidences \cup {made}
      /\ scene' = scene /\ now' = now /\ preview' = preview /\ approval' = approval /\ linkages' = linkages
    BY Zenon DEF Combine
<1>2. now \in Nat /\ scene.reviewTtl \in Int
    BY Zenon, ChainAssumption DEF BindInv
<1>3. input.review_expires_at \in Int
    BY <1>2
<1>4. made.review_expires_at \in Int
    <2> HIDE DEF input
    <2> QED
        BY <1>1, <1>3, EvidenceMade
<1> HIDE DEF made
<1>5. PICK m : m = made
    BY Zenon
<1>6. evidences' = evidences \cup {m} /\ m.review_expires_at \in Int
    BY Zenon, <1>1, <1>4, <1>5
<1>7. \A e \in evidences' : e.review_expires_at \in Int
    BY Zenon, <1>6 DEF BindInv
<1>8. \A l \in linkages' : Binds(l)'
    BY Zenon, <1>1, BindsStays DEF BindInv
<1>9. IsPreviewRow(preview)' /\ IsApprovalRow(approval)'
    BY Zenon, <1>1 DEF BindInv, IsPreviewRow, IsApprovalRow
<1> QED
    BY Zenon, <1>1, <1>7, <1>8, <1>9 DEF BindInv

LEMMA LinkBinds ==
    ASSUME BindInv, NEW e \in evidences, NEW c, Link(e, c)
    PROVE  BindInv'
<1> DEFINE who == Identities(c)
           context == Context(e, who)
           input == [approval_linkage_id |-> scene.linkageIds[Cardinality(linkages) + 1],
                     linked_at |-> now, extra |-> {}]
           made == createApprovalLinkageRecord(input, context)
           l == [record |-> made, sources |-> sources, evidence |-> e, who |-> who]
           bound == Bound(scene.tenant, sources, e, who)
<1>1. /\ made # NotAnObject /\ linkages' = linkages \cup {l}
      /\ scene' = scene /\ now' = now /\ preview' = preview /\ approval' = approval
      /\ evidences' = evidences
    BY Zenon DEF Link
<1>2. /\ context.tenant_id = scene.tenant /\ context.action_preview = preview
      /\ context.approval_record = approval /\ context.identity_input.identities = who
    BY Zenon DEF Context
<1>3. Derived(context, context.action_preview, context.approval_record, context.identity_input) = bound
    BY Zenon, BoundIsDerived
<1> HIDE DEF who, context, input, made, bound
<1>4. /\ evaluateApprovalChain(context, input.linked_at, input.approval_linkage_id).issues = {}
      /\ Carries(made, bound)
    <2> DEFINE d == Derived(context, context.action_preview, context.approval_record, context.identity_input)
    <2>1. /\ evaluateApprovalChain(context, input.linked_at, input.approval_linkage_id).issues = {}
          /\ Carries(made, d)
        BY Zenon, <1>1, RecordMade DEF made
    <2> QED
        BY Zenon, <1>3, <2>1
<1>5. Agreeing(scene.tenant, preview, approval, who)
    BY Zenon, <1>2, <1>4, SourcesAgree
<1>6. IsPreviewRow(preview) /\ IsApprovalRow(approval) /\ e.review_expires_at \in Int /\ now \in Nat
    BY Zenon DEF BindInv
<1>7. Binds(l)
    <2>1. l.record = made /\ l.sources = sources /\ l.evidence = e /\ l.who = who
        BY Zenon
    <2>2. /\ sources.decision = decision /\ sources.preview = preview /\ sources.approval = approval
          /\ sources = [decision |-> decision, preview |-> preview, approval |-> approval]
        BY Zenon DEF sources
    <2> HIDE DEF l
    <2> QED
        BY Zenon, <1>4, <1>5, <1>6, <2>1, <2>2 DEF Binds, Carries, bound
<1>8. PICK m : m = l
    BY Zenon
<1>9. linkages' = linkages \cup {m} /\ Binds(m)
    BY Zenon, <1>1, <1>7, <1>8
<1> HIDE DEF l
<1>10. \A k \in linkages' : Binds(k)'
    <2>1. \A k \in linkages : Binds(k)
        BY Zenon DEF BindInv
    <2>2. \A k \in linkages \cup {m} : Binds(k)
        BY Zenon, <1>9, <2>1
    <2>3. TAKE k \in linkages'
    <2>4. Binds(k)
        BY Zenon, <1>9, <2>2, <2>3
    <2> QED
        BY Zenon, <1>1, <2>4, BindsStays
<1>11. IsPreviewRow(preview)' /\ IsApprovalRow(approval)'
    BY Zenon, <1>1, <1>6 DEF IsPreviewRow, IsApprovalRow
<1>12. \A k \in evidences' : k.review_expires_at \in Int
    BY Zenon, <1>1 DEF BindInv
<1> QED
    BY Zenon, <1>1, <1>6, <1>10, <1>11, <1>12 DEF BindInv

LEMMA BindNextKeeps == ASSUME BindInv, [ChainNext]_chainVars PROVE BindInv'
<1>1. now \in Nat /\ IsPreviewRow(preview) /\ IsApprovalRow(approval) /\ scene \in Scenes
    BY Zenon DEF BindInv
<1>2. ASSUME NEW s, NEW k, NEW h, Attest(s, k, h) PROVE BindInv'
    <2>1. /\ scene' = scene /\ now' = now /\ preview' = preview /\ approval' = approval
          /\ evidences' = evidences /\ linkages' = linkages
        BY Zenon, <1>2 DEF Attest
    <2> QED
        BY Zenon, <1>1, <2>1, BindKeeps
<1>3. ASSUME NEW a \in attestations, NEW b \in attestations, Combine(a, b) PROVE BindInv'
    BY Zenon, <1>3, CombineBinds
<1>4. ASSUME NEW e \in evidences, NEW c, Link(e, c) PROVE BindInv'
    BY Zenon, <1>4, LinkBinds
<1>5. ASSUME NEW s, Approve(s) PROVE BindInv'
    <2>1. IsApprovalRow(approval')
        BY Zenon, <1>5, ApprovalRowStays
    <2> QED
        BY Zenon, <1>1, <1>5, <2>1, BindKeeps DEF Approve
<1>6. CASE Use
    <2>1. IsApprovalRow(approval')
        BY Zenon, <1>6, ApprovalRowStays
    <2> QED
        BY Zenon, <1>1, <1>6, <2>1, BindKeeps DEF Use
<1>7. ASSUME NEW v \in scene.versions, Replace(v) PROVE BindInv'
    <2>1. IsPreviewRow(v.preview)
        BY Zenon, <1>1, ChainAssumption
    <2>2. IsPreviewRow(preview')
        BY Zenon, <1>7, <2>1 DEF Replace
    <2> QED
        BY Zenon, <1>1, <1>7, <2>2, BindKeeps DEF Replace
<1>8. ASSUME NEW k, NEW id, Record(k, id) PROVE BindInv'
    BY Zenon, <1>1, <1>8, BindKeeps DEF Record
<1>9. CASE Tick
    BY <1>1, <1>9, BindKeeps DEF Tick
<1>10. CASE UNCHANGED chainVars
    BY Zenon, <1>1, <1>10, BindKeeps DEF chainVars
<1> QED
    BY Zenon, <1>2, <1>3, <1>4, <1>5, <1>6, <1>7, <1>8, <1>9, <1>10 DEF ChainNext

LEMMA BindInvHolds == ChainSpec => []BindInv
<1>1. ChainInit => BindInv
    BY ChainAssumption DEF ChainInit, BindInv
<1>2. BindInv /\ [ChainNext]_chainVars => BindInv'
    BY Zenon, BindNextKeeps
<1> QED
    BY <1>1, <1>2, PTL DEF ChainSpec

-----------------------------------------------------------------------------
\* What the verdict "verified" says of a record.
LEMMA VerifiedRecord ==
    ASSUME NEW record, NEW context, verifyApprovalLinkage(record, context).state = "verified"
    PROVE  LET d == Derived(context, context.action_preview, context.approval_record, context.identity_input)
           IN /\ evaluateApprovalChain(context, record.linked_at, record.approval_linkage_id).issues = {}
              /\ record.approval_linkage_id # ""
              /\ Carries(record, d)
<1> DEFINE d == Derived(context, context.action_preview, context.approval_record, context.identity_input)
           evaluation == evaluateApprovalChain(context, record.linked_at, record.approval_linkage_id)
           self == When(hashApprovalLinkagePayload(record) # record.linkage_hash, "approval_linkage_hash_mismatch")
           issues == self \cup evaluation.issues
                     \cup When(StaleFields(record, evaluation.derived) # {}, "approval_linkage_stale")
           malformed == validateApprovalLinkageRecord(record)
           verdict == verifyApprovalLinkage(record, context)
<1>1. verdict = IF malformed # {} THEN [state |-> "invalid", issues |-> malformed]
                ELSE [state |-> LinkageStateOf(self, issues), issues |-> issues]
    BY Zenon DEF verifyApprovalLinkage
<1> HIDE DEF malformed, self, issues, verdict
<1>2. verdict.state = "verified"
    BY Zenon DEF verdict
<1>3. malformed = {} /\ LinkageStateOf(self, issues) = "verified"
    BY Zenon, <1>1, <1>2
<1>4. issues = {}
    BY Zenon, <1>3 DEF LinkageStateOf
<1>5. evaluation.issues = {} /\ When(StaleFields(record, evaluation.derived) # {}, "approval_linkage_stale") = {}
    BY Zenon, <1>4 DEF issues
<1>6. StaleFields(record, evaluation.derived) = {}
    BY Zenon, <1>5, NoIssue
<1>7. evaluation.derived = d
    BY Zenon, <1>5, ChainDerives
<1>8. d # NotAnObject
    <2>1. "tenant_id" \in DOMAIN d
        BY Zenon DEF Derived
    <2>2. "tenant_id" \notin DOMAIN NotAnObject
        BY Zenon DEF NotAnObject
    <2> QED
        BY Zenon, <2>1, <2>2
<1> HIDE DEF evaluation, d
<1>9. \A f \in DOMAIN d : record[f] = d[f]
    BY Zenon, <1>6, <1>7, <1>8 DEF StaleFields
<1>10. record.approval_linkage_id # ""
    BY Zenon, <1>3, NoIssue DEF malformed, validateApprovalLinkageRecord
<1> QED
    BY Zenon, <1>5, <1>9, <1>10 DEF evaluation, d, Carries

\* The least of three times does not depend on the grouping.
LEMMA LeastOfThree ==
    ASSUME NEW t \in Int, NEW x \in Int, NEW y \in Int, NEW z \in Int, ~(t >= minIso(minIso(x, y), z))
    PROVE  t < minIso(x, minIso(y, z))
BY DEF minIso

LEMMA VerifiedIsCurrent ==
    ASSUME BindInv, NEW l \in linkages, NEW e \in evidences, NEW who, Verdict(l, e, who) = "verified"
    PROVE  Current(l, e, who)
<1> DEFINE context == Context(e, who)
           id == l.record.approval_linkage_id
           past == Bound(scene.tenant, l.sources, l.evidence, l.who)
           present == Bound(scene.tenant, sources, e, who)
<1>1. verifyApprovalLinkage(l.record, context).state = "verified"
    BY Zenon DEF Verdict
<1>2. /\ context.tenant_id = scene.tenant /\ context.action_preview = preview
      /\ context.approval_record = approval /\ context.identity_input.identities = who
      /\ context.review_evidence = e /\ context.evaluated_at = now
      /\ context.revoked = revoked /\ context.consumed = consumed
    BY Zenon DEF Context
<1>3. Derived(context, context.action_preview, context.approval_record, context.identity_input) = present
    BY Zenon, BoundIsDerived
<1> HIDE DEF context, past, present
<1>4. /\ evaluateApprovalChain(context, l.record.linked_at, id).issues = {} /\ id # ""
      /\ \A f \in DOMAIN present : l.record[f] = present[f]
    <2>1. evaluateApprovalChain(context, l.record.linked_at, id).issues = {}
        BY Zenon, <1>1, VerifiedRecord
    <2>2. id # ""
        BY Zenon, <1>1, VerifiedRecord
    <2>3. LET d == Derived(context, context.action_preview, context.approval_record, context.identity_input)
          IN Carries(l.record, d)
        BY Zenon, <1>1, VerifiedRecord
    <2> QED
        BY Zenon, <1>3, <2>1, <2>2, <2>3 DEF Carries
<1>5. Agreeing(scene.tenant, preview, approval, who)
    BY Zenon, <1>2, <1>4, SourcesAgree
<1>6. /\ id \notin consumed.linkage /\ id \notin revoked.linkage
      /\ approval.id \notin consumed.approval /\ approval.id \notin revoked.approval
      /\ e.review_evidence_id \notin consumed.review /\ e.review_evidence_id \notin revoked.review
      /\ ~(now >= LinkageExpiry(e, preview, approval))
    BY Zenon, <1>2, <1>4, StillGood
<1>7. Binds(l) /\ IsPreviewRow(preview) /\ IsApprovalRow(approval) /\ now \in Int /\ e.review_expires_at \in Int
    BY DEF BindInv
<1>8. /\ sources.decision = decision /\ sources.preview = preview /\ sources.approval = approval
      /\ sources = [decision |-> decision, preview |-> preview, approval |-> approval]
    BY Zenon DEF sources
<1>9. \A f \in DETERMINING : past[f] = present[f]
    <2>1. \A f \in DOMAIN past : l.record[f] = past[f]
        BY Zenon, <1>7 DEF Binds, Carries, past
    <2>2. DETERMINING \subseteq DOMAIN past /\ DETERMINING \subseteq DOMAIN present
        BY Zenon, BoundFields DEF past, present
    <2> QED
        BY Zenon, <1>4, <2>1, <2>2
<1>10. /\ l.evidence = e /\ l.sources.decision = decision /\ l.sources.preview = preview
       /\ l.sources.approval = approval /\ UserIds(l.who) = UserIds(who)
    <2>1. /\ IsPreviewRow(l.sources.preview) /\ IsApprovalRow(l.sources.approval)
          /\ Agreeing(scene.tenant, l.sources.preview, l.sources.approval, l.who)
        BY Zenon, <1>7 DEF Binds
    <2>2. /\ IsPreviewRow(sources.preview) /\ IsApprovalRow(sources.approval)
          /\ Agreeing(scene.tenant, sources.preview, sources.approval, who)
        BY Zenon, <1>5, <1>7, <1>8
    <2>3. SameFields(Bound(scene.tenant, l.sources, l.evidence, l.who),
                     Bound(scene.tenant, sources, e, who))
        BY Zenon, <1>9 DEF past, present, SameFields
    <2>4. /\ l.evidence = e /\ l.sources.decision = sources.decision /\ l.sources.preview = sources.preview
          /\ l.sources.approval = sources.approval /\ UserIds(l.who) = UserIds(who)
        BY <2>1, <2>2, <2>3, BoundIsExact
    <2> QED
        BY Zenon, <1>8, <2>4
<1>11. l.sources = sources
    BY Zenon, <1>7, <1>8, <1>10 DEF Binds
<1>12. l.record.approval_id = approval.id /\ l.record.review_evidence_id = e.review_evidence_id
    <2>1. /\ {"approval_id", "review_evidence_id"} \subseteq DOMAIN present
          /\ present["approval_id"] = approval.id /\ present["review_evidence_id"] = e.review_evidence_id
        BY Zenon, <1>8 DEF present, Bound, Derived
    <2> QED
        BY Zenon, <1>4, <2>1
<1>13. ~Withdrawn(l)
    BY Zenon, <1>6, <1>12 DEF Withdrawn
<1>14. now < minIso(l.evidence.review_expires_at,
                    minIso(l.sources.preview.expiresAt, l.sources.approval.expiresAt))
    <2>1. preview.expiresAt \in Int /\ approval.expiresAt \in Int
        BY Zenon, <1>7 DEF IsPreviewRow, IsApprovalRow
    <2>2. ~(now >= minIso(minIso(e.review_expires_at, preview.expiresAt), approval.expiresAt))
        BY Zenon, <1>6 DEF LinkageExpiry
    <2>3. now < minIso(e.review_expires_at, minIso(preview.expiresAt, approval.expiresAt))
        BY Zenon, <1>7, <2>1, <2>2, LeastOfThree
    <2> QED
        BY Zenon, <1>10, <2>3
<1> QED
    BY Zenon, <1>10, <1>11, <1>13, <1>14 DEF Current

(***************************************************************************)
(* Whatever happened between linking and verifying, verifyApprovalLinkage  *)
(* says "verified" only while the sources, the evidence and the people are *)
(* those of the record, none of its ids is revoked or consumed and nothing *)
(* has expired.                                                            *)
(***************************************************************************)
THEOREM VerifiedSpeaksOfThePresent == ChainSpec => []VerifiedMeansUnchanged
<1>1. BindInv => VerifiedMeansUnchanged
    <2> SUFFICES ASSUME BindInv, NEW l \in linkages, NEW e \in evidences, NEW who \in Presented(l),
                        Verdict(l, e, who) = "verified"
                 PROVE  Current(l, e, who)
        BY Zenon DEF VerifiedMeansUnchanged
    <2> QED
        BY Zenon, VerifiedIsCurrent
<1> QED
    BY <1>1, BindInvHolds, PTL

-----------------------------------------------------------------------------
\* A linkage event of kind "verified" is of a verified record.
LEMMA VerifiedEvent ==
    ASSUME NEW record, NEW context, createApprovalLinkageAuditEvent(record, context).event_kind = "verified"
    PROVE  verifyApprovalLinkage(record, context).state = "verified"
<1> DEFINE v == verifyApprovalLinkage(record, context)
           event == createApprovalLinkageAuditEvent(record, context)
<1>1. event = IF v.state = "invalid"
              THEN [event_kind |-> "rejected", id |-> Redacted, state |-> "invalid", ok |-> FALSE,
                    issue_codes |-> {"approval_linkage_validation_exception"}]
              ELSE [event_kind |-> eventKindForState(v.state), id |-> record.approval_linkage_id,
                    state |-> v.state, ok |-> v.state = "verified", issue_codes |-> v.issues]
    BY Zenon DEF createApprovalLinkageAuditEvent
<1>2. event.event_kind = "verified"
    BY Zenon
<1> HIDE DEF v, event
<1>3. eventKindForState(v.state) = "verified"
    BY Zenon, <1>1, <1>2
<1>4. v.state = "verified"
    BY Zenon, <1>3 DEF eventKindForState
<1> QED
    BY Zenon, <1>4 DEF v

LEMMA TrailsAgree ==
    ASSUME NEW l, NEW e, NEW who,
           createApprovalLinkageAuditEvent(l.record, Context(e, who)).event_kind = "verified"
    PROVE  LET context == Context(e, who)
               hash == hashApprovalReviewEnvelope(scene.tenant, decision, preview)
           IN /\ createReviewEvidenceAuditEvent(e, ReviewContext(context, preview, hash)).ok
              /\ createIdentityIndependenceAuditEvent(context.identity_input).ok
<1> DEFINE context == Context(e, who)
           hash == hashApprovalReviewEnvelope(scene.tenant, decision, preview)
           review == ReviewContext(context, preview, hash)
           ii == context.identity_input
<1>1. /\ context.tenant_id = scene.tenant /\ context.action_preview = preview
      /\ context.human_decision = decision /\ context.review_evidence = e
      /\ context.approval_record = approval
    BY Zenon DEF Context
<1>2. /\ ii.human_decision = decision /\ ii.review_evidence = e /\ ii.extra = {}
      /\ [ii EXCEPT !.human_decision = decision, !.review_evidence = e, !.extra = {}] = ii
    <2> DEFINE fields == {"human_decision", "review_evidence", "identities", "expected_tenant_id",
                          "expected_human_decision_id", "expected_workunit_id",
                          "expected_action_preview_id", "evaluated_at", "extra"}
    <2>1. ii.human_decision = decision /\ ii.review_evidence = e /\ ii.extra = {}
        BY Zenon DEF Context
    <2>2. ii = [f \in fields |-> ii[f]]
        BY Zenon DEF Context
    <2> HIDE DEF ii, fields
    <2> QED
        BY Zenon, <2>1, <2>2
<1> HIDE DEF context
<1>3. evaluateApprovalChain(context, l.record.linked_at, l.record.approval_linkage_id).issues = {}
    <2>1. verifyApprovalLinkage(l.record, context).state = "verified"
        BY Zenon, VerifiedEvent DEF context
    <2> QED
        BY Zenon, <2>1, VerifiedRecord
<1>4. ReviewIssues(context, preview, hash) = {} /\ IdentityIssues(context, preview, approval, ii) = {}
    BY Zenon, <1>1, <1>3, ChainAccepted
<1>5. verifyFourEyesReviewEvidence(e, review) = {}
    BY Zenon, <1>1, <1>4 DEF ReviewIssues
<1>6. verifyIdentityIndependence(ii) = {}
    <2>1. verifyIdentityIndependence([ii EXCEPT !.human_decision = decision, !.review_evidence = e,
                                                !.extra = {}]) = {}
        BY Zenon, <1>1, <1>4, NoIssue DEF IdentityIssues
    <2> QED
        BY Zenon, <1>2, <2>1
<1> HIDE DEF review, ii, hash
<1>7. createReviewEvidenceAuditEvent(e, review).ok
    BY Zenon, <1>5 DEF createReviewEvidenceAuditEvent
<1>8. createIdentityIndependenceAuditEvent(ii).ok
    BY Zenon, <1>6 DEF createIdentityIndependenceAuditEvent
<1> QED
    BY Zenon, <1>7, <1>8 DEF review, ii, hash, context

(***************************************************************************)
(* The three audit trails never contradict each other: when the linkage's  *)
(* event says "verified" (createApprovalLinkageAuditEvent), the events of  *)
(* its evidence and of its identities, which verify again for themselves,  *)
(* say so too.                                                             *)
(***************************************************************************)
THEOREM AuditTrailsAgree == ChainSpec => []AuditsAgree
<1>1. AuditsAgree
    BY Zenon, TrailsAgree DEF AuditsAgree
<1> QED
    BY <1>1, PTL
=============================================================================
