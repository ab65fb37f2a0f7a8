-------------------------- MODULE PersistenceRecords --------------------------
(***************************************************************************)
(* The validators of the persistence target decision                       *)
(* (phase6/persistenceTargetDecision), the persistence audit event         *)
(* (persistenceAuditEvidence), the recorder audit summary                  *)
(* (recorderAuditSummary) and the linkage candidate that names a summary   *)
(* (recorderAuditSummaryEvidenceLedgerLinkage).                            *)
(***************************************************************************)
EXTENDS Integers, Sequences, SequencesExt

(***************************************************************************)
(* The Phase 6 evidence records and their validators (app/lib/phase6):     *)
(* the eight artifacts, the persistence target decision, the persistence   *)
(* audit event, the recorder audit summary and the evidence-ledger linkage *)
(* candidate.                                                              *)
(*                                                                         *)
(* A property value is <<type, value>>; arrays and nested objects are      *)
(* references into a heap, because constructed records may share them with *)
(* the caller.  A record is a function from its own property names to      *)
(* values.  Of a validator the verdict is kept and the issue codes are     *)
(* left out.  Members of an enumeration that no rule tells apart are one   *)
(* value, named after the enumeration; a well-formed timestamp, digest or  *)
(* statement is one value too, and a text that contains a phrase some rule *)
(* looks for is that phrase.                                               *)
(***************************************************************************)
Str(x) == <<"string", x>>

Bool(b) == <<"boolean", b>>

Num(n) == <<"number", n>>

Ref(i) == <<"object", i>>

Null == <<"null", 0>>

Undefined == <<"undefined", 0>>

\* Reading a property the object does not have gives undefined.
Get(r, f) == IF f \in DOMAIN r THEN r[f] ELSE Undefined

isString(v) == v[1] = "string"

isNonEmptyString(v) == isString(v) /\ v # Str("")

isArray(v, hp) == v[1] = "object" /\ hp[v[2]].array

isRecordObject(v, hp) == v[1] = "object" /\ ~hp[v[2]].array

Items(v, hp) == hp[v[2]].items

isStringArray(v, hp) == isArray(v, hp) /\ \A i \in DOMAIN Items(v, hp) : isString(Items(v, hp)[i])

isNonNegativeSafeInt(v) == v[1] = "number" /\ v[2] >= 0

Positive(v) == v[1] = "number" /\ v[2] > 0

(***************************************************************************)
(* Field specifications.                                                   *)
(***************************************************************************)
Kind(k) == [kind |-> k, values |-> {}]

Enum(values) == [kind |-> "enum", values |-> values]

InEnum(v, k) == isString(v) /\ v[2] \in k.values

Each(fields, k) == [f \in fields |-> k]

String == Kind("string")

Boolean == Kind("boolean")

StringArray == Kind("stringArray")

Timestamp == Enum({"timestamp"})

Sha256 == Enum({"hash"})

OUTCOMES == {"pass", "warn", "fail", "no_go"}

Stored == Enum({"in_memory_test_only_store"})

Lineage(names) == Each(names, Kind("lineage"))

Intent == {"source_query_intent_id"}

Plan == Intent \cup {"source_safe_query_plan_id"}

Sql == Plan \cup {"source_compiled_sql_artifact_id"}

Rules == Sql \cup {"source_rule_review_record_id"}

Result == Rules \cup {"source_query_result_record_id"}

Evidence == Result \cup {"source_evidence_review_record_id"}

Common == [tenant_id |-> Kind("tenant"), no_go_flags |-> Kind("noGoFlags")]

QUERY_INTENT_SPEC ==
    [statusField |-> "none",
     fields |-> Common @@ Lineage({"input_signal_id"}) @@ [created_at |-> Timestamp]
                @@ Each({"query_intent_id", "actor_id", "intent_summary"}, String)
                @@ Each({"requested_information", "allowed_sources", "disallowed_sources"}, StringArray)
                @@ Each({"tenant_scope_required", "human_review_required"}, Boolean)]

SAFE_QUERY_PLAN_SPEC ==
    [statusField |-> "none",
     fields |-> Common @@ Lineage(Intent) @@ [created_at |-> Timestamp]
                @@ Each({"safe_query_plan_id", "query_goal", "estimated_result_shape"}, String)
                @@ Each({"allowed_tables", "selected_columns", "denied_operations"}, StringArray)
                @@ Each({"tenant_scope_filter_required", "human_review_required"}, Boolean)]

COMPILED_SQL_ARTIFACT_SPEC ==
    [statusField |-> "none",
     fields |-> Common @@ Lineage(Plan) @@ [created_at |-> Timestamp, sql_hash |-> Sha256]
                @@ [compiled_sql_artifact_id |-> String, selected_columns |-> StringArray,
                    sql_text_redaction_state |-> Enum({"REDACTION_STATES"})]
                @@ Each({"read_only", "mutation_detected", "tenant_scope_filter_present"}, Boolean)]

RULE_REVIEW_RECORD_SPEC ==
    [statusField |-> "rule_review_status",
     fields |-> Common @@ Lineage(Sql) @@ [reviewed_at |-> Timestamp]
                @@ [rule_review_status |-> Enum({"RULE_REVIEW_STATUSES", "blocked_no_go"}),
                    rule_review_outcome |-> Enum(OUTCOMES), human_review_required |-> Boolean]
                @@ Each({"rule_review_record_id", "read_only_check_result",
                         "tenant_scope_check_result", "denied_schema_check_result"}, String)]

QUERY_RESULT_RECORD_SPEC ==
    [statusField |-> "none",
     fields |-> Common @@ Lineage(Rules) @@ [created_at |-> Timestamp, result_hash |-> Sha256]
                @@ [query_result_record_id |-> String,
                    content_integrity_reference |-> Enum({"sha256:hash"}),
                    redaction_state |-> Enum({"REDACTION_STATES"}),
                    source_trust_marker |-> Enum({"SOURCE_TRUST_MARKERS"}),
                    conflict_state |-> Enum({"CONFLICT_STATES"})]
                @@ Each({"selected_source_rows", "selected_columns"}, StringArray)
                @@ Each({"provenance_complete", "evidence_eligible", "human_review_required"}, Boolean)
                @@ Each({"aggregation_method", "source_scope"}, Kind("nullableString"))]

EVIDENCE_REVIEW_RECORD_SPEC ==
    [statusField |-> "evidence_review_status",
     fields |-> Common @@ Lineage(Result) @@ [reviewed_at |-> Timestamp]
                @@ [evidence_review_status |-> Enum({"EVIDENCE_REVIEW_STATUSES", "blocked_no_go"}),
                    evidence_review_outcome |-> Enum(OUTCOMES),
                    source_trust_marker |-> Enum({"SOURCE_TRUST_MARKERS"})]
                @@ Each({"evidence_review_id", "evidence_claim", "evidence_type",
                         "result_hash_check_result", "content_integrity_check_result"}, String)
                @@ Each({"evidence_eligible", "evidence_accepted", "human_review_required"}, Boolean)]

LLM_JUDGMENT_RECORD_SPEC ==
    [statusField |-> "judgment_status",
     fields |-> Common @@ Lineage(Evidence) @@ [judged_at |-> Timestamp]
                @@ [judgment_status |-> Enum({"LLM_JUDGMENT_STATUSES", "blocked_no_go"}),
                    judgment_outcome |-> Enum(OUTCOMES), human_review_required |-> Boolean,
                    uncertainty_state |-> Enum({"UNCERTAINTY_STATES"})]
                @@ Each({"llm_judgment_id", "judgment_summary", "confidence_explanation",
                         "conflict_handling_summary"}, String)
                @@ Each({"judgment_claims", "evidence_references", "provenance_references",
                         "unsupported_inferences", "allowed_use", "disallowed_use"}, StringArray)]

HUMAN_DECISION_STATUSES ==
    {"draft_human_decision", "clarification_needed", "blocked_no_go", "ready_for_future_gate_review"}

NON_ACTION_IMPACT_SCOPES == {"no_action_decision", "clarification_request", "defer_decision"}

HUMAN_DECISION_RECORD_SPEC ==
    [statusField |-> "decision_status",
     fields |-> Common @@ Lineage(Evidence \cup {"source_llm_judgment_record_id", "llm_judgment_id"})
                @@ [decision_status |-> Enum(HUMAN_DECISION_STATUSES),
                    decision_outcome |-> Enum(OUTCOMES), reviewed_by_human_at |-> Timestamp,
                    uncertainty_state |-> Enum({"UNCERTAINTY_STATES"}),
                    decision_impact_scope |-> Enum(NON_ACTION_IMPACT_SCOPES \cup {"assessment"})]
                @@ Each({"human_decision_id", "human_reviewer_id", "human_reviewer_role",
                         "reviewer_context", "evidence_claim", "evidence_type", "judgment_summary",
                         "human_decision_summary", "human_decision_rationale"}, String)
                @@ Each({"allowed_use", "disallowed_use", "future_gate_requirements"}, StringArray)
                @@ Each({"evidence_accepted", "approval_required", "promotion_required",
                         "execution_required"}, Boolean)
                @@ Each({"four_eyes_required", "self_approval_blocked"}, Kind("requiredTrueSafety"))]

ArtifactSpecs ==
    [query_intent |-> QUERY_INTENT_SPEC, safe_query_plan |-> SAFE_QUERY_PLAN_SPEC,
     compiled_sql |-> COMPILED_SQL_ARTIFACT_SPEC, rule_review |-> RULE_REVIEW_RECORD_SPEC,
     query_result |-> QUERY_RESULT_RECORD_SPEC, evidence_review |-> EVIDENCE_REVIEW_RECORD_SPEC,
     llm_judgment |-> LLM_JUDGMENT_RECORD_SPEC, human_decision |-> HUMAN_DECISION_RECORD_SPEC]

\* The constructors' allowlists are the validators' fields.
ArtifactFields(type) == DOMAIN ArtifactSpecs[type].fields

(***************************************************************************)
(* validateArtifact: no unknown property, every field of its kind, flags   *)
(* only on a blocked record, and for a human decision the rules between    *)
(* status, outcome, impact scope and gate requirements.                    *)
(***************************************************************************)
artifactFieldOk(v, k, hp) ==
    CASE k.kind \in {"string", "tenant", "lineage"} -> isNonEmptyString(v)
      [] k.kind = "nullableString" -> v = Null \/ isNonEmptyString(v)
      [] k.kind = "boolean" -> v[1] = "boolean"
      [] k.kind = "requiredTrueSafety" -> v = Bool(TRUE)
      [] k.kind \in {"stringArray", "noGoFlags"} -> isStringArray(v, hp)
      [] OTHER -> InEnum(v, k)

Flagged(r, hp) == isArray(Get(r, "no_go_flags"), hp) /\ Items(r.no_go_flags, hp) # <<>>

Says(r, f, x) == Get(r, f) = Str(x)

True(r, f) == Get(r, f) = Bool(TRUE)

\* Each rule runs only when the fields it reads are well formed.
validateHumanDecisionSemantics(r) ==
    /\ (InEnum(Get(r, "decision_status"), Enum(HUMAN_DECISION_STATUSES))
          /\ InEnum(Get(r, "decision_outcome"), Enum(OUTCOMES)))
         => /\ Says(r, "decision_outcome", "no_go") <=> Says(r, "decision_status", "blocked_no_go")
            /\ Says(r, "decision_status", "ready_for_future_gate_review")
                 => Says(r, "decision_outcome", "pass")
    /\ InEnum(Get(r, "decision_impact_scope"), Enum(NON_ACTION_IMPACT_SCOPES))
         => \A f \in {"approval_required", "promotion_required", "execution_required"} : ~True(r, f)
    /\ InEnum(Get(r, "decision_impact_scope"), Enum(NON_ACTION_IMPACT_SCOPES \cup {"assessment"}))
         => \A f \in {"promotion_required", "execution_required"} :
                True(r, f) => Get(r, "approval_required") # Bool(FALSE)

NoUnknownField(r, fields) == DOMAIN r \subseteq fields

validateArtifact(type, r, hp) ==
    LET spec == ArtifactSpecs[type] IN
    /\ NoUnknownField(r, DOMAIN spec.fields)
    /\ \A f \in DOMAIN spec.fields :
           f \in DOMAIN r /\ artifactFieldOk(r[f], spec.fields[f], hp)
    /\ Flagged(r, hp) => Says(r, spec.statusField, "blocked_no_go")
    /\ type = "human_decision" => validateHumanDecisionSemantics(r)

-----------------------------------------------------------------------------
SELECTED == "in_memory_test_only_store"

DEFERRED ==
    <<"local_ephemeral_dev_store", "append_only_audit_candidate_store",
      "tenant_scoped_artifact_candidate_store", "future_d1_store_after_separate_d1_gate">>

REJECTED == <<"blocked_target">>

SAFETY_FIELDS ==
    {"test_only_confirmed", "non_persistent_confirmed", "non_authorizing_confirmed",
     "app_runtime_untouched_confirmed", "d1_deferred_confirmed", "sql_deferred_confirmed",
     "approvalstore_unwired_confirmed", "external_actions_blocked_confirmed",
     "formal_workunit_promotion_blocked_confirmed"}

NON_BLOCKED_STATUSES ==
    {"draft_target_decision_record", "target_selected_for_future_types", "clarification_needed",
     "target_rejected"}

TargetDecisionFields ==
    Each({"target_decision_record_id", "tenant_id", "decision_rationale", "selected_target_rationale",
          "d1_deferral_rationale", "sql_deferral_rationale", "approvalstore_deferral_rationale",
          "external_action_deferral_rationale", "p6_i5_merge_commit", "reviewed_by_human_id",
          "reviewer_role", "review_rationale", "next_slice", "next_slice_scope",
          "d1_gate_requirement", "external_action_gate_requirement",
          "approvalstore_gate_requirement"}, String)
    @@ Each({"deferred_target_rationales", "rejected_target_rationales",
             "forbidden_next_slice_capabilities"}, StringArray)
    @@ Each(SAFETY_FIELDS, Enum({"confirmed"}))
    @@ Each({"storage_gate_spec_available", "persistence_gate_spec_available",
             "persistence_record_contract_available"}, Enum({"present"}))
    @@ Each({"p6_i5_merged", "main_safety_gate_active", "human_review_required"}, Kind("requiredTrue"))
    @@ Each({"reviewed_by_human_at", "created_at"}, Timestamp)
    @@ [payload_hash |-> Sha256, target_decision_outcome |-> Enum(OUTCOMES),
        target_decision_status |-> Enum(NON_BLOCKED_STATUSES \cup {"blocked_no_go"})]

SpecialFields ==
    {"selected_target_class", "deferred_target_classes", "rejected_target_classes", "no_go_flags"}

validatePlainField(v, k, hp) ==
    CASE k.kind = "string" -> isNonEmptyString(v)
      [] k.kind = "stringArray" -> isStringArray(v, hp)
      [] k.kind = "requiredTrue" -> v = Bool(TRUE)
      [] OTHER -> InEnum(v, k)

\* Every element is allowed and every allowed member appears exactly once.
validateExactSet(v, allowed, hp) ==
    /\ isArray(v, hp)
    /\ LET items == Items(v, hp)
       IN  /\ \A i \in DOMAIN items : items[i] \in {Str(m) : m \in Range(allowed)}
           /\ \A m \in Range(allowed) : Len(SelectSeq(items, LAMBDA x : x = Str(m))) = 1

\* The flags of a target decision are any array: their elements are not checked.
validateNoGoFlags(r, hp) ==
    /\ isArray(Get(r, "no_go_flags"), hp)
    /\ Flagged(r, hp) => Says(r, "target_decision_status", "blocked_no_go")

validateTargetDecisionRecord(r, hp) ==
    /\ NoUnknownField(r, DOMAIN TargetDecisionFields \cup SpecialFields)
    /\ \A f \in DOMAIN TargetDecisionFields :
           f \in DOMAIN r /\ validatePlainField(r[f], TargetDecisionFields[f], hp)
    /\ Says(r, "selected_target_class", SELECTED)
    /\ validateExactSet(Get(r, "deferred_target_classes"), DEFERRED, hp)
    /\ validateExactSet(Get(r, "rejected_target_classes"), REJECTED, hp)
    /\ validateNoGoFlags(r, hp)

(***************************************************************************)
(* Persistence audit events.                                               *)
(***************************************************************************)
DUPLICATES == {"first_write", "idempotent_duplicate", "duplicate_conflict", "not_applicable"}

CLEAR_SCOPES == {"none", "tenant_only", "all_test_memory"}

AuditEventFields ==
    Each({"audit_event_id", "tenant_id", "target_decision_record_id", "source_adapter_loop",
          "source_fixture_loop", "source_validator_loop", "source_constructor_loop",
          "source_target_decision_record_id"}, String)
    @@ Each({"validator_issue_codes", "adapter_issue_codes", "failure_reasons"}, StringArray)
    @@ Each({"adapter_target_class", "selected_target_class"}, Stored)
    @@ [operation |-> Enum({"put", "get", "list", "count", "clear_tenant", "clear_all"}),
        operation_status |-> Enum({"OPERATION_STATUSES", "blocked_no_go"}),
        operation_outcome |-> Enum(OUTCOMES),
        validation_result |-> Enum({"VALIDATION_RESULTS", "validator_not_applicable"}),
        idempotency_result |-> Enum(DUPLICATES), duplicate_result |-> Enum(DUPLICATES),
        tenant_scope_result |-> Enum({"TENANT_SCOPE_RESULTS", "tenant_mismatch", "cross_tenant_blocked"}),
        defensive_snapshot_result |-> Enum({"DEFENSIVE_SNAPSHOT_RESULTS"}),
        non_durability_result |-> Enum({"in_memory_only", "not_durable", "process_lifetime_only",
                                        "durability_not_claimed"}),
        clear_scope |-> Enum(CLEAR_SCOPES), record_count |-> Kind("recordCount"),
        redaction_result |-> Enum({"REDACTION_RESULTS", "redaction_no_go"}),
        source_loop |-> Enum({"SOURCE_LOOPS"}), created_at |-> Timestamp, payload_hash |-> Sha256,
        non_authorization_statement |-> Enum({"statement"}), no_go_flags |-> Kind("noGoFlags")]

\* An array of flags of the family's own list.
isFlagArray(v, hp) ==
    isArray(v, hp) /\ \A i \in DOMAIN Items(v, hp) : Items(v, hp)[i] = Str("flag")

auditFieldOk(v, k, hp) ==
    CASE k.kind = "string" -> isNonEmptyString(v)
      [] k.kind = "stringArray" -> isStringArray(v, hp)
      [] k.kind = "recordCount" -> isNonNegativeSafeInt(v)
      [] k.kind = "noGoFlags" -> isFlagArray(v, hp)
      [] OTHER -> InEnum(v, k)

validateOperationSpecific(r) ==
    LET zeroOrOne == Get(r, "record_count") \in {Num(0), Num(1)}
        scope(x) == Says(r, "clear_scope", x)
    IN  /\ Says(r, "operation", "put") =>
               ~Says(r, "validation_result", "validator_not_applicable") /\ scope("none") /\ zeroOrOne
        /\ Says(r, "operation", "get") => scope("none") /\ zeroOrOne
        /\ (Says(r, "operation", "list") \/ Says(r, "operation", "count")) => scope("none")
        /\ Says(r, "operation", "clear_tenant") => scope("tenant_only")
        /\ Says(r, "operation", "clear_all") =>
               /\ scope("all_test_memory")
               /\ Says(r, "operation_outcome", "pass") =>
                      ~Says(r, "non_durability_result", "durability_not_claimed")

validateFailClosedRules(r) ==
    LET failClosed == Says(r, "operation_outcome", "fail") \/ Says(r, "operation_outcome", "no_go")
    IN  /\ (Says(r, "duplicate_result", "duplicate_conflict")
              \/ Says(r, "idempotency_result", "duplicate_conflict")) => failClosed
        /\ (Says(r, "tenant_scope_result", "tenant_mismatch")
              \/ Says(r, "tenant_scope_result", "cross_tenant_blocked")) => failClosed
        /\ ~Says(r, "redaction_result", "redaction_no_go")

EventBlocked(r) ==
    Says(r, "operation_status", "blocked_no_go") \/ Says(r, "operation_outcome", "no_go")

validatePersistenceAuditEvent(r, hp) ==
    /\ NoUnknownField(r, DOMAIN AuditEventFields)
    /\ \A f \in DOMAIN AuditEventFields :
           f \in DOMAIN r /\ auditFieldOk(r[f], AuditEventFields[f], hp)
    /\ validateOperationSpecific(r)
    /\ validateFailClosedRules(r)
    /\ Flagged(r, hp) => EventBlocked(r)

(***************************************************************************)
(* Recorder audit summaries.  A count map is an object in the heap; keys   *)
(* that no rule reads are left out of its key list.                        *)
(***************************************************************************)
SUMMARY_SCOPES == {"tenant", "all_test_memory", "operation_subset", "fixture_suite"}

OPERATION_NAMES == {"recordAuditEvent", "clearAllAuditEvents"}

FIXTURE_COVERAGE_FIELDS == {"put_fixture_covered", "all_required_fixtures_covered"}

COUNT_KEYS ==
    [operation_counts |-> {"record", "clear_all"},
     status_counts |-> {"accepted", "rejected", "not_found", "blocked_no_go"},
     outcome_counts |-> {"pass", "fail", "no_go"},
     validation_result_counts |-> {"validator_passed"},
     issue_code_counts |-> {"invalid_input"},
     no_go_flag_counts |-> {"flag"}]

CLAIM_SCAN_FIELDS ==
    {"tenant_scope_summary", "deterministic_ordering_summary", "defensive_snapshot_summary",
     "non_durability_summary", "clear_scope_summary", "failure_summary", "redaction_summary"}

SCALAR_COUNTS ==
    {"total_record_attempts", "accepted_record_count", "rejected_record_count", "stored_event_count",
     "returned_event_count", "not_found_count", "duplicate_conflict_count", "tenant_mismatch_count",
     "validation_failed_count", "forbidden_target_class_count", "idempotent_duplicate_count"}

SummaryFields ==
    Each({"summary_id", "tenant_id", "source_loop", "source_recorder_loop", "source_fixture_loop",
          "source_validator_loop"} \cup CLAIM_SCAN_FIELDS, String)
    @@ Each(SCALAR_COUNTS \cup {"listed_event_count", "cleared_event_count",
                                "recorder_exception_count"}, Kind("count"))
    @@ [f \in DOMAIN COUNT_KEYS |-> [kind |-> "countMap", values |-> COUNT_KEYS[f]]]
    @@ Each({"recorder_target_class", "selected_target_class"}, Stored)
    @@ [summary_scope |-> Enum(SUMMARY_SCOPES), summarized_operation_names |-> Kind("operationNames"),
        fixture_coverage |-> Kind("fixtureCoverage"), created_at |-> Timestamp,
        payload_hash |-> Sha256, non_authorization_statement |-> Enum({"statement"}),
        no_go_flags |-> Kind("noGoFlags")]

validateCountMap(v, keys, hp) ==
    /\ isRecordObject(v, hp)
    /\ DOMAIN Items(v, hp) = keys
    /\ \A k \in keys : isNonNegativeSafeInt(Items(v, hp)[k])

validateFixtureCoverage(v, hp) ==
    /\ isRecordObject(v, hp)
    /\ DOMAIN Items(v, hp) = FIXTURE_COVERAGE_FIELDS
    /\ \A k \in FIXTURE_COVERAGE_FIELDS : Items(v, hp)[k][1] = "boolean"

summaryFieldOk(v, k, hp) ==
    CASE k.kind = "string" -> isNonEmptyString(v)
      [] k.kind = "count" -> isNonNegativeSafeInt(v)
      [] k.kind = "operationNames" ->
             /\ isArray(v, hp) /\ Items(v, hp) # <<>>
             /\ \A i \in DOMAIN Items(v, hp) : Items(v, hp)[i] \in {Str(n) : n \in OPERATION_NAMES}
      [] k.kind = "noGoFlags" -> isFlagArray(v, hp)
      [] k.kind = "countMap" -> validateCountMap(v, k.values, hp)
      [] k.kind = "fixtureCoverage" -> validateFixtureCoverage(v, hp)
      [] OTHER -> InEnum(v, k)

\* One entry of a count map, undefined when the map is not an object.
Entry(r, f, k, hp) ==
    IF isRecordObject(Get(r, f), hp) THEN Get(Items(r[f], hp), k) ELSE Undefined

validateSummaryScopeSpecific(r, hp) ==
    /\ Says(r, "summary_scope", "tenant") /\ Says(r, "clear_scope_summary", "all_test_memory")
         => /\ isArray(Get(r, "summarized_operation_names"), hp)
            /\ Contains(Items(r.summarized_operation_names, hp), Str("clearAllAuditEvents"))
    /\ Says(r, "summary_scope", "fixture_suite")
         => \A k \in FIXTURE_COVERAGE_FIELDS : Entry(r, "fixture_coverage", k, hp) = Bool(TRUE)

MentionsNonDurable(r) ==
    Says(r, "non_durability_summary", "test-only") \/ Says(r, "non_durability_summary", "non-durable")

validateClearAllRule(r, hp) ==
    Positive(Entry(r, "operation_counts", "clear_all", hp))
      => Says(r, "clear_scope_summary", "all_test_memory") /\ MentionsNonDurable(r)

\* Skipped when a scalar is no count or a map is no object: the fields failed already.
\* The rule on not_found_count and returned_event_count follows from the last one.
validateCountConsistency(r, hp) ==
    LET n(f) == r[f][2]
        least(f, k, c) == isNonNegativeSafeInt(Entry(r, f, k, hp)) => Entry(r, f, k, hp)[2] >= n(c)
        failEvidence == \E k \in {"fail", "no_go"} : Positive(Entry(r, "outcome_counts", k, hp))
        failures == {"duplicate_conflict_count", "tenant_mismatch_count", "validation_failed_count",
                     "forbidden_target_class_count"}
    IN  (/\ \A f \in SCALAR_COUNTS : isNonNegativeSafeInt(Get(r, f))
         /\ \A f \in {"operation_counts", "status_counts", "outcome_counts"} :
                isRecordObject(Get(r, f), hp))
        => /\ n("total_record_attempts") >= n("accepted_record_count") + n("rejected_record_count")
           /\ Says(r, "summary_scope", "tenant") \/ Says(r, "summary_scope", "fixture_suite")
                => n("accepted_record_count") >= n("stored_event_count")
           /\ n("idempotent_duplicate_count") <= n("total_record_attempts")
           /\ \A f \in failures : n(f) <= n("rejected_record_count") /\ (n(f) > 0 => failEvidence)
           /\ least("operation_counts", "record", "total_record_attempts")
           /\ least("status_counts", "accepted", "accepted_record_count")
           /\ least("status_counts", "rejected", "rejected_record_count")
           /\ least("status_counts", "not_found", "not_found_count")

SummaryBlocked(r, hp) ==
    \/ Positive(Entry(r, "status_counts", "blocked_no_go", hp))
    \/ Positive(Entry(r, "outcome_counts", "no_go", hp))

\* A text that allows raw payloads or secrets to be echoed.
validateRedactionRule(r) == ~Says(r, "redaction_summary", "echo allowed")

\* A text that claims a runtime, persistence, ledger or graph capability.
validateClaimPhrases(r) == \A f \in CLAIM_SCAN_FIELDS : ~Says(r, f, "claim")

validateRecorderAuditSummaryRecord(r, hp) ==
    /\ NoUnknownField(r, DOMAIN SummaryFields)
    /\ \A f \in DOMAIN SummaryFields :
           f \in DOMAIN r /\ summaryFieldOk(r[f], SummaryFields[f], hp)
    /\ validateSummaryScopeSpecific(r, hp)
    /\ validateClearAllRule(r, hp)
    /\ validateCountConsistency(r, hp)
    /\ Flagged(r, hp) => SummaryBlocked(r, hp)
    /\ validateRedactionRule(r)
    /\ validateClaimPhrases(r)

(***************************************************************************)
(* Linkage candidates name a summary by id, digest, tenant and lineage.    *)
(***************************************************************************)
LINKAGE_REQUIRED_FIELDS ==
    Each({"summary_id", "tenant_id", "source_loop", "source_recorder_loop", "source_validator_loop",
          "non_authorization_statement", "evidence_ledger_reference_purpose"}, String)
    @@ [payload_hash |-> Sha256, summary_scope |-> Enum(SUMMARY_SCOPES), created_at |-> Timestamp]

LINEAGE_VARIANT_FIELDS == {"source_fixture_loop", "source_harness_loop"}

LINKAGE_LITERALS ==
    [human_review_required |-> Bool(TRUE), append_allowed |-> Bool(FALSE),
     graph_write_allowed |-> Bool(FALSE)]

validateLinkageCandidate(r) ==
    /\ NoUnknownField(r, DOMAIN LINKAGE_REQUIRED_FIELDS \cup DOMAIN LINKAGE_LITERALS
                         \cup LINEAGE_VARIANT_FIELDS)
    /\ \A f \in DOMAIN LINKAGE_REQUIRED_FIELDS :
           LET k == LINKAGE_REQUIRED_FIELDS[f] IN
           IF k = String THEN isNonEmptyString(Get(r, f)) ELSE InEnum(Get(r, f), k)
    /\ \A f \in DOMAIN LINKAGE_LITERALS : Get(r, f) = LINKAGE_LITERALS[f]
    /\ \A f \in LINEAGE_VARIANT_FIELDS \cap DOMAIN r : isNonEmptyString(r[f])
    /\ LINEAGE_VARIANT_FIELDS \cap DOMAIN r # {}

=============================================================================
