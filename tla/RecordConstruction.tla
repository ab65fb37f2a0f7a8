-------------------------- MODULE RecordConstruction --------------------------
(***************************************************************************)
(* The constructors of the Phase 6 evidence records (phase6/artifacts,     *)
(* persistenceTargetDecision, persistenceAuditEvidence,                    *)
(* recorderAuditSummary) over a heap of arrays and nested objects that the *)
(* caller, the constructors and the finished records share.                *)
(*                                                                         *)
(* A call is synchronous, so it is one step.  What the code guards against *)
(* is an input whose properties are accessors: every read may answer       *)
(* differently, or throw.  An input therefore says what its first read     *)
(* gives, what later reads give, and which read throws.  Between calls the *)
(* caller may change any container that is not frozen, and pass a finished *)
(* record to a constructor again.                                          *)
(***************************************************************************)
EXTENDS PersistenceRecords

CONSTANTS Calls,        \* the callers: which constructor they call, with which input
          InitialHeap,  \* the containers their inputs refer to
          MaxCalls,     \* bound on the calls of one caller
          MaxChanges    \* bound on the changes it makes to containers

VARIABLES caller,   \* [ctor |-> <<family, variant>>, input |-> ...]
          heap,     \* arrays and nested objects
          answers,  \* what the calls returned, in order
          changes   \* changes made so far

vars == <<caller, heap, answers, changes>>

(***************************************************************************)
(* Snapshots, containers and freezing.                                     *)
(***************************************************************************)
Throws(input, n) == input.throwsAt = n

\* snapshot: one read of every own property.
Snapshot(input, n) == IF n = 1 THEN input.first ELSE input.later

\* { ...record, ...overrides }
Overlay(r, overrides) == overrides @@ r

NewContainer(isArr, items) == [array |-> isArr, items |-> items, frozen |-> FALSE]

Strings(names) == [i \in DOMAIN names |-> Str(names[i])]

Answer(outcome, r, hp) == [outcome |-> outcome, record |-> r, heap |-> hp]

Failure(hp) == Answer("failed", <<>>, hp)

\* Mutant: the record is frozen, its arrays are not.
FreezeShallow(r, hp) == hp

\* Object.freeze on every array of the record.
FreezeArrays(r, hp) ==
    [i \in DOMAIN hp |-> IF \E f \in DOMAIN r : r[f] = Ref(i) /\ hp[i].array
                         THEN [hp[i] EXCEPT !.frozen = TRUE] ELSE hp[i]]

\* The same on every nested object.
FreezeObjects(r, hp) ==
    [i \in DOMAIN hp |-> IF \E f \in DOMAIN r : r[f] = Ref(i)
                         THEN [hp[i] EXCEPT !.frozen = TRUE] ELSE hp[i]]

(***************************************************************************)
(* Artifacts: snapshot, allowlisted copy, validation, the id rule of a     *)
(* human decision, freeze.                                                 *)
(***************************************************************************)
\* Properties outside the list, and undefined ones, are not copied.
buildAllowlisted(snap, fields) ==
    [f \in {g \in fields \cap DOMAIN snap : snap[g] # Undefined} |-> snap[f]]

ensureJudgmentIdConsistency(snap) ==
    /\ isNonEmptyString(Get(snap, "source_llm_judgment_record_id"))
    /\ Get(snap, "source_llm_judgment_record_id") = Get(snap, "llm_judgment_id")

constructArtifact(type, input, hp) ==
    LET snap == Snapshot(input, 1)
        artifact == buildAllowlisted(snap, ArtifactFields(type))
    IN  IF /\ input.object
           /\ ~Throws(input, 1)
           /\ validateArtifact(type, artifact, hp)
           /\ type = "human_decision" => ensureJudgmentIdConsistency(snap)
        THEN Answer("ok", artifact, FreezeArrays(artifact, hp))
        ELSE Failure(hp)

(***************************************************************************)
(* Target decisions: fixed fields win, the status is never one the other   *)
(* constructor owns.                                                       *)
(***************************************************************************)
FixedFields(hp) ==
    [selected_target_class |-> Str(SELECTED), deferred_target_classes |-> Ref(Len(hp) + 1),
     rejected_target_classes |-> Ref(Len(hp) + 2), no_go_flags |-> Ref(Len(hp) + 3),
     p6_i5_merged |-> Bool(TRUE), main_safety_gate_active |-> Bool(TRUE),
     human_review_required |-> Bool(TRUE)]
    @@ Each(SAFETY_FIELDS, Str("confirmed"))
    @@ Each({"storage_gate_spec_available", "persistence_gate_spec_available",
             "persistence_record_contract_available"}, Str("present"))

\* The containers a target decision gets of its own.
WithTargetArrays(hp, flags) ==
    hp \o <<NewContainer(TRUE, Strings(DEFERRED)), NewContainer(TRUE, Strings(REJECTED)),
            NewContainer(TRUE, flags)>>

NextSlice(snap) ==
    IF Get(snap, "next_slice") \in {Str("P6-I5C"), Str("P6-I5D")} THEN snap.next_slice ELSE Str("P6-I5D")

\* finish: validate the record and freeze it.
finish(r, hp, hp0) ==
    IF validateTargetDecisionRecord(r, hp) THEN Answer("ok", r, FreezeArrays(r, hp)) ELSE Failure(hp0)

ResolvedStatus(snap) ==
    IF InEnum(Get(snap, "target_decision_status"), Enum(NON_BLOCKED_STATUSES))
    THEN snap.target_decision_status ELSE Str("target_selected_for_future_types")

createTargetDecisionRecord(input, hp) ==
    LET snap == Snapshot(input, 1)
        own == WithTargetArrays(hp, <<>>)
        resolved == [target_decision_status |-> ResolvedStatus(snap),
                     target_decision_outcome |->
                         IF Says(snap, "target_decision_outcome", "warn") THEN Str("warn") ELSE Str("pass"),
                     next_slice |-> NextSlice(snap)]
    IN  IF ~input.object \/ Throws(input, 1) THEN Failure(hp)
        ELSE finish(Overlay(snap, FixedFields(hp) @@ resolved), own, hp)

createBlockedTargetDecisionRecord(input, hp) ==
    LET snap == Snapshot(input, 1)
        own == WithTargetArrays(hp, Items(snap.no_go_flags, hp))
        blocked == [target_decision_status |-> Str("blocked_no_go"),
                    target_decision_outcome |-> Str("no_go"), next_slice |-> NextSlice(snap)]
    IN  IF ~input.object \/ Throws(input, 1) \/ ~Flagged(snap, hp) THEN Failure(hp)
        ELSE finish(Overlay(snap, FixedFields(hp) @@ blocked), own, hp)

(***************************************************************************)
(* Audit events.                                                           *)
(***************************************************************************)
\* The shape each operation constructor fixes; the generic one fixes none.
OperationOverrides ==
    [generic |-> <<>>,
     put |-> [operation |-> Str("put"), clear_scope |-> Str("none")],
     get |-> [operation |-> Str("get"), clear_scope |-> Str("none")],
     list |-> [operation |-> Str("list"), clear_scope |-> Str("none")],
     count |-> [operation |-> Str("count"), clear_scope |-> Str("none")],
     clear_tenant |-> [operation |-> Str("clear_tenant"), clear_scope |-> Str("tenant_only")],
     clear_all |-> [operation |-> Str("clear_all"), clear_scope |-> Str("all_test_memory")]]

\* buildEvent makes the n-th read of the input.
buildEvent(input, n, overrides, hp) ==
    LET targets == [adapter_target_class |-> Str(SELECTED), selected_target_class |-> Str(SELECTED)]
        event == Overlay(Overlay(Snapshot(input, n), overrides), targets)
    IN  IF ~input.object \/ Throws(input, n) \/ ~validatePersistenceAuditEvent(event, hp)
        THEN Failure(hp)
        ELSE Answer("ok", event, FreezeArrays(event, hp))

\* The flags are checked on a first read, outside any try, and the event is
\* built from a second one.
createBlockedPersistenceAuditEvent(input, hp) ==
    IF ~input.object THEN Failure(hp)
    ELSE IF Throws(input, 1) THEN Answer("thrown", <<>>, hp)
    ELSE IF ~Flagged(Snapshot(input, 1), hp) THEN Failure(hp)
    ELSE buildEvent(input, 2, [operation_status |-> Str("blocked_no_go"),
                               operation_outcome |-> Str("no_go")], hp)

(***************************************************************************)
(* Recorder audit summaries.                                               *)
(***************************************************************************)
CONTAINER_FIELDS ==
    <<"summarized_operation_names", "operation_counts", "status_counts", "outcome_counts",
      "validation_result_counts", "issue_code_counts", "no_go_flag_counts", "fixture_coverage",
      "no_go_flags">>

\* Every container the record holds is replaced by a shallow copy.
copyContainers(r, hp) ==
    LET held == SelectSeq(CONTAINER_FIELDS, LAMBDA f : Get(r, f)[1] = "object")
        copy(i) == [hp[r[held[i]][2]] EXCEPT !.frozen = FALSE]
    IN  [record |-> [f \in DOMAIN r |-> IF Contains(held, f)
                                        THEN Ref(Len(hp) + CHOOSE i \in DOMAIN held : held[i] = f)
                                        ELSE r[f]],
         heap |-> hp \o [i \in DOMAIN held |-> copy(i)]]

buildRecordFromSnapshot(snap, overrides, hp) ==
    LET targets == [recorder_target_class |-> Str(SELECTED), selected_target_class |-> Str(SELECTED)]
        built == copyContainers(Overlay(Overlay(snap, overrides), targets), hp)
    IN  IF validateRecorderAuditSummaryRecord(built.record, built.heap)
        THEN Answer("ok", built.record, FreezeObjects(built.record, built.heap))
        ELSE Failure(hp)

snapshotFails(input) == ~input.object \/ Throws(input, 1)

\* The generic and the scope constructors; the one for all test memory asks for
\* the clear-scope and non-durability texts first.
createRecorderAuditSummary(input, scope, hp) ==
    LET snap == Snapshot(input, 1)
    IN  IF \/ snapshotFails(input)
           \/ /\ scope = "all_test_memory"
              /\ ~(Says(snap, "clear_scope_summary", "all_test_memory") /\ MentionsNonDurable(snap))
        THEN Failure(hp)
        ELSE buildRecordFromSnapshot(
                 snap, IF scope = "generic" THEN <<>> ELSE [summary_scope |-> Str(scope)], hp)

createBlockedRecorderAuditSummary(input, hp) ==
    LET snap == Snapshot(input, 1)
    IN  IF snapshotFails(input) \/ ~Flagged(snap, hp) \/ ~SummaryBlocked(snap, hp) THEN Failure(hp)
        ELSE buildRecordFromSnapshot(snap, <<>>, hp)

Construct(ctor, input, hp) ==
    CASE ctor[1] = "artifact" -> constructArtifact(ctor[2], input, hp)
      [] ctor = <<"target", "blocked">> -> createBlockedTargetDecisionRecord(input, hp)
      [] ctor = <<"target", "plain">> -> createTargetDecisionRecord(input, hp)
      [] ctor = <<"event", "blocked">> -> createBlockedPersistenceAuditEvent(input, hp)
      [] ctor[1] = "event" /\ ctor[2] # "blocked" ->
             buildEvent(input, 1, OperationOverrides[ctor[2]], hp)
      [] ctor = <<"summary", "blocked">> -> createBlockedRecorderAuditSummary(input, hp)
      [] OTHER -> createRecorderAuditSummary(input, ctor[2], hp)

Validates(ctor, r, hp) ==
    CASE ctor[1] = "artifact" -> validateArtifact(ctor[2], r, hp)
      [] ctor[1] = "target" -> validateTargetDecisionRecord(r, hp)
      [] ctor[1] = "event" -> validatePersistenceAuditEvent(r, hp)
      [] OTHER -> validateRecorderAuditSummaryRecord(r, hp)

(***************************************************************************)
(* The caller.                                                             *)
(***************************************************************************)
\* An object whose properties are plain data.
Plain(r) == [object |-> TRUE, first |-> r, later |-> r, throwsAt |-> 0]

\* What a reader of the record sees.
Contents(r, hp) ==
    [f \in DOMAIN r |-> IF r[f][1] = "object" THEN <<"contents", Items(r[f], hp)>> ELSE r[f]]

Made == {i \in DOMAIN answers : answers[i].outcome = "ok"}

Init ==
    /\ caller \in Calls
    /\ heap = InitialHeap
    /\ answers = <<>>
    /\ changes = 0

\* A call with the caller's own input (from = 0) or with a finished record.
Call(from) ==
    /\ Len(answers) < MaxCalls
    /\ LET input == IF from = 0 THEN caller.input ELSE Plain(answers[from].record)
           a == Construct(caller.ctor, input, heap)
       IN  /\ answers' = Append(answers, [outcome |-> a.outcome, record |-> a.record, from |-> from,
                                          contents |-> Contents(a.record, a.heap)])
           /\ heap' = a.heap
    /\ UNCHANGED <<caller, changes>>

\* Once there is a record, whoever holds a container changes it, unless it is
\* frozen; a change before that is the input of another caller.
Change(i) ==
    /\ changes < MaxChanges
    /\ Made # {}
    /\ ~heap[i].frozen
    /\ heap' = [heap EXCEPT ![i].items = IF heap[i].array THEN Append(@, Num(7))
                                         ELSE [k \in DOMAIN @ |-> Null]]
    /\ changes' = changes + 1
    /\ UNCHANGED <<caller, answers>>

Next ==
    \/ \E from \in {0} \cup Made : Call(from)
    \/ \E i \in DOMAIN heap : Change(i)

Spec == Init /\ [][Next]_vars

(***************************************************************************)
(* Properties.                                                             *)
(***************************************************************************)
\* A record a constructor returned still passes its validator and still reads
\* the way it did, whatever its caller does to the arrays and objects it passed
\* in: constructed records are immutable (freezeConstructedArtifact, freeze).
FinishedRecordsStayValid ==
    \A i \in Made :
        /\ Validates(caller.ctor, answers[i].record, heap)
        /\ Contents(answers[i].record, heap) = answers[i].contents

\* A finished record passed to its constructor again gives the same record: the
\* defaults, fixed fields and copies of a constructor never alter a valid record.
ReconstructionIsIdentity ==
    \A i \in DOMAIN answers :
        answers[i].from # 0 => /\ answers[i].outcome = "ok"
                               /\ answers[i].contents = answers[answers[i].from].contents

\* A record made by a "blocked" constructor carries the flags that blocked it,
\* even when the input answers a second read differently: target decisions and
\* summaries are built from the snapshot that was checked.
BlockedRecordsSayWhy ==
    \A i \in Made :
        caller.ctor \in {<<"target", "blocked">>, <<"summary", "blocked">>}
            => Flagged(answers[i].record, heap)

\* The same for audit events: "takes a single-read snapshot of the caller input
\* (getter-TOCTOU hardening)".
BlockedEventsSayWhy ==
    \A i \in Made : caller.ctor = <<"event", "blocked">> => Flagged(answers[i].record, heap)

Held(r) == {r[f] : f \in {g \in DOMAIN r : r[g][1] = "object"}}

\* Summaries share no container with their caller, and freezing one never
\* freezes what the caller passed in (copyContainers).
SummariesShareNothing ==
    caller.ctor[1] = "summary" =>
        /\ \A i \in DOMAIN InitialHeap : ~heap[i].frozen
        /\ \A i, j \in Made : i # j => Held(answers[i].record) \cap Held(answers[j].record) = {}

\* The status and outcome matrix and the gate-requirement combinations of the
\* human decision contract, as its tables give them.
HumanDecisionsFollowContract ==
    \A i \in Made :
        caller.ctor = <<"artifact", "human_decision">> =>
            LET r == answers[i].record
                gates == <<r.approval_required[2], r.promotion_required[2], r.execution_required[2]>>
            IN  /\ r.decision_outcome[2] \in
                       CASE r.decision_status[2] = "blocked_no_go" -> {"no_go"}
                         [] r.decision_status[2] = "ready_for_future_gate_review" -> {"pass"}
                         [] OTHER -> {"pass", "warn", "fail"}
                /\ gates \in
                       IF r.decision_impact_scope[2] \in NON_ACTION_IMPACT_SCOPES
                       THEN {<<FALSE, FALSE, FALSE>>}
                       ELSE {<<FALSE, FALSE, FALSE>>, <<TRUE, FALSE, FALSE>>, <<TRUE, TRUE, FALSE>>,
                             <<TRUE, FALSE, TRUE>>, <<TRUE, TRUE, TRUE>>}
                /\ r.source_llm_judgment_record_id = r.llm_judgment_id

\* Every finished summary can be named by a linkage candidate: the summary's
\* identity and lineage fields are acceptable to validateLinkageCandidate.
SummariesAreLinkable ==
    \A i \in Made :
        caller.ctor[1] = "summary" =>
            LET r == answers[i].record
                shared == DOMAIN r \cap (DOMAIN LINKAGE_REQUIRED_FIELDS \cup LINEAGE_VARIANT_FIELDS)
            IN  validateLinkageCandidate([f \in shared |-> r[f]] @@ LINKAGE_LITERALS
                                         @@ [evidence_ledger_reference_purpose |-> Str("text")])
=============================================================================
