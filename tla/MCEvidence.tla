----------------------------- MODULE MCEvidence -----------------------------
(***************************************************************************)
(* The evidence behind a decision, each component on its own small         *)
(* instance: runtime eligibility over time, the constructors of the        *)
(* persisted records, timestamps, temporal contracts and revision          *)
(* references, and the chain from review to approval linkage.  They share  *)
(* no state, so a behaviour is one of one of them: `part` says which, the  *)
(* variables of the others stay Off (those of eligibility and of the chain *)
(* as they are at the start).                                              *)
(***************************************************************************)
EXTENDS EligibilityOverTime, ApprovalChain, PersistenceRecords, TLC

CONSTANTS Parts,   \* the components to run
          Off      \* the value of a variable of a component that does not run

VARIABLES
    part,
    caller, containers, answers, edits,                            \* RecordConstruction
    presented,                                                     \* IsoTime
    situation, objects, reads, results, attested, snapshots, turns \* TemporalAssociation

----------------------------------------------------------------------------
(***************************************************************************)
(* Records: callers of every constructor, with a valid input, the same     *)
(* input with one property of every kind of value, combinations the        *)
(* cross-field rules tell apart, and inputs whose accessors change their   *)
(* answer or throw.                                                        *)
(***************************************************************************)
Container(array, items) == [array |-> array, items |-> items, frozen |-> FALSE]

Array(items) == Container(TRUE, items)

Counts(keys, some) == Container(FALSE, [k \in keys |-> IF k \in some THEN Num(1) ELSE Num(0)])

Coverage(b) == Container(FALSE, [k \in FIXTURE_COVERAGE_FIELDS |-> Bool(b)])

RecordHeap ==
    <<Array(<<Str("text")>>), Array(<<>>), Array(<<Str("flag")>>), Array(<<Num(1)>>),
      Array(<<Str("recordAuditEvent")>>), Array(<<Str("clearAllAuditEvents")>>),
      Coverage(TRUE), Coverage(FALSE),
      Counts(COUNT_KEYS.operation_counts, {"record"}),
      Counts(COUNT_KEYS.operation_counts, {"record", "clear_all"}),
      Counts(COUNT_KEYS.status_counts, {"accepted", "rejected"}),
      Counts(COUNT_KEYS.status_counts, {"accepted", "blocked_no_go"}),
      Counts(COUNT_KEYS.outcome_counts, {"pass"}),
      Counts(COUNT_KEYS.outcome_counts, {"no_go"}),
      Counts(COUNT_KEYS.validation_result_counts, {}),
      Counts(COUNT_KEYS.issue_code_counts, {}),
      Counts(COUNT_KEYS.no_go_flag_counts, {})>>

MapOf ==
    [operation_counts |-> 9, status_counts |-> 11, outcome_counts |-> 13,
     validation_result_counts |-> 15, issue_code_counts |-> 16, no_go_flag_counts |-> 17]

\* A valid value of a field.
Sample(f, k) ==
    CASE k.kind \in {"string", "tenant", "lineage"} -> Str("text")
      [] k.kind = "nullableString" -> Null
      [] k.kind = "boolean" -> Bool(FALSE)
      [] k.kind \in {"requiredTrueSafety", "requiredTrue"} -> Bool(TRUE)
      [] k.kind = "stringArray" -> Ref(1)
      [] k.kind = "noGoFlags" -> Ref(2)
      [] k.kind = "operationNames" -> Ref(5)
      [] k.kind = "fixtureCoverage" -> Ref(7)
      [] k.kind = "countMap" -> Ref(MapOf[f])
      [] k.kind \in {"count", "recordCount"} -> Num(0)
      [] OTHER -> Str(CHOOSE x \in k.values : x \notin {"blocked_no_go", "no_go", "redaction_no_go"})

Valid(fields) == [f \in DOMAIN fields |-> Sample(f, fields[f])]

\* What else a field may hold.
Others(k) ==
    {Null, Undefined, Str(""), Bool(TRUE), Num(-1), Ref(4)}
        \cup {Str(x) : x \in k.values}

Without(r, f) == [g \in DOMAIN r \ {f} |-> r[g]]

Deviations(base, fields) ==
    {base} \cup UNION {{Without(base, f)} \cup {[base EXCEPT ![f] = v] : v \in Others(fields[f])} :
                       f \in DOMAIN fields \cap DOMAIN base}
           \cup {("approval_granted" :> Bool(TRUE)) @@ base}

Plain(r) == [object |-> TRUE, first |-> r, later |-> r, throwsAt |-> 0]

Inputs(rs) == {Plain(r) : r \in rs}

\* An input that answers `later` from its second read on, and failing inputs.
Turning(r, later) == [object |-> TRUE, first |-> r, later |-> later, throwsAt |-> 0]

Broken(r) == {[Plain(r) EXCEPT !.throwsAt = 1], [Plain(r) EXCEPT !.throwsAt = 2],
              [Plain(r) EXCEPT !.object = FALSE]}

By(ctors, inputs) == {[ctor |-> c, input |-> i] : c \in ctors, i \in inputs}

ArtifactCalls ==
    UNION {LET fields == ArtifactSpecs[type].fields
               base == Valid(fields)
           IN  By({<<"artifact", type>>}, Inputs(Deviations(base, fields)) \cup Broken(base)) :
           type \in DOMAIN ArtifactSpecs}

DecisionCalls ==
    LET base == Valid(HUMAN_DECISION_RECORD_SPEC.fields)
    IN  By({<<"artifact", "human_decision">>},
           Inputs({[base EXCEPT !.decision_status = Str(s), !.decision_outcome = Str(o),
                                !.decision_impact_scope = Str(p), !.approval_required = Bool(g[1]),
                                !.promotion_required = Bool(g[2]), !.execution_required = Bool(g[3]),
                                !.no_go_flags = IF s = "blocked_no_go" THEN Ref(3) ELSE Ref(2)] :
                     s \in HUMAN_DECISION_STATUSES, o \in OUTCOMES, p \in {"assessment", "defer_decision"},
                     g \in BOOLEAN \X BOOLEAN \X BOOLEAN}))

TargetCalls ==
    LET fields == [f \in DOMAIN TargetDecisionFields \ SAFETY_FIELDS |-> TargetDecisionFields[f]]
        base == Valid(fields) @@ [no_go_flags |-> Ref(3)]
    IN  By({<<"target", "plain">>, <<"target", "blocked">>},
           Inputs(Deviations(base, fields)) \cup Broken(base)
             \cup {Turning(base, [base EXCEPT !.no_go_flags = Ref(2)])}
             \cup Inputs({[base EXCEPT !.no_go_flags = v, !.next_slice = Str("P6-I5C")] :
                          v \in {Ref(2), Ref(4), Ref(9), Null}}))

OPERATIONS == {"generic", "put", "get", "list", "count", "clear_tenant", "clear_all"}

EventBase == [Valid(AuditEventFields) EXCEPT !.operation_outcome = Str("fail")]

EventCalls ==
    By({<<"event", "generic">>, <<"event", "blocked">>},
       Inputs(Deviations([EventBase EXCEPT !.no_go_flags = Ref(3), !.operation_outcome = Str("no_go")],
                         AuditEventFields)) \cup Broken(EventBase))
    \cup By({<<"event", v>> : v \in OPERATIONS},
            Inputs({[EventBase EXCEPT !.record_count = Num(n), !.operation_outcome = Str(o),
                                      !.duplicate_result = Str(d), !.non_durability_result = Str(q)] :
                    n \in 0..2, o \in OUTCOMES, d \in {"first_write", "duplicate_conflict"},
                    q \in {"not_durable", "durability_not_claimed"}}))

SummaryBase == Valid(SummaryFields)

BlockedBase ==
    [SummaryBase EXCEPT !.no_go_flags = Ref(3), !.status_counts = Ref(12), !.outcome_counts = Ref(14)]

SummaryCalls ==
    By({<<"summary", "generic">>, <<"summary", "fixture_suite">>},
       Inputs(Deviations(SummaryBase, SummaryFields)) \cup Broken(SummaryBase))
    \cup By({<<"summary", "blocked">>},
            Inputs({[BlockedBase EXCEPT !.no_go_flags = f, !.status_counts = s, !.outcome_counts = o] :
                    f \in {Ref(2), Ref(3), Ref(4), Null}, s \in {Ref(11), Ref(12), Ref(2)},
                    o \in {Ref(13), Ref(14), Null}})
              \cup {Turning(BlockedBase, [BlockedBase EXCEPT !.no_go_flags = Ref(2)])})
    \cup By({<<"summary", v>> : v \in SUMMARY_SCOPES},
            Inputs({[SummaryBase EXCEPT !.total_record_attempts = Num(n), !.accepted_record_count = Num(a),
                                        !.rejected_record_count = Num(r), !.stored_event_count = Num(e),
                                        !.duplicate_conflict_count = Num(d), !.outcome_counts = o,
                                        !.clear_scope_summary = Str(c[1]), !.operation_counts = c[2],
                                        !.non_durability_summary = Str("test-only")] :
                    n, a, r, e, d \in 0..1, o \in {Ref(13), Ref(14)},
                    c \in {<<"text", Ref(9)>>, <<"all_test_memory", Ref(10)>>}}))

RecordCalls == ArtifactCalls \cup DecisionCalls \cup TargetCalls \cup EventCalls \cup SummaryCalls


----------------------------------------------------------------------------
(***************************************************************************)
(* Timestamps: the ends of months in years of every kind, the ends of a    *)
(* day, fractions of every length around one second, and a text that has   *)
(* not the form at all.                                                    *)
(***************************************************************************)
Text(base, fraction) == [base |-> base, fraction |-> fraction]

Dates == {1900, 2000, 2023, 2024} \X {0, 2, 4, 12, 13} \X {0, 1, 28, 29, 30, 31, 32}

IsoTexts ==
    {Text(d \o <<0, 0, 0>>, <<0, 0, 0>>) : d \in Dates}
    \cup {Text(<<2024, 12, 31>> \o time, <<0, 0, 0>>)   : time \in {0, 23, 24} \X {0, 59, 60} \X {0, 59, 60}}
    \cup {Text(<<2024, 12, 31, 23, 59, s>>, f) : s \in {58, 59},
              f \in {<<>>, <<5>>, <<4, 9>>, <<5, 0>>, <<4, 9, 9>>, <<0, 0, 5>>, <<0, 0, 0, 1>>}}
    \cup {Text(<<>>, <<>>)}

----------------------------------------------------------------------------
(***************************************************************************)
(* Temporal contracts: every pair of observations over three instants      *)
(* compared both ways, two readings around a change, and objects that      *)
(* cannot be read or that answer differently.                              *)
(***************************************************************************)
Object(own) == [class |-> "object", own |-> own]

Property(v) == <<<<v>>>>

Observation(from, to, observed, recorded) ==
    Object([validFrom |-> Property(from), validTo |-> Property(to),
            observedAt |-> Property(observed), recordedAt |-> Property(recorded)])

Descriptor(subject, basis) ==
    Object([subjectRef |-> Property(subject), logicalClaimRef |-> Property("a"),
            revisionRef |-> Property("b"), identityBasis |-> Property(basis)])

PairOf(l, r) == Object([left |-> Property(l), right |-> Property(r)])

AssociationOf(d, o) == Object([declaredReference |-> Property(d), temporalObservation |-> Property(o)])

Situation(h, calls, changed, maxResults, maxSnapshots) ==
    [heap |-> h, calls |-> calls, changes |-> changed, maxResults |-> maxResults,
     maxSnapshots |-> maxSnapshots, maxChanges |-> IF changed = {} THEN 0 ELSE 1]

Unknown == -1

NoInstant == -2

Boundaries == {Unknown, 0, 1, 2}

\* Both ways round.
Swapped ==
    {Situation([p |-> PairOf("o1", "o2"), q |-> PairOf("o2", "o1"),
                o1 |-> Observation(f1, t1, 1, 1), o2 |-> Observation(f2, t2, ob, 2)],
               {<<"temporal", "p">>, <<"temporal", "q">>}, {}, 2, 0)
        : f1 \in Boundaries, t1 \in Boundaries, f2 \in Boundaries, t2 \in Boundaries, ob \in 0 .. 2}

\* The same boundaries observed and recorded at other times.
Retimed ==
    {Situation([p |-> PairOf("o1", "o2"),
                o1 |-> Observation(0, t1, 1, 2), o2 |-> Observation(f2, 2, 0, 2)],
               {<<"temporal", "p">>},
               {<<"o1", "observedAt", 0>>, <<"o2", "observedAt", 2>>, <<"o1", "recordedAt", 1>>,
                <<"o2", "recordedAt", 0>>, <<"o1", "recordedAt", 0>>, <<"o1", "validTo", NoInstant>>}, 2, 0)
        : t1 \in Boundaries, f2 \in Boundaries}

\* Snapshots of results, copies and replays; the caller changes its input.
Vouched ==
    {Situation([p |-> PairOf("o1", "o1"), a |-> AssociationOf("d1", "o1"), r |-> PairOf("d1", "d2"),
                o1 |-> Observation(0, to, 0, 1), d1 |-> Descriptor("a", basis),
                d2 |-> Descriptor("b", "declared_opaque_ref")],
               {<<"temporal", "p">>, <<"association", "a">>, <<"reference", "r">>},
               {<<"o1", "validTo", Unknown>>, <<"d2", "subjectRef", "a">>, <<"d1", "subjectRef", "">>}, 2, 1)
        : to \in {Unknown, 1}, basis \in {"declared_opaque_ref", "title", "anything"}}

Throwing == <<>>

\* Objects the caller may have instead of a plain one.
Odd(o) ==
    {[class |-> "array", own |-> <<>>], [class |-> "revoked", own |-> <<>>],
     [o EXCEPT !.own = @ @@ ("extra" :> Property("a"))]}
    \cup {[o EXCEPT !.own = [k \in DOMAIN @ \ {key} |-> @[k]]] : key \in DOMAIN o.own}
    \cup {[o EXCEPT !.own[key] = <<Throwing>>] : key \in DOMAIN o.own}

\* An accessor that answers its second read differently.
Answering(o, key, v) == [o EXCEPT !.own[key] = Append(@, <<v>>)]

PlainObservation == Observation(0, 1, 0, 1)

PlainDescriptor == Descriptor("a", "declared_opaque_ref")

Observations ==
    Odd(PlainObservation) \cup
    {Answering(PlainObservation, "validTo", Unknown), Answering(PlainObservation, "observedAt", 1),
     Answering(PlainObservation, "validFrom", 2), Answering(PlainObservation, "recordedAt", NoInstant)}

Descriptors ==
    Odd(PlainDescriptor) \cup
    {Answering(PlainDescriptor, "subjectRef", "b"), Answering(PlainDescriptor, "revisionRef", ""),
     Answering(PlainDescriptor, "identityBasis", "title")}

Hostile ==
    {Situation([p |-> PairOf("o1", "o1"), a |-> AssociationOf("d1", "o1"), r |-> PairOf("d1", "d1"),
                o1 |-> o, d1 |-> d],
               {<<"temporal", "p">>, <<"association", "a">>, <<"reference", "r">>, <<"association", "nothing">>},
               {}, 2, 0)
        : o \in Observations \cup {PlainObservation}, d \in Descriptors \cup {PlainDescriptor}}
    \cup
    {Situation([p |-> pair, a |-> association, o1 |-> PlainObservation, d1 |-> PlainDescriptor],
               {<<"temporal", "p">>, <<"association", "a">>}, {}, 2, 0)
        : pair \in Odd(PairOf("o1", "o1")), association \in Odd(AssociationOf("d1", "o1"))}

Situations == Swapped \cup Retimed \cup Vouched \cup Hostile

----------------------------------------------------------------------------
(***************************************************************************)
(* Approval chains: who reviews, what changes, what is withdrawn, and what *)
(* expires.                                                                *)
(***************************************************************************)
Session(user, id, expires) ==
    [userId |-> user, tenantId |-> "t1", sessionId |-> id, expiresAt |-> expires,
     isDevSession |-> "false", extra |-> {}]

Ann == Session("ann", "s1", 3)

Bob == Session("bob", "s2", 3)

BobAgain == Session("bob", "s3", 1)

Cyd == Session("cyd", "s4", 3)

Dan == Session("dan", "s5", 3)

Dev == [Session("dev", "s6", 3) EXCEPT !.isDevSession = "true"]

Elsewhere == [Session("eve", "s7", 3) EXCEPT !.tenantId = "t2"]

Service == [Session("svc", "s8", 3) EXCEPT !.extra = {"isServiceAccount"}]

Decision(content, valid) ==
    [human_decision_id |-> "d1", tenant_id |-> "t1", content |-> content, valid |-> valid]

Preview(payload, expires, creator) ==
    [id |-> "v1", tenantId |-> "t1", workUnitId |-> "w1", actionType |-> "reply", target |-> "g1",
     payload |-> payload, targetHash |-> Hash("g1"), payloadHash |-> Hash(payload), status |-> "preview",
     requiresApproval |-> TRUE, creatorUserId |-> creator, createdAt |-> 0, expiresAt |-> expires,
     extra |-> {}]

Pending(expires) ==
    [id |-> "p1", tenantId |-> "t1", workUnitId |-> "w1", actionPreviewId |-> "v1", actionType |-> "reply",
     targetHash |-> Hash("g1"), payloadHash |-> Hash("x"), status |-> "pending", createdAt |-> 0,
     approvedAt |-> NoTime, expiresAt |-> expires, approvedByUserId |-> "", usedAt |-> NoTime]

Approved(expires, by) ==
    [Pending(expires) EXCEPT !.status = "approved", !.approvedAt = 0, !.approvedByUserId = by]

Choice(requester, first, second, approver, by) ==
    [requester |-> requester, first |-> first, second |-> second, approver |-> approver, executor |-> by]

Usual == Choice(Dan, Ann, Bob, Cyd, Dan)

Version(d, p) == [decision |-> d, preview |-> p]

Original == Version(Decision("yes", TRUE), Preview("x", 3, "dan"))

Base == [tenant |-> "t1", decision |-> Original.decision, preview |-> Original.preview,
         approval |-> Approved(3, "cyd"), sessions |-> {Ann, Bob}, choices |-> {Usual}, versions |-> {},
         otherHashes |-> {},
         evidenceIds |-> <<"e1">>, linkageIds |-> <<"l1">>, reviewTtl |-> 2,
         maxAttestations |-> 2, maxRecorded |-> 0, maxNow |-> 2]

\* Who may review, and in which positions people may stand.
Reviewing ==
    [Base EXCEPT !.sessions = {Ann, Bob, BobAgain, Dev, Elsewhere, Service}, !.otherHashes = {Hash(<<"other">>)},
                 !.choices = {Usual, Choice(Dan, Bob, Ann, Cyd, NotAnObject),
                              Choice(Ann, Ann, Bob, Cyd, Elsewhere), Choice(Cyd, Ann, Bob, Cyd, Dan)}]

\* Three attestations, one of which may be of something else.
Combining == [Base EXCEPT !.maxAttestations = 3, !.otherHashes = {Hash(<<"other">>)}, !.maxNow = 1, !.evidenceIds = <<"e1", "e2">>]

\* An approval that is still to be given, by a reviewer or by somebody else.
Approving ==
    [Base EXCEPT !.approval = Pending(3), !.sessions = {Ann, Bob, Cyd},
                 !.choices = {Usual, Choice(Dan, Ann, Bob, Ann, Dan)}, !.maxNow = 1]

\* Sources that are replaced and restored: another payload or decision.
Rewording ==
    [Base EXCEPT !.versions = {Original, Version(Decision("yes", TRUE), Preview("y", 3, "dan")),
                               Version(Decision("no", TRUE), Preview("x", 3, "dan"))}, !.maxNow = 1]

\* A preview that lives longer, or not as long, has no creator, or cannot be
\* read; a decision that is no longer valid.
Decaying ==
    [Base EXCEPT !.versions = {Original, Version(Decision("yes", TRUE), Preview("x", 9, "dan")),
                               Version(Decision("yes", TRUE), Preview("x", 3, "")),
                               Version(Decision("yes", TRUE), Preview("", 3, "dan")),
                               Version(Decision("yes", FALSE), Preview("x", 3, "dan"))},
                 !.preview.expiresAt = 1, !.maxNow = 2,
                 !.choices = {Usual, [Usual EXCEPT !.second = BobAgain]}]

\* Ids that are revoked and consumed.
Withdrawing == [Base EXCEPT !.maxRecorded = 2, !.linkageIds = <<"l1", "l2">>, !.maxNow = 1]

\* Everything expires.
Waiting == [Base EXCEPT !.linkageIds = <<"l1", "l2">>, !.maxNow = 3]

Chains == {Reviewing, Combining, Approving, Rewording, Decaying, Withdrawing, Waiting}


----------------------------------------------------------------------------
Records == INSTANCE RecordConstruction WITH
    heap <- containers, changes <- edits, Calls <- RecordCalls, InitialHeap <- RecordHeap,
    MaxCalls <- 2, MaxChanges <- 1

Iso == INSTANCE IsoTime WITH Texts <- IsoTexts

Temporal == INSTANCE TemporalAssociation WITH
    scene <- situation, heap <- objects, changes <- turns, Scenes <- Situations

----------------------------------------------------------------------------
recordVars == <<caller, containers, answers, edits>>

temporalVars == <<situation, objects, reads, results, attested, snapshots, turns>>

RecordsOff == caller = Off /\ containers = Off /\ answers = Off /\ edits = Off

TemporalOff ==
    /\ situation = Off /\ objects = Off /\ reads = Off /\ results = Off
    /\ attested = Off /\ snapshots = Off /\ turns = Off

\* A bundle nobody evaluates.
EligibilityIdle ==
    /\ examined.previewExpiresAt = 0 /\ examined.approvalExpiresAt = 0 /\ examined.reviewExpiresAt = 0
    /\ sessionExpiresAt = 0
    /\ executor = examined.approver /\ executor = CHOOSE u \in People : TRUE

EvidenceInit ==
    /\ part \in Parts
    /\ OverTimeInit
    /\ part # "eligibility" => EligibilityIdle
    /\ IF part = "records" THEN Records!Init ELSE RecordsOff
    /\ IF part = "iso" THEN Iso!Init ELSE presented = Off
    /\ IF part = "temporal" THEN Temporal!Init ELSE TemporalOff
    /\ ChainInit
    /\ part # "chain" => scene = Waiting   \* a chain nobody builds

EvidenceNext ==
    \/ part = "eligibility" /\ OverTimeNext
       /\ UNCHANGED <<part, recordVars, presented, temporalVars, chainVars>>
    \/ part = "records" /\ Records!Next
       /\ UNCHANGED <<part, ovars, presented, temporalVars, chainVars>>
    \/ part = "iso" /\ Iso!Next
       /\ UNCHANGED <<part, ovars, recordVars, temporalVars, chainVars>>
    \/ part = "temporal" /\ Temporal!Next
       /\ UNCHANGED <<part, ovars, recordVars, presented, chainVars>>
    \/ part = "chain" /\ ChainNext
       /\ UNCHANGED <<part, ovars, recordVars, presented, temporalVars>>

allVars == <<part, ovars, recordVars, presented, temporalVars, chainVars>>

EvidenceSpec == EvidenceInit /\ [][EvidenceNext]_allVars

----------------------------------------------------------------------------
(***************************************************************************)
(* What each component promises.  The conjuncts are stated and explained   *)
(* in the component's own module.                                          *)
(***************************************************************************)
(***************************************************************************)
(* A finished record stays valid and unchanged whatever its caller does to *)
(* the containers it came from, summaries share none of them, and building *)
(* it again gives the same record.  Blocked decisions and summaries carry  *)
(* the flags that blocked them, human decisions follow the contract's      *)
(* tables, and every summary can be named by a linkage candidate           *)
(* (RecordConstruction).                                                   *)
(***************************************************************************)
RecordsStaySound ==
    part = "records" =>
        /\ Records!FinishedRecordsStayValid /\ Records!SummariesShareNothing
        /\ Records!ReconstructionIsIdentity /\ Records!BlockedRecordsSayWhy
        /\ Records!HumanDecisionsFollowContract /\ Records!SummariesAreLinkable

(***************************************************************************)
(* Both timestamp guards accept the same dates, and accepted texts of any  *)
(* precision order as their instants (IsoTime).                            *)
(***************************************************************************)
TimestampsAgree == part = "iso" => Iso!CalendarsAgree /\ Iso!TextOrderIsTimeOrder

(***************************************************************************)
(* A snapshot is given only for a genuine result with its own input, and   *)
(* the association never blames a predecessor, though inputs answer two    *)
(* reads differently.  Comparing the other way round mirrors every         *)
(* relation, and observation or recording never order valid time           *)
(* (TemporalAssociation).                                                  *)
(***************************************************************************)
RelationsAreSound ==
    part = "temporal" =>
        /\ Temporal!SnapshotsAreGenuine /\ Temporal!PredecessorsKeepTheirSignature
        /\ Temporal!SwappingMirrors /\ Temporal!RecordingNeverOrders

(***************************************************************************)
(* A linkage record verifies exactly while its sources are as they were,   *)
(* and never once altered, resealed or not; the three audit trails and the *)
(* eligibility policy agree with the verdict (ApprovalChain).              *)
(***************************************************************************)
VerdictsAreExact ==
    part = "chain" =>
        /\ VerifiedMeansUnchanged /\ UnchangedVerifies /\ AlterationsShow
        /\ AuditsAgree /\ PolicyAgrees

=============================================================================
