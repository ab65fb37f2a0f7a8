------------------------- MODULE TemporalAssociation -------------------------
(***************************************************************************)
(* The temporal contract, the declared revision references and the         *)
(* association that composes them (phase6/temporalContract,                *)
(* phase6/revisionReference, phase6/temporalAssociation).                  *)
(*                                                                         *)
(* A caller owns objects, evaluates them, changes them between two calls,  *)
(* copies results and asks for the snapshot of a result.  An object has    *)
(* own properties; a property answers its reads one after the other, so    *)
(* that an accessor may answer the second read differently.  Instants are  *)
(* numbers in the order of their canonical texts (see IsoTime).            *)
(***************************************************************************)
EXTENDS Integers, SequencesExt, FiniteSetsExt

\* Callers' situations: the objects, the inputs each family is evaluated on,
\* the changes the caller may make, and the bounds on calls.
CONSTANT Scenes

VARIABLES
    scene,      \* the caller's situation
    heap,       \* the caller's objects
    reads,      \* how often each property of each object was read
    results,    \* results in the caller's hands, in the order they came
    attested,   \* the three ATTESTED maps
    snapshots,  \* answers of the snapshot functions
    changes     \* changes made so far

vars == <<scene, heap, reads, results, attested, snapshots, changes>>

Unknown == -1      \* null
NoInstant == -2    \* a value that is no canonical instant
Throws == <<>>     \* an accessor that throws; an answer is otherwise <<value>>

Families == {"temporal", "reference", "association"}

OBSERVATION_KEYS == <<"validFrom", "validTo", "observedAt", "recordedAt">>
REFERENCE_KEYS == <<"subjectRef", "logicalClaimRef", "revisionRef", "identityBasis">>
PAIR_KEYS == <<"left", "right">>
ASSOCIATION_KEYS == <<"declaredReference", "temporalObservation">>

----------------------------------------------------------------------------
(***************************************************************************)
(* captureOwn: every allowed own key read once, in order.  A capture has a *)
(* failure code or "none", the values read and the reads done.             *)
(***************************************************************************)
Answer(h, rd, o, key) ==
    LET answers == h[o].own[key] IN answers[Min({rd[o][key] + 1, Len(answers)})]

Readable(h, rd, o, key) == key \in DOMAIN h[o].own /\ Answer(h, rd, o, key) # Throws

captureOwn(h, rd, o, keys) ==
    LET stopped(code) == [failure |-> code, values |-> <<>>, reads |-> rd]
        bad == {i \in 1 .. Len(keys) : ~ Readable(h, rd, o, keys[i])}
        last == IF bad = {} THEN Len(keys) ELSE Min(bad)
        done == {keys[i] : i \in 1 .. last}
        after == [rd EXCEPT ![o] = [k \in DOMAIN @ |-> IF k \in done THEN @[k] + 1 ELSE @[k]]]
    IN IF o \notin DOMAIN h THEN stopped("invalid_input")
       ELSE IF h[o].class = "revoked" THEN stopped("input_unreadable")
       ELSE IF h[o].class = "array" THEN stopped("invalid_input")
       ELSE IF ~ (DOMAIN h[o].own \subseteq Range(keys)) THEN stopped("unknown_field")
       ELSE IF bad # {} THEN
            [failure |-> IF keys[last] \in DOMAIN h[o].own THEN "input_unreadable" ELSE "missing_field",
             values |-> <<>>, reads |-> after]
       ELSE [failure |-> "none", reads |-> after,
             values |-> [k \in Range(keys) |-> Answer(h, rd, o, k)[1]]]

Failed(code, capture) == [capture EXCEPT !.failure = code]

----------------------------------------------------------------------------
(***************************************************************************)
(* The temporal contract.                                                  *)
(***************************************************************************)

validateObservation(h, rd, o) ==
    LET c == captureOwn(h, rd, o, OBSERVATION_KEYS)
        v == c.values
    IN IF c.failure # "none" THEN c
       ELSE IF NoInstant \in Range(v) \/ Unknown \in {v["observedAt"], v["recordedAt"]}
            THEN Failed("invalid_instant", c)
       ELSE IF Unknown \notin {v["validFrom"], v["validTo"]} /\ v["validFrom"] > v["validTo"]
            THEN Failed("invalid_valid_interval", c)
       ELSE IF v["recordedAt"] < v["observedAt"] THEN Failed("recorded_before_observed", c)
       ELSE c

relateSystemTime(l, r) ==
    IF l < r THEN "left_before_right" ELSE IF r < l THEN "right_before_left" ELSE "same_instant"

relateValidTime(l, r) ==
    IF Unknown \in {l["validFrom"], l["validTo"], r["validFrom"], r["validTo"]} THEN "unresolved"
    ELSE IF l["validFrom"] = r["validFrom"] /\ l["validTo"] = r["validTo"] THEN "same_interval"
    ELSE IF l["validTo"] < r["validFrom"] THEN "left_before_right"
    ELSE IF r["validTo"] < l["validFrom"] THEN "right_before_left"
    ELSE "overlaps"

classifyArrival(validTime, observedTime) ==
    IF {validTime, observedTime} \subseteq {"left_before_right", "right_before_left"}
    THEN IF validTime = observedTime THEN "in_order"
         ELSE IF validTime = "left_before_right" THEN "left_late_arriving"
         ELSE "right_late_arriving"
    ELSE "unresolved"

TemporalRelations(l, r) ==
    LET validTime == relateValidTime(l, r)
        observedTime == relateSystemTime(l["observedAt"], r["observedAt"])
    IN [validTime |-> validTime, observedTime |-> observedTime,
        recordedTime |-> relateSystemTime(l["recordedAt"], r["recordedAt"]),
        arrival |-> classifyArrival(validTime, observedTime)]

----------------------------------------------------------------------------
(***************************************************************************)
(* Declared revision references.                                           *)
(***************************************************************************)
Declared == {"a", "b"}

ForbiddenBasis == "title"

validateDescriptor(h, rd, o) ==
    LET c == captureOwn(h, rd, o, REFERENCE_KEYS)
        v == c.values
    IN IF c.failure # "none" THEN c
       ELSE IF ~ ({v["subjectRef"], v["logicalClaimRef"], v["revisionRef"]} \subseteq Declared)
            THEN Failed("invalid_reference", c)
       ELSE IF v["identityBasis"] = "declared_opaque_ref" THEN c
       ELSE IF v["identityBasis"] = ForbiddenBasis THEN Failed("forbidden_identity_basis", c)
       ELSE Failed("unsupported_identity_basis", c)

relate(l, r) == IF l = r THEN "same_declared_ref" ELSE "different_declared_ref"

ReferenceRelations(l, r) ==
    [k \in {"subjectRef", "logicalClaimRef", "revisionRef"} |-> relate(l[k], r[k])]

----------------------------------------------------------------------------
(***************************************************************************)
(* Either evaluation: the pair, then its sides, one after the other; the   *)
(* first failure is the answer.                                            *)
(***************************************************************************)
\* An evaluation: its failure, the relations of a success, what was read on
\* either side, and the reads done.
Rejected(capture) ==
    [failure |-> capture.failure, relations |-> <<>>, read |-> <<>>, reads |-> capture.reads]

Validated(family, h, rd, o) ==
    IF family = "temporal" THEN validateObservation(h, rd, o) ELSE validateDescriptor(h, rd, o)

Relations(family, l, r) ==
    IF family = "temporal" THEN TemporalRelations(l, r) ELSE ReferenceRelations(l, r)

AfterRight(family, left, right) ==
    IF right.failure # "none" THEN Rejected(right)
    ELSE [failure |-> "none", read |-> <<left.values, right.values>>, reads |-> right.reads,
          relations |-> Relations(family, left.values, right.values)]

AfterLeft(family, h, pair, left) ==
    IF left.failure # "none" THEN Rejected(left)
    ELSE AfterRight(family, left, Validated(family, h, left.reads, pair.values["right"]))

OnPair(family, h, pair) ==
    IF pair.failure # "none" THEN Rejected(pair)
    ELSE AfterLeft(family, h, pair, Validated(family, h, pair.reads, pair.values["left"]))

evaluateTemporalRelation(h, rd, input) ==
    OnPair("temporal", h, captureOwn(h, rd, input, PAIR_KEYS))

evaluateDeclaredRevisionReferenceRelation(h, rd, input) ==
    OnPair("reference", h, captureOwn(h, rd, input, PAIR_KEYS))

----------------------------------------------------------------------------
(***************************************************************************)
(* The attestation maps: keyed by the result object, the record holds the  *)
(* input object and a detached copy.                                       *)
(***************************************************************************)
\* Mutant: any result of the family is vouched for, whatever the input.
snapshotValidatedAnyInput(map, family, result, input) ==
    LET record == {a \in map : a.family = family /\ a.result = result} IN
    IF record = {} THEN [ok |-> FALSE, relations |-> <<>>]
    ELSE [ok |-> TRUE, relations |-> (CHOOSE a \in record : TRUE).relations]

snapshotValidated(map, family, result, input) ==
    LET record == {a \in map : a.family = family /\ a.result = result} IN
    IF \A a \in record : a.input # input THEN [ok |-> FALSE, relations |-> <<>>]
    ELSE [ok |-> TRUE, relations |-> (CHOOSE a \in record : TRUE).relations]

Attestation(family, result, input, relations) ==
    [family |-> family, result |-> result, input |-> input, relations |-> relations]

----------------------------------------------------------------------------
(***************************************************************************)
(* The association: each property captured once, two detached records for  *)
(* each predecessor, and a check of what each predecessor must answer for  *)
(* two copies of the same values.                                          *)
(***************************************************************************)
detachedRecord(values) ==
    [class |-> "object", own |-> [k \in DOMAIN values |-> <<<<values[k]>>>>]]

DetachedPair(values) ==
    [pair |-> [class |-> "object", own |-> [left |-> <<<<"l">>>>, right |-> <<<<"r">>>>]],
     l |-> detachedRecord(values), r |-> detachedRecord(values)]

Unread(h) == [o \in DOMAIN h |-> [k \in DOMAIN h[o].own |-> 0]]

\* Both predecessors on the detached pairs, then the two self-signatures.
Composed(reference, observation, fromReference, fromTemporal, reads1) ==
    LET outcome(code) == [failure |-> code, relations |-> <<>>, read |-> <<>>, reads |-> reads1]
        vouched1 == snapshotValidated({Attestation("reference", 0, "pair", fromReference.relations)},
                                      "reference", 0, "pair")
        vouched2 == snapshotValidated({Attestation("temporal", 0, "pair", fromTemporal.relations)},
                                      "temporal", 0, "pair")
        expected == IF Unknown \in {observation["validFrom"], observation["validTo"]}
                    THEN "unresolved" ELSE "same_interval"
    IN IF fromReference.failure # "none" THEN outcome("reference_contract_rejected")
       ELSE IF ~ vouched1.ok THEN outcome("predecessor_attestation_rejected")
       ELSE IF Range(vouched1.relations) # {"same_declared_ref"}
            THEN outcome("predecessor_signature_mismatch")
       ELSE IF fromTemporal.failure # "none" THEN outcome("temporal_contract_rejected")
       ELSE IF ~ vouched2.ok THEN outcome("predecessor_attestation_rejected")
       ELSE IF vouched2.relations # [validTime |-> expected, observedTime |-> "same_instant",
                                     recordedTime |-> "same_instant", arrival |-> "unresolved"]
            THEN outcome("predecessor_signature_mismatch")
       ELSE [failure |-> "none", reads |-> reads1, read |-> <<reference, observation>>,
             relations |-> [boundary |-> IF vouched2.relations.validTime = "same_interval"
                                         THEN "fully_bounded" ELSE "boundary_unknown"]]

\* The predecessors are asked about the detached pairs of what was captured.
OnCaptures(reference, observation) ==
    LET pair1 == DetachedPair(reference.values)
        pair2 == DetachedPair(observation.values)
    IN IF observation.failure # "none" THEN Rejected(observation)
       ELSE Composed(reference.values, observation.values,
                     evaluateDeclaredRevisionReferenceRelation(pair1, Unread(pair1), "pair"),
                     evaluateTemporalRelation(pair2, Unread(pair2), "pair"), observation.reads)

OnReference(h, top, reference) ==
    IF reference.failure # "none" THEN Rejected(reference)
    ELSE OnCaptures(reference, captureOwn(h, reference.reads, top.values["temporalObservation"],
                                          OBSERVATION_KEYS))

OnAssociation(h, top) ==
    IF top.failure # "none" THEN Rejected(top)
    ELSE OnReference(h, top, captureOwn(h, top.reads, top.values["declaredReference"], REFERENCE_KEYS))

evaluateDeclaredReferenceTemporalAssociation(h, rd, input) ==
    OnAssociation(h, captureOwn(h, rd, input, ASSOCIATION_KEYS))

evaluate(family, h, rd, input) ==
    CASE family = "temporal" -> evaluateTemporalRelation(h, rd, input)
      [] family = "reference" -> evaluateDeclaredRevisionReferenceRelation(h, rd, input)
      [] family = "association" -> evaluateDeclaredReferenceTemporalAssociation(h, rd, input)

----------------------------------------------------------------------------
Init ==
    /\ scene \in Scenes
    /\ heap = scene.heap
    /\ reads = Unread(heap)
    /\ results = <<>>
    /\ attested = {}
    /\ snapshots = {}
    /\ changes = 0

Evaluate(family, input) ==
    /\ Len(results) < scene.maxResults
    /\ \E e \in {evaluate(family, heap, reads, input)} :
         /\ reads' = e.reads
         /\ results' = Append(results, [family |-> family, input |-> input, failure |-> e.failure,
                                        relations |-> e.relations, read |-> e.read,
                                        copied |-> FALSE])
         /\ attested' = IF e.failure # "none" THEN attested
                        ELSE attested \cup {Attestation(family, Len(results) + 1, input, e.relations)}
    /\ UNCHANGED <<scene, heap, snapshots, changes>>

\* The caller makes a copy of a result: another object of the same content.
Copy(i) ==
    /\ Len(results) < scene.maxResults
    /\ results' = Append(results, [results[i] EXCEPT !.copied = TRUE])
    /\ UNCHANGED <<scene, heap, reads, attested, snapshots, changes>>

\* A snapshot function called with a result and an input object.
Snapshot(family, i, input) ==
    /\ Cardinality(snapshots) < scene.maxSnapshots
    /\ snapshots' = snapshots \cup
         {[family |-> family, result |-> i, input |-> input,
           answer |-> snapshotValidated(attested, family, i, input)]}
    /\ UNCHANGED <<scene, heap, reads, results, attested, changes>>

\* The caller changes a property of one of its objects.
Change(o, key, value) ==
    /\ changes < scene.maxChanges
    /\ heap' = [heap EXCEPT ![o].own[key] = <<<<value>>>>]
    /\ changes' = changes + 1
    /\ UNCHANGED <<scene, reads, results, attested, snapshots>>

Next ==
    \/ \E c \in scene.calls : Evaluate(c[1], c[2])
    \/ \E i \in 1 .. Len(results) :
          \/ Copy(i)
          \/ \E family \in Families, c \in scene.calls : Snapshot(family, i, c[2])
    \/ \E c \in scene.changes : Change(c[1], c[2], c[3])

Spec == Init /\ [][Next]_vars

----------------------------------------------------------------------------
Succeeded(i) == results[i].failure = "none"

(***************************************************************************)
(* A snapshot is given only for a result this module made, presented with  *)
(* the very object it was made from, and says what that evaluation said,   *)
(* whatever happened to the input since; a copy never gets one.            *)
(***************************************************************************)
SnapshotsAreGenuine ==
    \A s \in snapshots :
        LET r == results[s.result] IN
        s.answer.ok <=> /\ ~ r.copied /\ r.failure = "none"
                        /\ r.family = s.family /\ r.input = s.input
                        /\ s.answer.relations = r.relations

Mirrored(x) ==
    CASE x = "left_before_right" -> "right_before_left"
      [] x = "right_before_left" -> "left_before_right"
      [] x = "left_late_arriving" -> "right_late_arriving"
      [] x = "right_late_arriving" -> "left_late_arriving"
      [] OTHER -> x

(***************************************************************************)
(* Comparing two observations the other way round gives the mirrored       *)
(* relation on every axis: no relation depends on the argument position    *)
(* (relateValidTime tests one side first).                                 *)
(***************************************************************************)
SwappingMirrors ==
    \A i, j \in 1 .. Len(results) :
        (/\ results[i].family = "temporal" /\ results[j].family = "temporal"
         /\ Succeeded(i) /\ Succeeded(j)
         /\ results[i].read = Reverse(results[j].read)) =>
            \A axis \in DOMAIN results[i].relations :
                results[i].relations[axis] = Mirrored(results[j].relations[axis])

Validity(o) == <<o["validFrom"], o["validTo"]>>

(***************************************************************************)
(* Observation and recording order are never promoted into valid-time      *)
(* order, and recording delay is not late arrival: results that read the   *)
(* same boundaries agree on valid time, and if they also read the same     *)
(* observation times they agree on arrival (evaluate.ts header).           *)
(***************************************************************************)
RecordingNeverOrders ==
    \A i, j \in 1 .. Len(results) :
        (/\ results[i].family = "temporal" /\ results[j].family = "temporal"
         /\ Succeeded(i) /\ Succeeded(j)
         /\ \A side \in 1 .. 2 : Validity(results[i].read[side]) = Validity(results[j].read[side])) =>
            /\ results[i].relations.validTime = results[j].relations.validTime
            /\ (\A side \in 1 .. 2 : results[i].read[side]["observedAt"] = results[j].read[side]["observedAt"])
                 => results[i].relations.arrival = results[j].relations.arrival

(***************************************************************************)
(* The association never blames a predecessor: for two detached copies of  *)
(* one reading the self-signatures always hold, even when an accessor      *)
(* answers a second read differently.                                      *)
(***************************************************************************)
PredecessorsKeepTheirSignature ==
    \A i \in 1 .. Len(results) :
        results[i].failure \notin {"predecessor_attestation_rejected", "predecessor_signature_mismatch"}
=============================================================================
