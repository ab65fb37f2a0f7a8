--------------------------- MODULE RecordedSource ---------------------------
(***************************************************************************)
(* The command source:acquire-recorded: for every chosen resource it reads *)
(* a retained provider export, acquires a capture from it with the module  *)
(* of that resource, reads the clock and produces a SourceRecordV1.  While *)
(* it runs an operator may replace an archive, and the clock may be set.   *)
(*                                                                         *)
(* A text is a name with the flaws a bound looks for.  An instant is the   *)
(* number of its second and the digits of its fraction, `shaped` when it   *)
(* matches the pinned form and `dated` when its date and time exist.  The  *)
(* retained bytes are the object they decode to, and stand for their own   *)
(* digest.  `keys` says how the keys of an object differ from the list.    *)
(***************************************************************************)
EXTENDS Integers, Sequences, SequencesExt

CONSTANTS Absent,            \* no file, no value
          Scenes,            \* the archives at each path, and the command line
          Clocks,            \* the instants the clock may show
          MAX_SAFE_INTEGER,  \* of JavaScript, one less than a power of two
          MaxEdits

VARIABLES files,      \* the archive at each path
          targets,    \* the resources still to do, in order
          chosen,     \* the resources the command line asked for
          capture,    \* what was acquired and not yet produced, or Absent
          clock,
          output,     \* the records printed, each with the archive it was read from
          outcome,    \* "running", "ok", or the stage that refused and its code
          edits

vars == <<files, targets, chosen, capture, clock, output, outcome, edits>>

----------------------------------------------------------------------------
Check(holds, code) == [holds |-> holds, code |-> code]

\* The code of the first check that fails, "none" if all hold.
FirstFailure(checks) ==
    LET failed == SelectSeq(checks, LAMBDA c : ~c.holds)
    IN IF failed = <<>> THEN "none" ELSE failed[1].code

isBoundedText(text) == text.flaws = {}

ISO_UTC_INSTANT(t) == t.shaped

KeyChecks(v) ==
    <<Check("unknown" \notin v.keys, "archive_unknown_field"),
      Check("missing" \notin v.keys, "archive_missing_field")>>

Envelope(a) ==
    <<Check(a.object, "archive_unreadable")>> \o KeyChecks(a) \o
    <<Check(a.archiveVersion = "1", "unsupported_archive_version"),
      Check(isBoundedText(a.captureId), "invalid_capture_id"),
      Check(isBoundedText(a.tenantPartition), "invalid_tenant_partition"),
      Check(a.acquisitionMode = "HUMAN_TRIGGERED_PROVIDER_EXPORT", "unauthorized_acquisition_mode"),
      Check(ISO_UTC_INSTANT(a.observedAt), "invalid_observed_at"),
      Check(a.capturedFrom.object, "archive_unreadable")>> \o KeyChecks(a.capturedFrom)

\* Base64 is refused unless encoding the decoded bytes gives it back.
decodeCanonicalBase64(c) == IF c.canonical THEN c.bytes ELSE Absent

Retained(c) ==
    <<Check(c.object, "archive_unreadable")>> \o KeyChecks(c) \o
    <<Check(c.retention = "INLINE_BYTES", "unsupported_retention"),
      Check(decodeCanonicalBase64(c) # Absent, "invalid_retained_bytes"),
      Check(c.bytes.object, "retained_content_unreadable")>>

\* JSON.parse rounds a number to the nearest that has a double: beyond the
\* safe integers, to an even one.
JsonNumber(n) ==
    IF n <= MAX_SAFE_INTEGER \/ n % 2 = 0 THEN n ELSE IF n % 4 = 1 THEN n - 1 ELSE n + 1

Stated(o) ==
    <<Check(o.id.type = "number", "provider_identity_absent"),
      Check(JsonNumber(o.id.n) \in 1 .. MAX_SAFE_INTEGER, "provider_identity_unrepresentable"),
      Check(o.created_at # Absent /\ ISO_UTC_INSTANT(o.created_at), "provider_event_time_unreadable")>>

Profile(namespace, resource) ==
    [providerNamespace |-> namespace, identityProfile |-> <<resource, "database-primary-key", "1">>,
     contentScopeProfile |-> <<resource, "retained-response-body", "1">>]

GITHUB_ISSUE_ACQUISITION_PROFILE == Profile("github.com/rest/issues", "github.issue")

GITHUB_PULL_REQUEST_ACQUISITION_PROFILE == Profile("github.com/rest/pulls", "github.pull-request")

Captured(a, profile) ==
    LET o == a.retainedContent.bytes
    IN [captureId |-> a.captureId, tenantPartition |-> a.tenantPartition, profile |-> profile,
        providerObjectKey |-> JsonNumber(o.id.n), contentDigest |-> o,
        observedAt |-> a.observedAt, sourceEventAt |-> o.created_at]

\* A capture, or the code of the refusal.
Acquired(a, checks, profile) ==
    LET failure == FirstFailure(checks)
    IN IF failure = "none" THEN [ok |-> TRUE, capture |-> Captured(a, profile)]
       ELSE [ok |-> FALSE, code |-> failure]

acquireRecordedGitHubIssueCapture(a) ==
    LET o == a.retainedContent.bytes
    IN Acquired(a,
         Envelope(a)
         \o <<Check(a.capturedFrom.requestMethod = "GET", "unauthorized_request_method")>>
         \o Retained(a.retainedContent)
         \o <<Check(~(o.head /\ o.base), "provider_resource_mismatch")>> \o Stated(o),
         GITHUB_ISSUE_ACQUISITION_PROFILE)

\* The request is pinned: another media type gives other bytes of the object.
PinnedRequest(from) ==
    <<Check(\A text \in from.texts : isBoundedText(text), "invalid_captured_from"),
      Check(from.requestMethod = "GET", "unauthorized_request_method"),
      Check(from.acceptHeader = "application/vnd.github+json", "unauthorized_accept_profile"),
      Check(from.providerApiVersion = "2022-11-28", "unauthorized_provider_api_version")>>

\* Mutant: the resource is taken from the caller, not from the bytes.
acquirePullRequestUnbound(a) ==
    Acquired(a,
      Envelope(a) \o PinnedRequest(a.capturedFrom) \o Retained(a.retainedContent)
      \o Stated(a.retainedContent.bytes),
      GITHUB_PULL_REQUEST_ACQUISITION_PROFILE)

acquireRecordedGitHubPullRequestCapture(a) ==
    LET o == a.retainedContent.bytes
    IN Acquired(a,
         Envelope(a) \o PinnedRequest(a.capturedFrom) \o Retained(a.retainedContent)
         \o <<Check(o.head /\ o.base, "provider_resource_mismatch")>> \o Stated(o),
         GITHUB_PULL_REQUEST_ACQUISITION_PROFILE)

----------------------------------------------------------------------------
(***************************************************************************)
(* The producer and the record it makes.                                   *)
(***************************************************************************)
Digits(fraction) == [i \in 1 .. 3 |-> IF i <= Len(fraction) THEN fraction[i] ELSE 0]

\* A key that orders instants, or Absent where there is no such instant.
instantOrder(t) ==
    IF ~(t.shaped /\ t.dated) THEN Absent ELSE <<t.second>> \o Digits(t.fraction)

\* The keys have one width and are compared as text.
OrderedBefore(t, u) ==
    LET a == instantOrder(t)
        b == instantOrder(u)
    IN /\ a # Absent /\ b # Absent
       /\ \E i \in DOMAIN a : a[i] < b[i] /\ \A j \in 1 .. i - 1 : a[j] = b[j]

ACCEPTED_PROVIDERS ==
    {"slack", "notion", "gmail_message", "google_drive", "google_calendar", "github_issue",
     "github_pull_request", "manual", "meeting_transcript"}

\* The producer gives every key, version 1, no declared reference and no URL,
\* and its keys are decimal digits, so only these checks can fail.
validateSourceRecordV1(r) ==
    FirstFailure(
      <<Check(r.tenantId.flaws \subseteq {"control"}, "invalid_tenant_id"),
        Check(r.provider \in ACCEPTED_PROVIDERS, "invalid_provider"),
        Check(\A t \in {r.observedAt, r.recordedAt, r.sourceEventAt} : instantOrder(t) # Absent,
              "invalid_instant"),
        Check(~OrderedBefore(r.recordedAt, r.observedAt), "recorded_before_observed")>>)

\* Written out again in the producer, so that it authorizes no adapter by
\* construction.
AUTHORIZED_PROVIDER_PROFILES ==
    {Profile("github.com/rest/issues", "github.issue") @@ [provider |-> "github_issue"],
     Profile("github.com/rest/pulls", "github.pull-request") @@ [provider |-> "github_pull_request"]}

produceSourceRecordFromCapture(c, recordedAt) ==
    LET authorized == {p \in AUTHORIZED_PROVIDER_PROFILES : \A f \in DOMAIN c.profile : p[f] = c.profile[f]}
        record == [tenantId |-> c.tenantPartition, provider |-> (CHOOSE p \in authorized : TRUE).provider,
                   providerObjectKey |-> c.providerObjectKey, observedAt |-> c.observedAt,
                   recordedAt |-> recordedAt, sourceEventAt |-> c.sourceEventAt,
                   contentDigest |-> c.contentDigest]
        failure == IF authorized = {} THEN "unauthorized_provider_profile" ELSE validateSourceRecordV1(record)
    IN IF failure = "none" THEN [ok |-> TRUE, record |-> record] ELSE [ok |-> FALSE, code |-> failure]

----------------------------------------------------------------------------
RECORDED_RESOURCES == <<"issue", "pull-request">>

\* The chosen resources: all of them, or the one that was named.
Selected(name) ==
    IF name = Absent THEN RECORDED_RESOURCES ELSE SelectSeq(RECORDED_RESOURCES, LAMBDA r : r = name)

Init ==
    \E scene \in Scenes :
        /\ files = scene.files
        /\ chosen = Selected(scene.selected)
        /\ targets = chosen
        /\ outcome = IF chosen = <<>> THEN <<"refused", "unknown_resource">> ELSE <<"running">>
        /\ capture = Absent /\ output = <<>> /\ edits = 0
        /\ clock \in Clocks

Running == outcome = <<"running">>

\* readFile, then acquire on the text that was read.
Acquire ==
    /\ Running /\ capture = Absent
    /\ LET a == files[targets[1]]
           answer == IF targets[1] = "issue" THEN acquireRecordedGitHubIssueCapture(a)
                     ELSE acquireRecordedGitHubPullRequestCapture(a)
       IN IF a = Absent
          THEN outcome' = <<"refused", "no_such_file">> /\ UNCHANGED capture
          ELSE IF answer.ok
          THEN capture' = [archive |-> a, evidence |-> answer.capture] /\ UNCHANGED outcome
          ELSE outcome' = <<"refused", answer.code>> /\ UNCHANGED capture
    /\ UNCHANGED <<files, targets, chosen, clock, output, edits>>

\* The recording instant is this process's clock, after the digest was awaited.
Produce ==
    /\ Running /\ capture # Absent
    /\ LET answer == produceSourceRecordFromCapture(capture.evidence, clock)
       IN IF answer.ok
          THEN /\ output' = Append(output, [resource |-> targets[1], archive |-> capture.archive,
                                            record |-> answer.record])
               /\ targets' = Tail(targets)
               /\ outcome' = IF targets' = <<>> THEN <<"ok">> ELSE outcome
          ELSE outcome' = <<"rejected", answer.code, capture.evidence, clock>> /\ UNCHANGED <<output, targets>>
    /\ capture' = Absent
    /\ UNCHANGED <<files, chosen, clock, edits>>

\* An operator exchanges the archives of the two resources.
Exchange ==
    /\ Running /\ edits < MaxEdits
    /\ files' = [r \in DOMAIN files |-> files[IF r = "issue" THEN "pull-request" ELSE "issue"]]
    /\ edits' = edits + 1
    /\ UNCHANGED <<targets, chosen, capture, clock, output, outcome>>

\* Time passes, or the clock is set back.
SetClock ==
    /\ Running
    /\ clock' \in Clocks \ {clock}
    /\ UNCHANGED <<files, targets, chosen, capture, output, outcome, edits>>

Next == Acquire \/ Produce \/ Exchange \/ SetClock

Spec == Init /\ [][Next]_vars

----------------------------------------------------------------------------
(***************************************************************************)
(* Identity, digest and event time of a printed record are those of the    *)
(* retained bytes, in the namespace of the resource the bytes carry, even  *)
(* when the command is handed the archive of the other resource: "This     *)
(* script therefore cannot mislabel a capture even by passing the wrong    *)
(* pair" (acquireRecordedSource.mts:22-24).                                *)
(***************************************************************************)
RecordsSpeakForTheirBytes ==
    \A i \in DOMAIN output :
        LET r == output[i].record
            o == output[i].archive.retainedContent.bytes
        IN /\ r.provider = IF o.head /\ o.base THEN "github_pull_request" ELSE "github_issue"
           /\ r.providerObjectKey = o.id.n
           /\ r.contentDigest = o
           /\ r.sourceEventAt = o.created_at
           /\ r.tenantId = output[i].archive.tenantPartition

Thousandths(t) ==
    LET d == Digits(t.fraction) IN 1000 * t.second + 100 * d[1] + 10 * d[2] + d[3]

(***************************************************************************)
(* No record is dated before its observation, whatever the precision the   *)
(* archive states and however the clock was set (recorded_before_observed, *)
(* validateSourceRecord.ts).                                               *)
(***************************************************************************)
RecordedAfterObserved ==
    \A i \in DOMAIN output :
        Thousandths(output[i].record.recordedAt) >= Thousandths(output[i].record.observedAt)

(***************************************************************************)
(* What an adapter acquires the producer accepts: the profiles and bounds  *)
(* that adapters, producer and domain each state for themselves agree.     *)
(* The exceptions are a clock behind the observation, and a date that has  *)
(* the pinned shape and does not exist.                                    *)
(***************************************************************************)
AcquiredIsProducible ==
    outcome[1] = "rejected" =>
        LET c == outcome[3] IN
        \/ outcome[2] = "invalid_instant" /\ ~(c.observedAt.dated /\ c.sourceEventAt.dated)
        \/ outcome[2] = "recorded_before_observed" /\ Thousandths(outcome[4]) < Thousandths(c.observedAt)

(***************************************************************************)
(* Exit status 0 means that every chosen resource was printed, in order; a *)
(* refusal ends the command.                                               *)
(***************************************************************************)
ZeroExitMeansRecorded ==
    outcome = <<"ok">> =>
        Len(output) = Len(chosen) /\ \A i \in DOMAIN output : output[i].resource = chosen[i]

=============================================================================
