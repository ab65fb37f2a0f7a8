---------------------------- MODULE SourceDrafts ----------------------------
(***************************************************************************)
(* The source hoppers: an event of an external tool becomes a sanitised    *)
(* candidate, candidates become drafts, and an accepted draft becomes the  *)
(* artefacts a project manager may have executed                           *)
(* (app/lib/sourceHoppers.ts, workUnitSafety.ts, workUnitDrafts.ts,        *)
(* workUnitExecution.ts and the agents of app/lib/subagents).              *)
(*                                                                         *)
(* A text is the set of words a rule looks for in it: {} is the empty      *)
(* string, "word" stands for any other content.                            *)
(***************************************************************************)
EXTENDS Integers, FiniteSets, Sequences, SequencesExt, FiniteSetsExt

CONSTANT Absent          \* null, undefined: no value

Clamp(low, high, n) == IF n < low THEN low ELSE IF n > high THEN high ELSE n

clampScore(value, fallback) == IF value = Absent THEN fallback ELSE Clamp(1, 10, value)

normalizeActors(event) == IF event.actors = {} THEN {"Unknown"} ELSE event.actors \ {""}

inferUrgency(event) ==
    LET text == event.title \cup event.deadline \cup event.labels
    IN IF "today" \in text THEN 9
       ELSE IF "tomorrow" \in text THEN 8
       ELSE IF event.source = "google_calendar" THEN 7 ELSE 5

\* The sentences built around the event's own words.
buildSituation(event) == {"word"} \cup event.container

buildProblem(event) ==
    event.title \cup {"word"}
    \cup (IF event.status \notin {{}, {"Done"}} THEN event.status ELSE event.deadline)

sanitizeSourceEvent(event) ==
    IF event.id = "" \/ event.title = {} \/ event.timestamp = {} THEN Absent
    ELSE LET actors == normalizeActors(event)
         IN [id |-> event.id, source |-> event.source, container |-> event.container,
             capturedAt |-> event.timestamp, title |-> event.title, actors |-> actors,
             tags |-> event.labels, situationHint |-> buildSituation(event),
             problemHint |-> buildProblem(event),
             deadlineHint |-> IF event.deadline = {} THEN {"unspecified"} ELSE event.deadline,
             impactHint |-> clampScore(event.impact, IF event.source = "gmail" THEN 8 ELSE 7),
             urgencyHint |-> inferUrgency(event),
             effortHint |-> clampScore(event.effort, IF event.source = "slack" THEN 3 ELSE 4)]

PermittedSources == {"slack", "notion", "gmail", "google_drive", "google_calendar"}

validateCandidateBoundary(c) == c.source \in PermittedSources /\ c.capturedAt # {}

detectPromptInjection(text) == "instruction" \in text

\* The raw-data scan looks at field names, and a candidate's are fixed.
evaluatePrivacyRegression(candidates) ==
    \A c \in candidates : /\ ~detectPromptInjection(c.title \cup c.situationHint \cup c.problemHint)
                          /\ validateCandidateBoundary(c)

\* One finding blocks the whole batch.
runSourceNormalizationAgent(events) ==
    LET candidates == {sanitizeSourceEvent(e) : e \in events} \ {Absent}
    IN IF evaluatePrivacyRegression(candidates) THEN candidates ELSE {}

-----------------------------------------------------------------------------
missingWorkUnitFields(d) ==
    {f \in {"situation", "actors", "problem", "nextAction"} : d[f] = {}}
    \cup (IF d.deadline \in {{}, {"unspecified"}} THEN {"deadline"} ELSE {})

WithMissing(d, of) == [d EXCEPT !.missingFields = missingWorkUnitFields(of)]

candidateToWorkUnitDraft(c) ==
    LET draft == [ids |-> {c.id}, status |-> "draft", title |-> c.title,
                  situation |-> c.situationHint, actors |-> c.actors, problem |-> c.problemHint,
                  deadline |-> c.deadlineHint, impact |-> c.impactHint, urgency |-> c.urgencyHint,
                  effort |-> c.effortHint, nextAction |-> {"clarify"} \cup c.title,
                  tasks |-> {"verify", "owner", "decide"}, sources |-> {c.id},
                  missingFields |-> {}]
    IN WithMissing(draft, draft)

isRelatedCandidate(base, c) ==
    \/ base.id = c.id
    \/ base.container # {} /\ base.container = c.container
    \/ base.actors \cap c.actors # {}
    \/ base.tags \cap c.tags # {}

mergeCandidatesToWorkUnitDraft(candidates) ==
    LET parts == ToSet(candidates)
        first == candidateToWorkUnitDraft(candidates[1])
        merged == [first EXCEPT !.ids = {c.id : c \in parts},
                                !.actors = UNION {c.actors : c \in parts},
                                !.sources = {c.id : c \in parts},
                                !.impact = Max({c.impactHint : c \in parts}),
                                !.urgency = Max({c.urgencyHint : c \in parts})]
    IN WithMissing(merged, merged)

\* The candidates related to the first are merged, the rest are left out.
runContextMergeAgent(candidates) ==
    mergeCandidatesToWorkUnitDraft(
        SelectSeq(candidates, LAMBDA c : isRelatedCandidate(candidates[1], c)))

-----------------------------------------------------------------------------
(***************************************************************************)
(* Judgments.                                                              *)
(***************************************************************************)
TextFields == {"title", "situation", "problem", "deadline", "nextAction"}

ScoreFields == {"impact", "urgency", "effort"}

ListFields == {"actors", "tasks", "sources"}

\* What a correction may touch; blanks of a list are dropped, scores clamped.
sanitizeCorrection(correction) ==
    [f \in DOMAIN correction \cap (TextFields \cup ScoreFields \cup ListFields) |->
        IF f \in ScoreFields THEN Clamp(1, 10, correction[f]) ELSE correction[f] \ {""}]

Patched(d, patch) == [f \in DOMAIN d |-> IF f \in DOMAIN patch THEN patch[f] ELSE d[f]]

StatusAfter(d, action) ==
    CASE action = "accept" -> "accepted"
      [] action = "defer" -> "deferred"
      [] action = "reject" -> "rejected"
      [] OTHER -> d.status

applyWorkUnitJudgment(d, action, patch) ==
    LET corrected == IF action = "correct" THEN Patched(d, patch) ELSE d
    IN WithMissing([corrected EXCEPT !.status = StatusAfter(d, action)], corrected)

validateLog(d, log) ==
    log.draft = d.ids /\ log.action \in {"accept", "reject", "defer", "correct"} /\ log.dated

runCorrectionAgent(d, log) ==
    LET patch == sanitizeCorrection(log.correction)
    IN IF ~validateLog(d, log) \/ (log.action = "correct" /\ DOMAIN patch = {}) THEN d
       ELSE applyWorkUnitJudgment(d, log.action, patch)

-----------------------------------------------------------------------------
(***************************************************************************)
(* Artefacts.                                                              *)
(***************************************************************************)
isExecutableDraft(d) == d.status = "accepted" /\ missingWorkUnitFields(d) = {}

normalizeDeadline(deadline) == IF deadline = {"unspecified"} THEN {} ELSE deadline

Artefact(d, target, title, body) == [draft |-> d.ids, target |-> target, title |-> title, body |-> body]

createGitHubIssueDraft(d) ==
    IF isExecutableDraft(d)
    THEN {Artefact(d, "github_issue", d.title, d.situation \cup d.problem \cup d.nextAction)}
    ELSE {}

createTaskDraft(d) ==
    IF isExecutableDraft(d)
    THEN {Artefact(d, "task", d.nextAction, IF d.tasks = {} THEN d.nextAction ELSE d.tasks)}
    ELSE {}

createCalendarScheduleCandidate(d) ==
    IF isExecutableDraft(d) /\ normalizeDeadline(d.deadline) # {}
    THEN {Artefact(d, "calendar", d.title, d.nextAction)}
    ELSE {}

\* One reply for each messaging source named by the draft's candidates.
createReplyDrafts(d, sourceOf) ==
    IF isExecutableDraft(d)
    THEN {Artefact(d, s, {"reply"}, d.nextAction) : s \in {sourceOf[i] : i \in d.ids} \cap {"slack", "gmail"}}
    ELSE {}

createExecutionApproval(d, target) == [draft |-> d.ids, target |-> target, status |-> "pending"]

decideExecutionApproval(approval, approved) ==
    [approval EXCEPT !.status = IF approved THEN "approved" ELSE "rejected"]

\* Mutant: an approval of another draft or target counts.
recordExecutionResultAny(d, target, approval, ref) ==
    LET approved == approval.status = "approved"
    IN [draft |-> d.ids, target |-> target, externalRef |-> IF approved THEN ref ELSE Absent,
        status |-> IF ~approved THEN "pending_approval" ELSE IF ref # Absent THEN "succeeded" ELSE "failed"]

recordExecutionResult(d, target, approval, ref) ==
    LET approved == approval.draft = d.ids /\ approval.target = target /\ approval.status = "approved"
    IN [draft |-> d.ids, target |-> target, externalRef |-> IF approved THEN ref ELSE Absent,
        status |-> IF ~approved THEN "pending_approval" ELSE IF ref # Absent THEN "succeeded" ELSE "failed"]

createCompletionCriteria(d, logs) ==
    /\ missingWorkUnitFields(d) = {}
    /\ d.tasks # {}
    /\ \E log \in logs : log.status = "succeeded"
=============================================================================
