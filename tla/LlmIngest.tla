------------------------------ MODULE LlmIngest -------------------------------
(***************************************************************************)
(* The internal operations of POST /api/workunit/tools: validation, the    *)
(* choice of a provider, the LLM pipeline with its provider calls, and the *)
(* legacy backend behind it (tools/route.ts, toolBackendValidation.ts,     *)
(* application/workunitTools/toolOperationUseCases.ts,                     *)
(* composition/workunitTools.ts, llm/processWorkSignal.ts, llm/            *)
(* providerConfig.ts, llm/deepseekProvider.ts, toolBackend.ts).            *)
(*                                                                         *)
(* The pipeline is also called as a library, with any provider.  A         *)
(* provider call is a step of its own: headers and body may be late, wrong *)
(* or never come, and a timer aborts the call.                             *)
(***************************************************************************)
EXTENDS SourceDrafts

(***************************************************************************)
(* The stages of the LLM pipeline as functions: what is sanitised, which   *)
(* prompt is built and how an answer is read (app/lib/llm/sanitize.ts,     *)
(* budget.ts, extractCandidate.ts, generateWorkUnitDraft.ts,               *)
(* evaluateWorkUnit.ts, scoreWorkUnit.ts).                                 *)
(*                                                                         *)
(* Lengths are in thousands of characters.  A text is its length and the   *)
(* marks the pattern rules find in it: "injection", "instruction" and      *)
(* "sensitive".  An answer that is not a JSON object is Absent.            *)
(***************************************************************************)
Text(len, marks) == [len |-> len, marks |-> marks]

Empty == Text(0, {})

Lengths(texts) == FoldSeq(LAMBDA t, sum : t.len + sum, 0, texts)

Marks(texts) == UNION {texts[i].marks : i \in DOMAIN texts}

Joined(texts) == Text(Lengths(texts), Marks(texts))

-----------------------------------------------------------------------------
(***************************************************************************)
(* Budgets.                                                                *)
(***************************************************************************)
DEFAULT_LLM_BUDGET ==
    [sanitize_signal |-> 8, extract_candidate |-> 4, generate_workunit_draft |-> 3, evaluate_workunit |-> 2]

\* Mutant: a stage gets the budget of the stage before it.
checkCharBudgetOfPrevious(stage, chars) ==
    chars <= CASE stage = "generate_workunit_draft" -> DEFAULT_LLM_BUDGET.extract_candidate
               [] OTHER -> DEFAULT_LLM_BUDGET[stage]

checkCharBudget(stage, chars) == chars <= DEFAULT_LLM_BUDGET[stage]

-----------------------------------------------------------------------------
(***************************************************************************)
(* Sanitisation.  The metadata of a signal maps keys to texts; a value     *)
(* that is not a string is Absent.                                         *)
(***************************************************************************)
MAX_CONTENT_LENGTH == 4

FORBIDDEN_METADATA_KEYS == {"token", "body", "rawContent"}

ALLOWED_TEXT_METADATA_KEYS == {"title", "actor", "actors", "summary", "status", "timestamp"}

isAllowedMetadataKey(key) == key \notin FORBIDDEN_METADATA_KEYS /\ key \in ALLOWED_TEXT_METADATA_KEYS

containsSensitiveData(t) == "sensitive" \in t.marks

IsSafeText(t) == IF t = Absent THEN FALSE ELSE t.len > 0 /\ ~containsSensitiveData(t)

\* The parts of a text the metadata is turned into: title and actor have a
\* line of their own and appear again among the allowed keys.
SafeLine(meta, keys) ==
    LET found == {k \in keys \cap DOMAIN meta : IsSafeText(meta[k])}
    IN IF found = {} THEN <<>> ELSE <<meta[CHOOSE k \in found : k # "actors" \/ found = {"actors"}]>>

AllowedLines(meta) ==
    SetToSeq({[k |-> k, t |-> meta[k]] :
                k \in {j \in DOMAIN meta : isAllowedMetadataKey(j) /\ IsSafeText(meta[j])}})

buildTextContent(meta) ==
    LET lines == AllowedLines(meta)
    IN Joined(SafeLine(meta, {"title"}) \o SafeLine(meta, {"actor", "actors"})
              \o [i \in DOMAIN lines |-> lines[i].t])

detectRiskFlags(t) ==
    IF "injection" \in t.marks THEN {"prompt_injection_detected"}
    ELSE IF "instruction" \in t.marks THEN {"source_content_includes_instruction"}
    ELSE {}

metadataContainsSensitiveData(meta) ==
    \E k \in DOMAIN meta : IF meta[k] = Absent THEN FALSE ELSE containsSensitiveData(meta[k])

sanitizeForLlm(meta) ==
    LET content == buildTextContent(meta)
    IN [content |-> Text(Clamp(0, MAX_CONTENT_LENGTH, content.len), content.marks),
        riskFlags |-> detectRiskFlags(content)
                      \cup (IF metadataContainsSensitiveData(meta) THEN {"sensitive_data_detected"} ELSE {})
                      \cup (IF content.len > MAX_CONTENT_LENGTH THEN {"input_too_long"} ELSE {})]

BlockingRisks ==
    {"prompt_injection_detected", "source_content_includes_instruction", "sensitive_data_detected"}

-----------------------------------------------------------------------------
(***************************************************************************)
(* Extraction: the first answer becomes a candidate.                       *)
(***************************************************************************)
buildCandidateExtractionPrompt(sanitized) == <<sanitized.content>>

\* The candidate, or why there is none.
Extracted(raw) ==
    IF raw = Absent THEN [ok |-> FALSE, error |-> "invalid_llm_output"]
    ELSE IF raw.summary.len = 0 THEN [ok |-> FALSE, error |-> "invalid_llm_output"]
    ELSE IF raw.riskFlags \cap BlockingRisks # {} THEN [ok |-> FALSE, error |-> "unsafe_input"]
    ELSE [ok |-> TRUE,
          candidate |-> [summary |-> raw.summary, problem |-> raw.problem,
                         actors |-> IF raw.actors = {} THEN {"Unknown"} ELSE raw.actors,
                         confidence |-> Clamp(0, 100, raw.confidence)]]

CandidateChars(c) == c.summary.len + c.problem.len

-----------------------------------------------------------------------------
(***************************************************************************)
(* Drafting.                                                               *)
(***************************************************************************)
buildWorkUnitDraftGenerationPrompt(c) == <<c.summary, c.problem>>

\* A rounded quotient of positive integers.
Rounded(a, b) == (2 * a + b) \div (2 * b)

Score(value) == IF value = Absent THEN 3 ELSE Clamp(1, 5, value)

calculatePriorityScore(impact, urgency, weight, effort) == Rounded(impact * urgency * weight, effort)

\* A field the answer leaves out is the empty string, so that the defaults
\* written for undefined fields never apply.  An empty list of tasks has a
\* short default, an empty list of actors those of the candidate.
Drafted(raw, c) ==
    IF raw = Absent THEN [ok |-> FALSE, error |-> "invalid_llm_output"]
    ELSE IF raw.title.len = 0 THEN [ok |-> FALSE, error |-> "invalid_llm_output"]
    ELSE LET impact == Score(raw.impact)
             urgency == Score(raw.urgency)
             effort == Score(raw.effort)
         IN [ok |-> TRUE,
             draft |-> [title |-> raw.title, situation |-> raw.situation, problem |-> raw.problem,
                        nextAction |-> raw.nextAction,
                        actors |-> IF raw.actors = {} THEN c.actors ELSE raw.actors,
                        tasks |-> raw.tasks,
                        missingFields |-> raw.missingFields, status |-> "draft",
                        impact |-> impact, urgency |-> urgency, effort |-> effort,
                        priority |-> calculatePriorityScore(impact, urgency, Score(raw.weight), effort)]]

\* What the evaluation budget counts: four of the six parts of its prompt.
EvaluationChars(d) == Lengths(<<d.title, d.situation, d.problem, d.nextAction>>)

-----------------------------------------------------------------------------
(***************************************************************************)
(* Evaluation.                                                             *)
(***************************************************************************)
buildWorkUnitEvaluationPrompt(d) == <<d.title, d.situation, d.problem, d.nextAction, d.tasks>>

evaluateDeterministic(d) ==
    LET missing == d.missingFields \cup (IF d.actors = {} \/ "Unknown" \in d.actors THEN {"Actors"} ELSE {})
        complete == missing = {}
    IN [isComplete |-> complete, isExecutable |-> complete /\ d.nextAction.len > 0 /\ "vague" \notin d.nextAction.marks,
        missingFields |-> missing,
        hallucinationRisk |-> IF Cardinality(missing) >= 3 THEN "high"
                              ELSE IF missing # {} THEN "medium" ELSE "low"]

\* What the model says replaces the deterministic result, except that a draft
\* with missing fields is not complete.
Evaluated(raw, d) ==
    IF raw = Absent THEN evaluateDeterministic(d)
    ELSE [isComplete |-> raw.isComplete /\ d.missingFields = {}, isExecutable |-> raw.isExecutable,
          missingFields |-> IF raw.missingFields = Absent THEN d.missingFields ELSE raw.missingFields,
          hallucinationRisk |-> IF raw.hallucinationRisk \in {"none", "low", "medium", "high"}
                                THEN raw.hallucinationRisk ELSE evaluateDeterministic(d).hallucinationRisk]

-----------------------------------------------------------------------------
CONSTANT Scenes          \* who calls, from which host, with which request and provider

VARIABLES scene,         \* the call
          pc,            \* the stage the call is in
          wire,          \* the provider call: "idle", "sent" or "headers"
          work,          \* what the stages made so far
          prompts,       \* history: every prompt that left for a provider
          audits,        \* the audit lines of the request
          answer         \* the answer, or Absent

vars == <<scene, pc, wire, work, prompts, audits, answer>>

Answered(status, code, result) == [status |-> status, code |-> code, result |-> result]

-----------------------------------------------------------------------------
(***************************************************************************)
(* Validation.                                                             *)
(***************************************************************************)
OPERATIONS_BY_SOURCE ==
    [github |-> {"create_issue"}, google_calendar |-> {"ingest", "draft", "schedule"},
     slack |-> {"ingest", "draft", "create_task", "reply"},
     notion |-> {"ingest", "draft", "create_task", "reply"},
     gmail |-> {"ingest", "draft", "create_task", "reply"},
     google_drive |-> {"ingest", "draft", "create_task", "reply"}]

passesPayloadLimits(size) ==
    size.nodes <= 2000 /\ size.depth <= 20 /\ size.text <= 10000 /\ size.array <= 500

validateToolBackendRequest(r) ==
    /\ r.id # ""
    /\ r.source \in DOMAIN OPERATIONS_BY_SOURCE
    /\ r.operation \in OPERATIONS_BY_SOURCE[r.source]
    /\ r.operation \in {"ingest", "draft"} =>
          IF r.event = Absent THEN FALSE ELSE r.event.id # "" /\ r.event.source = r.source
    /\ r.operation \notin {"ingest", "draft"} => r.draft # Absent
    /\ passesPayloadLimits(r.size)

-----------------------------------------------------------------------------
(***************************************************************************)
(* Providers.                                                              *)
(***************************************************************************)

resolveLlmProviderConfig(host) ==
    [mode |-> IF host.production THEN "disabled" ELSE IF host.allowMock THEN "mock" ELSE "disabled",
     allowLegacyFallback |-> host.legacyFallback]

\* The mock of the route has no responses: its every answer lacks the
\* fields the stages need.
NoResponse ==
    [extract_candidate |-> {Absent}, generate_workunit_draft |-> {Absent}, evaluate_workunit |-> {Absent}]

resolveLlmProvider(host) ==
    IF resolveLlmProviderConfig(host).mode = "mock" THEN [kind |-> "mock", replies |-> NoResponse] ELSE Absent

isSafeProviderBaseUrl(url, allowLocalhost) == url = "public" \/ (url = "loopback" /\ allowLocalhost)

createDeepSeekProviderFromEnv(env) ==
    IF env.key /\ isSafeProviderBaseUrl(env.baseUrl, ~env.production)
    THEN [kind |-> "deepseek", replies |-> env.replies]
    ELSE Absent

Provider(s) ==
    IF s.via = "route" THEN resolveLlmProvider(s.host)
    ELSE IF s.provider.kind = "mock" THEN s.provider
    ELSE createDeepSeekProviderFromEnv(s.provider)

-----------------------------------------------------------------------------
(***************************************************************************)
(* Leaving the pipeline.                                                   *)
(***************************************************************************)
mapLlmError(error) ==
    CASE error = "unsafe_input" -> [status |-> 400, code |-> "invalid_request", kind |-> "llm_processing_blocked"]
      [] error = "token_budget_exceeded" -> [status |-> 429, code |-> "rate_limited", kind |-> "llm_budget_exceeded"]
      [] OTHER -> [status |-> 500, code |-> "internal_error", kind |-> "llm_processing_failed"]

Fail(error, log) ==
    LET m == mapLlmError(error)
    IN /\ pc' = "answered" /\ wire' = "idle"
       /\ audits' = IF scene.via = "route" THEN Append(log, m.kind) ELSE log
       /\ answer' = IF scene.via = "route" THEN Answered(m.status, m.code, Absent) ELSE Answered(0, error, Absent)
       /\ UNCHANGED <<scene, work, prompts>>

Succeed(result) ==
    /\ pc' = "answered" /\ wire' = "idle"
    /\ audits' = IF scene.via = "route" THEN Append(audits, "llm_processing_completed") ELSE audits
    /\ answer' = Answered(200, "ok", result)
    /\ UNCHANGED <<scene, work, prompts>>

Send(stage, texts, w, log) ==
    /\ pc' = stage /\ wire' = "sent" /\ work' = w
    /\ prompts' = Append(prompts, [stage |-> stage, content |-> Joined(texts)])
    /\ audits' = log
    /\ UNCHANGED <<scene, answer>>

-----------------------------------------------------------------------------
(***************************************************************************)
(* The stages.                                                             *)
(***************************************************************************)
SignalChars(meta) ==
    LET texts == SetToSeq({[k |-> k, t |-> meta[k]] : k \in {j \in DOMAIN meta : meta[j] # Absent}})
    IN Lengths([i \in DOMAIN texts |-> texts[i].t])

\* From the signal to the first prompt.
processWorkSignal(meta, log) ==
    LET sanitized == sanitizeForLlm(meta)
    IN IF ~checkCharBudget("sanitize_signal", SignalChars(meta)) THEN Fail("token_budget_exceeded", log)
       ELSE IF sanitized.riskFlags \cap BlockingRisks # {} THEN Fail("unsafe_input", log)
       ELSE IF ~checkCharBudget("extract_candidate", sanitized.content.len) THEN Fail("token_budget_exceeded", log)
       ELSE Send("extract_candidate", buildCandidateExtractionPrompt(sanitized),
                 [candidate |-> Absent, draft |-> Absent, riskFlags |-> sanitized.riskFlags], log)

AfterExtraction(raw) ==
    LET e == Extracted(raw)
    IN IF ~e.ok THEN Fail(e.error, audits)
       ELSE IF ~checkCharBudget("generate_workunit_draft", CandidateChars(e.candidate))
            THEN Fail("token_budget_exceeded", audits)
       ELSE Send("generate_workunit_draft", buildWorkUnitDraftGenerationPrompt(e.candidate),
                 [work EXCEPT !.candidate = e.candidate], audits)

AfterDrafting(raw) ==
    LET d == Drafted(raw, work.candidate)
    IN IF ~d.ok THEN Fail(d.error, audits)
       ELSE IF ~checkCharBudget("evaluate_workunit", EvaluationChars(d.draft))
            THEN Fail("token_budget_exceeded", audits)
       ELSE IF evaluateDeterministic(d.draft).hallucinationRisk = "high"
            THEN Succeed([draft |-> d.draft, evaluation |-> evaluateDeterministic(d.draft),
                          riskFlags |-> work.riskFlags])
       ELSE Send("evaluate_workunit", buildWorkUnitEvaluationPrompt(d.draft),
                 [work EXCEPT !.draft = d.draft], audits)

AfterEvaluation(raw) ==
    Succeed([draft |-> work.draft, evaluation |-> Evaluated(raw, work.draft), riskFlags |-> work.riskFlags])

\* The continuation of a provider call; a call that threw is read as Absent.
Read(raw) ==
    CASE pc = "extract_candidate" -> AfterExtraction(raw)
      [] pc = "generate_workunit_draft" -> AfterDrafting(raw)
      [] pc = "evaluate_workunit" -> AfterEvaluation(raw)

-----------------------------------------------------------------------------
(***************************************************************************)
(* The provider call.                                                      *)
(***************************************************************************)
Kind == Provider(scene).kind

Replies == Provider(scene).replies[pc]

MockAnswer == /\ wire = "sent" /\ Kind = "mock"
              /\ \E raw \in Replies : Read(raw)

Headers == /\ wire = "sent" /\ Kind = "deepseek"
           /\ wire' = "headers"
           /\ UNCHANGED <<scene, pc, work, prompts, audits, answer>>

\* A refusal, a status the provider maps to an error, or a broken connection.
Refuse == wire = "sent" /\ Kind = "deepseek" /\ Read(Absent)

\* An answer cut off at the token limit is content like any other: it does
\* not parse.
Body == /\ wire = "headers"
        /\ \E raw \in Replies \cup {Absent} : Read(raw)

\* Mutant: the timer is cleared when the headers arrive.
ExpireBeforeHeaders == wire = "sent" /\ Kind = "deepseek" /\ Read(Absent)

Expire == wire \in {"sent", "headers"} /\ Kind = "deepseek" /\ Read(Absent)

-----------------------------------------------------------------------------
(***************************************************************************)
(* The route.                                                              *)
(***************************************************************************)
Reply(status, code, log) ==
    /\ pc' = "answered" /\ answer' = Answered(status, code, Absent) /\ audits' = log
    /\ UNCHANGED <<scene, wire, work, prompts>>

runIngest(event) ==
    LET c == sanitizeSourceEvent(event)
    IN IF c = Absent THEN FALSE ELSE evaluatePrivacyRegression({c})

runTask(draft) == createTaskDraft(draft) # {}

\* The legacy backend, for the operations that are not external.
runToolBackendRequest(r, log) ==
    IF (IF r.operation = "create_task" THEN runTask(r.draft) ELSE runIngest(r.event))
    THEN Reply(200, "ok", log)
    ELSE Reply(400, "invalid_request", Append(log, "invalid_request"))

runIngestOrchestration(r) ==
    IF Provider(scene) # Absent THEN processWorkSignal(r.event.meta, Append(audits, "llm_processing_started"))
    ELSE IF resolveLlmProviderConfig(scene.host).allowLegacyFallback
         THEN runToolBackendRequest(r, Append(audits, "llm_processing_blocked"))
    ELSE Reply(503, "integration_missing", Append(audits, "llm_processing_blocked"))

Post == LET r == scene.request
        IN /\ pc = "arrived" /\ scene.via = "route"
           /\ IF ~validateToolBackendRequest(r) THEN Reply(400, "invalid_request", Append(audits, "tool_request_rejected"))
              ELSE IF ~scene.permitted THEN Reply(403, "forbidden", Append(audits, "rbac_denied"))
              ELSE IF r.operation = "ingest" THEN runIngestOrchestration(r)
              ELSE runToolBackendRequest(r, audits)

\* A caller of the library without a provider has nothing to call it with.
Call == /\ pc = "arrived" /\ scene.via = "library"
        /\ IF Provider(scene) = Absent THEN Reply(0, "no_provider", audits)
           ELSE processWorkSignal(scene.request.event.meta, audits)

Init == /\ scene \in Scenes
        /\ pc = "arrived" /\ wire = "idle" /\ work = Absent
        /\ prompts = <<>> /\ audits = <<>> /\ answer = Absent

Over == pc = "answered" /\ UNCHANGED vars

Next == Post \/ Call \/ MockAnswer \/ Headers \/ Refuse \/ Body \/ Expire \/ Over

(***************************************************************************)
(* The runtime runs what is ready, the mock answers, and a timer fires.    *)
(* Nothing makes a remote provider answer.                                 *)
(***************************************************************************)
Fairness == WF_vars(Post) /\ WF_vars(Call) /\ WF_vars(MockAnswer) /\ WF_vars(Expire)

Spec == Init /\ [][Next]_vars /\ Fairness

-----------------------------------------------------------------------------
(***************************************************************************)
(* A signal with a credential anywhere in its strings, or with text that   *)
(* reads as an instruction in the part that is sent, reaches no provider;  *)
(* and what is sent is cut to the content limit (sanitize.ts,              *)
(* processWorkSignal.ts:79-85).                                            *)
(***************************************************************************)
PromptsAreClean ==
    \A i \in DOMAIN prompts :
        /\ ~metadataContainsSensitiveData(scene.request.event.meta)
        /\ prompts[i].stage = "extract_candidate" =>
              prompts[i].content.marks = {} /\ prompts[i].content.len <= MAX_CONTENT_LENGTH

(***************************************************************************)
(* The prompts of the extraction and drafting stages hold no more than the *)
(* budget of their stage (budget.ts, processWorkSignal.ts).                *)
(***************************************************************************)
PromptsFitTheirStage ==
    \A i \in DOMAIN prompts :
        prompts[i].stage # "evaluate_workunit" =>
            prompts[i].content.len <= DEFAULT_LLM_BUDGET[prompts[i].stage]

(***************************************************************************)
(* No stage sends a provider more than its budget.  budget.ts:5 says of    *)
(* the guard: "Prevents oversized inputs from reaching the provider."      *)
(***************************************************************************)
NoOversizedPrompt ==
    \A i \in DOMAIN prompts : prompts[i].content.len <= DEFAULT_LLM_BUDGET[prompts[i].stage]

(***************************************************************************)
(* A draft is reported complete only if its author named no missing field, *)
(* whatever the evaluating model says; and it is a draft, with scores on   *)
(* the scale, when the answers that made it were not                       *)
(* (evaluateWorkUnit.ts:64, generateWorkUnitDraft.ts:57-84).               *)
(***************************************************************************)
CompletionNeedsTheDraft ==
    (answer # Absent /\ answer.result # Absent) =>
        LET r == answer.result
        IN /\ r.evaluation.isComplete => r.draft.missingFields = {}
           /\ {r.draft.impact, r.draft.urgency, r.draft.effort} \subseteq 1..5
           /\ r.draft.priority \in 0..125

(***************************************************************************)
(* A production host sends no prompt and answers no ingest from a model,   *)
(* and a host without the legacy fallback that lets no provider run says   *)
(* so (providerConfig.ts:45-53, toolOperationUseCases.ts:84-90).           *)
(***************************************************************************)
ProvidersStayOff ==
    scene.via = "route" =>
        /\ scene.host.production => prompts = <<>>
        /\ (answer # Absent /\ ~scene.host.legacyFallback /\ prompts = <<>>) =>
              (answer.status = 200 => scene.request.operation # "ingest")

(***************************************************************************)
(* Every call is answered, even when a provider that was asked never       *)
(* answers or stops half-way (deepseekProvider.ts:71-72 and :126-128).     *)
(***************************************************************************)
EveryIngestAnswered == <>(answer # Absent)

=============================================================================
