-------------------------- MODULE WorkUnitDrafting --------------------------
(***************************************************************************)
(* The life of one draft: made from one candidate or merged from several,  *)
(* judged and corrected by a project manager in any order, turned into     *)
(* artefacts by the execution agents, approved, and reported on.           *)
(***************************************************************************)
EXTENDS SourceDrafts

CONSTANTS Batches,        \* sequences of events that arrive together
          Judgments,      \* a judgment, without the draft it is for
          Refs,           \* what an external tool answers, or Absent
          MaxJudgments,   \* bound on the judgments of a behaviour
          MaxApprovals,   \* bound on the approvals kept at a time
          MaxResults      \* bound on the result logs

VARIABLES draft,          \* the draft, or Absent
          sourceOf,       \* the source each candidate came from
          made,           \* the artefacts the agents produced
          approvals,      \* the execution approvals, open and decided
          results,        \* the result logs, of this draft and of others
          judgments,      \* how many judgments were given
          granted,        \* history: what the project manager ever approved
          accepted        \* history: whether the draft was ever accepted

vars == <<draft, sourceOf, made, approvals, results, judgments, granted, accepted>>

\* The normalisation agent's candidates, in the order of their events.
Candidates(batch) ==
    LET kept == runSourceNormalizationAgent(ToSet(batch))
    IN SelectSeq([i \in DOMAIN batch |-> sanitizeSourceEvent(batch[i])], LAMBDA c : c \in kept)

\* The approvals of the other drafts on the project manager's desk.
Elsewhere == {[draft |-> {"other"}, target |-> "task", status |-> "approved"]}

Init == \E batch \in Batches :
            /\ sourceOf = [i \in {e.id : e \in ToSet(batch)} |->
                              (CHOOSE e \in ToSet(batch) : e.id = i).source]
            /\ draft = LET cs == Candidates(batch)
                       IN IF cs = <<>> THEN Absent
                          ELSE IF Len(cs) = 1 THEN candidateToWorkUnitDraft(cs[1])
                          ELSE runContextMergeAgent(cs)
            /\ made = {} /\ approvals = Elsewhere /\ results = {} /\ judgments = 0
            /\ granted = Elsewhere /\ accepted = FALSE

Judge == \E j \in Judgments :
            /\ draft # Absent /\ judgments < MaxJudgments
            /\ draft' = runCorrectionAgent(draft, [j EXCEPT !.draft = IF j.draft = "this" THEN draft.ids ELSE {"other"}])
            /\ judgments' = judgments + 1
            /\ accepted' = (accepted \/ draft'.status = "accepted")
            /\ UNCHANGED <<sourceOf, made, approvals, results, granted>>

Make == /\ draft # Absent
        /\ made' = made \cup createGitHubIssueDraft(draft) \cup createTaskDraft(draft)
                        \cup createCalendarScheduleCandidate(draft) \cup createReplyDrafts(draft, sourceOf)
        /\ UNCHANGED <<draft, sourceOf, approvals, results, judgments, granted, accepted>>

Ask == \E a \in made :
          /\ Cardinality(approvals) < MaxApprovals
          /\ approvals' = approvals \cup {createExecutionApproval([ids |-> a.draft], a.target)}
          /\ UNCHANGED <<draft, sourceOf, made, results, judgments, granted, accepted>>

Decide == \E a \in approvals, yes \in BOOLEAN :
             LET decided == decideExecutionApproval(a, yes)
             IN /\ approvals' = (approvals \ {a}) \cup {decided}
                /\ granted' = granted \cup (IF yes THEN {decided} ELSE {})
                /\ UNCHANGED <<draft, sourceOf, made, results, judgments, accepted>>

\* What is executed: an artefact of the draft, or the task of another one.
Executions == {[draft |-> a.draft, target |-> a.target] : a \in made}
                  \cup {[draft |-> a.draft, target |-> a.target] : a \in Elsewhere}

\* The logs of all drafts are kept together.
Record == \E e \in Executions, approval \in approvals, ref \in Refs :
             /\ Cardinality(results) < MaxResults
             /\ results' = results \cup {recordExecutionResult([ids |-> e.draft], e.target, approval, ref)}
             /\ UNCHANGED <<draft, sourceOf, made, approvals, judgments, granted, accepted>>

Next == Judge \/ Make \/ Ask \/ Decide \/ Record

Spec == Init /\ [][Next]_vars

-----------------------------------------------------------------------------
(***************************************************************************)
(* The missing fields a draft carries are those of the draft as it stands, *)
(* after any sequence of corrections and judgments                         *)
(* (workUnitDrafts.ts, applyWorkUnitJudgment and missingWorkUnitFields).   *)
(***************************************************************************)
MissingFieldsAreCurrent == draft # Absent => draft.missingFields = missingWorkUnitFields(draft)

\* The logs of the draft itself.
OwnResults == {r \in results : r.draft = draft.ids}

(***************************************************************************)
(* A result log says an execution succeeded only if the project manager    *)
(* approved that draft for that target, whatever other approvals were at   *)
(* hand; and a draft that is complete by its own logs has been accepted,   *)
(* for the agents make artefacts of accepted drafts only.  By its own      *)
(* logs: createCompletionCriteria compares no draft, and counts a success  *)
(* of any draft whose log it is given                                      *)
(* (workUnitExecution.ts, recordExecutionResult, isExecutableDraft and     *)
(* createCompletionCriteria).                                              *)
(***************************************************************************)
SuccessWasApproved ==
    /\ \A r \in results : r.status = "succeeded" =>
          [draft |-> r.draft, target |-> r.target, status |-> "approved"] \in granted
    /\ (draft # Absent /\ createCompletionCriteria(draft, OwnResults)) => accepted

IdentityKept ==
    draft # Absent =>
        /\ draft'.ids = draft.ids
        /\ draft'.impact \in 1..10
        /\ draft'.status # draft.status =>
              draft'.status \in {"accepted", "deferred", "rejected"}

(***************************************************************************)
(* No judgment moves a draft to other candidates, or changes its scores to *)
(* something outside the scale, or its status other than by accepting,     *)
(* deferring or rejecting it (correctionAgent.ts, sanitizeCorrection).     *)
(***************************************************************************)
CorrectionsKeepIdentity == [][IdentityKept]_draft
=============================================================================
