------------------------------ MODULE Dashboard ------------------------------
(***************************************************************************)
(* The adopted WorkUnit dashboard: one page in a browser, its React state  *)
(* (ui), the calls it has in flight, and the part of the server it talks   *)
(* to: action previews, approval records and the status route.             *)
(*                                                                         *)
(* A call is served (the server acts) and later delivered (the page's      *)
(* continuation runs); either step may be lost to the network, in which    *)
(* case the fetch rejects.  Only the status call of the selection effect   *)
(* can be cancelled, so the continuations of the other calls run on        *)
(* whatever the page shows by then.  A preview group holds exactly one     *)
(* action, so previewRefs is one preview or None.  Messages, which panel   *)
(* is open and the local edits of draft fields are left out: no handler    *)
(* reads them.                                                             *)
(***************************************************************************)
EXTENDS Integers, Sequences, SequencesExt

CONSTANTS
    Scenes,        \* [inbox, user, maxGestures, maxEvents]
    Users,         \* who the server may take the page's requests to come from
    MaxCalls,      \* bound: calls in flight at once
    MaxPreviews,   \* bound: previews ever created
    None           \* no unit, no preview, no status

VARIABLES
    scene,
    ui,            \* the page's state
    calls,         \* the calls in flight: a function on 1..MaxCalls
    previews,      \* stored previews: [unit, creator, expired]
    approvals,     \* stored decisions, oldest first: [preview, unit, by, status, expired]
    session,       \* the user the server resolves for the page's requests
    spent          \* [gestures, events], for the bounds

vars == <<scene, ui, calls, previews, approvals, session, spent>>

(***************************************************************************)
(* Which tools a unit calls for, and what the page proposes for it.  A     *)
(* unit is [id, provider, repository, kind, due, words], where words are   *)
(* the fragments the classifiers look for in its next action.              *)
(***************************************************************************)
Necessity(tool, necessity) == [tool |-> tool, necessity |-> necessity]

detectSlack(u) ==
    IF u.provider = "slack" \/ u.words \cap {"respond", "reply", "slack"} # {} THEN "required"
    ELSE IF u.kind = "missed_response" THEN "recommended" ELSE "optional"

detectGitHub(u) ==
    IF u.provider = "github" /\ (u.repository \/ u.kind \in {"blocker", "assigned_issue"})
        THEN "required"
    ELSE IF u.words \cap {"issue", "pr"} # {} \/ u.repository THEN "recommended" ELSE "optional"

detectEmail(u) ==
    IF \/ u.words \cap {"email", "notify", "send"} # {}
       \/ u.kind = "deadline" /\ u.provider = "calendar"
    THEN "recommended" ELSE "optional"

detectCalendar(u) ==
    IF u.provider = "calendar" THEN "required"
    ELSE IF \/ u.kind = "deadline" /\ u.due
            \/ u.words \cap {"calendar", "schedule", "deadline"} # {}
         THEN "recommended" ELSE "not_needed"

\* Blocked either way: only the reason shown differs.
detectDatabase(u) == "blocked"

detectToolRequirements(u) ==
    {Necessity("slack", detectSlack(u)), Necessity("github", detectGitHub(u)),
     Necessity("email", detectEmail(u)), Necessity("calendar", detectCalendar(u)),
     Necessity("database", detectDatabase(u))}

reviewableTools(u) ==
    {r.tool : r \in {x \in detectToolRequirements(u) :
                        x.necessity \in {"required", "recommended", "blocked"}}}

\* One draft per reviewable tool: the kind of action it prepares.
draftKind == [slack |-> "slack_reply", github |-> "github_issue", email |-> "email_send",
              calendar |-> "calendar_create", database |-> "database_update"]

buildReviewableActionDrafts(u) == {draftKind[t] : t \in reviewableTools(u)}

resolveActionType(u) ==
    CASE u.provider = "slack" -> "slack_reply"
      [] u.provider = "calendar" -> "calendar_block"
      [] u.provider = "github" /\ u.repository -> "github_issue"
      [] OTHER -> "database_update"

deriveRequestedActionType(u) ==
    CASE u.provider = "slack" -> "slack_reply"
      [] u.provider = "calendar" -> "calendar_block"
      [] OTHER -> IF u.repository THEN "github_issue" ELSE "database_update"

(***************************************************************************)
(* The server.  A decision is recorded once per preview, for the preview's *)
(* own unit, by somebody other than the preview's creator.                 *)
(***************************************************************************)
Refused == [ok |-> FALSE]

createPreview(unit) ==
    /\ previews' = Append(previews, [unit |-> unit, creator |-> session, expired |-> FALSE])
    /\ UNCHANGED approvals

\* Mutant: the preview's own unit is no longer compared.
AdmissibleAnyUnit(unit, p, by) ==
    /\ p \in DOMAIN previews
    /\ ~previews[p].expired
    /\ previews[p].creator # by
    /\ \A k \in DOMAIN approvals : approvals[k].preview # p

Admissible(unit, p, by) ==
    /\ p \in DOMAIN previews
    /\ previews[p].unit = unit
    /\ ~previews[p].expired
    /\ previews[p].creator # by
    /\ \A k \in DOMAIN approvals : approvals[k].preview # p

Decision(unit, p, by, decision) ==
    [preview |-> p, unit |-> unit, by |-> by, expired |-> FALSE,
     status |-> IF decision = "approve" THEN "approved" ELSE "rejected"]

Status(unit, status) ==
    [unit |-> unit, status |-> status, used |-> status = "used", expired |-> status = "expired"]

Latest(unit) == SelectLastInSeq(approvals, LAMBDA a : a.unit = unit)

computeApprovalStatus(unit) ==
    IF Latest(unit) = 0 THEN Status(unit, "none")
    ELSE LET latest == approvals[Latest(unit)]
         IN  IF latest.status = "approved" /\ latest.expired THEN Status(unit, "expired")
             ELSE Status(unit, latest.status)

(***************************************************************************)
(* What the page shows: the unit in view, the state of its approval and    *)
(* how far its execution is (external execution is off in this release).   *)
(***************************************************************************)
selectWorkUnit ==
    LET found == SelectInSeq(ui.units, LAMBDA u : u.id = ui.selected)
    IN  IF found = 0 THEN ui.units[1] ELSE ui.units[found]

computeApprovalTraceStatus ==
    IF ui.units = <<>> THEN "no_workunit_selected"
    ELSE IF ~ui.decision THEN "decision_required"
    ELSE IF ~ui.created
         THEN IF ui.previewStatus = "creating" THEN "preview_creating" ELSE "preview_not_created"
    ELSE IF ui.error THEN "approval_error"
    ELSE IF ui.loading THEN "approval_loading"
    ELSE IF ui.status = None THEN "approval_none"
    ELSE ui.status.status

isApprovalCompleted == computeApprovalTraceStatus = "approved"

computeReadinessTraceStatus ==
    IF ui.units = <<>> THEN "no_workunit_selected"
    ELSE IF ui.previewStatus = "failed" THEN "preview_failed"
    ELSE IF ~ui.created \/ ui.previewStatus # "created" \/ ui.ref = None THEN "preview_required"
    ELSE IF ui.error THEN "approval_status_unavailable"
    ELSE IF ui.loading \/ ui.status = None THEN "approval_required"
    ELSE IF ui.status.status = "approved"
         THEN IF ui.status.used THEN "used"
              ELSE IF ui.status.expired THEN "expired" ELSE "execution_blocked"
    ELSE ui.status.status

canCreatePreview == ui.units # <<>> /\ ui.decision

showApproveReject ==
    /\ ui.selected # None /\ ui.previewStatus = "created" /\ ui.ref # None
    /\ ~ui.loading /\ ~ui.error
    /\ IF ui.status = None THEN FALSE ELSE ui.status.status \in {"none", "pending"}
    /\ ui.action # "submitting"

(***************************************************************************)
(* Calls.                                                                  *)
(***************************************************************************)
Idle == [kind |-> "idle"]

Call(kind, unit, ref, decision) ==
    [kind |-> kind, unit |-> unit, ref |-> ref, decision |-> decision, phase |-> "sent",
     answer |-> Refused]

Free(cs) == {n \in DOMAIN cs : cs[n] = Idle}

Send(cs, c) == [cs EXCEPT ![CHOOSE n \in Free(cs) : \A m \in Free(cs) : n <= m] = c]

\* The effect's cleanup: the running status call of the effect is ignored.
CancelEffect(cs) == [n \in DOMAIN cs |-> IF cs[n].kind = "effect" THEN Idle ELSE cs[n]]

Loading(u) == [u EXCEPT !.loading = TRUE, !.error = FALSE]

\* The effect runs whenever the selected unit is another one.
Selecting(u, id) == IF u.selected = id THEN u ELSE Loading([u EXCEPT !.selected = id])

SelectionCalls(cs, id) ==
    IF ui.selected = id THEN cs ELSE Send(CancelEffect(cs), Call("effect", id, None, "none"))

(***************************************************************************)
(* The user's gestures.  Each is offered only when its button is.          *)
(***************************************************************************)
Gesture ==
    /\ spent.gestures < scene.maxGestures
    /\ spent' = [spent EXCEPT !.gestures = @ + 1]
    /\ UNCHANGED <<scene, previews, approvals, session>>

Shown(id) == \E k \in DOMAIN ui.units : ui.units[k].id = id

\* A click in the list starts the unit afresh.
ClickListed(id) ==
    /\ Gesture
    /\ Shown(id)
    /\ ui.selected = id \/ Free(CancelEffect(calls)) # {}
    /\ ui' = Selecting([ui EXCEPT !.decision = FALSE, !.created = FALSE, !.previewStatus = "idle",
                                  !.status = None, !.loading = FALSE, !.error = FALSE, !.ref = None,
                                  !.action = "idle", !.dry = "idle"], id)
    /\ calls' = SelectionCalls(calls, id)

\* A click on a tab (the first three units) only changes the selection.
ClickTab(id) ==
    /\ Gesture
    /\ \E k \in 1..3 : k \in DOMAIN ui.units /\ ui.units[k].id = id
    /\ ui.selected # id /\ Free(CancelEffect(calls)) # {}
    /\ ui' = Selecting(ui, id)
    /\ calls' = SelectionCalls(calls, id)

ChooseDecision ==
    /\ Gesture
    /\ ui.units # <<>> /\ ~ui.decision
    /\ ui' = [ui EXCEPT !.decision = TRUE]
    /\ UNCHANGED calls

handleCreatePreview ==
    /\ Gesture
    /\ canCreatePreview /\ ui.previewStatus # "creating" /\ Free(calls) # {}
    /\ Len(previews) + Len(SelectSeq([n \in 1..MaxCalls |-> calls[n]], LAMBDA c : c.kind = "preview"))
          < MaxPreviews
    /\ ui' = [ui EXCEPT !.previewStatus = "creating", !.created = FALSE]
    /\ calls' = Send(calls, Call("preview", selectWorkUnit.id, None, "none"))

handleApproveOrReject(decision) ==
    /\ Gesture
    /\ showApproveReject /\ Free(calls) # {}
    /\ ui' = [ui EXCEPT !.action = "submitting"]
    /\ calls' = Send(calls, Call("decide", ui.selected, ui.ref, decision))

handleDryRun ==
    /\ Gesture
    /\ computeReadinessTraceStatus = "execution_blocked" /\ ui.dry # "running" /\ Free(calls) # {}
    /\ ui' = [ui EXCEPT !.dry = "running"]
    /\ calls' = Send(calls, Call("dryRun", ui.selected, ui.ref, "none"))

handleClearDryRun ==
    /\ Gesture
    /\ ui.dry \notin {"idle", "running"}
    /\ ui' = [ui EXCEPT !.dry = "idle"]
    /\ UNCHANGED calls

(***************************************************************************)
(* The server acts on a call.  It may also refuse it for its own reasons   *)
(* (session, permission, limit, missing storage), and the network may lose *)
(* the request or the answer.                                              *)
(***************************************************************************)
Answered(n, answer) == calls' = [calls EXCEPT ![n].phase = "answered", ![n].answer = answer]

Stored == UNCHANGED <<previews, approvals>>

\* The load, effect, refresh and dryRun calls write nothing the page reads.
Reads(c) ==
    CASE c.kind = "load" -> {[ok |-> TRUE, units |-> scene.inbox]}
      [] c.kind = "dryRun" -> {[ok |-> TRUE, verdict |-> v] : v \in {"verified", "blocked", "not_ready"}}
      [] c.kind \in {"effect", "refresh"} -> {[ok |-> TRUE, status |-> computeApprovalStatus(c.unit)]}
      [] OTHER -> {}

Serve(n) ==
    LET c == calls[n]
    IN  /\ c # Idle /\ c.phase = "sent"
        /\ \/ \E answer \in Reads(c) : Answered(n, answer) /\ Stored
           \/ /\ c.kind = "decide" /\ ~Admissible(c.unit, c.ref, session)
              /\ Answered(n, Refused) /\ Stored
           \/ /\ c.kind = "preview"
              /\ createPreview(c.unit)
              /\ Answered(n, [ok |-> TRUE, ref |-> Len(previews) + 1])
           \/ /\ c.kind = "decide" /\ Admissible(c.unit, c.ref, session)
              /\ approvals' = Append(approvals, Decision(c.unit, c.ref, session, c.decision))
              /\ Answered(n, [ok |-> TRUE])
              /\ UNCHANGED previews
        /\ UNCHANGED <<scene, ui, session, spent>>

Event ==
    /\ spent.events < scene.maxEvents
    /\ spent' = [spent EXCEPT !.events = @ + 1]
    /\ UNCHANGED <<scene, ui>>

Refuse(n) ==
    /\ Event
    /\ calls[n] # Idle /\ calls[n].phase = "sent"
    /\ Answered(n, Refused)
    /\ UNCHANGED <<previews, approvals, session>>

Lose(n) ==
    /\ Event
    /\ calls[n] # Idle /\ calls[n].phase \in {"sent", "answered"}
    /\ calls' = [calls EXCEPT ![n].phase = "lost"]
    /\ UNCHANGED <<previews, approvals, session>>

(***************************************************************************)
(* The page's continuations.  A status call always settles; the rejection  *)
(* of another fetch is caught nowhere, so its handler just ends there.     *)
(***************************************************************************)

Rejected(u) == [u EXCEPT !.loading = FALSE, !.error = TRUE]

StatusSettled(u, c) ==
    IF c.phase = "lost" THEN Rejected(u)
    ELSE IF ~c.answer.ok THEN [u EXCEPT !.loading = FALSE, !.error = TRUE]
    ELSE [u EXCEPT !.loading = FALSE, !.status = c.answer.status,
                   !.error = IF c.kind = "effect" THEN FALSE ELSE @]

Loaded(u, c) ==
    IF c.phase = "lost" THEN u
    ELSE IF ~c.answer.ok THEN [u EXCEPT !.load = "error"]
    ELSE [u EXCEPT !.load = IF c.answer.units = <<>> THEN "empty" ELSE "loaded",
                   !.units = c.answer.units]

PreviewSettled(u, c) ==
    IF c.phase = "lost" THEN u
    ELSE IF ~c.answer.ok THEN [u EXCEPT !.created = FALSE, !.previewStatus = "failed"]
    ELSE Loading([u EXCEPT !.created = TRUE, !.previewStatus = "created", !.ref = c.answer.ref,
                           !.action = "idle"])

DecisionSettled(u, c) ==
    IF c.phase = "lost" THEN u
    ELSE IF ~c.answer.ok THEN [u EXCEPT !.action = "failed"]
    ELSE Loading([u EXCEPT !.action = IF c.decision = "approve" THEN "approved" ELSE "rejected"])

DryRunSettled(u, c) ==
    IF c.phase = "lost" THEN u
    ELSE [u EXCEPT !.dry = IF c.answer.ok THEN c.answer.verdict ELSE "failed"]

\* The call is over; the load selects the first unit and so starts the effect,
\* a creation or a decision is followed by a refresh for the unit it was for.
Followed(n) ==
    LET c == calls[n]
        rest == [calls EXCEPT ![n] = Idle]
    IN  IF c.phase = "lost" \/ ~c.answer.ok THEN rest
        ELSE IF c.kind = "load" /\ c.answer.units # <<>>
             THEN Send(rest, Call("effect", c.answer.units[1].id, None, "none"))
        ELSE IF c.kind \in {"preview", "decide"} THEN Send(rest, Call("refresh", c.unit, None, "none"))
        ELSE rest

Deliver(n) ==
    LET c == calls[n]
    IN  /\ c # Idle /\ c.phase \in {"answered", "lost"}
        /\ calls' = Followed(n)
        /\ ui' = CASE c.kind = "load" ->
                        LET u == Loaded(ui, c)
                        IN  IF u.units = <<>> THEN u ELSE Selecting(u, u.units[1].id)
                   [] c.kind \in {"effect", "refresh"} -> StatusSettled(ui, c)
                   [] c.kind = "preview" -> PreviewSettled(ui, c)
                   [] c.kind = "decide" -> DecisionSettled(ui, c)
                   [] OTHER -> DryRunSettled(ui, c)
        /\ UNCHANGED <<scene, previews, approvals, session, spent>>

(***************************************************************************)
(* Meanwhile, elsewhere: somebody decides a preview, an approval is used   *)
(* or runs out, a preview runs out, another user's session takes over.     *)
(***************************************************************************)
DecidedElsewhere(p, by, decision) ==
    /\ Event
    /\ p \in DOMAIN previews /\ Admissible(previews[p].unit, p, by)
    /\ approvals' = Append(approvals, Decision(previews[p].unit, p, by, decision))
    /\ UNCHANGED <<calls, previews, session>>

UsedElsewhere(k) ==
    /\ Event
    /\ k \in DOMAIN approvals /\ approvals[k].status = "approved" /\ ~approvals[k].expired
    /\ approvals' = [approvals EXCEPT ![k].status = "used"]
    /\ UNCHANGED <<calls, previews, session>>

ApprovalExpires(k) ==
    /\ Event
    /\ k \in DOMAIN approvals /\ ~approvals[k].expired
    /\ approvals' = [approvals EXCEPT ![k].expired = TRUE]
    /\ UNCHANGED <<calls, previews, session>>

PreviewExpires(p) ==
    /\ Event
    /\ p \in DOMAIN previews /\ ~previews[p].expired
    /\ previews' = [previews EXCEPT ![p].expired = TRUE]
    /\ UNCHANGED <<calls, approvals, session>>

SignIn(user) ==
    /\ Event
    /\ user # session
    /\ session' = user
    /\ UNCHANGED <<calls, previews, approvals>>

Blank ==
    [load |-> "loading", units |-> <<>>, selected |-> None, decision |-> FALSE, created |-> FALSE,
     previewStatus |-> "idle", ref |-> None, status |-> None, loading |-> FALSE, error |-> FALSE,
     action |-> "idle", dry |-> "idle"]

Init ==
    /\ scene \in Scenes
    /\ ui = Blank
    /\ calls = Send([n \in 1..MaxCalls |-> Idle], Call("load", None, None, "none"))
    /\ previews = <<>> /\ approvals = <<>>
    /\ session = scene.user
    /\ spent = [gestures |-> 0, events |-> 0]

Ids == {scene.inbox[k].id : k \in DOMAIN scene.inbox}

Next ==
    \/ \E id \in Ids : ClickListed(id) \/ ClickTab(id)
    \/ ChooseDecision
    \/ handleCreatePreview
    \/ \E d \in {"approve", "reject"} : handleApproveOrReject(d)
    \/ handleDryRun
    \/ handleClearDryRun
    \/ \E n \in DOMAIN calls : Serve(n) \/ Refuse(n) \/ Lose(n) \/ Deliver(n)
    \/ \E p \in 1..MaxPreviews, by \in Users, d \in {"approve", "reject"} : DecidedElsewhere(p, by, d)
    \/ \E k \in 1..MaxPreviews : UsedElsewhere(k) \/ ApprovalExpires(k) \/ PreviewExpires(k)
    \/ \E user \in Users : SignIn(user)

\* A request reaches the server or fails, and an answer reaches the page: the
\* browser settles every fetch.  The user owes nothing.
Fairness == \A n \in 1..MaxCalls : WF_vars(Serve(n)) /\ WF_vars(Deliver(n))

Spec == Init /\ [][Next]_vars /\ Fairness

(***************************************************************************)
(* Properties.                                                             *)
(***************************************************************************)

\* A page that shows a created preview always knows its approval state, is
\* fetching it, or says that it could not: "approval_none" for want of data
\* (approvalDecisionTraceModel.ts, "no approval data loaded yet") is never
\* shown, however clicks, creations and late answers interleave.
PreviewHasApprovalState == ui.created => ui.loading \/ ui.error \/ ui.status # None

\* The "Approval Completed" gate and the readiness line are computed by two
\* modules from the same state; the gate is never checked while the readiness
\* line says that something is still missing, used or expired.
GatesAgree == isApprovalCompleted => computeReadinessTraceStatus = "execution_blocked"

\* Whatever unit the page has moved on to when a decision is posted, a stored
\* decision concerns a preview of the unit it is filed under, was not made by
\* the preview's creator, and is the only one for its preview.
DecisionsAreForTheirPreview ==
    \A k \in DOMAIN approvals :
        LET a == approvals[k]
        IN  /\ a.unit = previews[a.preview].unit
            /\ a.by # previews[a.preview].creator
            /\ \A j \in DOMAIN approvals : approvals[j].preview = a.preview => j = k

\* The action the page previews for a unit is among the actions the tool
\* detection has it draft for review: two classifications of the same unit.
PreviewedActionIsDrafted ==
    \A k \in DOMAIN ui.units :
        LET u == ui.units[k]
            tool == CHOOSE t \in DOMAIN draftKind :
                        draftKind[t] = IF resolveActionType(u) = "calendar_block" THEN "calendar_create"
                                       ELSE resolveActionType(u)
        IN  /\ draftKind[tool] \in buildReviewableActionDrafts(u)
            /\ resolveActionType(u) = deriveRequestedActionType(u)

\* "Checking approval status..." ends: every status call of the page settles,
\* with the answer, with a refusal or with a network error.
CheckingEnds == ui.loading ~> ~ui.loading

\* The gate for a unit speaks of that unit's server record
\* (approvalDecisionTraceModel.ts: "Returns true when the approval is
\* server-confirmed as completed").
ApprovalShownIsOwn == isApprovalCompleted => ui.status.unit = ui.selected

=============================================================================
