------------------------- MODULE ApprovalLifecycle --------------------------
(***************************************************************************)
(* The approval lifecycle of one tenant over the shared D1 database:       *)
(* action previews, four-eyes decisions, and the two consumers of an       *)
(* approval - the runtime authorization gate (authorizeRuntimeCommand) and *)
(* the tool backend (runApprovedExternal).                                 *)
(*                                                                         *)
(* Every HTTP request is a process.  A handler is cut at its awaits: one   *)
(* action is the synchronous code between two of them, together with the   *)
(* database statement it awaited, so requests interleave exactly where the *)
(* event loop (or a second isolate) lets them.  A D1 call may also throw,  *)
(* before or after its statement took effect.                              *)
(***************************************************************************)
EXTENDS RuntimeEligibility

CONSTANTS
  Users, NoUser,          \* members of the tenant; the missing creator
  Role,                   \* Users -> role in the membership row
  Subjects,               \* (work unit, action type) pairs
  Contents, NoContent,    \* (target hash, payload hash) pairs
  PreviewReqs,            \* POST action-preview requests
  ApprovalReqs,           \* POST approval requests
  ExecuteReqs,            \* POST tools requests for an external operation
  BackendReqs,            \* runToolBackend calls for an external operation
  KillSwitchSource,       \* "request_scoped" (routes) or "process_env" (default)
  RaisedFlaws,            \* flaws the evidence may acquire after it was linked
  UnattributedIds,        \* previews stored before creator_user_id existed
  PREVIEW_TTL, APPROVAL_TTL, REVIEW_TTL, SESSION_TTL,
  MaxTime,                \* bound on the clock
  MaxFlips                \* bound on changes of the kill switch

Requests == PreviewReqs \cup ApprovalReqs \cup ExecuteReqs \cup BackendReqs

Time == 0..MaxTime

(* `preview:${workUnitId}:${actionType}:${Date.now()}` *)
PreviewIds == Subjects \X Time

ASSUME LifecycleAssumption ==
  /\ NoUser \notin Users
  /\ NoContent \notin Contents
  /\ Contents # {} /\ Subjects # {}
  /\ ExecuteReqs \cap BackendReqs = {}
  /\ UnattributedIds \subseteq PreviewIds
  /\ RaisedFlaws \subseteq Flaws
  /\ KillSwitchSource \in {"request_scoped", "process_env"}
  /\ PREVIEW_TTL \in Nat /\ APPROVAL_TTL \in Nat /\ REVIEW_TTL \in Nat
  /\ SESSION_TTL \in Nat /\ MaxTime \in Nat /\ MaxFlips \in Nat

VARIABLES
  now,              \* the clock every isolate reads
  externalActions,  \* EXTERNAL_ACTIONS_ENABLED: [on, since, flips]
  previews,         \* action_previews, by id
  approvals,        \* approval_records, by preview id (`approval:${previewId}`)
  evidence,         \* the evidence resolver's bundles, by preview id
  req               \* the handlers' local variables

vars == <<now, externalActions, previews, approvals, evidence, req>>
-----------------------------------------------------------------------------
(***************************************************************************)
(* Roles and rows.                                                         *)
(***************************************************************************)
RolePermissions(role) ==
  CASE role = "owner" -> {"create_preview", "approve_preview", "execute_external_action"}
    [] role \in {"manager", "editor"} -> {"create_preview", "approve_preview"}
    [] OTHER -> {}

HasPermission(u, permission) == permission \in RolePermissions(Role[u])

NoPreview == [status |-> "absent", creator |-> NoUser, content |-> NoContent, expiresAt |-> 0]

NoApproval == [status |-> "absent", approver |-> NoUser, content |-> NoContent,
               createdAt |-> 0, expiresAt |-> 0, usedAt |-> 0]

NoBundle == [present |-> FALSE, content |-> NoContent, approver |-> NoUser, flaws |-> {},
             previewExpiresAt |-> 0, approvalExpiresAt |-> 0, reviewExpiresAt |-> 0]

AnyId == CHOOSE p \in PreviewIds : TRUE

(***************************************************************************)
(* A handler's locals: `pc` is the await it is suspended at, `resp` its    *)
(* answer, `at` the instant it captured last (row creation, claimAt,       *)
(* usedAt), `switchAt` when its kill-switch snapshot was taken.            *)
(***************************************************************************)
Blank == [pc |-> "idle", resp |-> "none", user |-> NoUser, pid |-> AnyId,
          content |-> NoContent, decision |-> "none", at |-> 0, switchAt |-> 0,
          sessionExpiresAt |-> 0, expiresAt |-> 0, bundle |-> NoBundle]

(* An answered request that granted nothing keeps nothing. *)
Refused(resp) == [Blank EXCEPT !.pc = "done", !.resp = resp]

Answer(r, resp) == req' = [req EXCEPT ![r] = Refused(resp)]

Reply(r, resp) == req' = [req EXCEPT ![r].pc = "done", ![r].resp = resp]

(* Mutant: the switch is not read again before the claim. *)
KillSwitchReadOnce == TRUE

KillSwitchOpen ==
  \/ KillSwitchSource = "request_scoped"   \* the frozen snapshot, on at admission
  \/ externalActions.on                    \* process.env, read again

Init ==
  /\ now = 0
  /\ externalActions \in [on : BOOLEAN, since : {0}, flips : {0}]
  /\ \E c \in Contents :
       previews = [p \in PreviewIds |->
         IF p \in UnattributedIds
         THEN [status |-> "preview", creator |-> NoUser, content |-> c, expiresAt |-> PREVIEW_TTL]
         ELSE NoPreview]
  /\ approvals = [p \in PreviewIds |-> NoApproval]
  /\ evidence = [p \in PreviewIds |-> NoBundle]
  /\ req = [r \in Requests |-> Blank]
-----------------------------------------------------------------------------
(***************************************************************************)
(* Every route can answer an error before it touches the lifecycle: bad    *)
(* runtime configuration, failed integrity or session, no repositories,    *)
(* rate limit, missing permission, malformed body, unknown work unit.      *)
(***************************************************************************)
Refuse(r) ==
  /\ req[r].pc = "idle"
  /\ Answer(r, "refused")
  /\ UNCHANGED <<now, externalActions, previews, approvals, evidence>>

(***************************************************************************)
(* POST action-preview.  The id carries the millisecond it was minted in,  *)
(* so two requests of one tick mint the same id.                           *)
(***************************************************************************)
PreviewPost(r) ==
  /\ req[r].pc = "idle"
  /\ \E u \in Users, s \in Subjects, c \in Contents :
       /\ HasPermission(u, "create_preview")
       /\ req' = [req EXCEPT ![r] = [Blank EXCEPT !.pc = "insert_preview", !.user = u,
                    !.pid = <<s, now>>, !.content = c, !.expiresAt = now + PREVIEW_TTL]]
  /\ UNCHANGED <<now, externalActions, previews, approvals, evidence>>

(* The INSERT is refused on an existing id; a throw may hide a success. *)
InsertPreview(r) ==
  /\ req[r].pc = "insert_preview"
  /\ \/ /\ previews[req[r].pid].status = "absent"
        /\ previews' = [previews EXCEPT ![req[r].pid] =
             [status |-> "preview", creator |-> req[r].user,
              content |-> req[r].content, expiresAt |-> req[r].expiresAt]]
        /\ Reply(r, "created") \/ Answer(r, "failed")
     \/ /\ UNCHANGED previews
        /\ Answer(r, "failed")
  /\ UNCHANGED <<now, externalActions, approvals, evidence>>
-----------------------------------------------------------------------------
(***************************************************************************)
(* POST approval, up to the await of findByPreviewId: the stored preview   *)
(* must be live, and its creator known and not the approver.               *)
(***************************************************************************)
ApprovalPost(r) ==
  /\ req[r].pc = "idle"
  /\ \E u \in Users, p \in PreviewIds, d \in {"approved", "rejected"} :
       LET preview == previews[p] IN
       /\ HasPermission(u, "approve_preview")
       /\ IF /\ preview.status = "preview"
             /\ preview.expiresAt > now
             /\ preview.creator \notin {NoUser, u}
          THEN req' = [req EXCEPT ![r] = [Blank EXCEPT !.pc = "lookup_decision", !.user = u,
                         !.pid = p, !.decision = d, !.content = preview.content]]
          ELSE Answer(r, "refused")
  /\ UNCHANGED <<now, externalActions, previews, approvals, evidence>>

(* The existing decision, then the expiry again, then the new row. *)
LookupDecision(r) ==
  /\ req[r].pc = "lookup_decision"
  /\ \/ /\ approvals[req[r].pid].status = "absent"
        /\ previews[req[r].pid].expiresAt > now
        /\ req' = [req EXCEPT ![r].pc = "insert_approval", ![r].at = now,
                              ![r].expiresAt = now + APPROVAL_TTL]
     \/ /\ approvals[req[r].pid].status # "absent"
        /\ Answer(r, "conflict")
     \/ Answer(r, "failed")    \* preview expired meanwhile, or the read threw
  /\ UNCHANGED <<now, externalActions, previews, approvals, evidence>>

DecisionRow(q) ==
  [status |-> q.decision,
   approver |-> IF q.decision = "approved" THEN q.user ELSE NoUser,
   content |-> q.content, createdAt |-> q.at, expiresAt |-> q.expiresAt, usedAt |-> 0]

(* Mutant: the duplicate lookup is trusted and the row is upserted. *)
InsertApprovalReplacing(r) ==
  /\ req[r].pc = "insert_approval"
  /\ approvals' = [approvals EXCEPT ![req[r].pid] = DecisionRow(req[r])]
  /\ Reply(r, "created")
  /\ UNCHANGED <<now, externalActions, previews, evidence>>

(***************************************************************************)
(* create: the parents are compared with the stored preview, then the      *)
(* INSERT is refused on an existing id.                                    *)
(***************************************************************************)
InsertApproval(r) ==
  /\ req[r].pc = "insert_approval"
  /\ \/ /\ previews[req[r].pid].status = "preview"
        /\ previews[req[r].pid].content = req[r].content
        /\ approvals[req[r].pid].status = "absent"
        /\ approvals' = [approvals EXCEPT ![req[r].pid] = DecisionRow(req[r])]
        /\ Reply(r, "created") \/ Answer(r, "failed")
     \/ /\ UNCHANGED approvals
        /\ Answer(r, "failed")
  /\ UNCHANGED <<now, externalActions, previews, evidence>>
-----------------------------------------------------------------------------
(***************************************************************************)
(* The evidence resolver lies outside the lifecycle.  A linkage can only   *)
(* be created over a live approval; identities and expiries come from the  *)
(* stored rows, the intended content is whatever was linked.  Later the    *)
(* chain may be revoked, consumed or found stale.                          *)
(***************************************************************************)
LinkEvidence(p) ==
  /\ ~ evidence[p].present
  /\ approvals[p].status = "approved"
  /\ now < approvals[p].expiresAt
  /\ now < previews[p].expiresAt
  /\ \E c \in Contents :
       evidence' = [evidence EXCEPT ![p] =
         [present |-> TRUE, content |-> c, approver |-> approvals[p].approver, flaws |-> {},
          previewExpiresAt |-> previews[p].expiresAt,
          approvalExpiresAt |-> approvals[p].expiresAt,
          reviewExpiresAt |-> now + REVIEW_TTL]]
  /\ UNCHANGED <<now, externalActions, previews, approvals, req>>

RaiseFlaw(p) ==
  /\ evidence[p].present
  /\ \E f \in RaisedFlaws \ evidence[p].flaws :
       evidence' = [evidence EXCEPT ![p].flaws = @ \cup {f}]
  /\ UNCHANGED <<now, externalActions, previews, approvals, req>>
-----------------------------------------------------------------------------
(***************************************************************************)
(* POST tools, external operation: kill switch, then the gate's early RBAC *)
(* and kill-switch checks, up to the await of the evidence bundle.         *)
(***************************************************************************)
ToolsPost(r) ==
  /\ req[r].pc = "idle"
  /\ \E u \in Users, p \in PreviewIds :
       IF HasPermission(u, "execute_external_action") /\ externalActions.on
       THEN req' = [req EXCEPT ![r] = [Blank EXCEPT !.pc = "resolve", !.user = u, !.pid = p,
                      !.switchAt = now, !.sessionExpiresAt = now + SESSION_TTL]]
       ELSE Answer(r, "refused")
  /\ UNCHANGED <<now, externalActions, previews, approvals, evidence>>

(* resolveBundleSnapshot: no bundle, a throw, or a frozen copy. *)
ResolveEvidence(r) ==
  /\ req[r].pc = "resolve"
  /\ \/ /\ evidence[req[r].pid].present
        /\ req' = [req EXCEPT ![r].pc = "finalize", ![r].bundle = evidence[req[r].pid]]
     \/ Answer(r, "refused")
  /\ UNCHANGED <<now, externalActions, previews, approvals, evidence>>

(* Mutant: evidence that is not eligible is resolved again. *)
FinalizeRetrying(r) ==
  /\ req[r].pc = "finalize"
  /\ LET q == req[r] IN
     IF Eligibility(q.bundle, q.user, q.sessionExpiresAt, now) = "eligible"
     THEN req' = [req EXCEPT ![r].pc = "claim", ![r].at = now, ![r].content = q.bundle.content]
     ELSE req' = [req EXCEPT ![r].pc = "resolve"]
  /\ UNCHANGED <<now, externalActions, previews, approvals, evidence>>

(***************************************************************************)
(* The synchronous finalization: a fresh claimAt, eligibility, the final   *)
(* RBAC and kill-switch checks, and the claim statement is on its way.     *)
(***************************************************************************)
Finalize(r) ==
  /\ req[r].pc = "finalize"
  /\ LET q == req[r] IN
     IF /\ Eligibility(q.bundle, q.user, q.sessionExpiresAt, now) = "eligible"
        /\ HasPermission(q.user, "execute_external_action")
        /\ KillSwitchOpen
     THEN req' = [req EXCEPT ![r].pc = "claim", ![r].at = now, ![r].content = q.bundle.content,
                    ![r].switchAt = IF KillSwitchSource = "request_scoped" THEN @ ELSE now,
                    ![r].expiresAt = AuthorizationExpiry(q.bundle, q.sessionExpiresAt, now)]
     ELSE Answer(r, "refused")
  /\ UNCHANGED <<now, externalActions, previews, approvals, evidence>>

(* Mutant: the claim does not require the approved status. *)
ClaimableAgain(row, q) ==
  row.status # "absent" /\ row.content = q.content /\ row.expiresAt > q.at

(* Mutant: the claim does not compare target and payload hash. *)
ClaimableForAnyContent(row, q) == row.status = "approved" /\ row.expiresAt > q.at

(* CLAIM_FOR_RUNTIME_SQL *)
Claimable(row, q) ==
  /\ row.status = "approved"
  /\ row.content = q.content
  /\ row.expiresAt > q.at

(* MARK_USED_SQL *)
Markable(row, q) ==
  /\ row.status = "approved"
  /\ row.expiresAt > q.at

Use(p, at) == approvals' = [approvals EXCEPT ![p].status = "used", ![p].usedAt = at]

(* Mutant: the number of changed rows is not looked at. *)
ExecuteClaimUnchecked(r) ==
  /\ req[r].pc = "claim"
  /\ IF Claimable(approvals[req[r].pid], req[r])
     THEN Use(req[r].pid, req[r].at) ELSE UNCHANGED approvals
  /\ req' = [req EXCEPT ![r].pc = "read_back"]
  /\ UNCHANGED <<now, externalActions, previews, evidence>>

(* The conditional UPDATE; zero rows and any throw both lose the claim. *)
ExecuteClaim(r) ==
  /\ req[r].pc = "claim"
  /\ \/ /\ Claimable(approvals[req[r].pid], req[r])
        /\ Use(req[r].pid, req[r].at)
        /\ \/ req' = [req EXCEPT ![r].pc = "read_back"]
           \/ Answer(r, "refused")
     \/ /\ UNCHANGED approvals
        /\ Answer(r, "refused")
  /\ UNCHANGED <<now, externalActions, previews, evidence>>

(* findById after a winning UPDATE; if it throws, the claim counts as lost. *)
ReadBack(r) ==
  /\ req[r].pc = "read_back"
  /\ \/ Reply(r, "authorized")
     \/ Answer(r, "refused")
  /\ UNCHANGED <<now, externalActions, previews, approvals, evidence>>
-----------------------------------------------------------------------------
(***************************************************************************)
(* runApprovedExternal: the instant is captured before the approval is     *)
(* read, and a second one when the claim is sent.                          *)
(***************************************************************************)
BackendPost(r) ==
  /\ req[r].pc = "idle"
  /\ \E p \in PreviewIds, c \in Contents :
       req' = [req EXCEPT ![r] = [Blank EXCEPT !.pc = "verify", !.pid = p,
                                               !.content = c, !.at = now]]
  /\ UNCHANGED <<now, externalActions, previews, approvals, evidence>>

VerifyApproval(r) ==
  /\ req[r].pc = "verify"
  /\ LET row == approvals[req[r].pid] IN
     \/ /\ row.status = "approved"
        /\ row.content = req[r].content
        /\ req[r].at < row.expiresAt
        /\ req' = [req EXCEPT ![r].pc = "mark_used", ![r].at = now]
     \/ Answer(r, "refused")   \* verification failed, or the read threw
  /\ UNCHANGED <<now, externalActions, previews, approvals, evidence>>

MarkUsed(r) ==
  /\ req[r].pc = "mark_used"
  /\ \/ /\ Markable(approvals[req[r].pid], req[r])
        /\ Use(req[r].pid, req[r].at)
        /\ \/ req' = [req EXCEPT ![r].pc = "read_back"]
           \/ Answer(r, "refused")
     \/ /\ UNCHANGED approvals
        /\ Answer(r, "refused")
  /\ UNCHANGED <<now, externalActions, previews, evidence>>
-----------------------------------------------------------------------------
Tick ==
  /\ now < MaxTime
  /\ now' = now + 1
  /\ UNCHANGED <<externalActions, previews, approvals, evidence, req>>

FlipKillSwitch ==
  /\ externalActions.flips < MaxFlips
  /\ externalActions' = [on |-> ~ externalActions.on, since |-> now,
                         flips |-> externalActions.flips + 1]
  /\ UNCHANGED <<now, previews, approvals, evidence, req>>

(* Every request answered: the bounded run is over. *)
Finished ==
  /\ \A r \in Requests : req[r].pc = "done"
  /\ UNCHANGED vars

Begin(r) ==
  \/ Refuse(r)
  \/ r \in PreviewReqs /\ PreviewPost(r)
  \/ r \in ApprovalReqs /\ ApprovalPost(r)
  \/ r \in ExecuteReqs /\ ToolsPost(r)
  \/ r \in BackendReqs /\ BackendPost(r)

Continue(r) ==
  \/ InsertPreview(r)
  \/ LookupDecision(r) \/ InsertApproval(r)
  \/ ResolveEvidence(r) \/ Finalize(r) \/ ExecuteClaim(r) \/ ReadBack(r)
  \/ VerifyApproval(r) \/ MarkUsed(r)

Next ==
  \/ \E r \in Requests : Begin(r) \/ Continue(r)
  \/ \E p \in PreviewIds : LinkEvidence(p) \/ RaiseFlaw(p)
  \/ Tick \/ FlipKillSwitch \/ Finished

Spec == Init /\ [][Next]_vars

(* A started handler is run to its answer: the event loop is fair. *)
FairSpec == Spec /\ \A r \in Requests : WF_vars(Continue(r))
-----------------------------------------------------------------------------
(***************************************************************************)
(* Properties.                                                             *)
(***************************************************************************)
PreviewRows == [status : {"absent", "preview"}, creator : Users \cup {NoUser},
                content : Contents \cup {NoContent}, expiresAt : Nat]

ApprovalRows == [status : {"absent", "approved", "rejected", "used"},
                 approver : Users \cup {NoUser}, content : Contents \cup {NoContent},
                 createdAt : Nat, expiresAt : Nat, usedAt : Nat]

Bundles == [present : BOOLEAN, content : Contents \cup {NoContent},
            approver : Users \cup {NoUser}, flaws : SUBSET Flaws,
            previewExpiresAt : Nat, approvalExpiresAt : Nat, reviewExpiresAt : Nat]

Awaits == {"idle", "insert_preview", "lookup_decision", "insert_approval", "resolve",
           "finalize", "claim", "read_back", "verify", "mark_used", "done"}

Locals == [pc : Awaits,
           resp : {"none", "refused", "failed", "conflict", "created", "authorized"},
           user : Users \cup {NoUser}, pid : PreviewIds,
           content : Contents \cup {NoContent},
           decision : {"none", "approved", "rejected"}, at : Nat, switchAt : Nat,
           sessionExpiresAt : Nat, expiresAt : Nat, bundle : Bundles]

(* The columns and locals hold values of their declared types. *)
TypeOK ==
  /\ now \in Time
  /\ externalActions \in [on : BOOLEAN, since : Nat, flips : Nat]
  /\ previews \in [PreviewIds -> PreviewRows]
  /\ approvals \in [PreviewIds -> ApprovalRows]
  /\ evidence \in [PreviewIds -> Bundles]
  /\ req \in [Requests -> Locals]

(* r was told it may act: a gate receipt or the backend's approved reply. *)
Granted(r) == req[r].resp = "authorized"

(***************************************************************************)
(* One-time use: however requests of the gate and of the tool backend      *)
(* interleave, and whichever statement throws after taking effect, at most *)
(* one of them is ever granted a given approval, and only an approval      *)
(* whose row records the use.                                              *)
(***************************************************************************)
OneTimeUse ==
  \A r \in Requests : Granted(r) =>
    /\ approvals[req[r].pid].status = "used"
    /\ approvals[req[r].pid].usedAt = req[r].at
    /\ \A s \in Requests \ {r} : Granted(s) => req[s].pid # req[r].pid

(***************************************************************************)
(* Exact binding: what a receipt covers is what the approver decided on,   *)
(* which is what the stored preview shows, whatever content the evidence   *)
(* was linked for.                                                         *)
(***************************************************************************)
ExactBinding ==
  \A r \in Requests : Granted(r) =>
    /\ req[r].content = approvals[req[r].pid].content
    /\ req[r].content = previews[req[r].pid].content

(***************************************************************************)
(* Four eyes: no approval exists whose approver created the preview or     *)
(* whose preview has no known creator.                                     *)
(***************************************************************************)
FourEyes ==
  \A p \in PreviewIds : approvals[p].status \in {"approved", "used"} =>
    /\ previews[p].creator # NoUser
    /\ approvals[p].approver \notin {NoUser, previews[p].creator}

(* The gate never authorizes the person who approved. *)
ApproverNeverExecutes ==
  \A r \in ExecuteReqs : Granted(r) => req[r].user # approvals[req[r].pid].approver

(***************************************************************************)
(* A receipt is issued strictly inside the approval's and the preview's    *)
(* windows, is not empty, and expires no later than either of them.        *)
(***************************************************************************)
ReceiptWithinWindows ==
  \A r \in ExecuteReqs : Granted(r) =>
    /\ req[r].at < req[r].expiresAt
    /\ req[r].expiresAt <= approvals[req[r].pid].expiresAt
    /\ req[r].expiresAt <= previews[req[r].pid].expiresAt
    /\ req[r].expiresAt <= req[r].at + MAX_AUTHORIZATION_TTL

(***************************************************************************)
(* A 201 stands: the preview a creator was acknowledged is the stored one, *)
(* and so is the decision an approver was acknowledged, although two       *)
(* decisions can both pass the duplicate lookup and two previews can be    *)
(* minted with one id.                                                     *)
(***************************************************************************)
AcknowledgedWritesStand ==
  \A r \in Requests : req[r].resp = "created" =>
    IF req[r].decision = "none"
    THEN /\ previews[req[r].pid].creator = req[r].user
         /\ previews[req[r].pid].content = req[r].content
    ELSE LET row == approvals[req[r].pid] IN
         IF req[r].decision = "rejected" THEN row.status = "rejected"
         ELSE row.status \in {"approved", "used"} /\ row.approver = req[r].user

(***************************************************************************)
(* "a stale preview could mint a fresh 30-minute approval window": it      *)
(* cannot; every decision is dated inside the preview's lifetime.          *)
(***************************************************************************)
NoWindowFromStalePreview ==
  \A p \in PreviewIds : approvals[p].status # "absent" =>
    /\ approvals[p].createdAt < previews[p].expiresAt
    /\ approvals[p].expiresAt = approvals[p].createdAt + APPROVAL_TTL

(***************************************************************************)
(* While external actions are off, every receipt there is comes from a     *)
(* reading of the switch made before it was turned off: at claim time when *)
(* the gate reads process.env, at admission when it reads the request's    *)
(* frozen configuration.                                                   *)
(***************************************************************************)
KillSwitchStopsClaims ==
  ~ externalActions.on =>
    \A r \in ExecuteReqs : Granted(r) => req[r].switchAt <= externalActions.since

(***************************************************************************)
(* Rows are write-once: a preview never changes, a decision changes only   *)
(* from approved to used and keeps everything else.                        *)
(***************************************************************************)
DecisionsFinal ==
  [][\A p \in PreviewIds :
       /\ previews[p].status # "absent" => previews'[p] = previews[p]
       /\ approvals[p].status # "absent" /\ approvals'[p] # approvals[p] =>
            /\ approvals[p].status = "approved"
            /\ approvals'[p] = [approvals[p] EXCEPT !.status = "used",
                                                    !.usedAt = approvals'[p].usedAt]
    ]_vars

(* Every handler that has started is eventually answered. *)
EveryRequestAnswered ==
  \A r \in Requests : req[r].pc # "idle" ~> req[r].pc = "done"
-----------------------------------------------------------------------------
(***************************************************************************)
(* The inductive strengthening.  RowInv: a decision belongs to a stored    *)
(* preview and repeats its content.  BundleInv: linked evidence repeats    *)
(* the rows it was linked over.  PosterInv, ConsumerInv: what a suspended  *)
(* handler remembers is still what the rows say, because rows are          *)
(* write-once.  HolderInv, OneHolder: a request that has won a claim owns  *)
(* the used row, alone.                                                    *)
(***************************************************************************)
RowInv(p) ==
  approvals[p].status # "absent" =>
    /\ previews[p].status = "preview"
    /\ previews[p].creator # NoUser
    /\ approvals[p].content = previews[p].content
    /\ approvals[p].createdAt < previews[p].expiresAt
    /\ approvals[p].expiresAt = approvals[p].createdAt + APPROVAL_TTL
    /\ approvals[p].status # "rejected" =>
         approvals[p].approver \notin {NoUser, previews[p].creator}

BundleInv(b, p) ==
  b.present =>
    /\ approvals[p].status \in {"approved", "used"}
    /\ b.approver = approvals[p].approver
    /\ b.approvalExpiresAt = approvals[p].expiresAt
    /\ b.previewExpiresAt = previews[p].expiresAt

(* r's conditional UPDATE took effect and r has not lost the answer. *)
Holding(r) == req[r].pc = "read_back" \/ Granted(r)

PosterInv(r) ==
  /\ req[r].resp # "none" <=> req[r].pc = "done"
  /\ req[r].pc = "insert_preview" => req[r].decision = "none"
  /\ req[r].pc \in {"lookup_decision", "insert_approval"} =>
       /\ req[r].decision \in {"approved", "rejected"}
       /\ req[r].user \in Users
       /\ previews[req[r].pid].status = "preview"
       /\ previews[req[r].pid].creator \notin {NoUser, req[r].user}
  /\ req[r].pc = "insert_approval" =>
       /\ req[r].at < previews[req[r].pid].expiresAt
       /\ req[r].expiresAt = req[r].at + APPROVAL_TTL
  /\ req[r].resp = "created" =>
       /\ req[r].decision = "none" =>
            /\ previews[req[r].pid].status = "preview"
            /\ previews[req[r].pid].creator = req[r].user
            /\ previews[req[r].pid].content = req[r].content
       /\ req[r].decision = "rejected" => approvals[req[r].pid].status = "rejected"
       /\ req[r].decision = "approved" =>
            /\ approvals[req[r].pid].status \in {"approved", "used"}
            /\ approvals[req[r].pid].approver = req[r].user

ConsumerInv(r) ==
  /\ req[r].pc \in {"resolve", "finalize", "claim"} => r \in ExecuteReqs
  /\ req[r].pc \in {"verify", "mark_used"} => r \in BackendReqs
  /\ req[r].pc = "finalize" => req[r].bundle.present /\ BundleInv(req[r].bundle, req[r].pid)
  /\ req[r].pc = "mark_used" =>
       /\ approvals[req[r].pid].status \in {"approved", "used"}
       /\ req[r].content = approvals[req[r].pid].content
  /\ req[r].pc = "claim" \/ (r \in ExecuteReqs /\ Holding(r)) =>
       /\ approvals[req[r].pid].status \in {"approved", "used"}
       /\ req[r].user # approvals[req[r].pid].approver
       /\ req[r].at < req[r].expiresAt
       /\ req[r].expiresAt <= approvals[req[r].pid].expiresAt
       /\ req[r].expiresAt <= previews[req[r].pid].expiresAt
       /\ req[r].expiresAt <= req[r].at + MAX_AUTHORIZATION_TTL
  /\ req[r].pc \in {"resolve", "finalize", "claim"} \/ (r \in ExecuteReqs /\ Holding(r)) =>
       /\ req[r].switchAt <= now
       /\ ~ externalActions.on => req[r].switchAt <= externalActions.since

HolderInv(r) ==
  Holding(r) =>
    /\ approvals[req[r].pid].status = "used"
    /\ approvals[req[r].pid].usedAt = req[r].at
    /\ approvals[req[r].pid].content = req[r].content

OneHolder ==
  \A r, s \in Requests : r # s /\ Holding(r) /\ Holding(s) => req[r].pid # req[s].pid

(***************************************************************************)
(* What every step of every handler preserves; the safety properties above *)
(* all follow from it.                                                     *)
(***************************************************************************)
LifecycleInv ==
  /\ TypeOK
  /\ \A p \in PreviewIds : RowInv(p) /\ BundleInv(evidence[p], p)
  /\ \A r \in Requests : PosterInv(r) /\ ConsumerInv(r) /\ HolderInv(r)
  /\ OneHolder
-----------------------------------------------------------------------------
(* The refinement mapping: a decision is its row's status, its holders are *)
(* the requests that were answered with a grant.                           *)
Promise == INSTANCE OneTimeApproval WITH
  Approvals <- PreviewIds,
  Holders <- Requests,
  decision <- [p \in PreviewIds |-> approvals[p].status],
  holders <- [p \in PreviewIds |-> {r \in Requests : Granted(r) /\ req[r].pid = p}]

(***************************************************************************)
(* The lifecycle implements its promise: every statement and every answer  *)
(* of the handlers is one step of OneTimeApproval or changes nothing that  *)
(* it speaks about.                                                        *)
(***************************************************************************)
KeepsPromise == Promise!Spec
=============================================================================
