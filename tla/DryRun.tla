------------------------------- MODULE DryRun -------------------------------
(***************************************************************************)
(* POST execution/dry-run: one request that names several previews, each   *)
(* with its stored approval row and its evidence bundle, while the clock   *)
(* runs and other requests consume approvals or revoke evidence between    *)
(* its awaits.  The reply is the disposition of the whole list.            *)
(***************************************************************************)
EXTENDS RuntimeEligibility

CONSTANTS
  Users,           \* owners: they may execute and create previews
  NumRefs,         \* length of previewRefs (the route allows up to 20)
  APPROVAL_TTLS,   \* expiries an approval row may have at the start
  PREVIEW_TTLS,    \* expiries a preview row may have at the start
  StoredRows,      \* the rows a ref may have at the start
  SESSION_TTL,
  MaxTime          \* bound on the clock

ASSUME DryRunAssumption ==
  /\ NumRefs \in Nat \ {0}
  /\ APPROVAL_TTLS \subseteq Nat /\ PREVIEW_TTLS \subseteq Nat
  /\ SESSION_TTL \in Nat /\ MaxTime \in Nat

Refs == 1..NumRefs

VARIABLES
  now,
  rows,       \* per ref: the approval row joined with its preview row
  evidence,   \* per ref: the resolver's bundle
  dry         \* the handler's locals

vars == <<now, rows, evidence, dry>>

(***************************************************************************)
(* `binding` tells how row and request relate: "bound", a preview of       *)
(* another work unit, or an approval of another action type than the       *)
(* caller asserts.                                                         *)
(***************************************************************************)
Rows == [status : {"absent", "approved", "rejected", "used"}, approver : Users,
         binding : {"bound", "other_workunit", "other_type"},
         expiresAt : APPROVAL_TTLS, previewExpiresAt : PREVIEW_TTLS]

BundleOf(row) ==
  [present |-> TRUE, approver |-> row.approver, flaws |-> {},
   previewExpiresAt |-> row.previewExpiresAt, approvalExpiresAt |-> row.expiresAt,
   reviewExpiresAt |-> row.previewExpiresAt]

NoEvidence(row) == [BundleOf(row) EXCEPT !.present = FALSE]

Start == [pc |-> "idle", resp |-> "none", ref |-> 1, user |-> CHOOSE u \in Users : TRUE,
          switch |-> FALSE, at |-> 0, failure |-> "none", seen |-> {},
          evaluatedAt |-> [i \in Refs |-> 0],   \* history: when each ref was evaluated
          spent |-> {}]   \* history: refs no longer approved when the request came

(* Evidence is only ever linked to an approved row. *)
Init ==
  /\ now = 0
  /\ rows \in [Refs -> StoredRows \cap Rows]
  /\ \E linked \in SUBSET {i \in Refs : rows[i].status \in {"approved", "used"}} :
       evidence = [i \in Refs |-> IF i \in linked THEN BundleOf(rows[i]) ELSE NoEvidence(rows[i])]
  /\ dry = Start

Reply(d) == dry' = [dry EXCEPT !.pc = "done", !.resp = d]

(***************************************************************************)
(* Admission: execute and preview permission (every user here is an        *)
(* owner), the request-scoped kill switch, and the instant of all binding  *)
(* checks, captured once before the first read.                            *)
(***************************************************************************)
DryRunPost ==
  /\ dry.pc = "idle"
  /\ \E u \in Users, switch \in BOOLEAN :
       dry' = [dry EXCEPT !.pc = "bind", !.user = u, !.switch = switch, !.at = now,
                            !.spent = {i \in Refs : rows[i].status # "approved"}]
  /\ UNCHANGED <<now, rows, evidence>>

(* Mutant: a used or rejected approval still binds. *)
BindingOfAnyStatus(row, at) ==
  IF row.status = "absent" \/ row.binding = "other_type" THEN "not_ready"
  ELSE IF row.binding = "other_workunit" THEN "invalid_request"
  ELSE IF row.expiresAt < at \/ row.previewExpiresAt <= at THEN "not_ready"
  ELSE "verified"

(* verifyApprovalPreviewBinding: the first check that fails, in code order. *)
Binding(row, at) ==
  IF row.status = "absent" THEN "not_ready"
  ELSE IF row.binding = "other_workunit" THEN "invalid_request"
  ELSE IF row.status # "approved" THEN "not_ready"
  ELSE IF row.expiresAt < at THEN "not_ready"
  ELSE IF row.previewExpiresAt <= at THEN "not_ready"
  ELSE IF row.binding = "other_type" THEN "not_ready"
  ELSE "verified"

(***************************************************************************)
(* One turn of the binding loop.  Every ref is read even after a failure;  *)
(* the first failure decides, then the local kill-switch check.            *)
(***************************************************************************)
Bind ==
  /\ dry.pc = "bind"
  /\ LET outcome == Binding(rows[dry.ref], dry.at)
         failure == IF dry.failure = "none" /\ outcome # "verified" THEN outcome ELSE dry.failure
     IN IF dry.ref < NumRefs
        THEN dry' = [dry EXCEPT !.ref = @ + 1, !.failure = failure]
        ELSE IF failure # "none" THEN Reply(failure)
        ELSE IF ~ dry.switch THEN Reply("blocked")
        ELSE dry' = [dry EXCEPT !.pc = "resolve", !.ref = 1]
  /\ UNCHANGED <<now, rows, evidence>>

(* The await of the evidence bundle of the current ref. *)
Resolve ==
  /\ dry.pc = "resolve"
  /\ \/ /\ evidence[dry.ref].present
        /\ dry' = [dry EXCEPT !.pc = "evaluate", !.seen = evidence[dry.ref].flaws]
     \/ Reply("not_ready")
  /\ UNCHANGED <<now, rows, evidence>>

(* evaluateRuntimeAuthorizationDryRun of a bundle at time t. *)
Disposition(bundle, user, sessionExpiresAt, t) ==
  LET state == Eligibility(bundle, user, sessionExpiresAt, t) IN
  IF state = "eligible" THEN "verified"
  ELSE IF state = "forbidden" THEN "forbidden"
  ELSE "not_ready"

(* The first ref that is not verified ends the loop. *)
Evaluate ==
  /\ dry.pc = "evaluate"
  /\ LET bundle == [evidence[dry.ref] EXCEPT !.flaws = dry.seen]
         outcome == Disposition(bundle, dry.user, dry.at + SESSION_TTL, now)
     IN IF outcome # "verified" THEN Reply(outcome)
        ELSE dry' = [dry EXCEPT !.evaluatedAt[dry.ref] = now,
                       !.pc = IF dry.ref < NumRefs THEN "resolve" ELSE "done",
                       !.resp = IF dry.ref < NumRefs THEN "none" ELSE "verified",
                       !.ref = IF dry.ref < NumRefs THEN @ + 1 ELSE @]
  /\ UNCHANGED <<now, rows, evidence>>
-----------------------------------------------------------------------------
(***************************************************************************)
(* Another request claims an approval, or its evidence is revoked, while   *)
(* the dry run is in flight.  What happened before is a choice of Init.    *)
(***************************************************************************)
InFlight == dry.pc \notin {"idle", "done"}

Consume(i) ==
  /\ InFlight
  /\ rows[i].status = "approved"
  /\ rows[i].expiresAt > now
  /\ rows' = [rows EXCEPT ![i].status = "used"]
  /\ UNCHANGED <<now, evidence, dry>>

Revoke(i) ==
  /\ InFlight
  /\ evidence[i].present /\ evidence[i].flaws = {}
  /\ evidence' = [evidence EXCEPT ![i].flaws = {"revoked"}]
  /\ UNCHANGED <<now, rows, dry>>

Tick ==
  /\ dry.pc # "done"
  /\ now < MaxTime
  /\ now' = now + 1
  /\ UNCHANGED <<rows, evidence, dry>>

Finished == dry.pc = "done" /\ UNCHANGED vars

Handler == Bind \/ Resolve \/ Evaluate

Next ==
  \/ DryRunPost \/ Handler
  \/ \E i \in Refs : Consume(i) \/ Revoke(i)
  \/ Tick \/ Finished

Spec == Init /\ [][Next]_vars

(* A started handler runs to its answer. *)
FairSpec == Spec /\ WF_vars(Handler)
-----------------------------------------------------------------------------
Dispositions == {"none", "verified", "not_ready", "blocked", "forbidden", "invalid_request"}

(* The handler's locals and the rows it reads keep their types. *)
TypeOK ==
  /\ now \in 0..MaxTime
  /\ rows \in [Refs -> Rows]
  /\ \A i \in Refs : evidence[i].flaws \subseteq Flaws /\ evidence[i].approver \in Users
  /\ dry.pc \in {"idle", "bind", "resolve", "evaluate", "done"}
  /\ dry.resp \in Dispositions /\ dry.failure \in Dispositions
  /\ dry.ref \in Refs /\ dry.user \in Users /\ dry.evaluatedAt \in [Refs -> 0..MaxTime]
  /\ dry.spent \subseteq Refs

(***************************************************************************)
(* "verified" covers every ref of the list: each one was bound to this     *)
(* work unit and type, and when it was evaluated its approval and preview  *)
(* were both unexpired and the caller was not its approver; and the kill   *)
(* switch was open for the request.                                        *)
(***************************************************************************)
VerifiedRefsWereEligible ==
  dry.resp = "verified" =>
    /\ dry.switch
    /\ \A i \in Refs :
         /\ rows[i].binding = "bound"
         /\ rows[i].approver # dry.user
         /\ dry.evaluatedAt[i] < rows[i].expiresAt
         /\ dry.evaluatedAt[i] < rows[i].previewExpiresAt

(***************************************************************************)
(* A dry run that starts after one of its approvals was consumed or        *)
(* rejected never answers "verified", even while stale evidence for that   *)
(* approval is still linked.                                               *)
(***************************************************************************)
SpentApprovalNeverVerified == dry.resp = "verified" => dry.spent = {}

(***************************************************************************)
(* A ref that a dry run answered "verified" was eligible when it was       *)
(* looked at, and its approval had not been used.                          *)
(***************************************************************************)
VerifiedRefsAreSound == TypeOK /\ VerifiedRefsWereEligible /\ SpentApprovalNeverVerified

(* Every dry run is answered. *)
DryRunAnswered == dry.pc = "bind" ~> dry.pc = "done"

(***************************************************************************)
(* "all current evidence and policy would permit ATTEMPTING the atomic     *)
(* claim now": at the moment of the answer no approval and no preview of   *)
(* the list has expired.                                                   *)
(***************************************************************************)
VerifiedIsCurrent ==
  [][dry.resp # "verified" /\ dry'.resp = "verified" =>
       \A i \in Refs : now < rows[i].expiresAt /\ now < rows[i].previewExpiresAt]_vars

(***************************************************************************)
(* What the loop does guarantee: the preview evaluated last is current at  *)
(* the moment of the answer, so a list of one preview always is.           *)
(***************************************************************************)
AnsweringCurrent ==
  dry.resp # "verified" /\ dry'.resp = "verified" =>
    /\ now < rows[dry.ref].expiresAt /\ now < rows[dry.ref].previewExpiresAt
    /\ NumRefs = dry.ref

(***************************************************************************)
(* "Worst disposition across referenced previews wins": the runtime step   *)
(* never answers not_ready because of one ref while the caller is          *)
(* forbidden to act on another.                                            *)
(***************************************************************************)
WorstDispositionWins ==
  [][dry.pc \in {"resolve", "evaluate"} /\ dry'.resp = "not_ready" =>
       \A i \in Refs \ {dry.ref} :
         evidence[i].present =>
           Disposition(evidence[i], dry.user, dry.at + SESSION_TTL, now) # "forbidden"]_vars
-----------------------------------------------------------------------------
Locals ==
  [pc : {"idle", "bind", "resolve", "evaluate", "done"}, resp : Dispositions, ref : Refs,
   user : Users, switch : BOOLEAN, at : 0..MaxTime, seen : SUBSET Flaws,
   failure : {"none", "not_ready", "invalid_request"},
   evaluatedAt : [Refs -> 0..MaxTime], spent : SUBSET Refs]

Bundles ==
  [present : BOOLEAN, approver : Users, flaws : SUBSET Flaws, previewExpiresAt : PREVIEW_TTLS,
   approvalExpiresAt : APPROVAL_TTLS, reviewExpiresAt : PREVIEW_TTLS]

(* The resolver's bundles carry the approver and the expiries of their rows. *)
BundlesFollowRows ==
  \A i \in Refs :
    /\ evidence[i].approver = rows[i].approver
    /\ evidence[i].previewExpiresAt = rows[i].previewExpiresAt
    /\ evidence[i].approvalExpiresAt = rows[i].expiresAt

(* What the binding loop has found of ref i, and then the evaluation loop. *)
BoundRef(i) == rows[i].binding = "bound" /\ i \notin dry.spent

EvaluatedRef(i) ==
  /\ rows[i].approver # dry.user
  /\ dry.evaluatedAt[i] < rows[i].expiresAt
  /\ dry.evaluatedAt[i] < rows[i].previewExpiresAt

(***************************************************************************)
(* The inductive invariant of the two loops: a spent approval is never     *)
(* approved again, so a ref that was found bound was not spent when the    *)
(* request came; the refs before the current one are bound in the first    *)
(* loop and evaluated in the second.                                       *)
(***************************************************************************)
DryRunInv ==
  /\ now \in 0..MaxTime /\ rows \in [Refs -> Rows]
  /\ evidence \in [Refs -> Bundles] /\ dry \in Locals
  /\ BundlesFollowRows
  /\ IF dry.pc = "idle" THEN dry.ref = 1 ELSE \A i \in dry.spent : rows[i].status # "approved"
  /\ dry.pc # "done" => dry.resp = "none"
  /\ dry.pc = "bind" /\ dry.failure = "none" => \A i \in 1..(dry.ref - 1) : BoundRef(i)
  /\ dry.pc \in {"resolve", "evaluate"} \/ dry.resp = "verified" =>
       dry.switch /\ \A i \in Refs : BoundRef(i)
  /\ dry.pc \in {"resolve", "evaluate"} => \A i \in 1..(dry.ref - 1) : EvaluatedRef(i)
  /\ dry.resp = "verified" => \A i \in Refs : EvaluatedRef(i)
=============================================================================
