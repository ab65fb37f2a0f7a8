----------------------- MODULE ApprovalLifecycleProofs ----------------------
(***************************************************************************)
(* LifecycleInv is inductive for every number of users, requests, previews *)
(* and for every bound, and the safety properties of ApprovalLifecycle     *)
(* follow from it.                                                         *)
(***************************************************************************)
EXTENDS ApprovalLifecycle, TLAPS

(***************************************************************************)
(* Rows are write-once: a preview never changes, a decision changes only   *)
(* from approved to used.                                                  *)
(***************************************************************************)
WriteOnce(p) ==
  /\ previews[p].status = "preview" => previews'[p] = previews[p]
  /\ approvals[p].status # "absent" =>
       \/ approvals'[p] = approvals[p]
       \/ /\ approvals[p].status = "approved"
          /\ approvals'[p].status = "used"
          /\ approvals'[p].approver = approvals[p].approver
          /\ approvals'[p].content = approvals[p].content
          /\ approvals'[p].createdAt = approvals[p].createdAt
          /\ approvals'[p].expiresAt = approvals[p].expiresAt

(* The clock does not go back; a flip of the switch is dated now. *)
ClockStep ==
  /\ now' >= now
  /\ externalActions' = externalActions \/ externalActions'.since = now

(* The empty rows and locals have their types. *)
LEMMA BlankTypes ==
  /\ AnyId \in PreviewIds
  /\ NoPreview \in PreviewRows
  /\ NoApproval \in ApprovalRows
  /\ NoBundle \in Bundles
  /\ Blank \in Locals
  /\ Blank.pc = "idle" /\ Blank.resp = "none"
<1>1. AnyId \in PreviewIds
  <2>1. PICK s \in Subjects : TRUE
    BY Zenon, LifecycleAssumption
  <2>2. <<s, 0>> \in PreviewIds
    BY <2>1, LifecycleAssumption DEF PreviewIds, Time
  <2>. QED
    BY Zenon, <2>2 DEF AnyId
<1>2. NoPreview \in PreviewRows
  BY Zenon DEF NoPreview, PreviewRows
<1>3. NoApproval \in ApprovalRows
  BY Zenon DEF NoApproval, ApprovalRows
<1>4. NoBundle \in Bundles
  BY Zenon DEF NoBundle, Bundles
<1>5. Blank \in Locals
  BY Zenon, <1>1, <1>4 DEF Blank, Locals, Awaits
<1>6. Blank.pc = "idle" /\ Blank.resp = "none"
  BY Zenon DEF Blank
<1>. QED
  BY Zenon, <1>1, <1>2, <1>3, <1>4, <1>5, <1>6

(* A refusal is a well-typed answer that holds nothing. *)
LEMMA RefusedLocals ==
  ASSUME NEW resp \in {"refused", "failed", "conflict"}
  PROVE  /\ Refused(resp) \in Locals
         /\ Refused(resp).pc = "done"
         /\ Refused(resp).resp = resp
BY ZenonT(120), BlankTypes DEF Refused, Locals, Awaits

(***************************************************************************)
(* A handler that does not move keeps its invariant while rows change only *)
(* in the write-once way and the clock only forward.                       *)
(***************************************************************************)
LEMMA IdleRequest ==
  ASSUME LifecycleInv, TypeOK', ClockStep,
         \A p \in PreviewIds : WriteOnce(p),
         NEW s \in Requests, req'[s] = req[s]
  PROVE  PosterInv(s)' /\ ConsumerInv(s)' /\ HolderInv(s)'
<1>. DEFINE p == req[s].pid
<1>1. p \in PreviewIds /\ req[s] \in Locals
  BY Zenon DEF LifecycleInv, TypeOK, Locals
<1>2. /\ PosterInv(s) /\ ConsumerInv(s) /\ HolderInv(s) /\ RowInv(p)
  BY Zenon, <1>1 DEF LifecycleInv
<1>3. WriteOnce(p)
  BY Zenon, <1>1
<1>4. PosterInv(s)'
  <2>1. PICK q : q = p
    BY Zenon
  <2>2. req'[s].pid = q /\ req[s].pid = q
    BY Zenon, <2>1
  <2>3. /\ previews[q].status = "preview" => previews'[q] = previews[q]
        /\ approvals[q].status = "rejected" => approvals'[q].status = "rejected"
        /\ approvals[q].status \in {"approved", "used"} =>
             /\ approvals'[q].status \in {"approved", "used"}
             /\ approvals'[q].approver = approvals[q].approver
    BY Zenon, <1>3, <2>1 DEF WriteOnce
  <2>. HIDE DEF p
  <2>. QED
    BY Zenon, <1>2, <2>2, <2>3 DEF PosterInv
<1>5. HolderInv(s)'
  BY <1>1, <1>2, <1>3 DEF HolderInv, WriteOnce, Holding, Granted
<1>6. ConsumerInv(s)'
  <2>1. (req[s].pc = "finalize" => BundleInv(req[s].bundle, p))'
    BY SMTT(120), <1>1, <1>2, <1>3 DEF ConsumerInv, WriteOnce, BundleInv, RowInv
  <2>2. (req[s].pc \in {"resolve", "finalize", "claim"} \/ (s \in ExecuteReqs /\ Holding(s)) =>
           /\ req[s].switchAt <= now
           /\ ~ externalActions.on => req[s].switchAt <= externalActions.since)'
    BY SMTT(120), <1>1, <1>2 DEF ConsumerInv, ClockStep, Holding, Granted, LifecycleInv, TypeOK, Locals, Time
  <2>3. (req[s].pc = "claim" \/ (s \in ExecuteReqs /\ Holding(s)) =>
           /\ approvals[req[s].pid].status \in {"approved", "used"}
           /\ req[s].user # approvals[req[s].pid].approver
           /\ req[s].at < req[s].expiresAt
           /\ req[s].expiresAt <= approvals[req[s].pid].expiresAt
           /\ req[s].expiresAt <= previews[req[s].pid].expiresAt
           /\ req[s].expiresAt <= req[s].at + MAX_AUTHORIZATION_TTL)'
    BY SMTT(120), <1>1, <1>2, <1>3 DEF ConsumerInv, WriteOnce, Holding, Granted, RowInv
  <2>4. (req[s].pc = "mark_used" =>
           /\ approvals[req[s].pid].status \in {"approved", "used"}
           /\ req[s].content = approvals[req[s].pid].content)'
    BY SMTT(120), <1>2, <1>3 DEF ConsumerInv, WriteOnce
  <2>5. /\ (req[s].pc \in {"resolve", "finalize", "claim"} => s \in ExecuteReqs)'
        /\ (req[s].pc \in {"verify", "mark_used"} => s \in BackendReqs)'
        /\ (req[s].pc = "finalize" => req[s].bundle.present)'
    BY Zenon, <1>2 DEF ConsumerInv
  <2>. QED
    BY Zenon, <2>1, <2>2, <2>3, <2>4, <2>5 DEF ConsumerInv
<1>. QED
  BY Zenon, <1>4, <1>5, <1>6

(***************************************************************************)
(* One step of handler r: if r's own invariant and the rows are fine after *)
(* the step, and r became a holder only by using an approval that was      *)
(* approved until now, then LifecycleInv holds after the step.             *)
(***************************************************************************)
LEMMA RequestStep ==
  ASSUME LifecycleInv, TypeOK', NEW r \in Requests,
         UNCHANGED <<now, externalActions, evidence>>,
         \A p \in PreviewIds : WriteOnce(p) /\ RowInv(p)',
         \A s \in Requests \ {r} : req'[s] = req[s],
         PosterInv(r)', ConsumerInv(r)', HolderInv(r)',
         Holding(r)' => \/ Holding(r) /\ req'[r].pid = req[r].pid
                        \/ approvals[req'[r].pid].status = "approved"
  PROVE  LifecycleInv'
<1>1. ClockStep
  BY DEF ClockStep, LifecycleInv, TypeOK, Time
<1>2. ASSUME NEW s \in Requests
      PROVE  PosterInv(s)' /\ ConsumerInv(s)' /\ HolderInv(s)'
  <2>1. CASE s = r
    BY Zenon, <2>1
  <2>2. CASE s # r
    BY Zenon, <1>1, <2>2, IdleRequest
  <2>. QED
    BY Zenon, <2>1, <2>2
<1>3. ASSUME NEW p \in PreviewIds
      PROVE  BundleInv(evidence[p], p)'
  <2>1. BundleInv(evidence[p], p) /\ RowInv(p) /\ WriteOnce(p)
    BY Zenon DEF LifecycleInv
  <2>. QED
    BY Zenon, <2>1 DEF BundleInv, WriteOnce, RowInv
<1>4. OneHolder'
  <2>1. ASSUME NEW s \in Requests, s # r, Holding(s)', Holding(r)'
        PROVE  req'[s].pid # req'[r].pid
    <3>1. req'[s] = req[s] /\ Holding(s)
      BY Zenon, <2>1 DEF Holding, Granted
    <3>2. approvals[req[s].pid].status = "used"
      BY Zenon, <3>1 DEF LifecycleInv, HolderInv
    <3>3. CASE approvals[req'[r].pid].status = "approved"
      BY Zenon, <3>1, <3>2, <3>3
    <3>4. CASE Holding(r) /\ req'[r].pid = req[r].pid
      BY Zenon, <2>1, <3>1, <3>4 DEF LifecycleInv, OneHolder
    <3>. QED
      BY Zenon, <2>1, <3>3, <3>4
  <2>2. ASSUME NEW s \in Requests, NEW t \in Requests, s # t, s # r, t # r,
               Holding(s)', Holding(t)'
        PROVE  req'[s].pid # req'[t].pid
    <3>1. req'[s] = req[s] /\ req'[t] = req[t] /\ Holding(s) /\ Holding(t)
      BY Zenon, <2>2 DEF Holding, Granted
    <3>. QED
      BY Zenon, <2>2, <3>1 DEF LifecycleInv, OneHolder
  <2>. QED
    BY Zenon, <2>1, <2>2 DEF OneHolder
<1>. QED
  BY Zenon, <1>2, <1>3, <1>4 DEF LifecycleInv

(* An answer that grants nothing, with rows changed at most write-once. *)
LEMMA AnswerStep ==
  ASSUME LifecycleInv, NEW r \in Requests,
         UNCHANGED <<now, externalActions, evidence>>,
         previews' \in [PreviewIds -> PreviewRows],
         approvals' \in [PreviewIds -> ApprovalRows],
         \A p \in PreviewIds : WriteOnce(p) /\ RowInv(p)',
         NEW resp \in {"refused", "failed", "conflict"}, Answer(r, resp)
  PROVE  LifecycleInv'
<1>1. req' = [req EXCEPT ![r] = Refused(resp)]
  BY Zenon DEF Answer
<1>2. TypeOK'
  BY Zenon, <1>1, RefusedLocals DEF LifecycleInv, TypeOK
<1>3. req'[r] = Refused(resp) /\ \A s \in Requests \ {r} : req'[s] = req[s]
  BY Zenon, <1>1 DEF LifecycleInv, TypeOK
<1>4. req'[r].pc = "done" /\ req'[r].resp = resp
  BY Zenon, <1>3, RefusedLocals
<1>5. ~ Holding(r)' /\ req'[r].resp # "created" /\ req'[r].resp # "none"
  BY Zenon, <1>4 DEF Holding, Granted
<1>6. PosterInv(r)'
  BY Zenon, <1>4, <1>5 DEF PosterInv
<1>7. ConsumerInv(r)'
  BY Zenon, <1>4, <1>5 DEF ConsumerInv
<1>8. HolderInv(r)'
  BY Zenon, <1>5 DEF HolderInv
<1>. QED
  BY Zenon, <1>2, <1>3, <1>5, <1>6, <1>7, <1>8, RequestStep

(* Unchanged rows are write-once. *)
LEMMA SameRows ==
  ASSUME LifecycleInv, UNCHANGED <<previews, approvals>>
  PROVE  \A p \in PreviewIds : WriteOnce(p) /\ RowInv(p)'
BY Zenon DEF LifecycleInv, WriteOnce, RowInv

(* Corollary: an answer that touches no row. *)
LEMMA PlainAnswer ==
  ASSUME LifecycleInv, NEW r \in Requests,
         UNCHANGED <<now, externalActions, previews, approvals, evidence>>,
         NEW resp \in {"refused", "failed", "conflict"}, Answer(r, resp)
  PROVE  LifecycleInv'
<1>1. previews' \in [PreviewIds -> PreviewRows] /\ approvals' \in [PreviewIds -> ApprovalRows]
  BY Zenon DEF LifecycleInv, TypeOK
<1>. QED
  BY Zenon, <1>1, SameRows, AnswerStep

-----------------------------------------------------------------------------
(***************************************************************************)
(* The actions, one lemma each.                                            *)
(***************************************************************************)

(* An early error of any route. *)
LEMMA RefuseStep ==
  ASSUME LifecycleInv, NEW r \in Requests, Refuse(r)
  PROVE  LifecycleInv'
BY Zenon, PlainAnswer DEF Refuse

(* POST action-preview: the row to insert is only remembered. *)
LEMMA PreviewPostStep ==
  ASSUME LifecycleInv, NEW r \in Requests, PreviewPost(r)
  PROVE  LifecycleInv'
<1>1. PICK u \in Users, s \in Subjects, c \in Contents :
        req' = [req EXCEPT ![r] = [Blank EXCEPT !.pc = "insert_preview", !.user = u,
                  !.pid = <<s, now>>, !.content = c, !.expiresAt = now + PREVIEW_TTL]]
  BY Zenon DEF PreviewPost
<1>. DEFINE q == [Blank EXCEPT !.pc = "insert_preview", !.user = u,
                    !.pid = <<s, now>>, !.content = c, !.expiresAt = now + PREVIEW_TTL]
<1>2. /\ q \in Locals
      /\ q.pc = "insert_preview" /\ q.resp = "none" /\ q.decision = "none"
  <2>1. <<s, now>> \in PreviewIds /\ now + PREVIEW_TTL \in Nat
    BY LifecycleAssumption DEF LifecycleInv, TypeOK, PreviewIds, Time
  <2>. QED
    BY Zenon, <2>1, BlankTypes DEF Blank, Locals, Awaits
<1>. HIDE DEF q
<1>3. TypeOK'
  BY Zenon, <1>1, <1>2 DEF PreviewPost, LifecycleInv, TypeOK, q
<1>4. req'[r] = q /\ \A t \in Requests \ {r} : req'[t] = req[t]
  BY Zenon, <1>1 DEF LifecycleInv, TypeOK, q
<1>5. ~ Holding(r)' /\ PosterInv(r)' /\ ConsumerInv(r)' /\ HolderInv(r)'
  BY Zenon, <1>2, <1>4 DEF Holding, Granted, PosterInv, ConsumerInv, HolderInv
<1>. QED
  BY Zenon, <1>3, <1>4, <1>5, SameRows, RequestStep DEF PreviewPost

(* A handler that only moves on or replies: its other locals stay. *)
LEMMA MovedLocals ==
  ASSUME TypeOK, NEW r \in Requests, NEW pc \in Awaits,
         NEW resp \in {"none", "refused", "failed", "conflict", "created", "authorized"},
         req' = [req EXCEPT ![r].pc = pc, ![r].resp = resp]
  PROVE  /\ req' \in [Requests -> Locals]
         /\ req'[r].pc = pc /\ req'[r].resp = resp
         /\ req'[r].user = req[r].user /\ req'[r].pid = req[r].pid
         /\ req'[r].content = req[r].content /\ req'[r].decision = req[r].decision
         /\ req'[r].at = req[r].at /\ req'[r].switchAt = req[r].switchAt
         /\ req'[r].expiresAt = req[r].expiresAt
         /\ \A s \in Requests \ {r} : req'[s] = req[s]
<1>1. req[r] \in Locals
  BY Zenon DEF TypeOK
<1>2. [req[r] EXCEPT !.pc = pc, !.resp = resp] \in Locals
  BY Zenon, <1>1 DEF Locals
<1>. QED
  BY Zenon, <1>1, <1>2 DEF TypeOK, Locals

(* The INSERT of a preview. *)
LEMMA InsertPreviewStep ==
  ASSUME LifecycleInv, NEW r \in Requests, InsertPreview(r)
  PROVE  LifecycleInv'
<1>. DEFINE p == req[r].pid
            row == [status |-> "preview", creator |-> req[r].user,
                    content |-> req[r].content, expiresAt |-> req[r].expiresAt]
<1>1. req[r] \in Locals /\ p \in PreviewIds /\ TypeOK
  BY Zenon DEF LifecycleInv, TypeOK, Locals
<1>2. CASE /\ previews[p].status = "absent"
           /\ previews' = [previews EXCEPT ![p] = row]
           /\ UNCHANGED <<now, externalActions, approvals, evidence>>
           /\ Reply(r, "created") \/ Answer(r, "failed")
  <2>1. row \in PreviewRows
    BY Zenon, <1>1 DEF Locals, PreviewRows
  <2>2. previews' \in [PreviewIds -> PreviewRows] /\ approvals' \in [PreviewIds -> ApprovalRows]
    BY Zenon, <1>1, <1>2, <2>1 DEF TypeOK
  <2>3. previews'[p] = row /\ \A o \in PreviewIds \ {p} : previews'[o] = previews[o]
    BY Zenon, <1>1, <1>2 DEF TypeOK
  <2>4. \A o \in PreviewIds : WriteOnce(o) /\ RowInv(o)'
    BY SMTT(120), <1>2, <2>3 DEF LifecycleInv, WriteOnce, RowInv
  <2>5. CASE Answer(r, "failed")
    BY Zenon, <1>2, <2>2, <2>4, <2>5, AnswerStep
  <2>6. CASE Reply(r, "created")
    <3>1. req' = [req EXCEPT ![r].pc = "done", ![r].resp = "created"] /\ "done" \in Awaits
      BY Zenon, <2>6 DEF Reply, Awaits
    <3>2. /\ req' \in [Requests -> Locals]
          /\ req'[r].pc = "done" /\ req'[r].resp = "created"
          /\ req'[r].user = req[r].user /\ req'[r].pid = req[r].pid
          /\ req'[r].content = req[r].content /\ req'[r].decision = req[r].decision
          /\ \A s \in Requests \ {r} : req'[s] = req[s]
      BY Zenon, <1>1, <3>1, MovedLocals
    <3>3. TypeOK'
      BY Zenon, <1>1, <1>2, <2>2, <3>2 DEF TypeOK
    <3>4. req[r].decision = "none"
      BY Zenon DEF LifecycleInv, PosterInv, InsertPreview
    <3>5. ~ Holding(r)' /\ ConsumerInv(r)' /\ HolderInv(r)'
      BY Zenon, <3>2 DEF Holding, Granted, ConsumerInv, HolderInv
    <3>6. PosterInv(r)'
      BY SMTT(120), <2>3, <3>2, <3>4 DEF PosterInv
    <3>. QED
      BY Zenon, <1>2, <2>4, <3>2, <3>3, <3>5, <3>6, RequestStep
  <2>. QED
    BY Zenon, <1>2, <2>5, <2>6
<1>3. CASE UNCHANGED <<now, externalActions, previews, approvals, evidence>> /\ Answer(r, "failed")
  BY Zenon, <1>3, PlainAnswer
<1>. QED
  BY Zenon, <1>2, <1>3 DEF InsertPreview

(* POST approval: the stored preview passed the four-eyes checks. *)
LEMMA ApprovalPostStep ==
  ASSUME LifecycleInv, NEW r \in Requests, ApprovalPost(r)
  PROVE  LifecycleInv'
<1>1. PICK u \in Users, p \in PreviewIds, d \in {"approved", "rejected"} :
        \/ /\ previews[p].status = "preview"
           /\ previews[p].creator \notin {NoUser, u}
           /\ req' = [req EXCEPT ![r] = [Blank EXCEPT !.pc = "lookup_decision", !.user = u,
                        !.pid = p, !.decision = d, !.content = previews[p].content]]
        \/ Answer(r, "refused")
  BY ZenonT(120) DEF ApprovalPost
<1>. DEFINE q == [Blank EXCEPT !.pc = "lookup_decision", !.user = u,
                    !.pid = p, !.decision = d, !.content = previews[p].content]
<1>2. CASE Answer(r, "refused")
  BY Zenon, <1>2, PlainAnswer DEF ApprovalPost
<1>3. CASE /\ previews[p].status = "preview"
           /\ previews[p].creator \notin {NoUser, u}
           /\ req' = [req EXCEPT ![r] = q]
  <2>1. /\ q \in Locals
        /\ q.pc = "lookup_decision" /\ q.resp = "none" /\ q.decision = d
        /\ q.user = u /\ q.pid = p
    <3>1. previews[p].content \in Contents \cup {NoContent}
      BY Zenon DEF LifecycleInv, TypeOK, PreviewRows
    <3>. QED
      BY Zenon, <3>1, BlankTypes DEF Blank, Locals, Awaits
  <2>. HIDE DEF q
  <2>2. TypeOK'
    BY Zenon, <1>3, <2>1 DEF ApprovalPost, LifecycleInv, TypeOK
  <2>3. req'[r] = q /\ \A t \in Requests \ {r} : req'[t] = req[t]
    BY Zenon, <1>3 DEF LifecycleInv, TypeOK
  <2>4. ~ Holding(r)' /\ PosterInv(r)' /\ ConsumerInv(r)' /\ HolderInv(r)'
    BY Zenon, <1>3, <2>1, <2>3 DEF Holding, Granted, PosterInv, ConsumerInv, HolderInv, ApprovalPost
  <2>. QED
    BY Zenon, <2>2, <2>3, <2>4, SameRows, RequestStep DEF ApprovalPost
<1>. QED
  BY Zenon, <1>1, <1>2, <1>3

(* No decision yet and the preview still live: the row is built. *)
LEMMA LookupDecisionStep ==
  ASSUME LifecycleInv, NEW r \in Requests, LookupDecision(r)
  PROVE  LifecycleInv'
<1>. DEFINE q == [req[r] EXCEPT !.pc = "insert_approval", !.at = now,
                                !.expiresAt = now + APPROVAL_TTL]
<1>1. CASE \E resp \in {"conflict", "failed"} : Answer(r, resp)
  BY Zenon, <1>1, PlainAnswer DEF LookupDecision
<1>2. CASE /\ previews[req[r].pid].expiresAt > now
           /\ req' = [req EXCEPT ![r] = q]
  <2>1. req[r] \in Locals /\ req[r].pid \in PreviewIds /\ now \in Nat /\ now + APPROVAL_TTL \in Nat
    BY LifecycleAssumption DEF LifecycleInv, TypeOK, Locals, Time
  <2>2. /\ q \in Locals
        /\ q.pc = "insert_approval" /\ q.resp = req[r].resp /\ q.decision = req[r].decision
        /\ q.user = req[r].user /\ q.pid = req[r].pid /\ q.at = now
        /\ q.expiresAt = now + APPROVAL_TTL
    BY Zenon, <2>1 DEF Locals, Awaits
  <2>3. PosterInv(r) /\ req[r].resp = "none" /\ req[r].pc = "lookup_decision"
    BY Zenon, <2>1 DEF LifecycleInv, PosterInv, LookupDecision
  <2>. HIDE DEF q
  <2>4. TypeOK'
    BY Zenon, <1>2, <2>2 DEF LookupDecision, LifecycleInv, TypeOK
  <2>5. req'[r] = q /\ \A t \in Requests \ {r} : req'[t] = req[t]
    BY Zenon, <1>2 DEF LifecycleInv, TypeOK
  <2>6. previews' = previews /\ approvals' = approvals
    BY Zenon DEF LookupDecision
  <2>7. ~ Holding(r)' /\ ConsumerInv(r)' /\ HolderInv(r)'
    BY Zenon, <2>2, <2>3, <2>5 DEF Holding, Granted, ConsumerInv, HolderInv
  <2>8. PosterInv(r)'
    BY Zenon, <1>2, <2>1, <2>2, <2>3, <2>5, <2>6 DEF PosterInv
  <2>. QED
    BY Zenon, <2>4, <2>5, <2>6, <2>7, <2>8, SameRows, RequestStep DEF LookupDecision
<1>. QED
  BY Zenon, <1>1, <1>2 DEF LookupDecision

(* The INSERT of a decision. *)
LEMMA InsertApprovalStep ==
  ASSUME LifecycleInv, NEW r \in Requests, InsertApproval(r)
  PROVE  LifecycleInv'
<1>. DEFINE p == req[r].pid
            row == DecisionRow(req[r])
<1>1. /\ req[r] \in Locals /\ p \in PreviewIds /\ TypeOK
      /\ PosterInv(r) /\ req[r].pc = "insert_approval"
  BY Zenon DEF LifecycleInv, TypeOK, Locals, InsertApproval
<1>2. CASE /\ previews[p].status = "preview"
           /\ previews[p].content = req[r].content
           /\ approvals[p].status = "absent"
           /\ approvals' = [approvals EXCEPT ![p] = row]
           /\ UNCHANGED <<now, externalActions, previews, evidence>>
           /\ Reply(r, "created") \/ Answer(r, "failed")
  <2>1. /\ row \in ApprovalRows
        /\ row.status = req[r].decision /\ row.content = req[r].content
        /\ row.createdAt = req[r].at /\ row.expiresAt = req[r].expiresAt
        /\ row.status = "approved" => row.approver = req[r].user
    BY Zenon, <1>1 DEF Locals, ApprovalRows, DecisionRow, PosterInv
  <2>. HIDE DEF row
  <2>2. previews' \in [PreviewIds -> PreviewRows] /\ approvals' \in [PreviewIds -> ApprovalRows]
    BY Zenon, <1>1, <1>2, <2>1 DEF TypeOK
  <2>3. approvals'[p] = row /\ \A o \in PreviewIds \ {p} : approvals'[o] = approvals[o]
    BY Zenon, <1>1, <1>2 DEF TypeOK
  <2>4. ASSUME NEW o \in PreviewIds
        PROVE  WriteOnce(o) /\ RowInv(o)'
    <3>1. CASE o = p
      <4>1. req[r].user # NoUser
        BY Zenon, <1>1, LifecycleAssumption DEF PosterInv
      <4>2. approvals'[o] = row /\ previews'[o] = previews[o]
        BY Zenon, <1>2, <2>3, <3>1
      <4>3. RowInv(o)'
        BY Zenon, <1>1, <1>2, <2>1, <3>1, <4>1, <4>2 DEF PosterInv, RowInv
      <4>4. WriteOnce(o)
        BY Zenon, <1>2, <3>1 DEF WriteOnce
      <4>. QED
        BY Zenon, <4>3, <4>4
    <3>2. CASE o # p
      BY Zenon, <1>2, <2>3, <3>2 DEF LifecycleInv, WriteOnce, RowInv
    <3>. QED
      BY Zenon, <3>1, <3>2
  <2>5. CASE Answer(r, "failed")
    BY Zenon, <1>2, <2>2, <2>4, <2>5, AnswerStep
  <2>6. CASE Reply(r, "created")
    <3>1. req' = [req EXCEPT ![r].pc = "done", ![r].resp = "created"] /\ "done" \in Awaits
      BY Zenon, <2>6 DEF Reply, Awaits
    <3>2. /\ req' \in [Requests -> Locals]
          /\ req'[r].pc = "done" /\ req'[r].resp = "created"
          /\ req'[r].user = req[r].user /\ req'[r].pid = req[r].pid
          /\ req'[r].content = req[r].content /\ req'[r].decision = req[r].decision
          /\ \A s \in Requests \ {r} : req'[s] = req[s]
      BY ZenonT(120), <1>1, <3>1, MovedLocals
    <3>3. TypeOK'
      BY Zenon, <1>1, <1>2, <2>2, <3>2 DEF TypeOK
    <3>4. ~ Holding(r)' /\ ConsumerInv(r)' /\ HolderInv(r)'
      BY Zenon, <3>2 DEF Holding, Granted, ConsumerInv, HolderInv
    <3>5. PosterInv(r)'
      BY Zenon, <1>1, <2>1, <2>3, <3>2 DEF PosterInv
    <3>. QED
      BY Zenon, <1>2, <2>4, <3>2, <3>3, <3>4, <3>5, RequestStep
  <2>. QED
    BY Zenon, <1>2, <2>5, <2>6
<1>3. CASE UNCHANGED <<now, externalActions, previews, approvals, evidence>> /\ Answer(r, "failed")
  BY Zenon, <1>3, PlainAnswer
<1>. QED
  BY Zenon, <1>2, <1>3 DEF InsertApproval

(* POST tools: admitted while the kill switch is on. *)
LEMMA ToolsPostStep ==
  ASSUME LifecycleInv, NEW r \in Requests, r \in ExecuteReqs, ToolsPost(r)
  PROVE  LifecycleInv'
<1>1. PICK u \in Users, p \in PreviewIds :
        \/ /\ externalActions.on
           /\ req' = [req EXCEPT ![r] = [Blank EXCEPT !.pc = "resolve", !.user = u, !.pid = p,
                        !.switchAt = now, !.sessionExpiresAt = now + SESSION_TTL]]
        \/ Answer(r, "refused")
  BY Zenon DEF ToolsPost
<1>. DEFINE q == [Blank EXCEPT !.pc = "resolve", !.user = u, !.pid = p,
                    !.switchAt = now, !.sessionExpiresAt = now + SESSION_TTL]
<1>2. CASE Answer(r, "refused")
  BY Zenon, <1>2, PlainAnswer DEF ToolsPost
<1>3. CASE externalActions.on /\ req' = [req EXCEPT ![r] = q]
  <2>1. now \in Nat /\ now + SESSION_TTL \in Nat
    BY LifecycleAssumption DEF LifecycleInv, TypeOK, Time
  <2>2. q \in Locals /\ q.pc = "resolve" /\ q.resp = "none" /\ q.switchAt = now
    BY Zenon, <2>1, BlankTypes DEF Blank, Locals, Awaits
  <2>. HIDE DEF q
  <2>3. TypeOK'
    BY Zenon, <1>3, <2>2 DEF ToolsPost, LifecycleInv, TypeOK
  <2>4. req'[r] = q /\ \A t \in Requests \ {r} : req'[t] = req[t]
    BY Zenon, <1>3 DEF LifecycleInv, TypeOK
  <2>5. ~ Holding(r)' /\ PosterInv(r)' /\ HolderInv(r)'
    BY Zenon, <2>2, <2>4 DEF Holding, Granted, PosterInv, HolderInv
  <2>6. ConsumerInv(r)'
    BY <1>3, <2>1, <2>2, <2>4, <2>5 DEF ConsumerInv, ToolsPost
  <2>. QED
    BY Zenon, <2>3, <2>4, <2>5, <2>6, SameRows, RequestStep DEF ToolsPost
<1>. QED
  BY Zenon, <1>1, <1>2, <1>3

(* The bundle is copied; it repeats the rows because the stored one does. *)
LEMMA ResolveEvidenceStep ==
  ASSUME LifecycleInv, NEW r \in Requests, ResolveEvidence(r)
  PROVE  LifecycleInv'
<1>. DEFINE q == [req[r] EXCEPT !.pc = "finalize", !.bundle = evidence[req[r].pid]]
<1>1. CASE Answer(r, "refused")
  BY Zenon, <1>1, PlainAnswer DEF ResolveEvidence
<1>2. CASE evidence[req[r].pid].present /\ req' = [req EXCEPT ![r] = q]
  <2>1. /\ req[r] \in Locals /\ req[r].pid \in PreviewIds
        /\ evidence[req[r].pid] \in Bundles
        /\ BundleInv(evidence[req[r].pid], req[r].pid)
    BY Zenon DEF LifecycleInv, TypeOK, Locals
  <2>2. /\ q \in Locals
        /\ q.pc = "finalize" /\ q.resp = req[r].resp /\ q.decision = req[r].decision
        /\ q.pid = req[r].pid /\ q.bundle = evidence[req[r].pid] /\ q.switchAt = req[r].switchAt
    BY Zenon, <2>1 DEF Locals, Awaits
  <2>3. PosterInv(r) /\ ConsumerInv(r) /\ req[r].resp = "none" /\ req[r].pc = "resolve"
    BY Zenon, <2>1 DEF LifecycleInv, PosterInv, ResolveEvidence
  <2>. HIDE DEF q
  <2>4. TypeOK'
    BY Zenon, <1>2, <2>2 DEF ResolveEvidence, LifecycleInv, TypeOK
  <2>5. req'[r] = q /\ \A t \in Requests \ {r} : req'[t] = req[t]
    BY Zenon, <1>2 DEF LifecycleInv, TypeOK
  <2>6. UNCHANGED <<now, externalActions, previews, approvals, evidence>>
    BY Zenon DEF ResolveEvidence
  <2>7. ~ Holding(r)' /\ PosterInv(r)' /\ HolderInv(r)'
    BY Zenon, <2>2, <2>3, <2>5 DEF Holding, Granted, PosterInv, HolderInv
  <2>8. BundleInv(req[r].bundle, req[r].pid)'
    BY ZenonT(120), <2>1, <2>2, <2>5, <2>6 DEF BundleInv
  <2>9. ConsumerInv(r)'
    BY Zenon, <1>2, <2>2, <2>3, <2>5, <2>6, <2>7, <2>8 DEF ConsumerInv
  <2>. QED
    BY Zenon, <2>4, <2>5, <2>6, <2>7, <2>9, SameRows, RequestStep
<1>. QED
  BY Zenon, <1>1, <1>2 DEF ResolveEvidence

(* The earlier of two instants. *)
LEMMA MinIsoBounds ==
  ASSUME NEW a \in Nat, NEW b \in Nat
  PROVE  MinIso(a, b) \in Nat /\ MinIso(a, b) <= a /\ MinIso(a, b) <= b
BY DEF MinIso

(* An eligible bundle bounds the receipt by each of its expiries. *)
LEMMA EligibleBundle ==
  ASSUME NEW b \in Bundles, NEW u, NEW x \in Nat, NEW t \in Nat,
         Eligibility(b, u, x, t) = "eligible"
  PROVE  /\ AuthorizationExpiry(b, x, t) \in Nat
         /\ t < AuthorizationExpiry(b, x, t)
         /\ AuthorizationExpiry(b, x, t) <= b.previewExpiresAt
         /\ AuthorizationExpiry(b, x, t) <= b.approvalExpiresAt
         /\ AuthorizationExpiry(b, x, t) <= t + MAX_AUTHORIZATION_TTL
         /\ u # b.approver
<1>1. /\ b.previewExpiresAt \in Nat /\ b.approvalExpiresAt \in Nat /\ b.reviewExpiresAt \in Nat
      /\ MAX_AUTHORIZATION_TTL \in Nat
  BY Zenon, AuthorizationTtlAssumption DEF Bundles
<1>2. ~ (t >= AuthorizationExpiry(b, x, t)) /\ u # b.approver
  BY Zenon DEF Eligibility, LinkageState
<1>3. /\ AuthorizationExpiry(b, x, t) \in Nat
      /\ AuthorizationExpiry(b, x, t) <= b.previewExpiresAt
      /\ AuthorizationExpiry(b, x, t) <= b.approvalExpiresAt
      /\ AuthorizationExpiry(b, x, t) <= t + MAX_AUTHORIZATION_TTL
  <2>1. PICK l : l = LinkageExpiresAt(b)
    BY Zenon
  <2>2. l \in Nat
    BY Zenon, <1>1, <2>1, MinIsoBounds DEF LinkageExpiresAt
  <2>3. PICK p : p = MinIso(l, b.previewExpiresAt)
    BY Zenon
  <2>4. PICK a : a = MinIso(p, b.approvalExpiresAt)
    BY Zenon
  <2>5. PICK s : s = MinIso(a, x)
    BY Zenon
  <2>6. AuthorizationExpiry(b, x, t) = MinIso(s, t + MAX_AUTHORIZATION_TTL)
    BY Zenon, <2>1, <2>3, <2>4, <2>5 DEF AuthorizationExpiry
  <2>7. p \in Nat /\ p <= b.previewExpiresAt
    BY Zenon, <1>1, <2>2, <2>3, MinIsoBounds
  <2>8. a \in Nat /\ a <= p /\ a <= b.approvalExpiresAt
    BY Zenon, <1>1, <2>4, <2>7, MinIsoBounds
  <2>9. s \in Nat /\ s <= a
    BY Zenon, <2>5, <2>8, MinIsoBounds
  <2>10. t + MAX_AUTHORIZATION_TTL \in Nat
    BY <1>1
  <2>11. PICK e : e = MinIso(s, t + MAX_AUTHORIZATION_TTL)
    BY Zenon
  <2>12. e \in Nat /\ e <= s /\ e <= t + MAX_AUTHORIZATION_TTL
    BY Zenon, <2>9, <2>10, <2>11, MinIsoBounds
  <2>. QED
    BY <1>1, <2>6, <2>7, <2>8, <2>9, <2>11, <2>12
<1>. QED
  BY <1>2, <1>3

(* The finalization: the claim is sent with a bounded, separated receipt. *)
LEMMA FinalizeStep ==
  ASSUME LifecycleInv, NEW r \in Requests, Finalize(r)
  PROVE  LifecycleInv'
<1>. DEFINE b == req[r].bundle
            x == AuthorizationExpiry(b, req[r].sessionExpiresAt, now)
            sw == IF KillSwitchSource = "request_scoped" THEN req[r].switchAt ELSE now
            q == [req[r] EXCEPT !.pc = "claim", !.at = now, !.content = b.content,
                                !.switchAt = sw, !.expiresAt = x]
<1>1. CASE Answer(r, "refused")
  BY Zenon, <1>1, PlainAnswer DEF Finalize
<1>2. CASE /\ Eligibility(b, req[r].user, req[r].sessionExpiresAt, now) = "eligible"
           /\ KillSwitchOpen
           /\ req' = [req EXCEPT ![r] = q]
  <2>1. /\ req[r] \in Locals /\ req[r].pid \in PreviewIds /\ b \in Bundles
        /\ now \in Nat /\ req[r].sessionExpiresAt \in Nat /\ req[r].switchAt \in Nat
    BY LifecycleAssumption DEF LifecycleInv, TypeOK, Locals, Time
  <2>2. /\ x \in Nat /\ now < x /\ x <= b.previewExpiresAt /\ x <= b.approvalExpiresAt
        /\ x <= now + MAX_AUTHORIZATION_TTL /\ req[r].user # b.approver
    BY Zenon, <1>2, <2>1, EligibleBundle
  <2>3. /\ PosterInv(r) /\ ConsumerInv(r)
        /\ req[r].resp = "none" /\ req[r].pc = "finalize"
    BY Zenon, <2>1 DEF LifecycleInv, PosterInv, Finalize
  <2>4. BundleInv(b, req[r].pid) /\ b.present
    BY Zenon, <2>3 DEF ConsumerInv
  <2>5. sw \in Nat /\ sw <= now /\ (~ externalActions.on => sw <= externalActions.since)
    BY <1>2, <2>1, <2>3 DEF ConsumerInv, KillSwitchOpen
  <2>. HIDE DEF x, sw
  <2>6. /\ q \in Locals
        /\ q.pc = "claim" /\ q.resp = req[r].resp /\ q.decision = req[r].decision
        /\ q.pid = req[r].pid /\ q.user = req[r].user /\ q.at = now
        /\ q.switchAt = sw /\ q.expiresAt = x
    BY ZenonT(120), <2>1, <2>2, <2>5 DEF Locals, Awaits, Bundles
  <2>. HIDE DEF q, b
  <2>7. TypeOK'
    BY Zenon, <1>2, <2>6 DEF Finalize, LifecycleInv, TypeOK
  <2>8. req'[r] = q /\ \A t \in Requests \ {r} : req'[t] = req[t]
    BY Zenon, <1>2 DEF LifecycleInv, TypeOK
  <2>9. UNCHANGED <<now, externalActions, previews, approvals, evidence>>
    BY Zenon DEF Finalize
  <2>10. ~ Holding(r)' /\ PosterInv(r)' /\ HolderInv(r)'
    BY Zenon, <2>3, <2>6, <2>8 DEF Holding, Granted, PosterInv, HolderInv
  <2>11. ConsumerInv(r)'
    <3>1. r \in ExecuteReqs
      BY Zenon, <2>3 DEF ConsumerInv
    <3>. QED
      BY Zenon, <2>2, <2>4, <2>5, <2>6, <2>8, <2>9, <2>10, <3>1 DEF ConsumerInv, BundleInv
  <2>. QED
    BY Zenon, <2>7, <2>8, <2>9, <2>10, <2>11, SameRows, RequestStep
<1>. QED
  BY ZenonT(120), <1>1, <1>2 DEF Finalize

(* The conditional UPDATE of an approved row is write-once. *)
LEMMA UsedRows ==
  ASSUME LifecycleInv, NEW p \in PreviewIds, NEW at \in Nat,
         approvals[p].status = "approved", Use(p, at), UNCHANGED previews
  PROVE  /\ previews' \in [PreviewIds -> PreviewRows]
         /\ approvals' \in [PreviewIds -> ApprovalRows]
         /\ \A o \in PreviewIds : WriteOnce(o) /\ RowInv(o)'
         /\ approvals'[p] = [approvals[p] EXCEPT !.status = "used", !.usedAt = at]
         /\ approvals'[p].status = "used" /\ approvals'[p].usedAt = at
         /\ approvals'[p].content = approvals[p].content
         /\ approvals'[p].approver = approvals[p].approver
         /\ approvals'[p].expiresAt = approvals[p].expiresAt
         /\ \A o \in PreviewIds \ {p} : approvals'[o] = approvals[o]
<1>. DEFINE row == [approvals[p] EXCEPT !.status = "used", !.usedAt = at]
<1>1. TypeOK /\ approvals[p] \in ApprovalRows
  BY Zenon DEF LifecycleInv, TypeOK
<1>2. /\ row \in ApprovalRows /\ row.status = "used" /\ row.usedAt = at
      /\ row.content = approvals[p].content /\ row.approver = approvals[p].approver
      /\ row.createdAt = approvals[p].createdAt /\ row.expiresAt = approvals[p].expiresAt
  BY Zenon, <1>1 DEF ApprovalRows
<1>3. approvals' = [approvals EXCEPT ![p] = row]
  BY Zenon, <1>1 DEF Use, TypeOK
<1>. HIDE DEF row
<1>4. approvals'[p] = row /\ \A o \in PreviewIds \ {p} : approvals'[o] = approvals[o]
  BY Zenon, <1>1, <1>3 DEF TypeOK
<1>5. previews' \in [PreviewIds -> PreviewRows] /\ approvals' \in [PreviewIds -> ApprovalRows]
  BY Zenon, <1>1, <1>2, <1>3 DEF TypeOK
<1>6. ASSUME NEW o \in PreviewIds
      PROVE  WriteOnce(o) /\ RowInv(o)'
  <2>1. RowInv(o)
    BY Zenon DEF LifecycleInv
  <2>2. CASE o = p
    BY Zenon, <1>2, <1>4, <2>1, <2>2 DEF WriteOnce, RowInv
  <2>3. CASE o # p
    BY Zenon, <1>4, <2>1, <2>3 DEF WriteOnce, RowInv
  <2>. QED
    BY Zenon, <2>2, <2>3
<1>. QED
  BY Zenon, <1>2, <1>4, <1>5, <1>6 DEF row

(***************************************************************************)
(* A winning claim: the row was approved until now and r knows its         *)
(* content, so r is its first and only holder.                             *)
(***************************************************************************)
LEMMA WonClaim ==
  ASSUME LifecycleInv, NEW r \in Requests,
         req[r].pc \in {"claim", "mark_used"},
         approvals[req[r].pid].status = "approved",
         approvals[req[r].pid].content = req[r].content,
         Use(req[r].pid, req[r].at),
         req' = [req EXCEPT ![r].pc = "read_back"],
         UNCHANGED <<now, externalActions, previews, evidence>>
  PROVE  LifecycleInv'
<1>1. /\ req[r] \in Locals /\ req[r].pid \in PreviewIds /\ req[r].at \in Nat
      /\ PosterInv(r) /\ ConsumerInv(r)
  BY Zenon DEF LifecycleInv, TypeOK, Locals
<1>2. /\ approvals'[req[r].pid].status = "used"
      /\ approvals'[req[r].pid].usedAt = req[r].at
      /\ approvals'[req[r].pid].content = req[r].content
      /\ approvals'[req[r].pid].approver = approvals[req[r].pid].approver
      /\ approvals'[req[r].pid].expiresAt = approvals[req[r].pid].expiresAt
      /\ approvals' \in [PreviewIds -> ApprovalRows]
      /\ \A o \in PreviewIds : WriteOnce(o) /\ RowInv(o)'
  BY Zenon, <1>1, UsedRows
<1>. DEFINE q == [req[r] EXCEPT !.pc = "read_back"]
<1>3. /\ q \in Locals /\ q.pc = "read_back" /\ q.resp = req[r].resp
      /\ q.user = req[r].user /\ q.pid = req[r].pid /\ q.content = req[r].content
      /\ q.decision = req[r].decision /\ q.at = req[r].at /\ q.switchAt = req[r].switchAt
      /\ q.expiresAt = req[r].expiresAt
  BY Zenon, <1>1 DEF Locals, Awaits
<1>4. req' = [req EXCEPT ![r] = q]
  BY Zenon DEF LifecycleInv, TypeOK
<1>. HIDE DEF q
<1>5. req'[r] = q /\ \A s \in Requests \ {r} : req'[s] = req[s]
  BY Zenon, <1>4 DEF LifecycleInv, TypeOK
<1>6. TypeOK'
  BY Zenon, <1>2, <1>3, <1>4 DEF LifecycleInv, TypeOK
<1>7. req[r].resp = "none"
  BY Zenon, <1>1 DEF PosterInv
<1>8. PosterInv(r)'
  BY Zenon, <1>3, <1>5, <1>7 DEF PosterInv
<1>9. HolderInv(r)'
  BY Zenon, <1>2, <1>3, <1>5 DEF HolderInv
<1>10. ConsumerInv(r)'
  <2>1. r \in ExecuteReqs => req[r].pc = "claim"
    BY Zenon, <1>1, LifecycleAssumption DEF ConsumerInv
  <2>. QED
    BY SMTT(120), <1>1, <1>2, <1>3, <1>5, <2>1 DEF ConsumerInv
<1>. QED
  BY Zenon, <1>2, <1>3, <1>5, <1>6, <1>8, <1>9, <1>10, RequestStep

(* A claim that took effect but whose answer was lost. *)
LEMMA LostClaim ==
  ASSUME LifecycleInv, NEW r \in Requests,
         approvals[req[r].pid].status = "approved",
         Use(req[r].pid, req[r].at), Answer(r, "refused"),
         UNCHANGED <<now, externalActions, previews, evidence>>
  PROVE  LifecycleInv'
<1>1. req[r].pid \in PreviewIds /\ req[r].at \in Nat
  BY Zenon DEF LifecycleInv, TypeOK, Locals
<1>. QED
  BY Zenon, <1>1, UsedRows, AnswerStep

(* CLAIM_FOR_RUNTIME_SQL *)
LEMMA ExecuteClaimStep ==
  ASSUME LifecycleInv, NEW r \in Requests, ExecuteClaim(r)
  PROVE  LifecycleInv'
<1>1. CASE Claimable(approvals[req[r].pid], req[r]) /\ Use(req[r].pid, req[r].at)
  <2>1. approvals[req[r].pid].status = "approved" /\ approvals[req[r].pid].content = req[r].content
    BY Zenon, <1>1 DEF Claimable
  <2>2. CASE req' = [req EXCEPT ![r].pc = "read_back"]
    BY Zenon, <1>1, <2>1, <2>2, WonClaim DEF ExecuteClaim
  <2>3. CASE Answer(r, "refused")
    BY Zenon, <1>1, <2>1, <2>3, LostClaim DEF ExecuteClaim
  <2>4. (req' = [req EXCEPT ![r].pc = "read_back"]) \/ Answer(r, "refused")
    BY Zenon DEF ExecuteClaim
  <2>. QED
    BY Zenon, <2>2, <2>3, <2>4
<1>2. CASE UNCHANGED approvals /\ Answer(r, "refused")
  BY Zenon, <1>2, PlainAnswer DEF ExecuteClaim
<1>. QED
  BY Zenon, <1>1, <1>2 DEF ExecuteClaim

(* MARK_USED_SQL: the content was compared when the row was verified. *)
LEMMA MarkUsedStep ==
  ASSUME LifecycleInv, NEW r \in Requests, MarkUsed(r)
  PROVE  LifecycleInv'
<1>1. CASE Markable(approvals[req[r].pid], req[r]) /\ Use(req[r].pid, req[r].at)
  <2>1. approvals[req[r].pid].status = "approved" /\ approvals[req[r].pid].content = req[r].content
    BY Zenon, <1>1 DEF Markable, MarkUsed, LifecycleInv, ConsumerInv
  <2>2. CASE req' = [req EXCEPT ![r].pc = "read_back"]
    BY ZenonT(120), <1>1, <2>1, <2>2, WonClaim DEF MarkUsed
  <2>3. CASE Answer(r, "refused")
    BY Zenon, <1>1, <2>1, <2>3, LostClaim DEF MarkUsed
  <2>4. (req' = [req EXCEPT ![r].pc = "read_back"]) \/ Answer(r, "refused")
    BY Zenon DEF MarkUsed
  <2>. QED
    BY Zenon, <2>2, <2>3, <2>4
<1>2. CASE UNCHANGED approvals /\ Answer(r, "refused")
  BY Zenon, <1>2, PlainAnswer DEF MarkUsed
<1>. QED
  BY Zenon, <1>1, <1>2 DEF MarkUsed

(* The read-back: the holder is answered, or its answer is lost. *)
LEMMA ReadBackStep ==
  ASSUME LifecycleInv, NEW r \in Requests, ReadBack(r)
  PROVE  LifecycleInv'
<1>1. CASE Answer(r, "refused")
  BY Zenon, <1>1, PlainAnswer DEF ReadBack
<1>2. CASE Reply(r, "authorized")
  <2>1. /\ TypeOK /\ req[r].pc = "read_back" /\ Holding(r)
        /\ PosterInv(r) /\ ConsumerInv(r) /\ HolderInv(r)
    BY Zenon DEF LifecycleInv, ReadBack, Holding
  <2>2. req' = [req EXCEPT ![r].pc = "done", ![r].resp = "authorized"] /\ "done" \in Awaits
    BY Zenon, <1>2 DEF Reply, Awaits
  <2>3. /\ req' \in [Requests -> Locals]
        /\ req'[r].pc = "done" /\ req'[r].resp = "authorized"
        /\ req'[r].user = req[r].user /\ req'[r].pid = req[r].pid
        /\ req'[r].content = req[r].content /\ req'[r].decision = req[r].decision
        /\ req'[r].at = req[r].at /\ req'[r].switchAt = req[r].switchAt
        /\ req'[r].expiresAt = req[r].expiresAt
        /\ \A s \in Requests \ {r} : req'[s] = req[s]
    BY ZenonT(120), <2>1, <2>2, MovedLocals
  <2>4. UNCHANGED <<now, externalActions, previews, approvals, evidence>>
    BY Zenon DEF ReadBack
  <2>5. TypeOK'
    BY Zenon, <2>1, <2>3, <2>4 DEF TypeOK
  <2>6. PosterInv(r)' /\ HolderInv(r)'
    BY ZenonT(120), <2>1, <2>3, <2>4 DEF PosterInv, HolderInv
  <2>7. ConsumerInv(r)'
    BY Zenon, <2>1, <2>3, <2>4 DEF ConsumerInv
  <2>. QED
    BY Zenon, <2>1, <2>3, <2>4, <2>5, <2>6, <2>7, SameRows, RequestStep
<1>. QED
  BY Zenon, <1>1, <1>2 DEF ReadBack

(* The tool backend captures its instant. *)
LEMMA BackendPostStep ==
  ASSUME LifecycleInv, NEW r \in Requests, r \in BackendReqs, BackendPost(r)
  PROVE  LifecycleInv'
<1>1. PICK p \in PreviewIds, c \in Contents :
        req' = [req EXCEPT ![r] = [Blank EXCEPT !.pc = "verify", !.pid = p,
                                                !.content = c, !.at = now]]
  BY Zenon DEF BackendPost
<1>. DEFINE q == [Blank EXCEPT !.pc = "verify", !.pid = p, !.content = c, !.at = now]
<1>2. now \in Nat
  BY DEF LifecycleInv, TypeOK, Time
<1>3. q \in Locals /\ q.pc = "verify" /\ q.resp = "none"
  BY Zenon, <1>2, BlankTypes DEF Blank, Locals, Awaits
<1>. HIDE DEF q
<1>4. TypeOK'
  BY Zenon, <1>1, <1>3 DEF BackendPost, LifecycleInv, TypeOK, q
<1>5. req'[r] = q /\ \A t \in Requests \ {r} : req'[t] = req[t]
  BY Zenon, <1>1 DEF LifecycleInv, TypeOK, q
<1>6. ~ Holding(r)' /\ PosterInv(r)' /\ ConsumerInv(r)' /\ HolderInv(r)'
  BY Zenon, <1>3, <1>5 DEF Holding, Granted, PosterInv, ConsumerInv, HolderInv
<1>. QED
  BY Zenon, <1>4, <1>5, <1>6, SameRows, RequestStep DEF BackendPost

(* verifyApproval: the row's content is the caller's. *)
LEMMA VerifyApprovalStep ==
  ASSUME LifecycleInv, NEW r \in Requests, VerifyApproval(r)
  PROVE  LifecycleInv'
<1>. DEFINE q == [req[r] EXCEPT !.pc = "mark_used", !.at = now]
<1>1. CASE Answer(r, "refused")
  BY Zenon, <1>1, PlainAnswer DEF VerifyApproval
<1>2. CASE /\ approvals[req[r].pid].status = "approved"
           /\ approvals[req[r].pid].content = req[r].content
           /\ req' = [req EXCEPT ![r] = q]
  <2>1. req[r] \in Locals /\ now \in Nat
    BY DEF LifecycleInv, TypeOK, Time
  <2>2. /\ q \in Locals /\ q.pc = "mark_used" /\ q.resp = req[r].resp
        /\ q.decision = req[r].decision /\ q.pid = req[r].pid /\ q.content = req[r].content
    BY ZenonT(120), <2>1 DEF Locals, Awaits
  <2>3. PosterInv(r) /\ ConsumerInv(r) /\ req[r].resp = "none" /\ req[r].pc = "verify"
    BY Zenon DEF LifecycleInv, PosterInv, VerifyApproval
  <2>. HIDE DEF q
  <2>4. TypeOK'
    BY Zenon, <1>2, <2>2 DEF VerifyApproval, LifecycleInv, TypeOK
  <2>5. req'[r] = q /\ \A t \in Requests \ {r} : req'[t] = req[t]
    BY Zenon, <1>2 DEF LifecycleInv, TypeOK
  <2>6. UNCHANGED <<now, externalActions, previews, approvals, evidence>>
    BY Zenon DEF VerifyApproval
  <2>7. ~ Holding(r)' /\ PosterInv(r)' /\ HolderInv(r)'
    BY ZenonT(120), <2>2, <2>3, <2>5 DEF Holding, Granted, PosterInv, HolderInv
  <2>8. ConsumerInv(r)'
    BY ZenonT(120), <1>2, <2>2, <2>3, <2>5, <2>6, <2>7 DEF ConsumerInv
  <2>. QED
    BY Zenon, <2>4, <2>5, <2>6, <2>7, <2>8, SameRows, RequestStep
<1>. QED
  BY Zenon, <1>1, <1>2 DEF VerifyApproval

(* Steps of the environment leave every row and every handler alone. *)
LEMMA EnvironmentStep ==
  ASSUME LifecycleInv, TypeOK', ClockStep, UNCHANGED <<previews, approvals, req>>,
         \A p \in PreviewIds : BundleInv(evidence[p], p)'
  PROVE  LifecycleInv'
<1>1. \A p \in PreviewIds : WriteOnce(p) /\ RowInv(p)'
  BY Zenon, SameRows
<1>2. \A s \in Requests : PosterInv(s)' /\ ConsumerInv(s)' /\ HolderInv(s)'
  BY Zenon, <1>1, IdleRequest
<1>3. OneHolder'
  BY Zenon DEF LifecycleInv, OneHolder, Holding, Granted
<1>. QED
  BY Zenon, <1>1, <1>2, <1>3 DEF LifecycleInv

(* Evidence is linked over the rows as they are. *)
LEMMA LinkEvidenceStep ==
  ASSUME LifecycleInv, NEW p \in PreviewIds, LinkEvidence(p)
  PROVE  LifecycleInv'
<1>1. PICK c \in Contents : evidence' = [evidence EXCEPT ![p] =
         [present |-> TRUE, content |-> c, approver |-> approvals[p].approver, flaws |-> {},
          previewExpiresAt |-> previews[p].expiresAt,
          approvalExpiresAt |-> approvals[p].expiresAt,
          reviewExpiresAt |-> now + REVIEW_TTL]]
  BY Zenon DEF LinkEvidence
<1>. DEFINE b == [present |-> TRUE, content |-> c, approver |-> approvals[p].approver,
                  flaws |-> {}, previewExpiresAt |-> previews[p].expiresAt,
                  approvalExpiresAt |-> approvals[p].expiresAt,
                  reviewExpiresAt |-> now + REVIEW_TTL]
<1>2. now + REVIEW_TTL \in Nat /\ approvals[p] \in ApprovalRows /\ previews[p] \in PreviewRows
  BY SMTT(120), LifecycleAssumption DEF LifecycleInv, TypeOK, Time
<1>3. b \in Bundles
  BY Zenon, <1>2 DEF Bundles, ApprovalRows, PreviewRows
<1>4. TypeOK'
  BY Zenon, <1>1, <1>3 DEF LinkEvidence, LifecycleInv, TypeOK
<1>5. ClockStep
  BY DEF LinkEvidence, ClockStep, LifecycleInv, TypeOK, Time
<1>6. ASSUME NEW o \in PreviewIds
      PROVE  BundleInv(evidence[o], o)'
  <2>1. CASE o = p
    BY ZenonT(120), <1>1, <2>1 DEF LinkEvidence, BundleInv, LifecycleInv, TypeOK
  <2>2. CASE o # p
    BY Zenon, <1>1, <2>2 DEF LinkEvidence, BundleInv, LifecycleInv, TypeOK
  <2>. QED
    BY Zenon, <2>1, <2>2
<1>. QED
  BY Zenon, <1>4, <1>5, <1>6, EnvironmentStep DEF LinkEvidence

(* A flaw changes none of the fields that repeat the rows. *)
LEMMA RaiseFlawStep ==
  ASSUME LifecycleInv, NEW p \in PreviewIds, RaiseFlaw(p)
  PROVE  LifecycleInv'
<1>1. PICK f \in RaisedFlaws :
        evidence' = [evidence EXCEPT ![p].flaws = @ \cup {f}]
  BY Zenon DEF RaiseFlaw
<1>. DEFINE b == [evidence[p] EXCEPT !.flaws = @ \cup {f}]
<1>2. evidence[p] \in Bundles /\ f \in Flaws
  BY Zenon, LifecycleAssumption DEF LifecycleInv, TypeOK
<1>3. /\ b \in Bundles /\ b.present = evidence[p].present /\ b.approver = evidence[p].approver
      /\ b.previewExpiresAt = evidence[p].previewExpiresAt
      /\ b.approvalExpiresAt = evidence[p].approvalExpiresAt
  BY Zenon, <1>2 DEF Bundles
<1>4. evidence' = [evidence EXCEPT ![p] = b]
  BY Zenon, <1>1 DEF LifecycleInv, TypeOK
<1>. HIDE DEF b
<1>5. TypeOK'
  BY Zenon, <1>3, <1>4 DEF RaiseFlaw, LifecycleInv, TypeOK
<1>6. ClockStep
  BY DEF RaiseFlaw, ClockStep, LifecycleInv, TypeOK, Time
<1>7. ASSUME NEW o \in PreviewIds
      PROVE  BundleInv(evidence[o], o)'
  <2>1. BundleInv(evidence[o], o)
    BY Zenon DEF LifecycleInv
  <2>2. CASE o = p
    BY Zenon, <1>3, <1>4, <2>1, <2>2 DEF RaiseFlaw, BundleInv, LifecycleInv, TypeOK
  <2>3. CASE o # p
    BY Zenon, <1>4, <2>1, <2>3 DEF RaiseFlaw, BundleInv, LifecycleInv, TypeOK
  <2>. QED
    BY Zenon, <2>2, <2>3
<1>. QED
  BY Zenon, <1>5, <1>6, <1>7, EnvironmentStep DEF RaiseFlaw

(* The clock and the kill switch. *)
LEMMA ClockSteps ==
  ASSUME LifecycleInv, Tick \/ FlipKillSwitch
  PROVE  LifecycleInv'
<1>1. \A p \in PreviewIds : BundleInv(evidence[p], p)'
  BY Zenon DEF Tick, FlipKillSwitch, BundleInv, LifecycleInv
<1>2. CASE Tick
  <2>1. TypeOK'
    BY <1>2, LifecycleAssumption DEF Tick, LifecycleInv, TypeOK, Time
  <2>2. ClockStep
    BY <1>2 DEF Tick, ClockStep, LifecycleInv, TypeOK, Time
  <2>. QED
    BY Zenon, <1>1, <1>2, <2>1, <2>2, EnvironmentStep DEF Tick
<1>3. CASE FlipKillSwitch
  <2>1. TypeOK'
    BY SMTT(120), <1>3, LifecycleAssumption DEF FlipKillSwitch, LifecycleInv, TypeOK, Time
  <2>2. ClockStep
    BY SMTT(120), <1>3 DEF FlipKillSwitch, ClockStep, LifecycleInv, TypeOK, Time
  <2>. QED
    BY Zenon, <1>1, <1>3, <2>1, <2>2, EnvironmentStep DEF FlipKillSwitch
<1>. QED
  BY Zenon, <1>2, <1>3

(* The initial state: nothing decided, nothing linked, every handler idle. *)
LEMMA InitStep ==
  Init => LifecycleInv
<1>. SUFFICES ASSUME Init PROVE LifecycleInv
  BY Zenon
<1>1. TypeOK
  <2>1. PICK c \in Contents :
          previews = [p \in PreviewIds |->
            IF p \in UnattributedIds
            THEN [status |-> "preview", creator |-> NoUser, content |-> c,
                  expiresAt |-> PREVIEW_TTL]
            ELSE NoPreview]
    BY Zenon DEF Init
  <2>2. [status |-> "preview", creator |-> NoUser, content |-> c,
         expiresAt |-> PREVIEW_TTL] \in PreviewRows
    BY Zenon, LifecycleAssumption DEF PreviewRows
  <2>3. previews \in [PreviewIds -> PreviewRows]
    BY Zenon, <2>1, <2>2, BlankTypes
  <2>. QED
    BY <2>3, BlankTypes, LifecycleAssumption DEF Init, TypeOK, Time
<1>2. \A p \in PreviewIds : approvals[p].status = "absent" /\ ~ evidence[p].present
  BY Zenon DEF Init, NoApproval, NoBundle
<1>3. \A r \in Requests : req[r].pc = "idle" /\ req[r].resp = "none"
  BY Zenon, BlankTypes DEF Init
<1>4. \A r \in Requests : ~ Holding(r) /\ PosterInv(r) /\ ConsumerInv(r) /\ HolderInv(r)
  BY Zenon, <1>3 DEF Holding, Granted, PosterInv, ConsumerInv, HolderInv
<1>. QED
  BY Zenon, <1>1, <1>2, <1>4 DEF LifecycleInv, RowInv, BundleInv, OneHolder

(* Every step of every handler and of the environment preserves it. *)
LEMMA NextStep ==
  LifecycleInv /\ [Next]_vars => LifecycleInv'
<1>. SUFFICES ASSUME LifecycleInv, [Next]_vars PROVE LifecycleInv'
  BY Zenon
<1>1. ASSUME NEW r \in Requests, Begin(r)
      PROVE  LifecycleInv'
  BY Zenon, <1>1, RefuseStep, PreviewPostStep, ApprovalPostStep, ToolsPostStep, BackendPostStep
     DEF Begin
<1>2. ASSUME NEW r \in Requests, Continue(r)
      PROVE  LifecycleInv'
  BY Zenon, <1>2, InsertPreviewStep, LookupDecisionStep, InsertApprovalStep, ResolveEvidenceStep,
     FinalizeStep, ExecuteClaimStep, ReadBackStep, VerifyApprovalStep, MarkUsedStep
     DEF Continue
<1>3. CASE UNCHANGED vars
  <2>1. TypeOK' /\ ClockStep /\ \A p \in PreviewIds : BundleInv(evidence[p], p)'
    BY SMTT(120), <1>3 DEF vars, LifecycleInv, TypeOK, BundleInv, ClockStep, Time
  <2>. QED
    BY Zenon, <1>3, <2>1, EnvironmentStep DEF vars
<1>. QED
  BY Zenon, <1>1, <1>2, <1>3, LinkEvidenceStep, RaiseFlawStep, ClockSteps DEF Next, Finished

(***************************************************************************)
(* LifecycleInv, the inductive invariant of the approval lifecycle, holds  *)
(* in every reachable state, for any tenant, requests, contents and TTLs.  *)
(***************************************************************************)
THEOREM LifecycleInvariant == Spec => []LifecycleInv
BY InitStep, NextStep, PTL DEF Spec

(* Every row and every handler local keeps its declared type. *)
THEOREM TypeCorrectness == Spec => []TypeOK
<1>1. LifecycleInv => TypeOK
  BY Zenon DEF LifecycleInv
<1>. QED
  BY <1>1, LifecycleInvariant, PTL

(* Of all gate requests and tool-backend calls, at most one is ever granted *)
(* an approval, and the approval row records that use.                      *)
THEOREM ApprovalsAreUsedOnce == Spec => []OneTimeUse
<1>1. LifecycleInv => OneTimeUse
  BY Zenon DEF LifecycleInv, OneHolder, HolderInv, Holding, OneTimeUse
<1>. QED
  BY <1>1, LifecycleInvariant, PTL

(* What was granted is what was approved, which is what was previewed. *)
THEOREM GrantsAreBoundToPreviews == Spec => []ExactBinding
<1>1. ASSUME LifecycleInv, NEW r \in Requests, Granted(r)
      PROVE  /\ req[r].content = approvals[req[r].pid].content
             /\ req[r].content = previews[req[r].pid].content
  <2>1. req[r].pid \in PreviewIds
    BY Zenon, <1>1 DEF LifecycleInv, TypeOK, Locals
  <2>. QED
    BY Zenon, <1>1, <2>1 DEF LifecycleInv, HolderInv, RowInv, Holding
<1>2. LifecycleInv => ExactBinding
  BY Zenon, <1>1 DEF ExactBinding
<1>. QED
  BY <1>2, LifecycleInvariant, PTL

(* No approval exists that its preview's creator gave, or that nobody gave. *)
THEOREM ApprovalsTakeFourEyes == Spec => []FourEyes
<1>1. LifecycleInv => FourEyes
  BY Zenon DEF LifecycleInv, RowInv, FourEyes
<1>. QED
  BY <1>1, LifecycleInvariant, PTL

(* The gate never issues a receipt to the approver of the action. *)
THEOREM ApproversDoNotExecute == Spec => []ApproverNeverExecutes
<1>1. LifecycleInv => ApproverNeverExecutes
  BY ZenonT(120) DEF LifecycleInv, ConsumerInv, Holding, ApproverNeverExecutes, Requests
<1>. QED
  BY <1>1, LifecycleInvariant, PTL

(* A receipt lies inside the windows of its approval and its preview. *)
THEOREM ReceiptsLieWithinWindows == Spec => []ReceiptWithinWindows
<1>1. LifecycleInv => ReceiptWithinWindows
  BY ZenonT(120) DEF LifecycleInv, ConsumerInv, Holding, ReceiptWithinWindows, Requests
<1>. QED
  BY <1>1, LifecycleInvariant, PTL

(* An acknowledged preview or decision is the one that is stored. *)
THEOREM AcknowledgementsStand == Spec => []AcknowledgedWritesStand
<1>1. ASSUME LifecycleInv, NEW r \in Requests, req[r].resp = "created"
      PROVE  IF req[r].decision = "none"
             THEN /\ previews[req[r].pid].creator = req[r].user
                  /\ previews[req[r].pid].content = req[r].content
             ELSE LET row == approvals[req[r].pid] IN
                  IF req[r].decision = "rejected" THEN row.status = "rejected"
                  ELSE row.status \in {"approved", "used"} /\ row.approver = req[r].user
  BY ZenonT(120), <1>1 DEF LifecycleInv, TypeOK, Locals, PosterInv
<1>2. LifecycleInv => AcknowledgedWritesStand
  BY Zenon, <1>1 DEF AcknowledgedWritesStand
<1>. QED
  BY <1>2, LifecycleInvariant, PTL

(* No decision is dated after its preview expired. *)
THEOREM StalePreviewsAreNotDecided == Spec => []NoWindowFromStalePreview
<1>1. LifecycleInv => NoWindowFromStalePreview
  BY ZenonT(120) DEF LifecycleInv, RowInv, NoWindowFromStalePreview
<1>. QED
  BY <1>1, LifecycleInvariant, PTL

(* No receipt rests on a reading of the switch made after it was turned off. *)
THEOREM KillSwitchHolds == Spec => []KillSwitchStopsClaims
<1>1. LifecycleInv => KillSwitchStopsClaims
  BY Zenon DEF LifecycleInv, ConsumerInv, Holding, KillSwitchStopsClaims, Requests
<1>. QED
  BY <1>1, LifecycleInvariant, PTL
-----------------------------------------------------------------------------
(* What a handler writes: an absent preview, an absent decision, or a use. *)
LEMMA RowWrites ==
  ASSUME LifecycleInv, [Next]_vars
  PROVE  \/ UNCHANGED <<previews, approvals>>
         \/ \E p \in PreviewIds : /\ previews[p].status = "absent"
                                  /\ \A o \in PreviewIds \ {p} : previews'[o] = previews[o]
                                  /\ UNCHANGED approvals
         \/ \E p \in PreviewIds : \E row \in ApprovalRows :
              /\ row.status \in {"approved", "rejected"}
              /\ approvals[p].status = "absent"
              /\ approvals' = [approvals EXCEPT ![p] = row]
              /\ UNCHANGED previews
         \/ \E p \in PreviewIds : \E t \in Nat :
              /\ approvals[p].status = "approved"
              /\ approvals' = [approvals EXCEPT ![p].status = "used", ![p].usedAt = t]
              /\ UNCHANGED previews
<1>1. ASSUME NEW r \in Requests, Continue(r)
      PROVE  \/ UNCHANGED <<previews, approvals>>
             \/ InsertPreview(r) \/ InsertApproval(r) \/ ExecuteClaim(r) \/ MarkUsed(r)
  BY Zenon, <1>1 DEF Continue, LookupDecision, ResolveEvidence, Finalize, ReadBack, VerifyApproval
<1>2. ASSUME NEW r \in Requests
      PROVE  /\ req[r].pid \in PreviewIds /\ req[r].at \in Nat /\ req[r] \in Locals
             /\ PosterInv(r)
  BY Zenon DEF LifecycleInv, TypeOK, Locals
<1>3. ASSUME NEW r \in Requests, InsertPreview(r), ~ UNCHANGED <<previews, approvals>>
      PROVE  /\ previews[req[r].pid].status = "absent"
             /\ \A o \in PreviewIds \ {req[r].pid} : previews'[o] = previews[o]
             /\ UNCHANGED approvals
  BY Zenon, <1>2, <1>3 DEF InsertPreview, LifecycleInv, TypeOK
<1>4. ASSUME NEW r \in Requests, InsertApproval(r), ~ UNCHANGED <<previews, approvals>>
      PROVE  /\ DecisionRow(req[r]) \in ApprovalRows
             /\ DecisionRow(req[r]).status \in {"approved", "rejected"}
             /\ approvals[req[r].pid].status = "absent"
             /\ approvals' = [approvals EXCEPT ![req[r].pid] = DecisionRow(req[r])]
             /\ UNCHANGED previews
  <2>1. req[r].decision \in {"approved", "rejected"}
    BY ZenonT(120), <1>2, <1>4 DEF InsertApproval, PosterInv
  <2>2. DecisionRow(req[r]) \in ApprovalRows
    BY ZenonT(120), <1>2, <2>1 DEF DecisionRow, ApprovalRows, Locals
  <2>3. DecisionRow(req[r]).status = req[r].decision
    BY Zenon DEF DecisionRow
  <2>. QED
    BY ZenonT(120), <1>4, <2>1, <2>2, <2>3 DEF InsertApproval
<1>5. ASSUME NEW r \in Requests, ExecuteClaim(r) \/ MarkUsed(r), ~ UNCHANGED <<previews, approvals>>
      PROVE  /\ approvals[req[r].pid].status = "approved"
             /\ approvals' = [approvals EXCEPT ![req[r].pid].status = "used",
                                               ![req[r].pid].usedAt = req[r].at]
             /\ UNCHANGED previews
  BY Zenon, <1>5 DEF ExecuteClaim, MarkUsed, Claimable, Markable, Use
<1>6. ASSUME NEW r \in Requests, Begin(r)
      PROVE  UNCHANGED <<previews, approvals>>
  BY Zenon, <1>6 DEF Begin, Refuse, PreviewPost, ApprovalPost, ToolsPost, BackendPost
<1>7. ASSUME NEW p \in PreviewIds, LinkEvidence(p) \/ RaiseFlaw(p)
      PROVE  UNCHANGED <<previews, approvals>>
  BY Zenon, <1>7 DEF LinkEvidence, RaiseFlaw
<1>8. CASE Tick \/ FlipKillSwitch \/ UNCHANGED vars
  BY Zenon, <1>8 DEF Tick, FlipKillSwitch, vars
<1>9. ASSUME NEW r \in Requests, Continue(r), ~ UNCHANGED <<previews, approvals>>
      PROVE  \/ \E p \in PreviewIds : /\ previews[p].status = "absent"
                                      /\ \A o \in PreviewIds \ {p} : previews'[o] = previews[o]
                                      /\ UNCHANGED approvals
             \/ \E p \in PreviewIds : \E row \in ApprovalRows :
                   /\ row.status \in {"approved", "rejected"}
                   /\ approvals[p].status = "absent"
                   /\ approvals' = [approvals EXCEPT ![p] = row]
                   /\ UNCHANGED previews
             \/ \E p \in PreviewIds : \E t \in Nat :
                   /\ approvals[p].status = "approved"
                   /\ approvals' = [approvals EXCEPT ![p].status = "used", ![p].usedAt = t]
                   /\ UNCHANGED previews
  <2>1. CASE InsertPreview(r)
    BY Zenon, <1>2, <1>3, <1>9, <2>1
  <2>2. CASE InsertApproval(r)
    BY Zenon, <1>2, <1>4, <1>9, <2>2
  <2>3. CASE ExecuteClaim(r) \/ MarkUsed(r)
    BY Zenon, <1>2, <1>5, <1>9, <2>3
  <2>. QED
    BY Zenon, <1>1, <1>9, <2>1, <2>2, <2>3
<1>. QED
  BY Zenon, <1>6, <1>7, <1>8, <1>9 DEF Next, Finished

(***************************************************************************)
(* Rows are write-once: the D1 INSERTs never replace a row, and the two    *)
(* conditional UPDATEs only ever turn an approved row into a used one.     *)
(***************************************************************************)
THEOREM RowsAreWriteOnce == Spec => DecisionsFinal
<1>. DEFINE Final(p) ==
       /\ previews[p].status # "absent" => previews'[p] = previews[p]
       /\ approvals[p].status # "absent" /\ approvals'[p] # approvals[p] =>
            /\ approvals[p].status = "approved"
            /\ approvals'[p] = [approvals[p] EXCEPT !.status = "used",
                                                    !.usedAt = approvals'[p].usedAt]
<1>1. ASSUME LifecycleInv, [Next]_vars, NEW p \in PreviewIds
      PROVE  Final(p)
  <2>1. approvals \in [PreviewIds -> ApprovalRows] /\ approvals[p] \in ApprovalRows
    BY Zenon, <1>1 DEF LifecycleInv, TypeOK
  <2>2. CASE \E o \in PreviewIds : \E t \in Nat :
              /\ approvals[o].status = "approved"
              /\ approvals' = [approvals EXCEPT ![o].status = "used", ![o].usedAt = t]
              /\ UNCHANGED previews
    <3>1. PICK o \in PreviewIds, t \in Nat :
            /\ approvals[o].status = "approved"
            /\ approvals' = [approvals EXCEPT ![o].status = "used", ![o].usedAt = t]
            /\ UNCHANGED previews
      BY Zenon, <2>2
    <3>2. CASE o # p
      BY Zenon, <2>1, <3>1, <3>2
    <3>3. CASE o = p
      <4>1. approvals'[p] = [approvals[p] EXCEPT !.status = "used", !.usedAt = t]
        BY Zenon, <2>1, <3>1, <3>3
      <4>2. approvals'[p].usedAt = t
        BY Zenon, <2>1, <4>1 DEF ApprovalRows
      <4>. QED
        BY Zenon, <3>1, <3>3, <4>1, <4>2
    <3>. QED
      BY Zenon, <3>2, <3>3
  <2>3. CASE \E o \in PreviewIds : \E row \in ApprovalRows :
              /\ approvals[o].status = "absent"
              /\ approvals' = [approvals EXCEPT ![o] = row]
              /\ UNCHANGED previews
    BY Zenon, <2>1, <2>3
  <2>4. CASE \E o \in PreviewIds : /\ previews[o].status = "absent"
                                   /\ \A i \in PreviewIds \ {o} : previews'[i] = previews[i]
                                   /\ UNCHANGED approvals
    BY Zenon, <2>4
  <2>5. CASE UNCHANGED <<previews, approvals>>
    BY Zenon, <2>5
  <2>. HIDE DEF Final
  <2>6. LifecycleInv /\ [Next]_vars
    BY Zenon, <1>1
  <2>. QED
    BY Zenon, <2>2, <2>3, <2>4, <2>5, <2>6, RowWrites
<1>2. LifecycleInv /\ [Next]_vars => [\A p \in PreviewIds : Final(p)]_vars
  BY Zenon, <1>1
<1>. QED
  BY <1>2, LifecycleInvariant, PTL DEF Spec, DecisionsFinal

-----------------------------------------------------------------------------
(***************************************************************************)
(* The approval lifecycle implements OneTimeApproval: a decision is the    *)
(* status of its row, the holders of an approval are the requests that     *)
(* were answered with a grant.  INSERT is Decide, a winning UPDATE is      *)
(* Spend, the answer after the read-back is Grant, and every other step of *)
(* a handler or of the environment is a stutter.                           *)
(***************************************************************************)

Decisions == [p \in PreviewIds |-> approvals[p].status]

Grants == [p \in PreviewIds |-> {r \in Requests : Granted(r) /\ req[r].pid = p}]

(* A handler that has not been answered, and is not granted anything now,  *)
(* leaves every approval with the holders it had.                          *)
LEMMA SameGrants ==
  ASSUME LifecycleInv, NEW r \in Requests, req[r].pc # "done",
         \A s \in Requests \ {r} : req'[s] = req[s],
         req'[r].resp # "authorized"
  PROVE  Grants' = Grants
<1>1. ~ Granted(r) /\ ~ Granted(r)'
  BY Zenon DEF LifecycleInv, PosterInv, Granted
<1>2. ASSUME NEW p \in PreviewIds
      PROVE  {s \in Requests : Granted(s) /\ req[s].pid = p}' =
             {s \in Requests : Granted(s) /\ req[s].pid = p}
  BY Zenon, <1>1 DEF Granted
<1>. QED
  BY Zenon, <1>2 DEF Grants

(* An answer that grants nothing. *)
LEMMA AnswerGrantsNothing ==
  ASSUME LifecycleInv, NEW r \in Requests, NEW resp \in {"refused", "failed", "conflict"},
         Answer(r, resp)
  PROVE  /\ \A s \in Requests \ {r} : req'[s] = req[s]
         /\ req'[r].resp # "authorized"
BY Zenon, RefusedLocals DEF Answer, LifecycleInv, TypeOK

(* A request that begins has not been answered and is granted nothing. *)
LEMMA BeginGrantsNothing ==
  ASSUME LifecycleInv, NEW r \in Requests, Begin(r)
  PROVE  Grants' = Grants /\ Decisions' = Decisions
<1>1. req[r].pc = "idle" /\ UNCHANGED approvals
  BY Zenon DEF Begin, Refuse, PreviewPost, ApprovalPost, ToolsPost, BackendPost
<1>2. req \in [Requests -> Locals]
  BY Zenon DEF LifecycleInv, TypeOK
<1>3. CASE Answer(r, "refused")
  BY Zenon, <1>1, <1>3, AnswerGrantsNothing, SameGrants DEF Decisions
<1>4. CASE PreviewPost(r)
  <2>1. PICK u \in Users, s \in Subjects, c \in Contents :
          req' = [req EXCEPT ![r] = [Blank EXCEPT !.pc = "insert_preview", !.user = u,
                    !.pid = <<s, now>>, !.content = c, !.expiresAt = now + PREVIEW_TTL]]
    BY Zenon, <1>4 DEF PreviewPost
  <2>2. req'[r].resp = "none" /\ \A t \in Requests \ {r} : req'[t] = req[t]
    BY Zenon, <1>2, <2>1 DEF Blank
  <2>. QED
    BY Zenon, <1>1, <2>2, SameGrants DEF Decisions
<1>5. CASE ApprovalPost(r) /\ ~ Answer(r, "refused")
  <2>1. PICK u \in Users, p \in PreviewIds, d \in {"approved", "rejected"} :
          req' = [req EXCEPT ![r] = [Blank EXCEPT !.pc = "lookup_decision", !.user = u,
                    !.pid = p, !.decision = d, !.content = previews[p].content]]
    BY Zenon, <1>5 DEF ApprovalPost
  <2>2. req'[r].resp = "none" /\ \A t \in Requests \ {r} : req'[t] = req[t]
    BY Zenon, <1>2, <2>1 DEF Blank
  <2>. QED
    BY Zenon, <1>1, <2>2, SameGrants DEF Decisions
<1>6. CASE ToolsPost(r) /\ ~ Answer(r, "refused")
  <2>1. PICK u \in Users, p \in PreviewIds :
          req' = [req EXCEPT ![r] = [Blank EXCEPT !.pc = "resolve", !.user = u, !.pid = p,
                    !.switchAt = now, !.sessionExpiresAt = now + SESSION_TTL]]
    BY Zenon, <1>6 DEF ToolsPost
  <2>2. req'[r].resp = "none" /\ \A t \in Requests \ {r} : req'[t] = req[t]
    BY Zenon, <1>2, <2>1 DEF Blank
  <2>. QED
    BY Zenon, <1>1, <2>2, SameGrants DEF Decisions
<1>7. CASE BackendPost(r)
  <2>1. PICK p \in PreviewIds, c \in Contents :
          req' = [req EXCEPT ![r] = [Blank EXCEPT !.pc = "verify", !.pid = p,
                                                  !.content = c, !.at = now]]
    BY Zenon, <1>7 DEF BackendPost
  <2>2. req'[r].resp = "none" /\ \A t \in Requests \ {r} : req'[t] = req[t]
    BY Zenon, <1>2, <2>1 DEF Blank
  <2>. QED
    BY Zenon, <1>1, <2>2, SameGrants DEF Decisions
<1>. QED
  BY ZenonT(120), <1>3, <1>4, <1>5, <1>6, <1>7 DEF Begin, Refuse

(* Before the read-back no handler is granted anything. *)
LEMMA ContinueGrantsNothing ==
  ASSUME LifecycleInv, NEW r \in Requests, Continue(r),
         ~ (ReadBack(r) /\ Reply(r, "authorized"))
  PROVE  Grants' = Grants
<1>1. req[r].pc # "done" /\ req[r].resp = "none" /\ req \in [Requests -> Locals]
  BY Zenon DEF Continue, InsertPreview, LookupDecision, InsertApproval, ResolveEvidence, Finalize,
         ExecuteClaim, ReadBack, VerifyApproval, MarkUsed, LifecycleInv, PosterInv, TypeOK
<1>2. CASE \E resp \in {"refused", "failed", "conflict"} : Answer(r, resp)
  BY Zenon, <1>1, <1>2, AnswerGrantsNothing, SameGrants
<1>3. CASE Reply(r, "created")
  <2>1. req'[r].resp = "created" /\ \A t \in Requests \ {r} : req'[t] = req[t]
    BY Zenon, <1>1, <1>3 DEF Reply, Locals
  <2>. QED
    BY Zenon, <1>1, <2>1, SameGrants
<1>. DEFINE Moved == req'[r].resp = req[r].resp /\ \A t \in Requests \ {r} : req'[t] = req[t]
<1>4. CASE Moved
  BY Zenon, <1>1, <1>4, SameGrants
<1>5. CASE InsertPreview(r) \/ InsertApproval(r)
  BY Zenon, <1>2, <1>3, <1>5 DEF InsertPreview, InsertApproval
<1>6. CASE LookupDecision(r)
  <2>1. req' = [req EXCEPT ![r].pc = "insert_approval", ![r].at = now,
                           ![r].expiresAt = now + APPROVAL_TTL] => Moved
    BY <1>1 DEF Locals
  <2>. QED
    BY Zenon, <1>2, <1>4, <1>6, <2>1 DEF LookupDecision
<1>7. CASE ResolveEvidence(r)
  <2>1. req' = [req EXCEPT ![r].pc = "finalize", ![r].bundle = evidence[req[r].pid]] => Moved
    BY Zenon, <1>1 DEF Locals
  <2>. QED
    BY Zenon, <1>2, <1>4, <1>7, <2>1 DEF ResolveEvidence
<1>8. CASE Finalize(r)
  <2>1. req' = [req EXCEPT ![r].pc = "claim", ![r].at = now, ![r].content = req[r].bundle.content,
                  ![r].switchAt = IF KillSwitchSource = "request_scoped" THEN @ ELSE now,
                  ![r].expiresAt = AuthorizationExpiry(req[r].bundle, req[r].sessionExpiresAt, now)]
          => Moved
    BY <1>1 DEF Locals
  <2>. QED
    BY Zenon, <1>2, <1>4, <1>8, <2>1 DEF Finalize
<1>9. CASE ExecuteClaim(r) \/ MarkUsed(r)
  <2>1. req' = [req EXCEPT ![r].pc = "read_back"] => Moved
    BY Zenon, <1>1 DEF Locals
  <2>. QED
    BY Zenon, <1>2, <1>4, <1>9, <2>1 DEF ExecuteClaim, MarkUsed
<1>10. CASE VerifyApproval(r)
  <2>1. req' = [req EXCEPT ![r].pc = "mark_used", ![r].at = now] => Moved
    BY Zenon, <1>1 DEF Locals
  <2>. QED
    BY Zenon, <1>2, <1>4, <1>10, <2>1 DEF VerifyApproval
<1>. QED
  BY Zenon, <1>2, <1>5, <1>6, <1>7, <1>8, <1>9, <1>10 DEF Continue, ReadBack

(* The answer after the read-back is a Grant: the approval is spent and    *)
(* nobody else holds it.                                                   *)
LEMMA ReadBackGrants ==
  ASSUME LifecycleInv, NEW r \in Requests, ReadBack(r), Reply(r, "authorized")
  PROVE  /\ Decisions' = Decisions
         /\ Decisions[req[r].pid] = "used"
         /\ Grants[req[r].pid] = {}
         /\ Grants' = [Grants EXCEPT ![req[r].pid] = {r}]
<1>. DEFINE p == req[r].pid
<1>1. /\ req[r].pc = "read_back" /\ Holding(r) /\ ~ Granted(r)
      /\ req \in [Requests -> Locals] /\ req[r] \in Locals /\ p \in PreviewIds
  BY Zenon DEF ReadBack, Holding, Granted, LifecycleInv, PosterInv, TypeOK, Locals
<1>2. Decisions' = Decisions /\ Decisions[p] = "used"
  BY Zenon, <1>1 DEF ReadBack, Decisions, LifecycleInv, HolderInv
<1>3. \A s \in Requests : Granted(s) => req[s].pid # p
  BY Zenon, <1>1 DEF LifecycleInv, OneHolder, Holding
<1>4. Grants[p] = {}
  BY Zenon, <1>1, <1>3 DEF Grants
<1>5. /\ Granted(r)' /\ req'[r].pid = p
      /\ \A s \in Requests \ {r} : req'[s] = req[s] /\ (Granted(s)' <=> Granted(s))
  BY Zenon, <1>1 DEF Reply, Granted, Locals
<1>6. ASSUME NEW o \in PreviewIds
      PROVE  Grants'[o] = IF o = p THEN {r} ELSE Grants[o]
  <2>1. CASE o = p
    <3>1. Grants'[o] = {s \in Requests : Granted(s)' /\ req'[s].pid = o}
      BY Zenon DEF Grants
    <3>. QED
      BY SMTT(120), <1>3, <1>5, <2>1, <3>1
  <2>2. CASE o # p
    <3>1. /\ Grants'[o] = {s \in Requests : Granted(s)' /\ req'[s].pid = o}
          /\ Grants[o] = {s \in Requests : Granted(s) /\ req[s].pid = o}
      BY Zenon DEF Grants
    <3>. QED
      BY SMTT(120), <1>1, <1>5, <2>2, <3>1
  <2>. QED
    BY Zenon, <2>1, <2>2
<1>7. Grants' = [Grants EXCEPT ![p] = {r}]
  BY Zenon, <1>6 DEF Grants
<1>. QED
  BY Zenon, <1>2, <1>4, <1>7

(* A write to a decision is a Decide, a Spend or none. *)
LEMMA DecisionWrites ==
  ASSUME LifecycleInv, [Next]_vars
  PROVE  \/ Decisions' = Decisions
         \/ \E p \in PreviewIds : \E d \in {"approved", "rejected"} :
              Decisions[p] = "absent" /\ Decisions' = [Decisions EXCEPT ![p] = d]
         \/ \E p \in PreviewIds :
              Decisions[p] = "approved" /\ Decisions' = [Decisions EXCEPT ![p] = "used"]
<1>1. approvals \in [PreviewIds -> ApprovalRows]
  BY Zenon DEF LifecycleInv, TypeOK
<1>2. CASE UNCHANGED approvals
  BY Zenon, <1>2 DEF Decisions
<1>3. ASSUME NEW p \in PreviewIds, NEW row \in ApprovalRows,
             approvals[p].status = "absent", row.status \in {"approved", "rejected"},
             approvals' = [approvals EXCEPT ![p] = row]
      PROVE  Decisions[p] = "absent" /\ Decisions' = [Decisions EXCEPT ![p] = row.status]
  BY Zenon, <1>1, <1>3 DEF Decisions
<1>4. ASSUME NEW p \in PreviewIds, NEW t \in Nat, approvals[p].status = "approved",
             approvals' = [approvals EXCEPT ![p].status = "used", ![p].usedAt = t]
      PROVE  Decisions[p] = "approved" /\ Decisions' = [Decisions EXCEPT ![p] = "used"]
  <2>1. approvals[p] \in ApprovalRows /\ Decisions[p] = "approved"
    BY Zenon, <1>1, <1>4 DEF Decisions
  <2>2. approvals'[p].status = "used" /\ \A o \in PreviewIds \ {p} : approvals'[o] = approvals[o]
    BY Zenon, <1>1, <1>4, <2>1 DEF ApprovalRows
  <2>. QED
    BY Zenon, <2>1, <2>2 DEF Decisions
<1>. QED
  BY Zenon, <1>2, <1>3, <1>4, RowWrites

(* Every step of the lifecycle is a step of OneTimeApproval or a stutter. *)
LEMMA PromiseStep ==
  LifecycleInv /\ [Next]_vars => [Promise!Next]_(Promise!avars)
<1>. SUFFICES ASSUME LifecycleInv, [Next]_vars PROVE [Promise!Next]_(Promise!avars)
  BY Zenon
<1>1. CASE \E r \in Requests : ReadBack(r) /\ Reply(r, "authorized")
  <2>1. PICK r \in Requests : ReadBack(r) /\ Reply(r, "authorized")
    BY Zenon, <1>1
  <2>2. PICK p \in PreviewIds : p = req[r].pid
    BY Zenon DEF LifecycleInv, TypeOK, Locals
  <2>3. Promise!Grant(p, r)
    BY Zenon, <2>1, <2>2, ReadBackGrants DEF Promise!Grant, Decisions, Grants
  <2>. QED
    BY Zenon, <2>3 DEF Promise!Next
<1>2. CASE ~ \E r \in Requests : ReadBack(r) /\ Reply(r, "authorized")
  <2>1. Grants' = Grants
    <3>1. CASE UNCHANGED req
      BY Zenon, <3>1 DEF Grants, Granted
    <3>2. CASE \E r \in Requests : Begin(r) \/ Continue(r)
      BY Zenon, <1>2, <3>2, BeginGrantsNothing, ContinueGrantsNothing
    <3>. QED
      BY Zenon, <3>1, <3>2 DEF Next, LinkEvidence, RaiseFlaw, Tick, FlipKillSwitch, Finished, vars
  <2>2. CASE Decisions' = Decisions
    BY Zenon, <2>1, <2>2 DEF Promise!avars, Decisions, Grants
  <2>3. ASSUME NEW p \in PreviewIds, NEW d \in {"approved", "rejected"},
               Decisions[p] = "absent", Decisions' = [Decisions EXCEPT ![p] = d]
        PROVE  Promise!Next
    <3>1. Promise!Decide(p, d)
      BY Zenon, <2>1, <2>3 DEF Promise!Decide, Decisions, Grants
    <3>. QED
      BY Zenon, <3>1 DEF Promise!Next
  <2>4. ASSUME NEW p \in PreviewIds,
               Decisions[p] = "approved", Decisions' = [Decisions EXCEPT ![p] = "used"]
        PROVE  Promise!Next
    <3>1. Promise!Spend(p)
      BY Zenon, <2>1, <2>4 DEF Promise!Spend, Decisions, Grants
    <3>. QED
      BY Zenon, <3>1 DEF Promise!Next
  <2>. QED
    BY Zenon, <2>2, <2>3, <2>4, DecisionWrites
<1>. QED
  BY Zenon, <1>1, <1>2

(***************************************************************************)
(* The approval lifecycle implements its promise: decided at most once,    *)
(* spent at most once, granted at most once and only when spent.           *)
(***************************************************************************)
THEOREM LifecycleKeepsPromise == Spec => KeepsPromise
<1>1. Init => Promise!Init
  <2>. SUFFICES ASSUME Init PROVE Promise!Init
    BY Zenon
  <2>1. Decisions = [a \in PreviewIds |-> "absent"]
    BY Zenon DEF Init, Decisions, NoApproval
  <2>2. \A r \in Requests : ~ Granted(r)
    BY Zenon DEF Init, Granted, Blank
  <2>3. Grants = [a \in PreviewIds |-> {}]
    BY Zenon, <2>2 DEF Grants
  <2>. QED
    BY Zenon, <2>1, <2>3 DEF Promise!Init, Decisions, Grants
<1>. QED
  BY <1>1, PromiseStep, LifecycleInvariant, PTL DEF Spec, KeepsPromise, Promise!Spec
=============================================================================
