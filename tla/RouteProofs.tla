----------------------------- MODULE RouteProofs ----------------------------
(***************************************************************************)
(* What the approval routes rest on, for all constants: the dry run, the   *)
(* eligibility decision it asks for, and the stores behind the approval    *)
(* interface.                                                              *)
(***************************************************************************)
EXTENDS DryRun, EligibilityOverTime, ApprovalStores, TLAPS

-----------------------------------------------------------------------------
(***************************************************************************)
(* The dry run for a list of any length, any expiries, users and stored    *)
(* rows, and any interleaving with claims, revocations and the clock.      *)
(***************************************************************************)

(* What the policy layer's "eligible" says of the bundle it looked at. *)
LEMMA EligibleBundle ==
  ASSUME NEW b \in Bundles, NEW user, NEW session \in Nat, NEW t \in Nat,
         Disposition(b, user, session, t) = "verified"
  PROVE  user # b.approver /\ t < b.approvalExpiresAt /\ t < b.previewExpiresAt
<1>1. /\ b.previewExpiresAt \in Nat /\ b.approvalExpiresAt \in Nat /\ b.reviewExpiresAt \in Nat
      /\ MAX_AUTHORIZATION_TTL \in Nat
  BY Zenon, DryRunAssumption, AuthorizationTtlAssumption DEF Bundles
<1>2. LinkageState(ChainIssues(b, t)) # "eligible"
  BY Zenon DEF LinkageState
<1>3. Eligibility(b, user, session, t) = "eligible"
  BY Zenon DEF Disposition
<1>4. user # b.approver /\ ~(t >= AuthorizationExpiry(b, session, t))
  BY Zenon, <1>2, <1>3 DEF Eligibility
<1> QED
  BY <1>1, <1>4 DEF AuthorizationExpiry, LinkageExpiresAt, MinIso

(* A verified binding is of an approved row of this work unit and type. *)
LEMMA VerifiedBinding ==
  ASSUME NEW row \in Rows, NEW at
  PROVE  /\ Binding(row, at) \in {"verified", "not_ready", "invalid_request"}
         /\ Binding(row, at) = "verified" => row.binding = "bound" /\ row.status = "approved"
BY Zenon DEF Binding, Rows

LEMMA InitInv == Init => DryRunInv
<1> SUFFICES ASSUME Init PROVE DryRunInv
  BY Zenon
<1>1. rows \in [Refs -> Rows] /\ 0 \in 0..MaxTime /\ now = 0 /\ dry = Start
  BY DryRunAssumption DEF Init
<1>2. PICK linked : evidence = [i \in Refs |-> IF i \in linked THEN BundleOf(rows[i])
                                               ELSE NoEvidence(rows[i])]
  BY Zenon DEF Init
<1>3. 1 \in Refs /\ (CHOOSE u \in Users : TRUE) \in Users
  <2>1. 1 \in Refs
    BY DryRunAssumption DEF Refs
  <2>2. rows[1].approver \in Users
    BY Zenon, <1>1, <2>1 DEF Rows
  <2> QED
    BY Zenon, <2>1, <2>2
<1>4. Start \in Locals /\ Start.pc = "idle" /\ Start.resp = "none" /\ Start.ref = 1
  BY Zenon, <1>1, <1>3 DEF Start, Locals, Dispositions
<1>5. ASSUME NEW i \in Refs
      PROVE  /\ evidence[i] \in Bundles
             /\ evidence[i].approver = rows[i].approver
             /\ evidence[i].previewExpiresAt = rows[i].previewExpiresAt
             /\ evidence[i].approvalExpiresAt = rows[i].expiresAt
  <2>1. rows[i] \in Rows
    BY Zenon, <1>1
  <2> QED
    BY Zenon, <1>2, <2>1 DEF BundleOf, NoEvidence, Bundles, Rows
<1>6. evidence \in [Refs -> Bundles]
  BY Zenon, <1>2, <1>5
<1> QED
  BY Zenon, <1>1, <1>4, <1>5, <1>6 DEF DryRunInv, BundlesFollowRows

(* The request arrives: the refs already spent are noted. *)
LEMMA PostStep == ASSUME DryRunInv, DryRunPost PROVE DryRunInv'
<1>1. PICK u \in Users, switch \in BOOLEAN :
        dry' = [dry EXCEPT !.pc = "bind", !.user = u, !.switch = switch, !.at = now,
                           !.spent = {i \in Refs : rows[i].status # "approved"}]
  BY Zenon DEF DryRunPost
<1>2. dry \in Locals /\ dry.pc = "idle" /\ dry.resp = "none" /\ UNCHANGED <<now, rows, evidence>>
  BY Zenon DEF DryRunInv, DryRunPost
<1>3. /\ dry' \in Locals /\ dry'.pc = "bind" /\ dry'.resp = "none" /\ dry'.ref = 1
      /\ dry'.spent = {i \in Refs : rows[i].status # "approved"}
  BY Zenon, <1>1, <1>2 DEF Locals, DryRunInv
<1>4. 1..(dry'.ref - 1) = {}
  BY <1>3
<1> QED
  BY Zenon, <1>2, <1>3, <1>4 DEF DryRunInv, BundlesFollowRows

(* An answer other than "verified" owes nothing. *)
LEMMA RefusalStep ==
  ASSUME DryRunInv, NEW d \in Dispositions \ {"verified"}, Reply(d), dry.pc # "idle",
         UNCHANGED <<now, rows, evidence>>
  PROVE  DryRunInv' /\ dry'.resp # "verified"
<1>1. dry \in Locals
  BY Zenon DEF DryRunInv
<1>2. dry' \in Locals /\ dry'.pc = "done" /\ dry'.resp = d /\ dry'.spent = dry.spent
  BY Zenon, <1>1 DEF Reply, Locals
<1> QED
  BY Zenon, <1>2 DEF DryRunInv, BundlesFollowRows

(* One turn of the binding loop. *)
LEMMA BindStep == ASSUME DryRunInv, Bind PROVE DryRunInv' /\ dry'.resp # "verified"
<1> DEFINE outcome == Binding(rows[dry.ref], dry.at)
           failure == IF dry.failure = "none" /\ outcome # "verified" THEN outcome ELSE dry.failure
<1>1. /\ dry \in Locals /\ dry.pc = "bind" /\ dry.resp = "none"
      /\ UNCHANGED <<now, rows, evidence>> /\ rows[dry.ref] \in Rows /\ dry.ref \in Refs
      /\ \A i \in dry.spent : rows[i].status # "approved"
  BY Zenon DEF DryRunInv, Bind, Locals
<1>2. outcome \in {"verified", "not_ready", "invalid_request"}
  BY Zenon, <1>1, VerifiedBinding
<1>3. failure \in {"none", "not_ready", "invalid_request"}
  BY Zenon, <1>1, <1>2 DEF Locals
<1>4. failure = "none" => \A i \in 1..dry.ref : BoundRef(i)
  <2> SUFFICES ASSUME failure = "none" PROVE \A i \in 1..dry.ref : BoundRef(i)
    BY Zenon
  <2>1. dry.failure = "none" /\ outcome = "verified"
    BY Zenon, <1>2, <1>3
  <2>2. rows[dry.ref].binding = "bound" /\ rows[dry.ref].status = "approved"
    BY Zenon, <1>1, <2>1, VerifiedBinding
  <2>3. BoundRef(dry.ref)
    BY Zenon, <1>1, <2>2 DEF BoundRef
  <2>4. \A i \in 1..(dry.ref - 1) : BoundRef(i)
    BY Zenon, <1>1, <2>1 DEF DryRunInv
  <2>5. dry.ref \in Nat
    BY <1>1 DEF Refs
  <2> QED
    BY <2>3, <2>4, <2>5
<1> HIDE DEF failure
<1>5. CASE dry.ref < NumRefs
  <2>1. dry' = [dry EXCEPT !.ref = @ + 1, !.failure = failure]
    BY Zenon, <1>5 DEF Bind, failure
  <2>2. dry.ref + 1 \in Refs /\ dry.ref \in Nat
    BY <1>1, <1>5, DryRunAssumption DEF Refs
  <2>3. /\ dry' \in Locals /\ dry'.pc = "bind" /\ dry'.resp = "none" /\ dry'.ref = dry.ref + 1
        /\ dry'.failure = failure /\ dry'.spent = dry.spent
    BY Zenon, <1>1, <1>3, <2>1, <2>2 DEF Locals
  <2>4. dry'.failure = "none" => \A i \in 1..(dry'.ref - 1) : BoundRef(i)'
    BY <1>1, <1>4, <2>2, <2>3 DEF BoundRef
  <2> QED
    BY Zenon, <1>1, <2>3, <2>4 DEF DryRunInv, BundlesFollowRows
<1>6. CASE ~(dry.ref < NumRefs) /\ failure # "none"
  BY Zenon, <1>1, <1>3, <1>6, RefusalStep DEF Bind, failure, Dispositions
<1>7. CASE ~(dry.ref < NumRefs) /\ failure = "none" /\ ~dry.switch
  BY Zenon, <1>1, <1>7, RefusalStep DEF Bind, failure, Dispositions
<1>8. CASE ~(dry.ref < NumRefs) /\ failure = "none" /\ dry.switch
  <2>1. dry' = [dry EXCEPT !.pc = "resolve", !.ref = 1]
    BY Zenon, <1>8 DEF Bind, failure
  <2>2. dry.ref = NumRefs /\ 1 \in Refs
    BY <1>1, <1>8, DryRunAssumption DEF Refs
  <2>3. /\ dry' \in Locals /\ dry'.pc = "resolve" /\ dry'.resp = "none" /\ dry'.ref = 1
        /\ dry'.spent = dry.spent /\ dry'.switch
    BY Zenon, <1>1, <1>8, <2>1, <2>2 DEF Locals
  <2>4. \A i \in Refs : BoundRef(i)'
    BY Zenon, <1>1, <1>4, <1>8, <2>2, <2>3 DEF BoundRef, Refs
  <2> QED
    BY <1>1, <2>3, <2>4 DEF DryRunInv, BundlesFollowRows
<1> QED
  BY Zenon, <1>5, <1>6, <1>7, <1>8

(* The await of the bundle changes what was seen, nothing else. *)
LEMMA ResolveStep == ASSUME DryRunInv, Resolve PROVE DryRunInv' /\ dry'.resp # "verified"
<1>1. /\ dry \in Locals /\ dry.pc = "resolve" /\ dry.resp = "none"
      /\ UNCHANGED <<now, rows, evidence>> /\ evidence[dry.ref] \in Bundles
  BY Zenon DEF DryRunInv, Resolve, Locals
<1>2. CASE Reply("not_ready")
  BY Zenon, <1>1, <1>2, RefusalStep DEF Dispositions
<1>3. CASE dry' = [dry EXCEPT !.pc = "evaluate", !.seen = evidence[dry.ref].flaws]
  <2>1. /\ dry' \in Locals /\ dry'.pc = "evaluate" /\ dry'.resp = "none" /\ dry'.ref = dry.ref
        /\ dry'.spent = dry.spent /\ dry'.switch = dry.switch /\ dry'.user = dry.user
        /\ dry'.evaluatedAt = dry.evaluatedAt
    BY Zenon, <1>1, <1>3 DEF Locals, Bundles
  <2>2. \A i \in Refs : (BoundRef(i) => BoundRef(i)') /\ (EvaluatedRef(i) => EvaluatedRef(i)')
    BY Zenon, <1>1, <2>1 DEF BoundRef, EvaluatedRef
  <2>3. 1..(dry.ref - 1) \subseteq Refs
    BY <1>1, DryRunAssumption DEF Locals, Refs
  <2> QED
    BY Zenon, <1>1, <2>1, <2>2, <2>3 DEF DryRunInv, BundlesFollowRows
<1> QED
  BY Zenon, <1>2, <1>3 DEF Resolve

(* One turn of the evaluation loop. *)
LEMMA EvaluateStep == ASSUME DryRunInv, Evaluate PROVE DryRunInv' /\ AnsweringCurrent
<1> DEFINE bundle == [evidence[dry.ref] EXCEPT !.flaws = dry.seen]
           outcome == Disposition(bundle, dry.user, dry.at + SESSION_TTL, now)
<1>1. /\ dry \in Locals /\ dry.pc = "evaluate" /\ dry.resp = "none"
      /\ UNCHANGED <<now, rows, evidence>> /\ evidence[dry.ref] \in Bundles /\ dry.ref \in Refs
      /\ now \in 0..MaxTime /\ now \in Nat /\ dry.at \in Nat /\ rows[dry.ref] \in Rows
  BY DryRunAssumption DEF DryRunInv, Evaluate, Locals
<1>2. outcome \in {"verified", "forbidden", "not_ready"}
  BY Zenon DEF Disposition
<1>3. CASE outcome # "verified"
  <2>1. Reply(outcome)
    BY Zenon, <1>3 DEF Evaluate
  <2>2. DryRunInv'
    BY Zenon, <1>1, <1>2, <1>3, <2>1, RefusalStep DEF Dispositions
  <2>3. dry'.resp = outcome
    BY Zenon, <1>1, <2>1 DEF Reply, Locals
  <2> QED
    BY Zenon, <1>3, <2>2, <2>3 DEF AnsweringCurrent
<1>4. CASE outcome = "verified"
  <2>1. /\ bundle \in Bundles /\ bundle.approver = rows[dry.ref].approver
        /\ bundle.approvalExpiresAt = rows[dry.ref].expiresAt
        /\ bundle.previewExpiresAt = rows[dry.ref].previewExpiresAt
    BY Zenon, <1>1 DEF DryRunInv, BundlesFollowRows, Bundles, Locals
  <2>2. dry.at + SESSION_TTL \in Nat
    BY <1>1, DryRunAssumption
  <2>3. /\ dry.user # rows[dry.ref].approver /\ now < rows[dry.ref].expiresAt
        /\ now < rows[dry.ref].previewExpiresAt
    BY Zenon, <1>1, <1>4, <2>1, <2>2, EligibleBundle
  <2> DEFINE more == dry.ref < NumRefs
  <2>4. dry' = [dry EXCEPT !.evaluatedAt[dry.ref] = now,
                  !.pc = IF more THEN "resolve" ELSE "done",
                  !.resp = IF more THEN "none" ELSE "verified",
                  !.ref = IF more THEN @ + 1 ELSE @]
    BY Zenon, <1>4 DEF Evaluate
  <2>5. more => dry.ref + 1 \in Refs
    BY <1>1, DryRunAssumption DEF Refs
  <2>6. /\ dry' \in Locals
        /\ dry'.evaluatedAt = [dry.evaluatedAt EXCEPT ![dry.ref] = now]
        /\ dry'.pc = IF more THEN "resolve" ELSE "done"
        /\ dry'.resp = IF more THEN "none" ELSE "verified"
        /\ dry'.ref = IF more THEN dry.ref + 1 ELSE dry.ref
        /\ dry'.spent = dry.spent /\ dry'.switch = dry.switch /\ dry'.user = dry.user
    BY Zenon, <1>1, <2>4, <2>5 DEF Locals, Dispositions
  <2>7. \A i \in 1..dry.ref : EvaluatedRef(i)'
    <3> TAKE i \in 1..dry.ref
    <3>1. i \in Refs /\ dry.ref \in Nat
      BY <1>1, DryRunAssumption DEF Refs
    <3>2. CASE i = dry.ref
      BY Zenon, <1>1, <2>3, <2>6, <3>1, <3>2 DEF EvaluatedRef, Locals
    <3>3. CASE i # dry.ref
      <4>1. EvaluatedRef(i)
        BY <1>1, <3>1, <3>3 DEF DryRunInv
      <4> QED
        BY Zenon, <1>1, <2>6, <3>1, <3>3, <4>1 DEF EvaluatedRef, Locals
    <3> QED
      BY Zenon, <3>2, <3>3
  <2>8. dry'.switch /\ \A i \in Refs : BoundRef(i)'
    BY Zenon, <1>1, <2>6 DEF DryRunInv, BoundRef
  <2>9. ~more => dry.ref = NumRefs /\ Refs = 1..dry.ref
    BY <1>1, DryRunAssumption DEF Refs
  <2>10. more => 1..(dry'.ref - 1) = 1..dry.ref
    BY <1>1, <2>6 DEF Refs
  <2>11. DryRunInv'
    BY Zenon, <1>1, <2>6, <2>7, <2>8, <2>9, <2>10 DEF DryRunInv, BundlesFollowRows
  <2>12. AnsweringCurrent
    BY Zenon, <1>1, <2>3, <2>6, <2>9 DEF AnsweringCurrent
  <2> QED
    BY Zenon, <2>11, <2>12
<1> QED
  BY Zenon, <1>3, <1>4

(* Claims and revocations by others: a claimed row is not approved again, and
   no bundle changes its approver or expiries. *)
LEMMA OthersStep ==
  ASSUME DryRunInv, NEW i \in Refs, Consume(i) \/ Revoke(i)
  PROVE  DryRunInv'
<1>1. dry \in Locals /\ rows \in [Refs -> Rows] /\ evidence \in [Refs -> Bundles]
  BY Zenon DEF DryRunInv
<1>2. CASE Consume(i)
  <2>1. /\ rows' = [rows EXCEPT ![i].status = "used"] /\ UNCHANGED <<now, evidence, dry>>
    BY Zenon, <1>2 DEF Consume
  <2>2. rows' \in [Refs -> Rows]
    BY Zenon, <1>1, <2>1 DEF Rows
  <2>3. \A j \in Refs : /\ rows'[j].binding = rows[j].binding
                        /\ rows'[j].approver = rows[j].approver
                        /\ rows'[j].expiresAt = rows[j].expiresAt
                        /\ rows'[j].previewExpiresAt = rows[j].previewExpiresAt
                        /\ rows'[j].status = "approved" => rows[j].status = "approved"
    BY Zenon, <1>1, <2>1 DEF Rows
  <2>4. /\ dry.spent \subseteq Refs /\ 1..(dry.ref - 1) \subseteq Refs
    BY <1>1, DryRunAssumption DEF Locals, Refs
  <2>5. \A j \in Refs : (BoundRef(j) => BoundRef(j)') /\ (EvaluatedRef(j) => EvaluatedRef(j)')
    BY Zenon, <2>1, <2>3 DEF BoundRef, EvaluatedRef
  <2>6. BundlesFollowRows'
    BY <2>1, <2>3 DEF DryRunInv, BundlesFollowRows
  <2> QED
    BY Zenon, <2>1, <2>2, <2>3, <2>4, <2>5, <2>6 DEF DryRunInv
<1>3. CASE Revoke(i)
  <2>1. /\ evidence' = [evidence EXCEPT ![i].flaws = {"revoked"}] /\ UNCHANGED <<now, rows, dry>>
    BY Zenon, <1>3 DEF Revoke
  <2>2. evidence' \in [Refs -> Bundles]
    BY Zenon, <1>1, <2>1 DEF Bundles, Flaws, LinkageFlaws
  <2>3. BundlesFollowRows'
    BY Zenon, <1>1, <2>1 DEF DryRunInv, BundlesFollowRows, Bundles
  <2> QED
    BY Zenon, <2>1, <2>2, <2>3 DEF DryRunInv, BoundRef, EvaluatedRef
<1> QED
  BY Zenon, <1>2, <1>3

LEMMA TickStep == ASSUME DryRunInv, Tick PROVE DryRunInv'
<1>1. now' \in 0..MaxTime /\ UNCHANGED <<rows, evidence, dry>>
  BY DryRunAssumption DEF DryRunInv, Tick
<1> QED
  BY Zenon, <1>1 DEF DryRunInv, BundlesFollowRows, BoundRef, EvaluatedRef

(* Every step keeps the invariant, and an answer "verified" is current for the
   ref evaluated last. *)
LEMMA NextInv == ASSUME DryRunInv, [Next]_vars PROVE DryRunInv' /\ [AnsweringCurrent]_vars
<1>1. CASE UNCHANGED vars
  BY Zenon, <1>1 DEF vars, DryRunInv, BundlesFollowRows, BoundRef, EvaluatedRef
<1>2. CASE DryRunPost
  BY Zenon, <1>2, PostStep DEF DryRunPost, AnsweringCurrent, DryRunInv, Locals
<1>3. CASE Bind
  BY Zenon, <1>3, BindStep DEF AnsweringCurrent
<1>4. CASE Resolve
  BY Zenon, <1>4, ResolveStep DEF AnsweringCurrent
<1>5. CASE Evaluate
  BY Zenon, <1>5, EvaluateStep
<1>6. ASSUME NEW i \in Refs, Consume(i) \/ Revoke(i) PROVE DryRunInv' /\ AnsweringCurrent
  BY Zenon, <1>6, OthersStep DEF Consume, Revoke, AnsweringCurrent
<1>7. CASE Tick
  BY Zenon, <1>7, TickStep DEF Tick, AnsweringCurrent
<1>8. CASE Finished
  BY Zenon, <1>1, <1>8 DEF Finished
<1> QED
  BY Zenon, <1>1, <1>2, <1>3, <1>4, <1>5, <1>6, <1>7, <1>8 DEF Next, Handler
-----------------------------------------------------------------------------
(***************************************************************************)
(* A dry run that answers "verified" found every ref of the list bound,    *)
(* unspent, unexpired when evaluated and approved by someone else, for     *)
(* lists of any length and whatever claims, revocations and time passed    *)
(* between its awaits.                                                     *)
(***************************************************************************)
THEOREM VerifiedIsSound == Spec => []VerifiedRefsAreSound
<1>1. Spec => []DryRunInv
  <2>1. DryRunInv /\ [Next]_vars => DryRunInv'
    BY Zenon, NextInv
  <2> QED
    BY InitInv, <2>1, PTL DEF Spec
<1>2. DryRunInv => VerifiedRefsAreSound
  <2> SUFFICES ASSUME DryRunInv PROVE VerifiedRefsAreSound
    BY Zenon
  <2>1. TypeOK
    BY Zenon DEF DryRunInv, TypeOK, Locals, Bundles, Dispositions
  <2>2. VerifiedRefsWereEligible
    BY Zenon DEF DryRunInv, VerifiedRefsWereEligible, BoundRef, EvaluatedRef
  <2>3. SpentApprovalNeverVerified
    BY Zenon DEF DryRunInv, SpentApprovalNeverVerified, BoundRef, Locals
  <2> QED
    BY Zenon, <2>1, <2>2, <2>3 DEF VerifiedRefsAreSound
<1> QED
  BY <1>1, <1>2, PTL

(***************************************************************************)
(* At the moment of the answer the ref evaluated last, which is the last   *)
(* of the list, is still unexpired: the loop evaluates and answers in one  *)
(* turn.  Nothing of the kind holds of the refs before it.                 *)
(***************************************************************************)
THEOREM AnswersAreCurrent == Spec => [][AnsweringCurrent]_vars
<1>1. DryRunInv /\ [Next]_vars => DryRunInv' /\ [AnsweringCurrent]_vars
  BY Zenon, NextInv
<1> QED
  BY InitInv, <1>1, PTL DEF Spec

-----------------------------------------------------------------------------
(***************************************************************************)
(* The eligibility decision for all expiries, all sets of issues and any   *)
(* authorization TTL.                                                      *)
(***************************************************************************)

(* The linkage of a chain is verified exactly when nothing is wrong with it. *)
LEMMA VerifiedLinkage ==
  ASSUME OverTimeTypeOK
  PROVE  LinkageState(ChainIssues(examined, clock)) = "verified" <=>
           /\ examined.flaws \cap LinkageFlaws = {}
           /\ clock < examined.previewExpiresAt
           /\ clock < examined.approvalExpiresAt
           /\ clock < examined.reviewExpiresAt
<1>. DEFINE issues == ChainIssues(examined, clock)
<1>1. LinkageState(issues) = "verified" <=> issues = {}
  BY Zenon DEF LinkageState
<1>2. /\ examined.previewExpiresAt \in Nat /\ examined.approvalExpiresAt \in Nat
      /\ examined.reviewExpiresAt \in Nat /\ clock \in Nat
  BY Zenon DEF OverTimeTypeOK
<1>3. clock >= LinkageExpiresAt(examined) <=>
        \/ clock >= examined.previewExpiresAt
        \/ clock >= examined.approvalExpiresAt
        \/ clock >= examined.reviewExpiresAt
  BY <1>2 DEF LinkageExpiresAt, MinIso
<1>4. CASE "unreadable" \in examined.flaws
  BY Zenon, <1>1, <1>4 DEF ChainIssues, LinkageFlaws
<1>5. CASE "unreadable" \notin examined.flaws
  <2>1. issues = {} <=> /\ examined.flaws \cap LinkageFlaws = {}
                        /\ ~ (\/ clock >= examined.previewExpiresAt
                              \/ clock >= examined.approvalExpiresAt
                              \/ clock >= examined.reviewExpiresAt)
    BY Zenon, <1>3, <1>5 DEF ChainIssues
  <2>. QED
    BY <1>1, <1>2, <2>1
<1>. QED
  BY Zenon, <1>4, <1>5

(* Eligibility in closed form. *)
LEMMA EligibleForm ==
  ASSUME OverTimeTypeOK
  PROVE  EligibleExactlyWhenSound
<1>1. /\ examined.previewExpiresAt \in Nat /\ examined.approvalExpiresAt \in Nat
      /\ examined.reviewExpiresAt \in Nat /\ clock \in Nat /\ sessionExpiresAt \in Nat
      /\ MAX_AUTHORIZATION_TTL \in Nat /\ examined.flaws \subseteq Flaws
  BY Zenon, AuthorizationTtlAssumption DEF OverTimeTypeOK
<1>2. clock >= AuthorizationExpiry(examined, sessionExpiresAt, clock) <=>
        \/ clock >= examined.previewExpiresAt
        \/ clock >= examined.approvalExpiresAt
        \/ clock >= examined.reviewExpiresAt
        \/ clock >= sessionExpiresAt
        \/ MAX_AUTHORIZATION_TTL = 0
  BY <1>1 DEF AuthorizationExpiry, LinkageExpiresAt, MinIso
<1>3. examined.flaws = {} <=> /\ examined.flaws \cap LinkageFlaws = {}
                            /\ "decision" \notin examined.flaws
                            /\ "envelope" \notin examined.flaws
                            /\ "binding" \notin examined.flaws
  BY Zenon, <1>1 DEF Flaws
<1>4. Answered = "eligible" <=>
        /\ "envelope" \notin examined.flaws
        /\ ~ (clock >= sessionExpiresAt)
        /\ LinkageState(ChainIssues(examined, clock)) = "verified"
        /\ "decision" \notin examined.flaws
        /\ "binding" \notin examined.flaws
        /\ executor # examined.approver
        /\ ~ (clock >= AuthorizationExpiry(examined, sessionExpiresAt, clock))
  <2>1. LinkageState(ChainIssues(examined, clock)) # "eligible"
    BY Zenon DEF LinkageState
  <2>. QED
    BY Zenon, <2>1 DEF Answered, Eligibility
<1>. QED
  BY <1>1, <1>2, <1>3, <1>4, VerifiedLinkage DEF EligibleExactlyWhenSound

LEMMA OverTimeType ==
  OverTimeSpec => []OverTimeTypeOK
<1>1. OverTimeInit => OverTimeTypeOK
  <2>. SUFFICES ASSUME OverTimeInit PROVE OverTimeTypeOK
    BY Zenon
  <2>1. 0..Horizon \subseteq Nat
    BY OverTimeAssumption
  <2>. QED
    BY Zenon, <2>1 DEF OverTimeInit, OverTimeTypeOK
<1>2. OverTimeTypeOK /\ [OverTimeNext]_ovars => OverTimeTypeOK'
  BY DEF OverTimeTypeOK, OverTimeNext, Invalidate, Pass, ovars
<1>. QED
  BY <1>1, <1>2, PTL DEF OverTimeSpec

(***************************************************************************)
(* The evaluator's nested early returns grant exactly the sound chains,    *)
(* for every authorization TTL, every expiry and every set of issues.      *)
(***************************************************************************)
THEOREM EligibilityIsExact == OverTimeSpec => []EligibleExactlyWhenSound
BY OverTimeType, EligibleForm, PTL

(***************************************************************************)
(* Neither time nor a further issue makes a refused bundle eligible.       *)
(***************************************************************************)
THEOREM RefusalsAreFinal == OverTimeSpec => RefusalIsFinal
<1>1. ASSUME OverTimeTypeOK, OverTimeTypeOK', [OverTimeNext]_ovars, Answered # "eligible"
      PROVE  Answered' # "eligible"
  <2>1. EligibleExactlyWhenSound /\ EligibleExactlyWhenSound'
    BY <1>1, EligibleForm, PTL
  <2>2. /\ examined.previewExpiresAt \in Nat /\ examined.approvalExpiresAt \in Nat
        /\ examined.reviewExpiresAt \in Nat /\ clock \in Nat /\ sessionExpiresAt \in Nat
    BY Zenon, <1>1 DEF OverTimeTypeOK
  <2>3. /\ clock <= clock' /\ clock' \in Nat /\ executor' = executor /\ sessionExpiresAt' = sessionExpiresAt
        /\ examined'.approver = examined.approver
        /\ examined'.previewExpiresAt = examined.previewExpiresAt
        /\ examined'.approvalExpiresAt = examined.approvalExpiresAt
        /\ examined'.reviewExpiresAt = examined.reviewExpiresAt
        /\ examined'.flaws = {} => examined.flaws = {}
    BY <1>1, <2>2 DEF OverTimeTypeOK, OverTimeNext, Invalidate, Pass, ovars
  <2>. QED
    BY <1>1, <2>1, <2>2, <2>3 DEF EligibleExactlyWhenSound
<1>. QED
  BY <1>1, OverTimeType, PTL DEF OverTimeSpec, RefusalIsFinal

-----------------------------------------------------------------------------
(***************************************************************************)
(* The stores for any tenants, ids, bound fields, expiries and sequence of *)
(* calls.                                                                  *)
(***************************************************************************)

\* For timestamps written with milliseconds the order of the texts is that of
\* the instants; a text without a fraction may only come later in its second.
LEMMA TextOrder ==
    ASSUME NEW e \in [at : Nat, short : BOOLEAN], NEW t \in Nat
    PROVE  /\ ~e.short => (TextAfter(e, Ms(t)) <=> t < e.at)
           /\ t < e.at => TextAfter(e, Ms(t))
<1>1. e.at \in Nat /\ e.short \in BOOLEAN
    BY Zenon
<1>2. \A a, b \in Nat : a < b => a \div 10 <= b \div 10
    OBVIOUS
<1>3. \A a, b \in Nat : a \div 10 < b \div 10 => a < b
    OBVIOUS
<1>4. \A a \in Nat : a \div 10 \in Nat
    OBVIOUS
<1>5. TextAfter(e, Ms(t)) <=>
        \/ e.at \div 10 > t \div 10
        \/ e.at \div 10 = t \div 10 /\ (e.short \/ e.at > t)
    BY Zenon, <1>1 DEF TextAfter, Ms
<1> QED
    BY <1>1, <1>2, <1>3, <1>4, <1>5

\* Claims of one row: D1 and the in-memory repository answer alike, and what D1
\* lets win the stand-alone store lets win.
LEMMA ClaimParity ==
    ASSUME NEW row \in ApprovalRow \cup {None}, row # None => ~row.expiresAt.short,
           date \in Nat, NEW ctx, NEW t, NEW matches, NEW at \in {Ms(date), None}
    PROVE  /\ Claimable("d1", ctx, t, row, matches, at)
                <=> Claimable("memory", ctx, t, row, matches, at)
           /\ Claimable("d1", ctx, t, row, matches, at)
                => Claimable("standalone", ctx, t, row, matches, at)
<1>1. CASE row = None \/ at = None
    BY Zenon, <1>1 DEF Claimable, D1Claimable, MemoryClaimable, StandaloneClaimable, Unused
<1>2. CASE row # None /\ at # None
    <2>1. row.expiresAt \in [at : Nat, short : BOOLEAN] /\ ~row.expiresAt.short
        BY Zenon, <1>2, StoresAssumption DEF ApprovalRow
    <2>2. at = Ms(date) /\ at.at = date
        BY <1>2 DEF Ms
    <2>3. TextAfter(row.expiresAt, at) <=> date < row.expiresAt.at
        BY Zenon, <2>1, <2>2, TextOrder
    <2> QED
        BY Zenon, <1>2, <2>2, <2>3 DEF Claimable, D1Claimable, MemoryClaimable, StandaloneClaimable
<1> QED
    BY Zenon, <1>1, <1>2

\* The fields a claim changes.
LEMMA UseRow ==
    ASSUME NEW row \in ApprovalRow, date \in Nat
    PROVE  Use(row, Ms(date)) \in ApprovalRow /\ Use(row, Ms(date)).usedAt # None /\ Use(row, Ms(date)) # None
BY Zenon, StoresAssumption DEF Use, Ms, ApprovalRow

\* What a row shows of its wins: at most one, and then the stamp of the use.
Stamped(win, row) == win \in {0, 1} /\ (win = 1 => row # None /\ row.usedAt # None)

\* A claim that wins a set of unused rows, each of the claimant's tenant behind
\* the adapter.
LEMMA TakeStep ==
    ASSUME StoresInv, NEW op \in {"mark", "claim"}, NEW id \in ApprovalIds, NEW ctx,
           NEW won \in SUBSET Stores, Take(op, id, ctx, Ms(date), won), date' = date,
           \A s \in won : Unused(held[s][id]),
           \A s \in won \cap {"d1", "memory"} : held[s][id].tenant = ctx,
           op = "claim" => \A s \in Stores \ {"d1"} :
               held["d1"][id] = held[s][id] /\ (held[s][id] # None => ~held[s][id].expiresAt.short)
               => ("d1" \in won => s \in won) /\ (s = "memory" /\ s \in won => "d1" \in won)
    PROVE  StoresInv'
<1>1. /\ held \in [Stores -> [ApprovalIds -> ApprovalRow \cup {None}]]
      /\ wins \in [Stores -> [ApprovalIds -> Nat]]
      /\ date \in Nat /\ UsesAreStamped
    BY Zenon DEF StoresInv
<1>2. ASSUME NEW s \in Stores
      PROVE  /\ held'[s] \in [ApprovalIds -> ApprovalRow \cup {None}] /\ wins'[s] \in [ApprovalIds -> Nat]
             /\ \A i \in ApprovalIds : Stamped(wins'[s][i], held'[s][i])
    <2>1. /\ held'[s] = [held[s] EXCEPT ![id] = IF s \in won THEN Use(@, Ms(date)) ELSE @]
          /\ wins'[s] = [wins[s] EXCEPT ![id] = IF s \in won THEN @ + 1 ELSE @]
        BY Zenon DEF Take
    <2>2. /\ held[s] \in [ApprovalIds -> ApprovalRow \cup {None}] /\ wins[s] \in [ApprovalIds -> Nat]
          /\ \A i \in ApprovalIds : Stamped(wins[s][i], held[s][i])
        BY Zenon, <1>1 DEF UsesAreStamped, Stamped
    <2>3. CASE s \notin won
        BY Zenon, <2>1, <2>2, <2>3
    <2>4. CASE s \in won
        <3>1. held[s][id] \in ApprovalRow /\ held[s][id].usedAt = None /\ wins[s][id] = 0
            <4>1. Unused(held[s][id]) /\ held[s][id] \in ApprovalRow \cup {None}
                BY Zenon, <2>2, <2>4
            <4>2. Stamped(wins[s][id], held[s][id])
                BY Zenon, <2>2
            <4> QED
                BY Zenon, <4>1, <4>2 DEF Unused, Stamped
        <3>2. /\ Use(held[s][id], Ms(date)) \in ApprovalRow /\ Use(held[s][id], Ms(date)).usedAt # None
              /\ Use(held[s][id], Ms(date)) # None
            BY Zenon, <1>1, <3>1, UseRow
        <3>3. held'[s][id] = Use(held[s][id], Ms(date)) /\ wins'[s][id] = 1
            BY <2>1, <2>2, <2>4, <3>1
        <3>4. \A i \in ApprovalIds \ {id} : held'[s][i] = held[s][i] /\ wins'[s][i] = wins[s][i]
            BY Zenon, <2>1, <2>2
        <3>5. held'[s] \in [ApprovalIds -> ApprovalRow \cup {None}] /\ wins'[s] \in [ApprovalIds -> Nat]
            BY <2>1, <2>2, <2>4, <3>1, <3>2
        <3>6. Stamped(wins'[s][id], held'[s][id])
            BY Zenon, <3>2, <3>3 DEF Stamped
        <3> QED
            BY Zenon, <2>2, <3>4, <3>5, <3>6
    <2> QED
        BY Zenon, <2>3, <2>4
<1>3. /\ held' \in [Stores -> [ApprovalIds -> ApprovalRow \cup {None}]]
      /\ wins' \in [Stores -> [ApprovalIds -> Nat]]
    BY Zenon, <1>2 DEF Take
<1>4. UsesAreStamped'
    <2>1. \A s \in Stores, i \in ApprovalIds : Stamped(wins'[s][i], held'[s][i])
        BY Zenon, <1>2
    <2> QED
        BY Zenon, <2>1 DEF UsesAreStamped, Stamped
<1>5. /\ last'.op = op /\ last'.ctx = ctx /\ last'.won = won
      /\ \A s \in Stores : last'.met[s] = held[s][id]
    BY Zenon DEF Take
<1>6. RuntimeClaimsAgree'
    BY Zenon, <1>5 DEF RuntimeClaimsAgree, Stores
<1>7. ClaimsStayInTheirTenant'
    BY <1>5 DEF ClaimsStayInTheirTenant, Stores
<1> QED
    BY Zenon, <1>1, <1>3, <1>4, <1>6, <1>7 DEF StoresInv

LEMMA MarkStep ==
    ASSUME StoresInv, NEW ctx \in Tenants, NEW id \in ApprovalIds,
           markApprovalUsed(ctx, id)
    PROVE  StoresInv'
<1> DEFINE won == {s \in Stores : Markable(s, ctx, held[s][id], Ms(date))}
<1>1. Take("mark", id, ctx, Ms(date), won) /\ date' = date
    BY Zenon DEF markApprovalUsed, Called
<1>2. \A s \in won : Unused(held[s][id])
    BY Zenon DEF Markable, D1Markable, MemoryMarkable, StandaloneMarkable, Stores
<1>3. \A s \in won \cap {"d1", "memory"} : held[s][id].tenant = ctx
    BY Zenon DEF Markable, D1Markable, MemoryMarkable
<1> HIDE DEF won
<1>4. won \in SUBSET Stores
    BY Zenon DEF won
<1> QED
    BY Zenon, <1>1, <1>2, <1>3, <1>4, TakeStep

LEMMA ClaimStep ==
    ASSUME StoresInv, NEW ctx \in Tenants, NEW id \in ApprovalIds,
           claimApprovalForRuntime(ctx, id)
    PROVE  StoresInv'
<1>1. PICK t \in Tenants, matches \in {BoundFields} \cup {BoundFields \ {f} : f \in BoundFields},
           at \in {Ms(date), None} :
        Take("claim", id, ctx, Ms(date),
             {s \in Stores : Claimable(s, ctx, t, held[s][id], matches, at)})
    BY Zenon DEF claimApprovalForRuntime
<1> DEFINE won == {s \in Stores : Claimable(s, ctx, t, held[s][id], matches, at)}
<1>2. Take("claim", id, ctx, Ms(date), won) /\ date' = date
    BY Zenon, <1>1 DEF claimApprovalForRuntime, Called
<1>3. \A s \in won : Unused(held[s][id])
    BY Zenon DEF Claimable, D1Claimable, MemoryClaimable, StandaloneClaimable, Stores
<1>4. \A s \in won \cap {"d1", "memory"} : held[s][id].tenant = ctx
    BY Zenon DEF Claimable, D1Claimable, MemoryClaimable
<1>5. \A s \in Stores \ {"d1"} :
        held["d1"][id] = held[s][id] /\ (held[s][id] # None => ~held[s][id].expiresAt.short)
        => ("d1" \in won => s \in won) /\ (s = "memory" /\ s \in won => "d1" \in won)
    <2>1. date \in Nat /\ \A s \in Stores : held[s][id] \in ApprovalRow \cup {None}
        BY Zenon DEF StoresInv
    <2>2. "d1" \in Stores /\ \A s \in Stores \ {"d1"} : s = "memory" \/ s = "standalone"
        BY Zenon DEF Stores
    <2> QED
        BY SMTT(60), <2>1, <2>2, ClaimParity
<1> HIDE DEF won
<1>6. won \in SUBSET Stores
    BY Zenon DEF won
<1> QED
    BY Zenon, <1>2, <1>3, <1>4, <1>5, <1>6, TakeStep

\* A new decision starts a new count where it is stored, and leaves a taken id
\* of D1 alone.
LEMMA CreateStep ==
    ASSUME StoresInv, NEW ctx \in Tenants, NEW id \in ApprovalIds, create(ctx, id)
    PROVE  StoresInv'
<1>1. PICK status \in {"approved", "rejected"}, e \in Expiries :
        LET new == [tenant |-> ctx, status |-> status, expiresAt |-> e, usedAt |-> None]
        IN /\ held' = [s \in Stores |-> [held[s] EXCEPT ![id] = Created(s, @, new)]]
           /\ wins' = [s \in Stores |-> [wins[s] EXCEPT
                          ![id] = IF held[s][id] # held'[s][id] THEN 0 ELSE @]]
    BY Zenon DEF create
<1> DEFINE new == [tenant |-> ctx, status |-> status, expiresAt |-> e, usedAt |-> None]
<1>2. new \in ApprovalRow /\ new # None
    BY StoresAssumption DEF ApprovalRow
<1>3. /\ held \in [Stores -> [ApprovalIds -> ApprovalRow \cup {None}]]
      /\ wins \in [Stores -> [ApprovalIds -> Nat]]
      /\ date \in Nat /\ UsesAreStamped
    BY Zenon DEF StoresInv
<1>4. ASSUME NEW s \in Stores
      PROVE  /\ held'[s] \in [ApprovalIds -> ApprovalRow \cup {None}] /\ wins'[s] \in [ApprovalIds -> Nat]
             /\ \A i \in ApprovalIds : Stamped(wins'[s][i], held'[s][i])
    <2>1. PICK row : row = Created(s, held[s][id], new)
        BY Zenon
    <2>2. row = new \/ row = held[s][id]
        BY Zenon, <2>1 DEF Created, D1Create, MemoryCreate, addRecord, Stores
    <2>3. held'[s] = [held[s] EXCEPT ![id] = row]
        BY Zenon, <1>1, <2>1
    <2>4. held'[s][id] = row
        BY Zenon, <1>3, <2>3
    <2>5. wins'[s] = [wins[s] EXCEPT ![id] = IF held[s][id] # row THEN 0 ELSE @]
        BY Zenon, <1>1, <2>4
    <2>6. /\ held[s] \in [ApprovalIds -> ApprovalRow \cup {None}] /\ wins[s] \in [ApprovalIds -> Nat]
          /\ \A i \in ApprovalIds : Stamped(wins[s][i], held[s][i])
        BY Zenon, <1>3 DEF UsesAreStamped, Stamped
    <2>7. /\ \A i \in ApprovalIds \ {id} : held'[s][i] = held[s][i] /\ wins'[s][i] = wins[s][i]
          /\ wins'[s][id] = IF held[s][id] # row THEN 0 ELSE wins[s][id]
        BY Zenon, <2>3, <2>5, <2>6
    <2>8. Stamped(0, row)
        BY SMT DEF Stamped
    <2>9. \A i \in ApprovalIds : Stamped(wins'[s][i], held'[s][i])
        BY Zenon, <2>4, <2>6, <2>7, <2>8
    <2> QED
        BY SMT, <1>2, <2>2, <2>3, <2>5, <2>6, <2>9
<1>5. /\ held' \in [Stores -> [ApprovalIds -> ApprovalRow \cup {None}]]
      /\ wins' \in [Stores -> [ApprovalIds -> Nat]]
    BY Zenon, <1>1, <1>4
<1>6. UsesAreStamped'
    <2>1. \A s \in Stores, i \in ApprovalIds : Stamped(wins'[s][i], held'[s][i])
        BY Zenon, <1>4
    <2> QED
        BY Zenon, <2>1 DEF UsesAreStamped, Stamped
<1>7. last' = NoClaim /\ date' = date
    BY Zenon DEF create, Called
<1> QED
    BY Zenon, <1>3, <1>5, <1>6, <1>7 DEF StoresInv, RuntimeClaimsAgree, ClaimsStayInTheirTenant, NoClaim

\* updateStatus touches neither usedAt nor the tenant.
LEMMA UpdateStep ==
    ASSUME StoresInv, NEW ctx \in Tenants, NEW id \in ApprovalIds, updateStatus(ctx, id)
    PROVE  StoresInv'
<1>1. PICK status \in {"rejected", "approved"} :
        held' = [s \in Stores |-> [held[s] EXCEPT ![id] =
                   IF s = "standalone" \/ @ = None THEN @
                   ELSE IF @.tenant # ctx THEN @ ELSE [@ EXCEPT !.status = status]]]
    BY Zenon DEF updateStatus
<1>2. /\ held \in [Stores -> [ApprovalIds -> ApprovalRow \cup {None}]]
      /\ wins \in [Stores -> [ApprovalIds -> Nat]]
      /\ date \in Nat /\ UsesAreStamped
    BY Zenon DEF StoresInv
<1>3. ASSUME NEW row \in ApprovalRow
      PROVE  /\ [row EXCEPT !.status = status] \in ApprovalRow
             /\ [row EXCEPT !.status = status].usedAt = row.usedAt
    BY Zenon DEF ApprovalRow
<1>4. ASSUME NEW s \in Stores
      PROVE  /\ held'[s] \in [ApprovalIds -> ApprovalRow \cup {None}]
             /\ \A i \in ApprovalIds : held[s][i] # None =>
                    held'[s][i] # None /\ held'[s][i].usedAt = held[s][i].usedAt
    <2>1. PICK row : row = IF s = "standalone" \/ held[s][id] = None THEN held[s][id]
                           ELSE IF held[s][id].tenant # ctx THEN held[s][id]
                           ELSE [held[s][id] EXCEPT !.status = status]
        BY Zenon
    <2>2. held[s] \in [ApprovalIds -> ApprovalRow \cup {None}] /\ None \notin ApprovalRow
        BY Zenon, <1>2, StoresAssumption
    <2>3. held'[s] = [held[s] EXCEPT ![id] = row]
        BY Zenon, <1>1, <2>1
    <2>4. /\ row \in ApprovalRow \cup {None}
          /\ held[s][id] # None => row \in ApprovalRow /\ row.usedAt = held[s][id].usedAt
        BY Zenon, <1>3, <2>1, <2>2
    <2> QED
        BY Zenon, <2>2, <2>3, <2>4
<1>5. held' \in [Stores -> [ApprovalIds -> ApprovalRow \cup {None}]]
    BY Zenon, <1>1, <1>4
<1>6. last' = NoClaim /\ date' = date /\ wins' = wins
    BY Zenon DEF updateStatus, Called
<1>7. UsesAreStamped'
    BY <1>2, <1>4, <1>6 DEF UsesAreStamped
<1> QED
    BY Zenon, <1>2, <1>5, <1>6, <1>7 DEF StoresInv, RuntimeClaimsAgree, ClaimsStayInTheirTenant, NoClaim

LEMMA InitStores == ASSUME StoresInit PROVE StoresInv
BY DEF StoresInit, StoresInv, UsesAreStamped, RuntimeClaimsAgree, ClaimsStayInTheirTenant, NoClaim

LEMMA NextStores == ASSUME StoresInv, [StoresNext]_storeVars PROVE StoresInv'
<1>1. CASE UNCHANGED storeVars
    BY Zenon, <1>1 DEF storeVars, StoresInv, UsesAreStamped, RuntimeClaimsAgree, ClaimsStayInTheirTenant
<1>2. CASE StoresTick
    BY <1>2 DEF StoresTick, StoresInv, UsesAreStamped, RuntimeClaimsAgree, ClaimsStayInTheirTenant, NoClaim
<1>3. ASSUME NEW ctx \in Tenants, NEW id \in ApprovalIds,
             create(ctx, id) \/ updateStatus(ctx, id) \/ markApprovalUsed(ctx, id)
               \/ claimApprovalForRuntime(ctx, id)
      PROVE  StoresInv'
    BY Zenon, <1>3, CreateStep, UpdateStep, MarkStep, ClaimStep
<1> QED
    BY Zenon, <1>1, <1>2, <1>3 DEF StoresNext
-----------------------------------------------------------------------------
(***************************************************************************)
(* For any number of tenants, ids, calls and bound fields: a decision is   *)
(* used at most once in each store (MARK_USED_SQL, markUsed and the exact  *)
(* claims, mixed in any order with creates and status updates), the stores *)
(* that hold the same approval answer an exact claim alike when expiries   *)
(* are written with milliseconds, and no tenant wins another's approval    *)
(* behind the adapter.                                                     *)
(***************************************************************************)
THEOREM StoresAreSound == StoresSpec => []StoresAgree
<1>1. StoresInit => StoresInv
    BY Zenon, InitStores
<1>2. StoresInv /\ [StoresNext]_storeVars => StoresInv'
    BY Zenon, NextStores
<1>3. StoresInv => StoresAgree
    BY DEF StoresInv, UsesAreStamped, StoresAgree, OneUsePerDecision
<1> QED
    BY <1>1, <1>2, <1>3, PTL DEF StoresSpec
=============================================================================
