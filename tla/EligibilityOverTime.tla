------------------------ MODULE EligibilityOverTime -------------------------
(***************************************************************************)
(* The eligibility decision of one executor on one evidence bundle, asked  *)
(* again and again (first by a dry run, then by the gate) while time       *)
(* passes and issues accumulate in the chain.                              *)
(***************************************************************************)
EXTENDS RuntimeEligibility

CONSTANTS
  People,    \* possible approvers and executors
  Horizon    \* bound on the clock and on every expiry

ASSUME OverTimeAssumption == Horizon \in Nat

VARIABLES examined, executor, sessionExpiresAt, clock

ovars == <<examined, executor, sessionExpiresAt, clock>>

Answered == Eligibility(examined, executor, sessionExpiresAt, clock)

OverTimeInit ==
  /\ examined \in [approver : People, flaws : {{}}, previewExpiresAt : 0..Horizon,
                   approvalExpiresAt : 0..Horizon, reviewExpiresAt : 0..Horizon]
  /\ executor \in People
  /\ sessionExpiresAt \in 0..Horizon
  /\ clock = 0

(* An issue is found in the chain: evidence is only ever invalidated. *)
Invalidate ==
  /\ \E f \in Flaws \ examined.flaws : examined' = [examined EXCEPT !.flaws = @ \cup {f}]
  /\ UNCHANGED <<executor, sessionExpiresAt, clock>>

Pass ==
  /\ clock < Horizon
  /\ clock' = clock + 1
  /\ UNCHANGED <<examined, executor, sessionExpiresAt>>

OverTimeNext == Invalidate \/ Pass

OverTimeSpec == OverTimeInit /\ [][OverTimeNext]_ovars
-----------------------------------------------------------------------------
(* The bundle keeps its shape. *)
OverTimeTypeOK ==
  /\ examined \in [approver : People, flaws : SUBSET Flaws, previewExpiresAt : Nat,
                   approvalExpiresAt : Nat, reviewExpiresAt : Nat]
  /\ executor \in People
  /\ sessionExpiresAt \in Nat /\ clock \in Nat

(***************************************************************************)
(* Early returns, precedence and the evaluation that stops at an           *)
(* unreadable Human Decision hide no flaw: the evaluator says "eligible"   *)
(* exactly when the chain is flawless, the executor is not the approver    *)
(* and nothing has expired.                                                *)
(***************************************************************************)
EligibleExactlyWhenSound ==
  Answered = "eligible" <=>
    /\ examined.flaws = {}
    /\ executor # examined.approver
    /\ clock < examined.previewExpiresAt
    /\ clock < examined.approvalExpiresAt
    /\ clock < examined.reviewExpiresAt
    /\ clock < sessionExpiresAt
    /\ MAX_AUTHORIZATION_TTL > 0

(***************************************************************************)
(* A refusal is final: no later issue (one that ends the evaluation early  *)
(* included) and no passing of time turns a refused bundle into an         *)
(* eligible one.                                                           *)
(***************************************************************************)
RefusalIsFinal ==
  [][Answered # "eligible" => Answered' # "eligible"]_ovars
=============================================================================
