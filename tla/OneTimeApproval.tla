-------------------------- MODULE OneTimeApproval ---------------------------
(***************************************************************************)
(* What the approval lifecycle promises, without requests, clocks or       *)
(* tables: a subject is decided at most once, an approval is spent at most *)
(* once, and a spent approval is handed to at most one holder - or to      *)
(* none, when the answer is lost after the approval was spent.             *)
(***************************************************************************)
CONSTANTS Approvals, Holders

VARIABLES
  decision,   \* Approvals -> "absent" | "approved" | "rejected" | "used"
  holders     \* Approvals -> the requests that were granted it

avars == <<decision, holders>>

Init ==
  /\ decision = [a \in Approvals |-> "absent"]
  /\ holders = [a \in Approvals |-> {}]

Decide(a, d) ==
  /\ decision[a] = "absent"
  /\ decision' = [decision EXCEPT ![a] = d]
  /\ UNCHANGED holders

Spend(a) ==
  /\ decision[a] = "approved"
  /\ decision' = [decision EXCEPT ![a] = "used"]
  /\ UNCHANGED holders

Grant(a, h) ==
  /\ decision[a] = "used"
  /\ holders[a] = {}
  /\ holders' = [holders EXCEPT ![a] = {h}]
  /\ UNCHANGED decision

Next ==
  \E a \in Approvals :
    \/ \E d \in {"approved", "rejected"} : Decide(a, d)
    \/ Spend(a)
    \/ \E h \in Holders : Grant(a, h)

Spec == Init /\ [][Next]_avars
=============================================================================
