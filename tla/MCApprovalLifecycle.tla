------------------------ MODULE MCApprovalLifecycle -------------------------
EXTENDS ApprovalLifecycle, TLC

CONSTANTS ann, bob, eve, post1, post2, dec1, dec2, run1, run2, call1,
          reply, draft

(* Two owners and an editor. *)
MCRole == (ann :> "owner") @@ (bob :> "owner") @@ (eve :> "editor")

(* One preview stored before creators were recorded, none in most runs. *)
MCUnattributed == {<<draft, 0>>}

Symmetry == Permutations(PreviewReqs) \cup Permutations(ApprovalReqs) \cup
            Permutations(ExecuteReqs) \cup Permutations(Contents)
=============================================================================
