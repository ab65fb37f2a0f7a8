-------------------------- MODULE MCMigrationApply --------------------------
(* MigrationApply on a manifest shaped like the committed one: one replay-safe *)
(* control migration, a replay-safe and a "once" tenant migration.             *)
EXTENDS MigrationApply

E(seq, path, apply, sha) == [sequence |-> seq, path |-> path, apply |-> apply, sha |-> sha]

Committed(tenant) ==
  [lanes |-> [b \in Binding |-> IF b = "CONTROL_DB" THEN {E(1, "c1", "replay_safe", "v1")}
                                ELSE tenant],
   planDigest |-> tenant]

Base == {E(1, "t1", "replay_safe", "v1"), E(2, "t2", "once", "v1")}
Edited == {E(1, "t1", "replay_safe", "v2"), E(2, "t2", "once", "v1")}

BaseFiles == [c1 |-> "v1", t1 |-> "v1", t2 |-> "v1"]
EditedFiles == [BaseFiles EXCEPT !.t1 = "v2"]

\* The committed state; a migration rewritten together with its pin; a
\* migration rewritten and not re-pinned.
MCCheckouts == {[manifest |-> Committed(Base), files |-> BaseFiles],
                [manifest |-> Committed(Edited), files |-> EditedFiles],
                [manifest |-> Committed(Base), files |-> EditedFiles]}

\* The committed manifest is extended at the end of a lane, never inside it.
ASSUME CheckoutsGrowAtTheEnd == LanesGrowAtTheEnd
=============================================================================
