---------------------------- MODULE MigrationLog ----------------------------
(***************************************************************************)
(* What the migration ledger promises of a database, whatever runs against *)
(* it: per lane, a log of the migration bytes that were applied, which     *)
(* grows at its end by the next step and is never rewritten.               *)
(***************************************************************************)
EXTENDS Naturals, Sequences

CONSTANTS Databases, Lanes, Migrations

VARIABLE log    \* per database and lane, the applied migrations in order

LogInit == log = [d \in Databases |-> [b \in Lanes |-> <<>>]]

Extend(d, b, m) == log' = [log EXCEPT ![d][b] = Append(@, m)]

LogNext == \E d \in Databases, b \in Lanes, m \in Migrations : Extend(d, b, m)

LogSpec == LogInit /\ [][LogNext]_log
=============================================================================
