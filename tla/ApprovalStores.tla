---------------------------- MODULE ApprovalStores ----------------------------
(***************************************************************************)
(* The three stores that can stand behind the approval interface, given    *)
(* the same calls: the D1 repository and the in-memory repository, each    *)
(* behind the adapter of approvalStoreAdapter.ts, and the stand-alone      *)
(* in-memory store of approvalStore.ts.  Each call is one SQL statement or *)
(* one synchronous function body, so the calls of all callers form one     *)
(* sequence, and each store's answer to every call is recorded.            *)
(*                                                                         *)
(* A timestamp is an instant in tenths of a second and the form it is      *)
(* written in: with milliseconds, or `short` without a fraction.  D1       *)
(* compares the texts, the in-memory stores the instants.                  *)
(***************************************************************************)
EXTENDS Integers

CONSTANTS
    Tenants,     \* tenants sharing one database, and one development store
    ApprovalIds, \* approval ids: `approval:` and the id of the preview
    BoundFields, \* the bound fields: unit, preview, type, target and payload
    Expiries,    \* the expiry timestamps of new approvals
    MaxNow,      \* the last instant
    MaxCalls,    \* the calls of one behaviour
    None

ApprovalRow == [tenant : Tenants, status : {"approved", "rejected", "used"}, expiresAt : Expiries,
                usedAt : Nat \cup {None}]

\* Timestamps are instants with a form, and no null is a number or a row.
ASSUME StoresAssumption ==
    /\ Expiries \subseteq [at : Nat, short : BOOLEAN]
    /\ None \notin Nat /\ None \notin ApprovalRow

VARIABLES
    held,     \* rows[s][id]: the approval stored in s, or None
    last,     \* the last claim: its id, the rows it met and the answers
    wins,     \* wins[s][id]: claims won since the row was created
    date,
    made

storeVars == <<held, last, wins, date, made>>

Stores == {"d1", "memory", "standalone"}

Ms(t) == [at |-> t, short |-> FALSE]

-----------------------------------------------------------------------------
\* The order of the two texts.  Within a second the letter Z follows the
\* point of a fraction.
TextAfter(a, b) ==
    LET sa == a.at \div 10
        sb == b.at \div 10
    IN sa > sb \/ (sa = sb /\ IF a.short # b.short THEN a.short ELSE a.at > b.at)

\* Approved and not used: both in MARK_USED_SQL and in markUsed.
Unused(row) == row # None /\ row.status = "approved" /\ row.usedAt = None

MemoryMarkable(t, row, at) == Unused(row) /\ row.tenant = t /\ at.at <= row.expiresAt.at

D1Markable(t, row, at) == Unused(row) /\ row.tenant = t /\ TextAfter(row.expiresAt, at)

StandaloneMarkable(t, row, at) == Unused(row) /\ at.at <= row.expiresAt.at

Markable(s, t, row, at) ==
    CASE s = "d1" -> D1Markable(t, row, at)
      [] s = "memory" -> MemoryMarkable(t, row, at)
      [] s = "standalone" -> StandaloneMarkable(t, row, at)

(***************************************************************************)
(* claimForRuntime of the two repositories, and the stand-alone store's:   *)
(* `matches` are the bound fields on which the input equals the row.       *)
(***************************************************************************)
MemoryClaimable(t, row, matches, at) ==
    Unused(row) /\ row.tenant = t /\ matches = BoundFields /\ at.at < row.expiresAt.at

D1Claimable(t, row, matches, at) ==
    Unused(row) /\ row.tenant = t /\ matches = BoundFields /\ TextAfter(row.expiresAt, at)

StandaloneClaimable(t, row, matches, at) ==
    Unused(row) /\ row.tenant = t /\ matches = BoundFields /\ at.at < row.expiresAt.at

\* claimApprovalForRuntime: the adapter first refuses a claimedAt that is no
\* timestamp and a tenant other than its own; the stand-alone store has no
\* tenant of its own and takes the input's.
Claimable(s, ctx, t, row, matches, at) ==
    /\ at # None
    /\ CASE s = "d1" -> t = ctx /\ D1Claimable(t, row, matches, at)
         [] s = "memory" -> t = ctx /\ MemoryClaimable(t, row, matches, at)
         [] s = "standalone" -> StandaloneClaimable(t, row, matches, at)

\* Mutant: the winning claim is answered but not stored.
UseUnstored(row, at) == row

Use(row, at) == [row EXCEPT !.status = "used", !.usedAt = at.at]

\* create: a taken id fails the INSERT and replaces the entry of a Map.
D1Create(row, new) == IF row = None THEN new ELSE row

MemoryCreate(row, new) == new

\* addRecord of the stand-alone store.
addRecord(row, new) == new

Created(s, row, new) ==
    CASE s = "d1" -> D1Create(row, new)
      [] s = "memory" -> MemoryCreate(row, new)
      [] s = "standalone" -> addRecord(row, new)

-----------------------------------------------------------------------------
NoClaim == [op |-> "none"]

StoresInit ==
    /\ held = [s \in Stores |-> [i \in ApprovalIds |-> None]]
    /\ last = NoClaim
    /\ wins = [s \in Stores |-> [i \in ApprovalIds |-> 0]]
    /\ date = 0
    /\ made = 0

Called == made < MaxCalls /\ made' = made + 1 /\ UNCHANGED date

(***************************************************************************)
(* A decision is stored.  The tenant is the context's, whatever the row    *)
(* carries.                                                                *)
(***************************************************************************)
create(ctx, id) ==
    /\ Called
    /\ \E status \in {"approved", "rejected"}, e \in Expiries :
          LET new == [tenant |-> ctx, status |-> status, expiresAt |-> e, usedAt |-> None]
          IN /\ held' = [s \in Stores |-> [held[s] EXCEPT ![id] = Created(s, @, new)]]
             /\ wins' = [s \in Stores |-> [wins[s] EXCEPT
                            ![id] = IF held[s][id] # held'[s][id] THEN 0 ELSE @]]
    /\ last' = NoClaim

\* updateStatus of the repositories; the stand-alone store has none.
updateStatus(ctx, id) ==
    /\ Called
    /\ \E status \in {"rejected", "approved"} :
          held' = [s \in Stores |-> [held[s] EXCEPT ![id] =
                     IF s = "standalone" \/ @ = None THEN @
                     ELSE IF @.tenant # ctx THEN @ ELSE [@ EXCEPT !.status = status]]]
    /\ last' = NoClaim
    /\ UNCHANGED wins

\* One claim in every store: `won` tells which rows it takes.
Take(op, id, ctx, at, won) ==
    /\ held' = [s \in Stores |-> [held[s] EXCEPT ![id] = IF s \in won THEN Use(@, at) ELSE @]]
    /\ wins' = [s \in Stores |-> [wins[s] EXCEPT ![id] = IF s \in won THEN @ + 1 ELSE @]]
    /\ last' = [op |-> op, id |-> id, ctx |-> ctx, won |-> won, met |-> [s \in Stores |-> held[s][id]]]

\* markApprovalUsed: the legacy claim, bound to the id alone.
markApprovalUsed(ctx, id) ==
    /\ Called
    /\ Take("mark", id, ctx, Ms(date), {s \in Stores : Markable(s, ctx, held[s][id], Ms(date))})

\* claimApprovalForRuntime: a tenant and bound fields that may be others
\* than the row's, and a time that may be no timestamp.
claimApprovalForRuntime(ctx, id) ==
    /\ Called
    /\ \E t \in Tenants, matches \in {BoundFields} \cup {BoundFields \ {f} : f \in BoundFields},
          at \in {Ms(date), None} :
          Take("claim", id, ctx, Ms(date),
               {s \in Stores : Claimable(s, ctx, t, held[s][id], matches, at)})

StoresTick ==
    /\ date < MaxNow
    /\ date' = date + 1
    /\ last' = NoClaim
    /\ UNCHANGED <<held, wins, made>>

StoresNext ==
    \/ \E ctx \in Tenants, id \in ApprovalIds :
          create(ctx, id) \/ updateStatus(ctx, id) \/ markApprovalUsed(ctx, id)
            \/ claimApprovalForRuntime(ctx, id)
    \/ StoresTick

StoresSpec == StoresInit /\ [][StoresNext]_storeVars

-----------------------------------------------------------------------------
(***************************************************************************)
(* Predicate parity: stores that hold the same approval answer an          *)
(* exact-binding claim alike, so what passes against the local stores      *)
(* passes against D1.  The expiry has the form the decision route writes,  *)
(* with milliseconds: only then is the order of the texts that of time.    *)
(***************************************************************************)
RuntimeClaimsAgree ==
    \A s \in Stores \ {"d1"} :
        ( /\ last.op = "claim"
          /\ last.met["d1"] = last.met[s]
          /\ last.met[s] # None => ~last.met[s].expiresAt.short )
        => ("d1" \in last.won => s \in last.won) /\ (s = "memory" /\ s \in last.won => "d1" \in last.won)

(***************************************************************************)
(* A decision authorizes one use: no store lets two claims, legacy or      *)
(* exact, win the same approval, in any sequence of calls.                 *)
(***************************************************************************)
OneUsePerDecision == \A s \in Stores, i \in ApprovalIds : wins[s][i] <= 1

(***************************************************************************)
(* Behind the adapter, a tenant's call neither wins nor changes the        *)
(* approval of another tenant, although the development store is one map   *)
(* that all tenants share.                                                 *)
(***************************************************************************)
ClaimsStayInTheirTenant ==
    last.op # "none" => \A s \in {"d1", "memory"} \cap last.won : last.met[s].tenant = last.ctx

\* All three in every state, for any sequence of calls.
StoresAgree == RuntimeClaimsAgree /\ OneUsePerDecision /\ ClaimsStayInTheirTenant

-----------------------------------------------------------------------------
(***************************************************************************)
(* The inductive invariant: a row that counts a winning claim has its      *)
(* usedAt, which only a new decision under the same id takes away, and     *)
(* which updateStatus leaves alone even when it sets "approved" again.     *)
(***************************************************************************)
UsesAreStamped ==
    \A s \in Stores, i \in ApprovalIds :
        /\ wins[s][i] \in {0, 1}
        /\ wins[s][i] = 1 => held[s][i] # None /\ held[s][i].usedAt # None

StoresInv ==
    /\ held \in [Stores -> [ApprovalIds -> ApprovalRow \cup {None}]]
    /\ wins \in [Stores -> [ApprovalIds -> Nat]]
    /\ date \in Nat
    /\ UsesAreStamped
    /\ RuntimeClaimsAgree
    /\ ClaimsStayInTheirTenant
=============================================================================
