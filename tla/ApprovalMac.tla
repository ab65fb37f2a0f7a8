----------------------------- MODULE ApprovalMac -----------------------------
(***************************************************************************)
(* The keyed approval MAC: a canonical payload is validated into one       *)
(* frozen snapshot, serialised field by field in the documented order and  *)
(* signed with the tenant's secret; a verification repeats the             *)
(* computation and compares (src/app/lib/security/approvalMac).            *)
(*                                                                         *)
(* A payload is a caller's live object.  Its fields may be accessors, so   *)
(* `first` holds what the first read of a field answers and `later` what   *)
(* every further read answers.  The caller may replace the contents while  *)
(* a call waits for the secret.                                            *)
(* A value is a kind and a number: "text" is a non-empty string, "hash" 64 *)
(* hexadecimal digits, "iso" a timestamp (its number is the instant) and   *)
(* "isoInvalid" a text of that shape that is no date.  HMAC is ideal: two  *)
(* MACs are equal when the secrets and the signed texts are.               *)
(***************************************************************************)
EXTENDS Integers, Sequences, SequencesExt, FiniteSets

CONSTANTS
    Objects,      \* the contents a caller's object may have
    Keys,         \* the identities [tenant, id, version] a provider knows
    Calls,        \* the calls of one behaviour, in any order
    MaxNow,       \* the last instant
    MaxEdits,     \* how often the caller edits the object
    MaxRotations, \* how often the vault changes a secret
    None

VARIABLES
    object,    \* the caller's payload object
    vault,     \* the provider's secret of each key, None when it has none
    calls,     \* the calls: their phase, snapshot and answer
    issued,    \* the MACs answered by computeApprovalMac
    now,
    spent      \* edits and rotations so far

vars == <<object, vault, calls, issued, now, spent>>

-----------------------------------------------------------------------------
(* canonicalApprovalPayload.ts *)

canonicalApprovalPayloadFieldOrder ==
    << "canonical_payload_version", "approval_request_id", "tenant_id", "actor_id", "actor_role",
       "action_preview_id", "operation", "target_system", "target_identifier", "target_hash",
       "payload_hash", "payload_redaction_state", "preview_hash", "risk_level",
       "human_review_required", "source_workunit_candidate_id", "source_formal_workunit_id",
       "source_action_field_id", "source_decision_record_id", "created_at", "expires_at", "nonce",
       "idempotency_key", "key_id", "key_version", "hash_algorithm", "canonicalization_algorithm",
       "approval_scope", "no_go_flags" >>

Fields == Range(canonicalApprovalPayloadFieldOrder)

NULLABLE_STRING_FIELDS == {"source_workunit_candidate_id", "source_formal_workunit_id",
                           "source_action_field_id", "source_decision_record_id"}

HASH_FIELDS == {"target_hash", "payload_hash", "preview_hash"}

TIMESTAMP_FIELDS == {"created_at", "expires_at"}

Strings == {"text", "hash", "iso", "isoInvalid"}

\* The number of the supported algorithm among the texts of the two
\* algorithm fields.
Supported == 1

(***************************************************************************)
(* What a field's value fails with; "none" when it is acceptable.          *)
(***************************************************************************)
FieldFailure(f, raw) ==
    IF f = "human_review_required" THEN IF raw.kind = "boolean" THEN "none" ELSE "invalid_field_type"
    ELSE IF f = "no_go_flags" THEN IF raw.kind = "strings" THEN "none" ELSE "invalid_field_type"
    ELSE IF f \in NULLABLE_STRING_FIELDS
         THEN IF raw.kind \in Strings \cup {"null", "empty"} THEN "none" ELSE "invalid_field_type"
    ELSE IF raw.kind \notin Strings THEN "invalid_field_type"
    ELSE IF f \in HASH_FIELDS /\ raw.kind # "hash" THEN "invalid_hash_format"
    ELSE IF f \in TIMESTAMP_FIELDS /\ raw.kind \notin {"iso", "isoInvalid"} THEN "invalid_timestamp"
    ELSE "none"

(***************************************************************************)
(* validateCanonicalApprovalPayload on the values some reads answered: an  *)
(* unknown key, then a missing field, then the first field in the          *)
(* documented order with an unacceptable value, then the two algorithms.   *)
(***************************************************************************)
Failure(values) ==
    LET failing == SelectSeq(canonicalApprovalPayloadFieldOrder,
                             LAMBDA f : FieldFailure(f, values[f]) # "none")
    IN IF DOMAIN values \ Fields # {} THEN "unknown_field"
       ELSE IF \E f \in Fields : f \notin DOMAIN values \/ values[f].kind = "undefined"
            THEN "missing_required_field"
       ELSE IF failing # <<>> THEN FieldFailure(failing[1], values[failing[1]])
       ELSE IF values["hash_algorithm"].n # Supported THEN "unsupported_hash_algorithm"
       ELSE IF values["canonicalization_algorithm"].n # Supported
            THEN "unsupported_canonicalization_algorithm"
       ELSE "none"

\* Every field is read exactly once, so the snapshot is what first reads
\* answer, and it is frozen: reading it again answers the same.
Snapshot(o) == [first |-> o.first, later |-> o.first]

\* JSON of one value.  A string is quoted, so the string null is not null.
Encoded(raw) ==
    CASE raw.kind = "null" -> <<"null", 0>>
      [] raw.kind = "boolean" -> <<"literal", raw.n>>
      [] raw.kind = "strings" -> <<"list", raw.n>>
      [] OTHER -> <<raw.kind, raw.n>>

canonicalizeApprovalPayload(o) ==
    [i \in 1 .. Len(canonicalApprovalPayloadFieldOrder) |->
        LET f == canonicalApprovalPayloadFieldOrder[i] IN <<f, Encoded(o.first[f])>>]

-----------------------------------------------------------------------------
(* approvalMac.ts *)

\* The identity the secret is looked up under.
KeyOf(values) == [tenant |-> values["tenant_id"].n, id |-> values["key_id"].n,
                  version |-> values["key_version"].n]

\* The checks of computeApprovalMac on what the provider answered.
MaterialFailure(key, material) ==
    IF material = None THEN "tenant_secret_unavailable"
    ELSE IF material.key.id # key.id THEN "unknown_key_id"
    ELSE IF material.key.version # key.version THEN "unknown_key_version"
    ELSE "none"

\* Mutant: the MAC is recomputed from the caller's object, not the snapshot.
RecomputedFromLive(o) == [first |-> o.later, later |-> o.later]

\* What a verification recomputes the MAC of: its own frozen snapshot.
Recomputed(o) == Snapshot(o)

(***************************************************************************)
(* The gates of verifyApprovalMac before the secret is resolved.           *)
(***************************************************************************)
Gates(values, mac, t) ==
    IF Failure(values) # "none" THEN Failure(values)
    ELSE IF values["no_go_flags"].n > 0 THEN "no_go_flags_present"
    ELSE IF values["expires_at"].kind = "isoInvalid" \/ t >= values["expires_at"].n THEN "expired_payload"
    ELSE IF mac.form # "hex" THEN "invalid_mac_format"
    ELSE "none"

NotCalled == [phase |-> "new", taken |-> None, base |-> None, mac |-> None, at |-> 0,
              material |-> None, answer |-> "none"]

Answered(call, answer) == [call EXCEPT !.phase = "done", !.answer = answer]

Init ==
    /\ object \in Objects
    /\ vault = [k \in Keys |-> 1]
    /\ calls = [c \in Calls |-> NotCalled]
    /\ issued = {}
    /\ now = 0
    /\ spent = [edits |-> 0, rotations |-> 0]

(***************************************************************************)
(* computeApprovalMac up to its await: the snapshot and the canonical text *)
(* are taken at once, then the secret is asked for.                        *)
(***************************************************************************)
computeApprovalMac(c) ==
    /\ calls[c].phase = "new"
    /\ c[1] = "compute"
    /\ LET failure == Failure(object.first)
           call == [calls[c] EXCEPT !.taken = Snapshot(object), !.base = Snapshot(object), !.at = now]
       IN calls' = [calls EXCEPT ![c] = IF failure # "none" THEN Answered(call, failure)
                                        ELSE [call EXCEPT !.phase = "waiting"]]
    /\ UNCHANGED <<object, vault, issued, now, spent>>

(***************************************************************************)
(* verifyApprovalMac up to its await, given a MAC issued before or a text  *)
(* of another form.                                                        *)
(***************************************************************************)
verifyApprovalMac(c) ==
    /\ calls[c].phase = "new"
    /\ c[1] = "verify"
    /\ \E mac \in {i.mac : i \in issued} \cup {[form |-> "other"]} :
          LET failure == Gates(object.first, mac, now)
              call == [calls[c] EXCEPT !.taken = Snapshot(object), !.base = Recomputed(object),
                                       !.mac = mac, !.at = now]
          IN calls' = [calls EXCEPT ![c] = IF failure # "none" THEN Answered(call, failure)
                                           ELSE [call EXCEPT !.phase = "waiting"]]
    /\ UNCHANGED <<object, vault, issued, now, spent>>

\* What the provider may answer for a key: nothing, or material of the same
\* tenant, possibly of another key than the one asked for.
Materials(key) ==
    {None} \cup {[key |-> k, secret |-> vault[k]] :
                    k \in {x \in Keys : x.tenant = key.tenant /\ vault[x] # None}}

(***************************************************************************)
(* The provider answers and the call finishes.  A provider that throws     *)
(* rejects a computation and reads as an unavailable secret in a           *)
(* verification.                                                           *)
(***************************************************************************)
Resolve(c) ==
    /\ calls[c].phase = "waiting"
    /\ LET key == KeyOf(calls[c].base.first) IN
       \E material \in Materials(key) :
          LET failure == MaterialFailure(key, material)
              mac == [form |-> "hex", secret |-> <<material.key, material.secret>>,
                      text |-> canonicalizeApprovalPayload(calls[c].base)]
              call == [calls[c] EXCEPT !.material = material]
          IN /\ calls' = [calls EXCEPT ![c] = Answered(call,
                            IF failure # "none" THEN failure
                            ELSE IF c[1] = "compute" THEN "mac"
                            ELSE IF mac = calls[c].mac THEN "verified"
                            ELSE "mac_mismatch")]
             /\ issued' = IF failure = "none" /\ c[1] = "compute"
                          THEN issued \cup {[mac |-> mac, payload |-> calls[c].taken.first]}
                          ELSE issued
    /\ UNCHANGED <<object, vault, now, spent>>

ProviderThrows(c) ==
    /\ calls[c].phase = "waiting"
    /\ calls' = [calls EXCEPT ![c] = Answered(@, IF c[1] = "compute" THEN "rejected"
                                                 ELSE "tenant_secret_unavailable")]
    /\ UNCHANGED <<object, vault, issued, now, spent>>

\* The caller changes its object after a call read it, also while it waits.
Edit ==
    /\ spent.edits < MaxEdits
    /\ \E c \in Calls : calls[c].phase # "new"
    /\ \E o \in Objects \ {object} : object' = o
    /\ spent' = [spent EXCEPT !.edits = @ + 1]
    /\ UNCHANGED <<vault, calls, issued, now>>

\* The vault replaces or removes the secret of a key.
Rotate ==
    /\ spent.rotations < MaxRotations
    /\ \E k \in Keys, s \in {2, None} : vault' = [vault EXCEPT ![k] = s]
    /\ spent' = [spent EXCEPT !.rotations = @ + 1]
    /\ UNCHANGED <<object, calls, issued, now>>

Tick ==
    /\ now < MaxNow
    /\ now' = now + 1
    /\ UNCHANGED <<object, vault, calls, issued, spent>>

Next ==
    \/ \E c \in Calls : computeApprovalMac(c) \/ verifyApprovalMac(c) \/ Resolve(c) \/ ProviderThrows(c)
    \/ Edit
    \/ Rotate
    \/ Tick

Spec == Init /\ [][Next]_vars

-----------------------------------------------------------------------------
Verified == {c \in Calls : calls[c].answer = "verified"}

(***************************************************************************)
(* A verification that answers "verified" judged exactly a payload that    *)
(* was signed, value for value, and that payload carried no no-go flag and *)
(* had not expired when the call was made, whatever the caller's object    *)
(* answers on a second read or is changed to while the secret is fetched.  *)
(***************************************************************************)
VerifiedMeansIssued ==
    \A c \in Verified :
        LET judged == calls[c].taken.first IN
        /\ \E i \in issued : i.mac = calls[c].mac /\ i.payload = judged
        /\ judged["no_go_flags"].n = 0
        /\ calls[c].at < judged["expires_at"].n

(***************************************************************************)
(* A payload that was signed verifies before it expires, unless the        *)
(* provider has no secret or another one: neither a gate nor a change of   *)
(* the caller's object in between refuses what is still good.              *)
(***************************************************************************)
IssuedVerifies ==
    \A c \in Calls : \A i \in issued :
        ( /\ c[1] = "verify"
          /\ calls[c].phase = "done"
          /\ calls[c].mac = i.mac
          /\ calls[c].taken.first = i.payload
          /\ i.payload["no_go_flags"].n = 0
          /\ i.payload["expires_at"].kind = "iso" /\ calls[c].at < i.payload["expires_at"].n
          /\ calls[c].answer # "tenant_secret_unavailable"
          /\ calls[c].material # None =>
                <<calls[c].material.key, calls[c].material.secret>> = i.mac.secret )
        => calls[c].answer = "verified"

(***************************************************************************)
(* A MAC is made with the secret of exactly the tenant, key and version    *)
(* its payload names, also when the provider answers with its newest key.  *)
(***************************************************************************)
MacsUseTheNamedKey == \A i \in issued : i.mac.secret[1] = KeyOf(i.payload)

=============================================================================
