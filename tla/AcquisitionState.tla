-------------------------- MODULE AcquisitionState --------------------------
(***************************************************************************)
(* The record that a Run3AcquisitionController holds in memory and that    *)
(* ControllerStateStore keeps in one JSON file, with the pure parts of the *)
(* controller: restoring, voiding, the metadata selection, the deadline.   *)
(*                                                                         *)
(* Abstractions.  A Gmail message is its rank in the canonical order of    *)
(* selection.mjs (selection_score, then message_id).  A config is its run  *)
(* id: every other field is pinned by assertProtocolConfig, which refuses  *)
(* to construct a controller otherwise.  A missing state file and a fresh  *)
(* controller are the same record, PreT0: load() returns null and the      *)
(* constructor then assigns exactly these fields.  The in-flight marker is *)
(* the message it names.                                                   *)
(***************************************************************************)
EXTENDS Integers, Sequences, FiniteSets

CONSTANTS RunIds,                \* what an operator may type for --run-id
          Messages,              \* the mailbox inside the V1 window
          Destinations,          \* files that RAW bytes may be written to
          TOTAL_GMAIL,           \* EXPECTED_GMAIL_NEW = SAMPLE_SIZE (26)
          ACQUISITION_DURATION   \* ACQUISITION_DURATION_MS (4 hours)

NoRun == "none"
NoMessage == 0
NoTime == -1

ASSUME AcquisitionAssumption ==
  /\ NoRun \notin RunIds
  /\ Messages \subseteq Nat \ {0} /\ IsFiniteSet(Messages)
  /\ TOTAL_GMAIL \in Nat /\ TOTAL_GMAIL >= 2
  /\ ACQUISITION_DURATION \in Nat

\* T0_RECORDED is declared by the source and never assigned: recordT0 goes
\* straight to CANARY_PENDING.
STATES == {"PRE_T0", "PM_AUTHORIZED", "METADATA_SELECTION_RESOLVED",
           "CANARY_PENDING", "CANARY_PASSED", "GMAIL_ACQUIRING",
           "ACQUISITION_COMPLETE", "VALIDATION_PENDING", "VOID"}

VoidReasons == {"config_mismatch", "interrupted", "deadline", "ambiguous", "fidelity"}

ControllerState ==
  [state : STATES, pmAuthorization : RunIds \cup {NoRun},
   selection : SUBSET Messages, t0 : Nat \cup {NoTime},
   completed : Seq(Messages), destinationsUsed : SUBSET Destinations,
   voidReason : VoidReasons \cup {"none"},
   acquisitionInFlight : Messages \cup {NoMessage}]

PreT0 == [state |-> "PRE_T0", pmAuthorization |-> NoRun, selection |-> {},
          t0 |-> NoTime, completed |-> <<>>, destinationsUsed |-> {},
          voidReason |-> "none", acquisitionInFlight |-> NoMessage]

Registered(s) == {s.completed[i] : i \in DOMAIN s.completed}

\* resolveGmailSelection: the TOTAL_GMAIL first candidates in canonical order.
\* It throws when there are fewer.
Enough(candidates) == Cardinality(candidates) >= TOTAL_GMAIL

Sample(candidates) ==
  {m \in candidates : Cardinality({n \in candidates : n < m}) < TOTAL_GMAIL}

\* selected[0]; the other selected messages are "remaining".
IsCanary(m, selection) == \A n \in selection : m <= n

PastDeadline(s, now) == s.t0 # NoTime /\ now > s.t0 + ACQUISITION_DURATION

\* _void, without its write to the store.
Voided(s, reason) ==
  IF s.state = "VOID" THEN s
  ELSE [s EXCEPT !.state = "VOID", !.voidReason = reason,
                 !.acquisitionInFlight = NoMessage]

\* Mutant: a restart takes up the run where the file says it stopped, without
\* asking whether an acquisition was under way.
RestoredTrusting(s, run) ==
  IF s.pmAuthorization \notin {NoRun, run} THEN Voided(s, "config_mismatch")
  ELSE [s EXCEPT !.acquisitionInFlight = NoMessage]

\* _restore, without its write to the store: a run goes on only under the
\* config it was authorized for and only if no acquisition was in flight.
Restored(s, run) ==
  IF s.pmAuthorization \notin {NoRun, run} THEN Voided(s, "config_mismatch")
  ELSE IF s.acquisitionInFlight = NoMessage THEN s
  ELSE Voided([s EXCEPT !.acquisitionInFlight = NoMessage], "interrupted")

\* authorizePM with the record that matches the config.
MayAuthorize(s) == s.state = "PRE_T0"

Authorized(s, run) == [s EXCEPT !.pmAuthorization = run, !.state = "PM_AUTHORIZED"]

\* resolveSelection inside the fixed V1 window.
MayResolve(s) == s.state = "PM_AUTHORIZED"

Resolved(s, candidates) ==
  [s EXCEPT !.selection = Sample(candidates), !.state = "METADATA_SELECTION_RESOLVED"]
=============================================================================
