------------------------ MODULE AcquisitionController ------------------------
(***************************************************************************)
(* The Run-3 acquisition control plane: one process that constructs a      *)
(* Run3AcquisitionController over the state file, drives it from PM        *)
(* authorization to VALIDATION_PENDING, and may die and be started again   *)
(* at any point.                                                           *)
(*                                                                         *)
(* The methods are synchronous except runCanary and acquireNext, which     *)
(* await acquireRaw between writing the in-flight marker and handling the  *)
(* answer: each is two actions, the call (RunCanary, AcquireNext) and its  *)
(* Settle.  A slot is one such call under way: with a single slot the      *)
(* caller awaits each call before the next, with more it overlaps them.    *)
(* Every write of the state file may fail before or after the rename took  *)
(* effect; a failed write makes the method throw with the controller's     *)
(* memory already changed.  A method that throws and changes nothing is    *)
(* not a step.                                                             *)
(***************************************************************************)
EXTENDS AcquisitionState

CONSTANTS Slots,       \* acquireRaw calls the caller may have under way
          MaxTime,     \* bound on the clock
          MaxFaults    \* bound on crashes and failed writes

ASSUME ControllerAssumption == MaxTime \in Nat /\ MaxFaults \in Nat

VARIABLES disk,      \* the state file
          running,   \* the run id of the live process, NoRun if there is none
          mem,       \* its controller's fields
          calls,     \* per slot, the acquireRaw call under way
          now,       \* clock.now()
          faults,    \* crashes and failed writes so far
          asked,     \* history: every acquireRaw call ever made
          answered   \* history: every valid evidence received, and when

vars == <<disk, running, mem, calls, now, faults, asked, answered>>

Call == [message : Messages, destination : Destinations]
Idle == [message |-> NoMessage, destination |-> "none"]

\* The controller, its state file, the calls under way and the history keep
\* their types.
TypeOK ==
  /\ disk \in ControllerState
  /\ running \in RunIds \cup {NoRun}
  /\ mem \in ControllerState
  /\ calls \in [Slots -> Call \cup {Idle}]
  /\ now \in 0..MaxTime
  /\ faults \in 0..MaxFaults
  /\ asked \in SUBSET Call
  /\ answered \in SUBSET [message : Messages, at : 0..MaxTime]

Init ==
  /\ disk = PreT0
  /\ running = NoRun
  /\ mem = PreT0
  /\ calls = [c \in Slots |-> Idle]
  /\ now = 0
  /\ faults = 0
  /\ asked = {}
  /\ answered = {}

\* ControllerStateStore.save: a temporary file renamed over the old one.  When
\* it throws, the rename may have happened (the directory's fsync failed).
Save(s, ok) ==
  \/ ok /\ disk' = s /\ UNCHANGED faults
  \/ ~ok /\ disk' \in {disk, s} /\ faults < MaxFaults /\ faults' = faults + 1

\* this.<fields> = s, then _persist(); the caller sees the throw, if any.
Persist(s) == mem' = s /\ \E ok \in BOOLEAN : Save(s, ok)

VoidRun(reason) ==
  IF mem.state = "VOID" THEN UNCHANGED <<disk, mem, faults>>
  ELSE Persist(Voided(mem, reason))

----------------------------------------------------------------------------
\* The constructor.  If _restore voids the run and the write throws there is
\* no controller.
Open(run) ==
  LET s == Restored(disk, run) IN
  /\ running = NoRun
  /\ \/ /\ s.state = disk.state
        /\ mem' = s /\ running' = run
        /\ UNCHANGED <<disk, faults>>
     \/ /\ s.state # disk.state
        /\ \E ok \in BOOLEAN :
             /\ Save(s, ok)
             /\ IF ok THEN mem' = s /\ running' = run ELSE UNCHANGED <<mem, running>>
  /\ UNCHANGED <<calls, now, asked, answered>>

AuthorizePM ==
  /\ running # NoRun
  /\ MayAuthorize(mem)
  /\ Persist(Authorized(mem, running))
  /\ UNCHANGED <<running, calls, now, asked, answered>>

ResolveSelection(candidates) ==
  /\ running # NoRun
  /\ MayResolve(mem)
  /\ Enough(candidates)
  /\ Persist(Resolved(mem, candidates))
  /\ UNCHANGED <<running, calls, now, asked, answered>>

RecordT0 ==
  /\ running # NoRun
  /\ mem.state = "METADATA_SELECTION_RESOLVED"
  /\ mem.selection # {}
  /\ mem.t0 = NoTime
  /\ Persist([mem EXCEPT !.t0 = now, !.state = "CANARY_PENDING"])
  /\ UNCHANGED <<running, calls, now, asked, answered>>

\* The marker is written, and only then acquireRaw is called.
Ask(slot, m, d) ==
  LET call == [message |-> m, destination |-> d]
      s == [mem EXCEPT !.acquisitionInFlight = m] IN
  /\ d \notin mem.destinationsUsed
  /\ mem' = s
  /\ \E ok \in BOOLEAN :
       /\ Save(s, ok)
       /\ IF ok THEN calls' = [calls EXCEPT ![slot] = call] /\ asked' = asked \cup {call}
                ELSE UNCHANGED <<calls, asked>>

RunCanary(slot, d) ==
  /\ running # NoRun /\ calls[slot] = Idle
  /\ mem.state = "CANARY_PENDING"
  /\ IF PastDeadline(mem, now)
     THEN VoidRun("deadline") /\ UNCHANGED <<calls, asked>>
     ELSE \E m \in mem.selection : IsCanary(m, mem.selection) /\ Ask(slot, m, d)
  /\ UNCHANGED <<running, now, answered>>

AcquireNext(slot, m, d) ==
  /\ running # NoRun /\ calls[slot] = Idle
  /\ mem.state \in {"CANARY_PASSED", "GMAIL_ACQUIRING"}
  /\ IF PastDeadline(mem, now)
     THEN VoidRun("deadline") /\ UNCHANGED <<calls, asked>>
     ELSE /\ m \notin Registered(mem)
          /\ m \in mem.selection /\ ~IsCanary(m, mem.selection)
          /\ Ask(slot, m, d)
  /\ UNCHANGED <<running, now, answered>>

\* Mutant: the run counts as complete one message early.
RegisterEarly(s, call) ==
  [s EXCEPT !.completed = Append(@, call.message),
            !.destinationsUsed = @ \cup {call.destination},
            !.acquisitionInFlight = NoMessage,
            !.state = IF IsCanary(call.message, s.selection) THEN "CANARY_PASSED"
                      ELSE IF Len(s.completed) + 2 >= TOTAL_GMAIL
                      THEN "ACQUISITION_COMPLETE" ELSE "GMAIL_ACQUIRING"]

\* What runCanary and acquireNext do with accepted evidence.
Register(s, call) ==
  [s EXCEPT !.completed = Append(@, call.message),
            !.destinationsUsed = @ \cup {call.destination},
            !.acquisitionInFlight = NoMessage,
            !.state = IF IsCanary(call.message, s.selection) THEN "CANARY_PASSED"
                      ELSE IF Len(s.completed) + 1 = TOTAL_GMAIL
                      THEN "ACQUISITION_COMPLETE" ELSE "GMAIL_ACQUIRING"]

\* acquireRaw throws, or returns evidence that isValidEvidence rejects, or
\* evidence it accepts; then the deadline is looked at again.
Settle(slot, outcome) ==
  /\ calls[slot] # Idle
  /\ calls' = [calls EXCEPT ![slot] = Idle]
  /\ answered' = IF outcome = "valid"
                 THEN answered \cup {[message |-> calls[slot].message, at |-> now]}
                 ELSE answered
  /\ CASE outcome = "throws"  -> VoidRun("ambiguous")
       [] outcome = "invalid" -> VoidRun("fidelity")
       [] outcome = "valid"   -> IF PastDeadline(mem, now) THEN VoidRun("deadline")
                                 ELSE Persist(Register(mem, calls[slot]))
  /\ UNCHANGED <<running, now, asked>>

CompleteToValidationPending ==
  /\ running # NoRun
  /\ mem.state = "ACQUISITION_COMPLETE"
  /\ Len(mem.completed) = TOTAL_GMAIL
  /\ Persist([mem EXCEPT !.state = "VALIDATION_PENDING"])
  /\ UNCHANGED <<running, calls, now, asked, answered>>

\* The process ends; an acquireRaw under way may or may not have had effect.
Crash ==
  /\ running # NoRun
  /\ faults < MaxFaults /\ faults' = faults + 1
  /\ running' = NoRun /\ mem' = PreT0
  /\ calls' = [c \in Slots |-> Idle]
  /\ UNCHANGED <<disk, now, asked, answered>>

Tick ==
  /\ now < MaxTime /\ now' = now + 1
  /\ UNCHANGED <<disk, running, mem, calls, faults, asked, answered>>

Next ==
  \/ \E run \in RunIds : Open(run)
  \/ AuthorizePM
  \/ \E candidates \in SUBSET Messages : ResolveSelection(candidates)
  \/ RecordT0
  \/ \E slot \in Slots, d \in Destinations : RunCanary(slot, d)
  \/ \E slot \in Slots, m \in Messages, d \in Destinations : AcquireNext(slot, m, d)
  \/ \E slot \in Slots, outcome \in {"throws", "invalid", "valid"} : Settle(slot, outcome)
  \/ CompleteToValidationPending
  \/ Crash
  \/ Tick

Spec == Init /\ [][Next]_vars
----------------------------------------------------------------------------
\* acquireRaw is never called a second time for a message, nor a second time
\* for a destination, whatever crashes, restarts and failed writes of the state
\* file lie between (controller.mjs: "rather than ever calling acquireRaw again
\* for it").
AskedOnce ==
  [][\A slot \in Slots :
       calls'[slot] \notin {calls[slot], Idle} =>
         \A a \in asked : /\ a.message # calls'[slot].message
                          /\ a.destination # calls'[slot].destination]_vars

\* Once the state file says VOID it says so for ever, with the same reason: no
\* restart, late answer or failed write takes the run up again.
VoidIsTerminal ==
  [][disk.state = "VOID" => disk'.state = "VOID" /\ disk'.voidReason = disk.voidReason]_vars

\* The selection and T0 never change once they are in the state file, so that
\* the deadline cannot be moved and the sample cannot be replaced by restarting.
SelectionAndT0Fixed ==
  [][/\ disk.selection # {} => disk'.selection = disk.selection
     /\ disk.t0 # NoTime => disk'.t0 = disk.t0]_vars

\* Nothing but the canary is asked for before valid evidence for the canary
\* has been received.
CanaryFirst ==
  \A a \in asked :
    ~IsCanary(a.message, disk.selection) =>
      \E e \in answered : IsCanary(e.message, disk.selection)

\* What the state file lists as completed was answered with valid evidence by
\* the deadline that follows from the T0 in the file.
RegisteredInTime ==
  \A m \in Registered(disk) :
    \E e \in answered : e.message = m /\ e.at <= disk.t0 + ACQUISITION_DURATION

\* A run that the state file calls complete has every selected message, each
\* one registered exactly once.
CompletionIsEarned ==
  disk.state \in {"ACQUISITION_COMPLETE", "VALIDATION_PENDING"} =>
    /\ Registered(disk) = disk.selection
    /\ Len(disk.completed) = Cardinality(disk.selection)
----------------------------------------------------------------------------
\* The caller awaits each acquireRaw before it starts the next.
Serial == \A a, b \in Slots : a = b

\* What a record registers: selected messages, each one once, and TOTAL_GMAIL
\* of them when it calls the run complete.
Counted(s) ==
  /\ s.selection # {} => Cardinality(s.selection) = TOTAL_GMAIL
  /\ Registered(s) \subseteq s.selection
  /\ \A i, j \in DOMAIN s.completed : s.completed[i] = s.completed[j] => i = j
  /\ s.state \in {"ACQUISITION_COMPLETE", "VALIDATION_PENDING"} =>
       Len(s.completed) = TOTAL_GMAIL

\* What a controller record owes to the history, in the file or in memory.
Sound(s, evidence) ==
  /\ Counted(s)
  /\ s.state \in {"PRE_T0", "PM_AUTHORIZED"} => s.selection = {}
  /\ s.state \in {"PRE_T0", "PM_AUTHORIZED", "METADATA_SELECTION_RESOLVED",
                  "CANARY_PENDING"} => s.completed = <<>>
  /\ s.state \in {"CANARY_PENDING", "CANARY_PASSED", "GMAIL_ACQUIRING"} => s.t0 # NoTime
  /\ s.state \in {"CANARY_PASSED", "GMAIL_ACQUIRING"} =>
       \E e \in evidence : IsCanary(e.message, s.selection)
  /\ \A m \in Registered(s) :
       \E e \in evidence : e.message = m /\ e.at <= s.t0 + ACQUISITION_DURATION

\* A record knows of every acquireRaw call made.
Accounts(s, made) ==
  \A a \in made : a.message \in Registered(s) /\ a.destination \in s.destinationsUsed

FileInv ==
  /\ Sound(disk, answered)
  /\ disk.state # "VOID" /\ disk.acquisitionInFlight = NoMessage => Accounts(disk, asked)
  /\ asked # {} => disk.selection # {}

MemInv ==
  running # NoRun =>
    /\ Sound(mem, answered)
    /\ disk.state = "VOID" => mem.state = "VOID"
    /\ disk.selection # {} => mem.selection = disk.selection
    /\ disk.t0 # NoTime => mem.t0 = disk.t0
    /\ mem.state # "VOID" /\ (\A slot \in Slots : calls[slot] = Idle) => Accounts(mem, asked)

CallInv ==
  \A slot \in Slots : calls[slot] # Idle =>
    /\ running # NoRun
    /\ mem.state \in {"CANARY_PENDING", "CANARY_PASSED", "GMAIL_ACQUIRING"}
    /\ mem.selection # {}
    /\ disk.acquisitionInFlight # NoMessage
    /\ calls[slot].message \in mem.selection \ Registered(mem)
    /\ mem.state = "CANARY_PENDING" => IsCanary(calls[slot].message, mem.selection)
    /\ \A a \in asked : \/ a = calls[slot]
                        \/ /\ a.message \in Registered(mem)
                           /\ a.destination \in mem.destinationsUsed

\* The inductive invariant of serial acquisition: while acquireRaw is under way
\* the marker is in the state file, and otherwise both the file and the live
\* controller know every call that was ever made or are void (controller.mjs
\* writes the marker before each call and clears it after registering).
SerialInv == TypeOK /\ FileInv /\ MemInv /\ CallInv /\ CanaryFirst
=============================================================================
