--------------------------- MODULE SelectOperator ---------------------------
(***************************************************************************)
(* The run3-select command: runRun3Select in one or more operating-system  *)
(* processes over the one canonical state file.                            *)
(*                                                                         *)
(* Inside a process the code is synchronous up to the awaited enumeration; *)
(* between processes only a read or a rename of the state file is atomic.  *)
(* So an invocation is cut at its file operations and at its await: the    *)
(* read that classifies the file, the constructor's own read, the write of *)
(* authorizePM, the enumeration with the write of resolveSelection.  The   *)
(* invocations that end before the first read (no acknowledgement, a bad   *)
(* run id, a bad state root) change nothing and are not steps.             *)
(***************************************************************************)
EXTENDS AcquisitionState, TLAPS

CONSTANTS Processes

VARIABLES stateFile,       \* the state file
          proc,       \* per process, the invocation under way
          reported,   \* history: the commitments printed, and for which run
          overlapped  \* history: two invocations were under way together

selectVars == <<stateFile, proc, reported, overlapped>>

Ended == [pc |-> "ended", run |-> NoRun, entry |-> "none", mem |-> PreT0]

SelectInit ==
  /\ stateFile = PreT0
  /\ proc = [p \in Processes |-> Ended]
  /\ reported = {}
  /\ overlapped = FALSE

\* classifyPersistedState
EntryOfFile(s, run) ==
  IF s.acquisitionInFlight # NoMessage THEN "refused"
  ELSE CASE s.state = "PRE_T0" -> IF s.pmAuthorization = NoRun THEN "FRESH" ELSE "refused"
         [] s.state \in {"PM_AUTHORIZED", "METADATA_SELECTION_RESOLVED"} ->
              IF s.pmAuthorization # run THEN "refused"
              ELSE IF s.state = "METADATA_SELECTION_RESOLVED" THEN "ALREADY_RESOLVED"
              ELSE IF s.selection = {} THEN "RESUME_PM_AUTHORIZED" ELSE "refused"
         [] OTHER -> "refused"

\* A write of the state file: "fails" throws with the old file in place,
\* "torn" throws although the rename has happened.
SaveFile(s, outcome) == stateFile' = IF outcome = "fails" THEN stateFile ELSE s

Outcomes == {"ok", "fails", "torn"}

End(p) == proc' = [proc EXCEPT ![p] = Ended]

----------------------------------------------------------------------------
\* The state file is read and classified; a resolved selection is reported
\* again without a write.
Classify(p, run) ==
  /\ proc[p].pc = "ended"
  /\ \/ /\ EntryOfFile(stateFile, run) \in {"FRESH", "RESUME_PM_AUTHORIZED"}
        /\ proc' = [proc EXCEPT ![p] = [pc |-> "classified", run |-> run,
                                        entry |-> EntryOfFile(stateFile, run), mem |-> PreT0]]
        /\ UNCHANGED reported
     \/ /\ EntryOfFile(stateFile, run) = "ALREADY_RESOLVED"
        /\ reported' = reported \cup {[run |-> run, selection |-> stateFile.selection]}
        /\ UNCHANGED proc
  /\ UNCHANGED stateFile

\* controllerFactory: the constructor reads the file again and may void it.
Construct(p, outcome) ==
  LET s == Restored(stateFile, proc[p].run) IN
  /\ proc[p].pc = "classified"
  /\ \/ /\ s.state = stateFile.state /\ UNCHANGED stateFile
        /\ outcome = "ok"
     \/ /\ s.state # stateFile.state /\ SaveFile(s, outcome)
  /\ IF outcome # "ok" THEN End(p)
     ELSE proc' = [proc EXCEPT ![p].mem = s,
                               ![p].pc = IF proc[p].entry = "FRESH"
                                         THEN "constructed" ELSE "enumerating"]
  /\ UNCHANGED reported

\* authorizePM of a fresh run; its guard looks at the controller's memory.
AuthorizeRun(p, outcome) ==
  LET s == Authorized(proc[p].mem, proc[p].run) IN
  /\ proc[p].pc = "constructed"
  /\ \/ ~MayAuthorize(proc[p].mem) /\ End(p) /\ UNCHANGED stateFile /\ outcome = "fails"
     \/ /\ MayAuthorize(proc[p].mem)
        /\ SaveFile(s, outcome)
        /\ IF outcome = "ok"
           THEN proc' = [proc EXCEPT ![p].mem = s, ![p].pc = "enumerating"]
           ELSE End(p)
  /\ UNCHANGED reported

\* Mutant: the commitment is printed before the write is known to have worked.
ResolveReportingFirst(p, candidates, outcome) ==
  LET s == Resolved(proc[p].mem, candidates) IN
  /\ proc[p].pc = "enumerating"
  /\ MayResolve(proc[p].mem) /\ Enough(candidates)
  /\ SaveFile(s, outcome)
  /\ reported' = reported \cup {[run |-> proc[p].run, selection |-> s.selection]}
  /\ End(p)

\* The enumeration has answered: resolveSelection, its write, the report.
Resolve(p, candidates, outcome) ==
  LET s == Resolved(proc[p].mem, candidates) IN
  /\ proc[p].pc = "enumerating"
  /\ MayResolve(proc[p].mem) /\ Enough(candidates)
  /\ SaveFile(s, outcome)
  /\ reported' = IF outcome # "ok" THEN reported
                 ELSE reported \cup {[run |-> proc[p].run, selection |-> s.selection]}
  /\ End(p)

\* Any throw that leaves the file alone (a failed enumeration, too few
\* candidates, a guard), and the death of the process.
Abandon(p) ==
  /\ proc[p].pc # "ended"
  /\ End(p)
  /\ UNCHANGED <<stateFile, reported>>

\* No two invocations are under way together.
OneAtATime == \A p, q \in Processes : proc[p].pc # "ended" /\ proc[q].pc # "ended" => p = q

Step(p) ==
  \/ \E run \in RunIds : Classify(p, run)
  \/ \E outcome \in Outcomes : Construct(p, outcome)
  \/ \E outcome \in Outcomes : AuthorizeRun(p, outcome)
  \/ \E candidates \in SUBSET Messages, outcome \in Outcomes : Resolve(p, candidates, outcome)
  \/ Abandon(p)

SelectNext ==
  \E p \in Processes :
    /\ Step(p)
    /\ overlapped' = (overlapped \/ ~OneAtATime')

SelectSpec == SelectInit /\ [][SelectNext]_selectVars

----------------------------------------------------------------------------
\* A selection commitment that run3-select has printed is the one in the state
\* file: it is not reselected or overwritten by a later invocation.
ReportedSelectionStands == \A r \in reported : stateFile.selection = r.selection

Reporting ==
  \A r \in reported' \ reported :
    /\ stateFile'.state = "METADATA_SELECTION_RESOLVED"
    /\ stateFile'.selection = r.selection
    /\ stateFile'.pmAuthorization = r.run

\* At the moment run3-select prints a commitment the state file holds that
\* selection, resolved under the authorization of the run it was invoked for,
\* even while another run3-select is at work on the file.
ReportIsOfOwnRun == [][Reporting]_selectVars

\* run3-select never voids a run: a mistyped run id is refused with the run left
\* as it was.
SelectNeverVoids == stateFile.state # "VOID"

\* As long as invocations of run3-select do not overlap, a printed commitment
\* stands and no run is voided, however they fail, die and are repeated with
\* right or wrong run ids.
SafeOneAtATime == overlapped \/ (ReportedSelectionStands /\ SelectNeverVoids)

----------------------------------------------------------------------------
Invocation == [pc : {"ended", "classified", "constructed", "enumerating"},
               run : RunIds \cup {NoRun},
               entry : {"none", "FRESH", "RESUME_PM_AUTHORIZED"}, mem : ControllerState]

\* A controller's record carries the authorization its state needs.
OwnAuthorization(s) ==
  s.state \in {"PM_AUTHORIZED", "METADATA_SELECTION_RESOLVED"} => s.pmAuthorization # NoRun

\* What holds however invocations overlap: a controller that may resolve was
\* authorized for the run of its own invocation.
InvocationsKeepTheirRun ==
  /\ OwnAuthorization(stateFile)
  /\ \A p \in Processes :
       proc[p].pc # "ended" =>
         /\ proc[p].run \in RunIds
         /\ proc[p].pc = "enumerating" /\ proc[p].mem.state = "PM_AUTHORIZED" =>
              proc[p].mem.pmAuthorization = proc[p].run

\* What the state file is while process p is under way alone: not yet resolved,
\* authorized for no other run, and what the controller holds in memory.
FileIsMine(p) ==
  /\ stateFile.acquisitionInFlight = NoMessage
  /\ stateFile.state = IF proc[p].entry = "FRESH" /\ proc[p].pc # "enumerating"
                  THEN "PRE_T0" ELSE "PM_AUTHORIZED"
  /\ stateFile.pmAuthorization = IF stateFile.state = "PRE_T0" THEN NoRun ELSE proc[p].run
  /\ proc[p].entry \in {"FRESH", "RESUME_PM_AUTHORIZED"}
  /\ proc[p].pc = "constructed" => proc[p].entry = "FRESH"
  /\ proc[p].pc # "classified" => proc[p].mem = stateFile

\* The inductive invariant: as long as nothing has overlapped, at most one
\* invocation is under way, it owns the file, and nothing is printed before the
\* file is resolved.
AloneInv ==
  /\ OneAtATime
  /\ stateFile.state # "VOID"
  /\ \A p \in Processes : proc[p].pc # "ended" => FileIsMine(p)
  /\ reported # {} => stateFile.state = "METADATA_SELECTION_RESOLVED"
  /\ ReportedSelectionStands

SelectInv ==
  /\ stateFile \in ControllerState /\ proc \in [Processes -> Invocation]
  /\ InvocationsKeepTheirRun
  /\ overlapped \/ AloneInv

-----------------------------------------------------------------------------
(***************************************************************************)
(* The proofs, for every mailbox, sample size, set of run ids and number   *)
(* of processes: what run3-select prints is at that moment in the file,    *)
(* under its own run, however invocations overlap; and while none overlap, *)
(* what was printed stands and no run is voided, whatever fails, dies or   *)
(* is repeated.                                                            *)
(***************************************************************************)

\* What the pure parts of the controller do to a record.
LEMMA RecordSteps ==
  ASSUME NEW s \in ControllerState, NEW run \in RunIds, NEW candidates \in SUBSET Messages
  PROVE  /\ PreT0 \in ControllerState
         /\ Authorized(s, run) \in ControllerState
         /\ Authorized(s, run).state = "PM_AUTHORIZED"
         /\ Authorized(s, run).pmAuthorization = run
         /\ Authorized(s, run).acquisitionInFlight = s.acquisitionInFlight
         /\ Resolved(s, candidates) \in ControllerState
         /\ Resolved(s, candidates).state = "METADATA_SELECTION_RESOLVED"
         /\ Resolved(s, candidates).pmAuthorization = s.pmAuthorization
<1>1. Sample(candidates) \in SUBSET Messages
  BY Zenon DEF Sample
<1>2. PreT0 \in ControllerState
  BY DEF PreT0, ControllerState, STATES
<1>3. /\ Authorized(s, run) \in ControllerState
      /\ Authorized(s, run).state = "PM_AUTHORIZED"
      /\ Authorized(s, run).pmAuthorization = run
      /\ Authorized(s, run).acquisitionInFlight = s.acquisitionInFlight
  BY Zenon DEF Authorized, ControllerState, STATES
<1>4. /\ Resolved(s, candidates) \in ControllerState
      /\ Resolved(s, candidates).state = "METADATA_SELECTION_RESOLVED"
      /\ Resolved(s, candidates).pmAuthorization = s.pmAuthorization
  BY Zenon, <1>1 DEF Resolved, ControllerState, STATES
<1> QED
  BY Zenon, <1>2, <1>3, <1>4

\* Restoring a record for a run: it is void, or it is the record itself, with
\* nothing in flight and authorized for no other run.
LEMMA RestoredRecord ==
  ASSUME NEW s \in ControllerState, NEW run \in RunIds
  PROVE  /\ Restored(s, run) \in ControllerState
         /\ \/ Restored(s, run).state = "VOID"
            \/ Restored(s, run) = s /\ s.pmAuthorization \in {NoRun, run}
         /\ s.pmAuthorization \in {NoRun, run} /\ s.acquisitionInFlight = NoMessage =>
              Restored(s, run) = s
<1>1. PICK d : d = [s EXCEPT !.acquisitionInFlight = NoMessage]
  BY Zenon
<1>2. d \in ControllerState
  BY Zenon, <1>1 DEF ControllerState
<1>3. {"config_mismatch", "interrupted"} \subseteq VoidReasons
  BY Zenon DEF VoidReasons
<1>4. ASSUME NEW r \in ControllerState, NEW why \in VoidReasons
      PROVE  Voided(r, why) \in ControllerState /\ Voided(r, why).state = "VOID"
  BY Zenon DEF Voided, ControllerState, STATES
<1>5. CASE s.pmAuthorization \notin {NoRun, run}
  BY Zenon, <1>3, <1>4, <1>5 DEF Restored
<1>6. CASE s.pmAuthorization \in {NoRun, run} /\ s.acquisitionInFlight = NoMessage
  BY Zenon, <1>6 DEF Restored
<1>7. CASE s.pmAuthorization \in {NoRun, run} /\ s.acquisitionInFlight # NoMessage
  <2>1. Restored(s, run) = Voided(d, "interrupted")
    BY Zenon, <1>1, <1>7 DEF Restored
  <2> QED
    BY Zenon, <1>2, <1>3, <1>4, <1>7, <2>1
<1> QED
  BY Zenon, <1>5, <1>6, <1>7

\* What a classification that goes on has seen in the file.
LEMMA EntryOf ==
  ASSUME NEW s \in ControllerState, NEW run \in RunIds
  PROVE  /\ EntryOfFile(s, run) = "FRESH" =>
              /\ s.acquisitionInFlight = NoMessage /\ s.state = "PRE_T0"
              /\ s.pmAuthorization = NoRun
         /\ EntryOfFile(s, run) = "RESUME_PM_AUTHORIZED" =>
              /\ s.acquisitionInFlight = NoMessage /\ s.state = "PM_AUTHORIZED"
              /\ s.pmAuthorization = run
         /\ EntryOfFile(s, run) = "ALREADY_RESOLVED" =>
              /\ s.state = "METADATA_SELECTION_RESOLVED" /\ s.pmAuthorization = run
<1>1. CASE s.acquisitionInFlight # NoMessage
  <2>1. EntryOfFile(s, run) = "refused"
    BY Zenon, <1>1 DEF EntryOfFile
  <2> QED
    BY Zenon, <2>1
<1>2. CASE s.acquisitionInFlight = NoMessage /\ s.state = "PRE_T0"
  BY Zenon, <1>2 DEF EntryOfFile
<1>3. CASE s.acquisitionInFlight = NoMessage /\ s.state = "PM_AUTHORIZED"
  BY Zenon, <1>3 DEF EntryOfFile
<1>4. CASE s.acquisitionInFlight = NoMessage /\ s.state = "METADATA_SELECTION_RESOLVED"
  BY Zenon, <1>4 DEF EntryOfFile
<1>5. CASE /\ s.acquisitionInFlight = NoMessage
           /\ s.state \notin {"PRE_T0", "PM_AUTHORIZED", "METADATA_SELECTION_RESOLVED"}
  <2>1. EntryOfFile(s, run) = "refused"
    BY Zenon, <1>5 DEF EntryOfFile
  <2> QED
    BY Zenon, <2>1
<1> QED
  BY Zenon, <1>1, <1>2, <1>3, <1>4, <1>5

\* The steps of an invocation, by what they do to the file, to the invocation
\* and to the report; every other invocation is left alone.
Moved(p) == \A q \in Processes \ {p} : proc'[q] = proc[q]

\* The invocation goes on as v.
Goes(p, v) == proc' \in [Processes -> Invocation] /\ proc'[p] = v /\ Moved(p)

LEMMA GoesOn ==
  ASSUME proc \in [Processes -> Invocation], NEW p \in Processes, NEW v \in Invocation,
         proc' = [proc EXCEPT ![p] = v]
  PROVE  Goes(p, v)
BY Zenon DEF Goes, Moved

\* An invocation that has ended keeps what holds however invocations overlap.
LEMMA EndedStep ==
  ASSUME SelectInv, NEW p \in Processes, End(p)
  PROVE  Goes(p, Ended) /\ Ended.pc = "ended"
<1>1. Ended \in Invocation /\ Ended.pc = "ended"
  BY RecordSteps DEF Ended, Invocation, PreT0, ControllerState, STATES
<1> QED
  BY Zenon, <1>1, GoesOn DEF End, SelectInv

\* The typed part and the part that holds under overlap, after a step of p.
Kept(p) ==
  /\ stateFile' \in ControllerState /\ proc' \in [Processes -> Invocation]
  /\ InvocationsKeepTheirRun'
  /\ Moved(p)

LEMMA KeptBy ==
  ASSUME SelectInv, NEW p \in Processes, NEW v, Goes(p, v),
         stateFile' \in ControllerState, OwnAuthorization(stateFile'),
         v.pc # "ended" =>
           /\ v.run \in RunIds
           /\ v.pc = "enumerating" /\ v.mem.state = "PM_AUTHORIZED" => v.mem.pmAuthorization = v.run
  PROVE  Kept(p)
BY Zenon DEF Kept, Goes, Moved, SelectInv, InvocationsKeepTheirRun, OwnAuthorization

\* While nothing has overlapped only one invocation is under way before and
\* after the step, so what is to be shown concerns p alone.
LEMMA AloneBy ==
  ASSUME NEW p \in Processes, Moved(p), AloneInv, OneAtATime',
         stateFile'.state # "VOID",
         proc'[p].pc # "ended" => FileIsMine(p)',
         proc[p].pc = "ended" => UNCHANGED stateFile,
         reported' # {} => stateFile'.state = "METADATA_SELECTION_RESOLVED",
         ReportedSelectionStands'
  PROVE  AloneInv'
<1>1. ASSUME NEW q \in Processes, proc'[q].pc # "ended"
      PROVE  FileIsMine(q)'
  <2>1. CASE q = p
    BY Zenon, <1>1, <2>1
  <2>2. CASE q # p
    <3>1. proc'[q] = proc[q] /\ proc[q].pc # "ended"
      BY Zenon, <1>1, <2>2 DEF Moved
    <3>2. proc[p].pc = "ended"
      BY Zenon, <2>2, <3>1 DEF AloneInv, OneAtATime
    <3> QED
      BY Zenon, <3>1, <3>2 DEF AloneInv, FileIsMine
  <2> QED
    BY Zenon, <2>1, <2>2
<1> QED
  BY Zenon, <1>1 DEF AloneInv

\* What every step of a process p does.
StepGood(p) ==
  /\ Kept(p)
  /\ Reporting
  /\ AloneInv /\ OneAtATime' => AloneInv'

LEMMA ClassifyStep ==
  ASSUME SelectInv, NEW p \in Processes, NEW run \in RunIds, Classify(p, run)
  PROVE  StepGood(p)
<1>1. proc[p].pc = "ended" /\ UNCHANGED stateFile /\ stateFile \in ControllerState
      /\ proc \in [Processes -> Invocation] /\ OwnAuthorization(stateFile)
  BY Zenon DEF Classify, SelectInv, InvocationsKeepTheirRun
<1>2. CASE /\ EntryOfFile(stateFile, run) \in {"FRESH", "RESUME_PM_AUTHORIZED"}
           /\ proc' = [proc EXCEPT ![p] = [pc |-> "classified", run |-> run,
                                           entry |-> EntryOfFile(stateFile, run), mem |-> PreT0]]
           /\ UNCHANGED reported
  <2>1. PICK v : v = [pc |-> "classified", run |-> run, entry |-> EntryOfFile(stateFile, run), mem |-> PreT0]
    BY Zenon
  <2>2. v \in Invocation /\ proc' = [proc EXCEPT ![p] = v]
    BY Zenon, <1>1, <1>2, <2>1, RecordSteps DEF Invocation
  <2>3. Goes(p, v) /\ v.pc = "classified" /\ v.run = run /\ v.entry = EntryOfFile(stateFile, run)
    BY Zenon, <1>1, <2>1, <2>2, GoesOn
  <2>4. Kept(p)
    BY Zenon, <1>1, <2>3, KeptBy DEF OwnAuthorization
  <2>5. FileIsMine(p)'
    BY Zenon, <1>1, <1>2, <2>3, EntryOf DEF FileIsMine, Goes
  <2>6. AloneInv => stateFile.state # "METADATA_SELECTION_RESOLVED" /\ reported = {}
    BY Zenon, <1>1, <1>2, EntryOf DEF AloneInv
  <2>7. AloneInv /\ OneAtATime' => AloneInv'
    BY Zenon, <1>1, <1>2, <2>3, <2>5, <2>6, AloneBy DEF AloneInv, ReportedSelectionStands, Goes
  <2> QED
    BY Zenon, <1>2, <2>4, <2>7 DEF StepGood, Reporting
<1>3. CASE /\ EntryOfFile(stateFile, run) = "ALREADY_RESOLVED"
           /\ reported' = reported \cup {[run |-> run, selection |-> stateFile.selection]}
           /\ UNCHANGED proc
  <2>1. stateFile.state = "METADATA_SELECTION_RESOLVED" /\ stateFile.pmAuthorization = run
    BY Zenon, <1>1, <1>3, EntryOf
  <2>2. Goes(p, proc[p])
    BY Zenon, <1>1, <1>3 DEF Goes, Moved
  <2>3. Kept(p)
    BY Zenon, <1>1, <2>2, KeptBy DEF OwnAuthorization
  <2>4. Reporting
    BY <1>1, <1>3, <2>1 DEF Reporting
  <2>5. AloneInv => ReportedSelectionStands'
    BY <1>1, <1>3 DEF AloneInv, ReportedSelectionStands
  <2>6. AloneInv /\ OneAtATime' => AloneInv'
    BY Zenon, <1>1, <1>3, <2>1, <2>2, <2>5, AloneBy DEF AloneInv, Goes
  <2> QED
    BY Zenon, <2>3, <2>4, <2>6 DEF StepGood
<1> QED
  BY Zenon, <1>2, <1>3 DEF Classify

\* A step that ends the invocation and leaves file and report alone.
LEMMA LeaveStep ==
  ASSUME SelectInv, NEW p \in Processes, proc[p].pc # "ended", End(p), UNCHANGED <<stateFile, reported>>
  PROVE  StepGood(p)
<1>1. Goes(p, Ended) /\ Ended.pc = "ended"
  BY Zenon, EndedStep
<1>2. Kept(p)
  BY Zenon, <1>1, KeptBy DEF SelectInv, InvocationsKeepTheirRun, OwnAuthorization
<1>3. AloneInv /\ OneAtATime' => AloneInv'
  BY Zenon, <1>1, AloneBy DEF AloneInv, ReportedSelectionStands, Goes
<1> QED
  BY Zenon, <1>2, <1>3 DEF StepGood, Reporting

\* While invocations do not overlap, the constructor finds the file as
\* classification left it and never voids it.
LEMMA ConstructStep ==
  ASSUME SelectInv, NEW p \in Processes, NEW outcome \in Outcomes, Construct(p, outcome)
  PROVE  StepGood(p)
<1>1. PICK s : s = Restored(stateFile, proc[p].run)
  BY Zenon
<1>2. /\ proc[p].pc = "classified" /\ UNCHANGED reported /\ stateFile \in ControllerState
      /\ proc \in [Processes -> Invocation] /\ proc[p] \in Invocation
      /\ OwnAuthorization(stateFile) /\ proc[p].run \in RunIds
  BY Zenon DEF Construct, SelectInv, InvocationsKeepTheirRun
<1>3. /\ s \in ControllerState
      /\ s.state = "VOID" \/ (s = stateFile /\ stateFile.pmAuthorization \in {NoRun, proc[p].run})
      /\ stateFile.pmAuthorization \in {NoRun, proc[p].run} /\ stateFile.acquisitionInFlight = NoMessage =>
           s = stateFile
  BY Zenon, <1>1, <1>2, RestoredRecord
<1>4. /\ \/ s.state = stateFile.state /\ UNCHANGED stateFile /\ outcome = "ok"
         \/ s.state # stateFile.state /\ SaveFile(s, outcome)
      /\ IF outcome # "ok" THEN End(p)
         ELSE proc' = [proc EXCEPT ![p].mem = s,
                                   ![p].pc = IF proc[p].entry = "FRESH"
                                             THEN "constructed" ELSE "enumerating"]
  BY Zenon, <1>1 DEF Construct
<1>5. stateFile' \in {stateFile, s} /\ OwnAuthorization(stateFile') /\ stateFile' \in ControllerState
  BY Zenon, <1>2, <1>3, <1>4 DEF SaveFile, OwnAuthorization
<1>6. AloneInv => FileIsMine(p) /\ s = stateFile
  BY Zenon, <1>2, <1>3 DEF AloneInv, FileIsMine
<1>7. AloneInv => UNCHANGED stateFile /\ outcome = "ok"
  BY Zenon, <1>4, <1>6
<1>8. CASE outcome # "ok"
  <2>1. Goes(p, Ended) /\ Ended.pc = "ended"
    BY Zenon, <1>4, <1>8, EndedStep
  <2> QED
    BY Zenon, <1>2, <1>5, <1>7, <1>8, <2>1, KeptBy DEF StepGood, Reporting
<1>9. CASE outcome = "ok"
  <2>1. PICK v : v = [proc[p] EXCEPT !.mem = s, !.pc = IF proc[p].entry = "FRESH"
                                                     THEN "constructed" ELSE "enumerating"]
    BY Zenon
  <2>2. /\ v \in Invocation /\ v.run = proc[p].run /\ v.mem = s /\ v.entry = proc[p].entry
        /\ v.pc = IF proc[p].entry = "FRESH" THEN "constructed" ELSE "enumerating"
    BY Zenon, <1>2, <1>3, <2>1 DEF Invocation
  <2>3. proc' = [proc EXCEPT ![p] = v]
    BY Zenon, <1>2, <1>4, <1>9, <2>1
  <2>4. Goes(p, v)
    BY Zenon, <1>2, <2>2, <2>3, GoesOn
  <2>5. v.mem.state = "PM_AUTHORIZED" => v.mem.pmAuthorization = v.run
    BY Zenon, <1>2, <1>3, <2>2 DEF OwnAuthorization
  <2>6. Kept(p)
    BY Zenon, <1>2, <1>5, <2>2, <2>4, <2>5, KeptBy
  <2>7. AloneInv => FileIsMine(p)'
    BY Zenon, <1>2, <1>6, <1>7, <2>2, <2>4 DEF FileIsMine, Goes
  <2>8. AloneInv /\ OneAtATime' => AloneInv'
    BY Zenon, <1>2, <1>7, <2>4, <2>7, AloneBy DEF AloneInv, ReportedSelectionStands, Goes
  <2> QED
    BY Zenon, <1>2, <2>6, <2>8 DEF StepGood, Reporting
<1> QED
  BY Zenon, <1>8, <1>9

LEMMA AuthorizeRunStep ==
  ASSUME SelectInv, NEW p \in Processes, NEW outcome \in Outcomes, AuthorizeRun(p, outcome)
  PROVE  StepGood(p)
<1>1. PICK s : s = Authorized(proc[p].mem, proc[p].run)
  BY Zenon
<1>2. /\ proc[p].pc = "constructed" /\ UNCHANGED reported /\ stateFile \in ControllerState
      /\ proc \in [Processes -> Invocation] /\ proc[p] \in Invocation
      /\ OwnAuthorization(stateFile) /\ proc[p].run \in RunIds /\ proc[p].mem \in ControllerState
  BY Zenon DEF AuthorizeRun, SelectInv, InvocationsKeepTheirRun, Invocation
<1>3. /\ s \in ControllerState /\ s.state = "PM_AUTHORIZED" /\ s.pmAuthorization = proc[p].run
      /\ s.acquisitionInFlight = proc[p].mem.acquisitionInFlight
  BY Zenon, <1>1, <1>2, RecordSteps
<1>4. CASE ~MayAuthorize(proc[p].mem) /\ End(p) /\ UNCHANGED stateFile
  BY Zenon, <1>2, <1>4, LeaveStep
<1>5. CASE /\ SaveFile(s, outcome)
           /\ IF outcome = "ok"
              THEN proc' = [proc EXCEPT ![p].mem = s, ![p].pc = "enumerating"]
              ELSE End(p)
  <2>1. stateFile' \in {stateFile, s} /\ (outcome = "ok" => stateFile' = s) /\ stateFile' \in ControllerState
    BY Zenon, <1>2, <1>3, <1>5 DEF SaveFile
  <2>2. NoRun \notin RunIds
    BY Zenon, AcquisitionAssumption
  <2>3. OwnAuthorization(stateFile')
    BY Zenon, <1>2, <1>3, <2>1, <2>2 DEF OwnAuthorization
  <2>4. AloneInv => /\ FileIsMine(p) /\ proc[p].entry = "FRESH" /\ stateFile.state = "PRE_T0"
                    /\ proc[p].mem = stateFile /\ reported = {} /\ stateFile'.state # "VOID"
    BY Zenon, <1>2, <1>3, <2>1 DEF AloneInv, FileIsMine
  <2>5. AloneInv => ReportedSelectionStands' /\ reported' = {}
    BY Zenon, <1>2, <2>4 DEF ReportedSelectionStands
  <2>6. CASE outcome # "ok"
    <3>1. Goes(p, Ended) /\ Ended.pc = "ended"
      BY Zenon, <1>5, <2>6, EndedStep
    <3>2. Kept(p)
      BY Zenon, <2>1, <2>3, <3>1, KeptBy
    <3>3. AloneInv /\ OneAtATime' => AloneInv'
      BY Zenon, <1>2, <2>4, <2>5, <3>1, AloneBy DEF Goes
    <3> QED
      BY Zenon, <1>2, <3>2, <3>3 DEF StepGood, Reporting
  <2>7. CASE outcome = "ok"
    <3>1. PICK v : v = [proc[p] EXCEPT !.mem = s, !.pc = "enumerating"]
      BY Zenon
    <3>2. /\ v \in Invocation /\ v.run = proc[p].run /\ v.mem = s /\ v.entry = proc[p].entry
          /\ v.pc = "enumerating"
      BY Zenon, <1>2, <1>3, <3>1 DEF Invocation
    <3>3. proc' = [proc EXCEPT ![p] = v]
      BY Zenon, <1>2, <1>5, <2>7, <3>1
    <3>4. Goes(p, v)
      BY Zenon, <1>2, <3>2, <3>3, GoesOn
    <3>5. Kept(p)
      BY Zenon, <1>2, <1>3, <2>1, <2>3, <3>2, <3>4, KeptBy
    <3>6. AloneInv => FileIsMine(p)'
      BY Zenon, <1>2, <1>3, <2>1, <2>4, <2>7, <3>2, <3>4 DEF FileIsMine, Goes
    <3>7. AloneInv /\ OneAtATime' => AloneInv'
      BY Zenon, <1>2, <2>4, <2>5, <3>4, <3>6, AloneBy DEF Goes
    <3> QED
      BY Zenon, <1>2, <3>5, <3>7 DEF StepGood, Reporting
  <2> QED
    BY Zenon, <2>6, <2>7
<1> QED
  BY Zenon, <1>1, <1>4, <1>5 DEF AuthorizeRun

LEMMA ResolveRunStep ==
  ASSUME SelectInv, NEW p \in Processes, NEW candidates \in SUBSET Messages,
         NEW outcome \in Outcomes, Resolve(p, candidates, outcome)
  PROVE  StepGood(p)
<1>1. PICK s : s = Resolved(proc[p].mem, candidates)
  BY Zenon
<1>2. /\ proc[p].pc = "enumerating" /\ proc[p].mem.state = "PM_AUTHORIZED"
      /\ proc[p].mem.pmAuthorization = proc[p].run /\ stateFile \in ControllerState
      /\ OwnAuthorization(stateFile) /\ proc[p].run \in RunIds /\ proc[p].mem \in ControllerState
  BY Zenon DEF Resolve, MayResolve, SelectInv, InvocationsKeepTheirRun, Invocation
<1>3. /\ s \in ControllerState /\ s.state = "METADATA_SELECTION_RESOLVED"
      /\ s.pmAuthorization = proc[p].run
  BY <1>1, <1>2, RecordSteps
<1>4. /\ SaveFile(s, outcome) /\ End(p)
      /\ reported' = IF outcome # "ok" THEN reported
                     ELSE reported \cup {[run |-> proc[p].run, selection |-> s.selection]}
  BY Zenon, <1>1 DEF Resolve
<1>5. stateFile' \in {stateFile, s} /\ (outcome = "ok" => stateFile' = s) /\ stateFile' \in ControllerState
  BY Zenon, <1>2, <1>3, <1>4 DEF SaveFile
<1>6. NoRun \notin RunIds
  BY Zenon, AcquisitionAssumption
<1>7. OwnAuthorization(stateFile')
  BY Zenon, <1>2, <1>3, <1>5, <1>6 DEF OwnAuthorization
<1>8. Goes(p, Ended) /\ Ended.pc = "ended"
  BY Zenon, <1>4, EndedStep
<1>9. Kept(p)
  BY Zenon, <1>5, <1>7, <1>8, KeptBy
<1>10. Reporting
  BY <1>3, <1>4, <1>5 DEF Reporting
<1>11. AloneInv => reported = {} /\ stateFile'.state # "VOID"
  BY Zenon, <1>2, <1>3, <1>5 DEF AloneInv, FileIsMine
<1>12. AloneInv => /\ reported' # {} => stateFile'.state = "METADATA_SELECTION_RESOLVED"
                   /\ ReportedSelectionStands'
  BY <1>3, <1>4, <1>5, <1>11 DEF ReportedSelectionStands
<1>13. AloneInv /\ OneAtATime' => AloneInv'
  BY Zenon, <1>2, <1>8, <1>11, <1>12, AloneBy DEF Goes
<1> QED
  BY Zenon, <1>9, <1>10, <1>13 DEF StepGood

LEMMA FileStaysMine ==
  ASSUME SelectInv, SelectNext
  PROVE  SelectInv' /\ Reporting
<1>1. PICK p \in Processes : Step(p) /\ overlapped' = (overlapped \/ ~OneAtATime')
  BY Zenon DEF SelectNext
<1>2. StepGood(p)
  <2>1. CASE \E run \in RunIds : Classify(p, run)
    BY Zenon, <2>1, ClassifyStep
  <2>2. CASE \E outcome \in Outcomes : Construct(p, outcome)
    BY Zenon, <2>2, ConstructStep
  <2>3. CASE \E outcome \in Outcomes : AuthorizeRun(p, outcome)
    BY Zenon, <2>3, AuthorizeRunStep
  <2>4. CASE \E candidates \in SUBSET Messages, outcome \in Outcomes : Resolve(p, candidates, outcome)
    BY Zenon, <2>4, ResolveRunStep
  <2>5. CASE Abandon(p)
    BY Zenon, <2>5, LeaveStep DEF Abandon
  <2> QED
    BY Zenon, <1>1, <2>1, <2>2, <2>3, <2>4, <2>5 DEF Step
<1>3. overlapped' \/ AloneInv'
  <2>1. CASE overlapped \/ ~OneAtATime'
    BY Zenon, <1>1, <2>1
  <2>2. CASE ~overlapped /\ OneAtATime'
    BY Zenon, <1>2, <2>2 DEF StepGood, SelectInv
  <2> QED
    BY Zenon, <2>1, <2>2
<1> QED
  BY Zenon, <1>2, <1>3 DEF StepGood, Kept, SelectInv

LEMMA FileStartsMine == SelectInit => SelectInv
<1> SUFFICES ASSUME SelectInit
             PROVE  SelectInv
  BY Zenon
<1>1. PreT0 \in ControllerState /\ PreT0.state = "PRE_T0"
  BY DEF PreT0, ControllerState, STATES
<1>2. Ended \in Invocation /\ Ended.pc = "ended"
  BY Zenon, <1>1 DEF Ended, Invocation
<1>3. \A p \in Processes : proc[p] = Ended
  BY Zenon DEF SelectInit
<1>4. stateFile \in ControllerState /\ proc \in [Processes -> Invocation]
  BY Zenon, <1>1, <1>2 DEF SelectInit
<1>5. InvocationsKeepTheirRun
  BY Zenon, <1>1, <1>2, <1>3 DEF SelectInit, InvocationsKeepTheirRun, OwnAuthorization
<1>6. AloneInv
  BY Zenon, <1>1, <1>2, <1>3 DEF SelectInit, AloneInv, OneAtATime, ReportedSelectionStands
<1> QED
  BY Zenon, <1>4, <1>5, <1>6 DEF SelectInv

LEMMA SelectInductive == SelectSpec => []SelectInv
<1>1. SelectInv /\ [SelectNext]_selectVars => SelectInv'
  <2> SUFFICES ASSUME SelectInv, [SelectNext]_selectVars
               PROVE  SelectInv'
    BY Zenon
  <2>1. CASE SelectNext
    BY Zenon, <2>1, FileStaysMine
  <2>2. CASE UNCHANGED selectVars
    BY Zenon, <2>2 DEF selectVars, SelectInv, InvocationsKeepTheirRun, AloneInv, OneAtATime, FileIsMine,
                ReportedSelectionStands
  <2> QED
    BY Zenon, <2>1, <2>2
<1> QED
  BY <1>1, FileStartsMine, PTL DEF SelectSpec

\* SafeOneAtATime for every mailbox, sample size, set of run ids and number of
\* processes: while invocations of runRun3Select do not overlap, a printed
\* commitment stands and no run is voided, however they fail, die and are
\* repeated with right or wrong run ids.
THEOREM AloneIsSafe == SelectSpec => []SafeOneAtATime
<1>1. SelectInv => SafeOneAtATime
  BY Zenon DEF SelectInv, AloneInv, SafeOneAtATime, SelectNeverVoids
<1> QED
  BY <1>1, SelectInductive, PTL

\* ReportIsOfOwnRun for every value of the constants, overlapping invocations
\* included: a commitment is printed only when the state file holds it, resolved
\* under the authorization of the run that runRun3Select was invoked for.
THEOREM ReportsAreOwn == SelectSpec => ReportIsOfOwnRun
<1>1. SelectInv /\ [SelectNext]_selectVars => [Reporting]_selectVars
  BY Zenon, FileStaysMine
<1> QED
  BY <1>1, SelectInductive, PTL DEF SelectSpec, ReportIsOfOwnRun

=============================================================================
