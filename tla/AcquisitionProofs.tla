-------------------------- MODULE AcquisitionProofs --------------------------
(***************************************************************************)
(* Serial acquisition: for every mailbox, sample size, duration, set of    *)
(* destinations and run ids, and any number of crashes and failed writes,  *)
(* acquireRaw is called at most once per message and per destination, VOID *)
(* is terminal, the selection and T0 are fixed, the canary comes first,    *)
(* what is registered was answered in time, and a complete run has every   *)
(* selected message once.  The only hypothesis is Serial: the caller       *)
(* awaits one acquireRaw before it starts the next.                        *)
(***************************************************************************)
EXTENDS AcquisitionController, FiniteSetTheorems, TLAPS

\* What Append does to the messages a record lists as completed.
LEMMA RegisteredAppend ==
  ASSUME NEW s \in ControllerState, NEW m \in Messages, NEW r,
         r.completed = Append(s.completed, m)
  PROVE  Registered(r) = Registered(s) \cup {m}
<1>1. s.completed \in Seq(Messages)
  BY Zenon DEF ControllerState
<1>2. /\ Len(r.completed) = Len(s.completed) + 1
      /\ DOMAIN r.completed = 1..(Len(s.completed) + 1)
      /\ DOMAIN s.completed = 1..Len(s.completed)
      /\ \A i \in 1..Len(s.completed) : r.completed[i] = s.completed[i]
      /\ r.completed[Len(s.completed) + 1] = m
      /\ Len(s.completed) \in Nat
  BY <1>1
<1> QED
  BY <1>2 DEF Registered

\* PreT0 is a controller record and owes nothing.
LEMMA PreT0Sound == PreT0 \in ControllerState /\ \A ev : Sound(PreT0, ev)
<1>1. PreT0 \in ControllerState
  BY DEF PreT0, ControllerState, STATES
<1>2. Registered(PreT0) = {}
  BY DEF PreT0, Registered
<1>3. DOMAIN PreT0.completed = {} /\ PreT0.selection = {} /\ PreT0.state = "PRE_T0"
  BY DEF PreT0
<1>4. Counted(PreT0)
  BY Zenon, <1>2, <1>3 DEF Counted
<1> QED
  BY Zenon, <1>1, <1>2, <1>4 DEF PreT0, Sound

\* Voiding a record keeps its type, and an honest record stays honest.
LEMMA VoidedSound ==
  ASSUME NEW s \in ControllerState, NEW why \in VoidReasons, NEW ev, Sound(s, ev)
  PROVE  /\ Voided(s, why) \in ControllerState
         /\ Voided(s, why).state = "VOID"
         /\ Voided(s, why).selection = s.selection
         /\ Voided(s, why).t0 = s.t0
         /\ Sound(Voided(s, why), ev)
<1>1. /\ Voided(s, why) \in ControllerState
      /\ Voided(s, why).state = "VOID"
      /\ Voided(s, why).selection = s.selection
      /\ Voided(s, why).t0 = s.t0
      /\ Voided(s, why).completed = s.completed
  BY Zenon DEF Voided, ControllerState, STATES
<1>2. Registered(Voided(s, why)) = Registered(s)
  BY Zenon, <1>1 DEF Registered
<1>3. Counted(Voided(s, why))
  BY Zenon, <1>1, <1>2 DEF Sound, Counted
<1> QED
  BY Zenon, <1>1, <1>2, <1>3 DEF Sound

\* A restored record has its type, keeps selection and T0, is honest, and is
\* either the file's record without a marker or void.
LEMMA RestoredSound ==
  ASSUME NEW s \in ControllerState, NEW ev, Sound(s, ev), NEW run \in RunIds
  PROVE  /\ Restored(s, run) \in ControllerState
         /\ Sound(Restored(s, run), ev)
         /\ Restored(s, run).selection = s.selection
         /\ Restored(s, run).t0 = s.t0
         /\ s.state = "VOID" => Restored(s, run).state = "VOID"
         /\ \/ Restored(s, run) = s /\ s.acquisitionInFlight = NoMessage
            \/ Restored(s, run).state = "VOID"
<1>1. PICK d : d = [s EXCEPT !.acquisitionInFlight = NoMessage]
  BY Zenon
<1>2. d \in ControllerState /\ d.state = s.state /\ d.selection = s.selection
      /\ d.t0 = s.t0 /\ d.completed = s.completed
  BY Zenon, <1>1 DEF ControllerState
<1>3. Sound(d, ev)
  BY <1>2 DEF Sound, Counted, Registered
<1>4. {"config_mismatch", "interrupted"} \subseteq VoidReasons
  BY Zenon DEF VoidReasons
<1>5. CASE s.pmAuthorization \notin {NoRun, run}
  BY Zenon, <1>4, <1>5, VoidedSound DEF Restored
<1>6. CASE s.pmAuthorization \in {NoRun, run} /\ s.acquisitionInFlight = NoMessage
  BY Zenon, <1>6 DEF Restored
<1>7. CASE s.pmAuthorization \in {NoRun, run} /\ s.acquisitionInFlight # NoMessage
  <2>1. Restored(s, run) = Voided(d, "interrupted")
    BY Zenon, <1>1, <1>7 DEF Restored
  <2> QED
    BY <1>2, <1>3, <1>4, <2>1, VoidedSound
<1> QED
  BY Zenon, <1>5, <1>6, <1>7

\* More evidence never makes a record dishonest.
LEMMA SoundGrows ==
  ASSUME NEW s, NEW ev, NEW more, Sound(s, ev), ev \subseteq more
  PROVE  Sound(s, more)
BY Zenon DEF Sound

\* Registering an accepted answer: the record stays honest, and what it did not
\* know of before is this one call.
LEMMA RegisterSound ==
  ASSUME NEW s \in ControllerState, NEW call \in Call, NEW ev, NEW at \in Nat,
         Sound(s, ev), s.t0 # NoTime, at <= s.t0 + ACQUISITION_DURATION,
         [message |-> call.message, at |-> at] \in ev,
         s.state \in {"CANARY_PENDING", "CANARY_PASSED", "GMAIL_ACQUIRING"},
         call.message \in s.selection \ Registered(s),
         s.state = "CANARY_PENDING" => IsCanary(call.message, s.selection)
  PROVE  /\ Register(s, call) \in ControllerState
         /\ Register(s, call).state # "VOID"
         /\ Register(s, call).selection = s.selection
         /\ Register(s, call).t0 = s.t0
         /\ Register(s, call).destinationsUsed = s.destinationsUsed \cup {call.destination}
         /\ Registered(Register(s, call)) = Registered(s) \cup {call.message}
         /\ Sound(Register(s, call), ev)
<1>1. PICK r : r = Register(s, call)
  BY Zenon
<1>2. call.message \in Messages /\ call.destination \in Destinations
  BY Zenon DEF Call
<1>3. /\ r.completed = Append(s.completed, call.message)
      /\ r.selection = s.selection /\ r.t0 = s.t0
      /\ r.destinationsUsed = s.destinationsUsed \cup {call.destination}
      /\ r.state \in {"CANARY_PASSED", "GMAIL_ACQUIRING", "ACQUISITION_COMPLETE"}
      /\ r.pmAuthorization = s.pmAuthorization /\ r.voidReason = s.voidReason
      /\ r.acquisitionInFlight = NoMessage
      /\ r.state = "CANARY_PASSED" <=> IsCanary(call.message, s.selection)
  BY Zenon, <1>1 DEF Register, ControllerState
<1>4. Append(s.completed, call.message) \in Seq(Messages)
  BY <1>2 DEF ControllerState
<1>5. r \in ControllerState
  BY Zenon, <1>1, <1>2, <1>4 DEF Register, ControllerState, STATES
<1>6. Registered(r) = Registered(s) \cup {call.message}
  BY Zenon, <1>2, <1>3, RegisteredAppend
<1>7. r.state \in {"CANARY_PASSED", "GMAIL_ACQUIRING"} =>
        \E e \in ev : IsCanary(e.message, r.selection)
  BY Zenon, <1>3 DEF Sound
<1>8. \A m \in Registered(r) :
        \E e \in ev : e.message = m /\ e.at <= r.t0 + ACQUISITION_DURATION
  BY Zenon, <1>3, <1>6 DEF Sound
<1>9. Counted(r)
  <2>1. s.completed \in Seq(Messages) /\ Len(s.completed) \in Nat
    BY DEF ControllerState
  <2>2. \A i, j \in DOMAIN r.completed : r.completed[i] = r.completed[j] => i = j
    <3>1. /\ DOMAIN r.completed = 1..(Len(s.completed) + 1)
          /\ DOMAIN s.completed = 1..Len(s.completed)
          /\ \A i \in 1..Len(s.completed) : r.completed[i] = s.completed[i]
          /\ r.completed[Len(s.completed) + 1] = call.message
      BY <1>3, <2>1
    <3>2. \A i \in 1..Len(s.completed) : s.completed[i] # call.message
      BY Zenon, <3>1 DEF Registered
    <3> QED
      BY SMTT(120), <2>1, <3>1, <3>2 DEF Sound, Counted
  <2>3. r.state = "ACQUISITION_COMPLETE" => Len(r.completed) = TOTAL_GMAIL
    BY <1>1, <1>3, <2>1 DEF Register, ControllerState
  <2> QED
    BY Zenon, <1>3, <1>6, <2>2, <2>3 DEF Sound, Counted
<1>10. Sound(r, ev)
  BY Zenon, <1>3, <1>7, <1>8, <1>9 DEF Sound
<1> QED
  BY Zenon, <1>1, <1>3, <1>5, <1>6, <1>10

\* What a step may do to the state file: a void file stays as it is, and a
\* selection or a T0 that is there stays.
FileMoves ==
  disk' # disk =>
    /\ disk.state # "VOID"
    /\ disk.selection # {} => disk'.selection = disk.selection
    /\ disk.t0 # NoTime => disk'.t0 = disk.t0

\* A write, successful or not, of a new controller record s when no acquireRaw
\* is under way afterwards.
LEMMA SaveStep ==
  ASSUME SerialInv, TypeOK', NEW s \in ControllerState,
         running # NoRun, running' = running, mem' = s, disk' \in {disk, s},
         asked' = asked, answered \subseteq answered',
         \A slot \in Slots : calls'[slot] = Idle,
         disk.state # "VOID",
         Sound(s, answered'),
         disk.selection # {} => s.selection = disk.selection,
         disk.t0 # NoTime => s.t0 = disk.t0,
         s.state # "VOID" => Accounts(s, asked)
  PROVE  SerialInv' /\ FileMoves
<1>1. Sound(disk, answered)'
  BY Zenon, SoundGrows DEF SerialInv, FileInv
<1>2. FileInv'
  BY Zenon, <1>1 DEF SerialInv, FileInv, Accounts
<1>3. MemInv'
  BY Zenon DEF MemInv
<1>4. CallInv'
  BY Zenon DEF CallInv
<1>5. CanaryFirst'
  <2> SUFFICES ASSUME asked # {} PROVE CanaryFirst'
    BY Zenon DEF CanaryFirst
  <2>1. disk'.selection = disk.selection
    BY Zenon DEF SerialInv, FileInv
  <2> QED
    BY Zenon, <2>1 DEF SerialInv, CanaryFirst
<1> QED
  BY Zenon, <1>2, <1>3, <1>4, <1>5 DEF SerialInv, FileMoves

\* A write of the state file keeps the types of the file and of the counter.
LEMMA SaveType ==
  ASSUME TypeOK, NEW s \in ControllerState, NEW ok \in BOOLEAN, Save(s, ok)
  PROVE  disk' \in {disk, s} /\ disk' \in ControllerState /\ faults' \in 0..MaxFaults
BY ControllerAssumption DEF TypeOK, Save

\* The constructor takes up the file's record, or voids the run.
LEMMA OpenStep ==
  ASSUME SerialInv, NEW run \in RunIds, Open(run)
  PROVE  SerialInv' /\ FileMoves
<1>1. PICK s : s = Restored(disk, run)
  BY Zenon
<1>2. disk \in ControllerState /\ Sound(disk, answered)
  BY Zenon DEF SerialInv, TypeOK, FileInv
<1>3. /\ s \in ControllerState /\ Sound(s, answered)
      /\ s.selection = disk.selection /\ s.t0 = disk.t0
      /\ disk.state = "VOID" => s.state = "VOID"
      /\ (s = disk /\ disk.acquisitionInFlight = NoMessage) \/ s.state = "VOID"
  BY Zenon, <1>1, <1>2, RestoredSound
<1>4. \A slot \in Slots : calls[slot] = Idle
  BY Zenon DEF SerialInv, CallInv, Open
<1>5. /\ calls' = calls /\ now' = now /\ asked' = asked /\ answered' = answered
      /\ disk' \in {disk, s} /\ disk' \in ControllerState /\ faults' \in 0..MaxFaults
      /\ (mem' = s /\ running' = run) \/ (mem' = mem /\ running' = running /\ running = NoRun)
      /\ disk' # disk => s.state = "VOID" /\ disk.state # "VOID"
  <2>1. CASE s.state = disk.state
    BY Zenon, <1>1, <1>2, <2>1 DEF Open, SerialInv, TypeOK
  <2>2. CASE s.state # disk.state
    <3>1. PICK ok \in BOOLEAN : /\ Save(s, ok)
                                /\ IF ok THEN mem' = s /\ running' = run
                                         ELSE UNCHANGED <<mem, running>>
      BY Zenon, <1>1, <2>2 DEF Open
    <3> QED
      BY Zenon, <1>3, <2>2, <3>1, SaveType DEF Open, SerialInv
  <2> QED
    BY Zenon, <2>1, <2>2
<1>6. TypeOK'
  BY Zenon, <1>3, <1>5 DEF SerialInv, TypeOK
<1>7. FileInv'
  BY Zenon, <1>3, <1>5 DEF SerialInv, FileInv
<1>8. MemInv'
  BY Zenon, <1>3, <1>5 DEF SerialInv, FileInv, MemInv
<1>9. CallInv'
  BY Zenon, <1>4, <1>5 DEF CallInv
<1>10. CanaryFirst'
  BY Zenon, <1>3, <1>5 DEF SerialInv, CanaryFirst
<1>11. FileMoves
  BY Zenon, <1>3, <1>5 DEF FileMoves
<1> QED
  BY Zenon, <1>6, <1>7, <1>8, <1>9, <1>10, <1>11 DEF SerialInv

\* Persist changes memory and, if the rename happens, the file.
LEMMA PersistType ==
  ASSUME TypeOK, NEW s \in ControllerState, Persist(s)
  PROVE  /\ mem' = s /\ disk' \in {disk, s} /\ disk' \in ControllerState
         /\ faults' \in 0..MaxFaults
BY Zenon, SaveType DEF Persist

\* In a live controller that is not void, the file is not void either and agrees
\* on the selection and T0.
LEMMA LiveController ==
  ASSUME SerialInv, running # NoRun, mem.state # "VOID"
  PROVE  /\ mem \in ControllerState /\ Sound(mem, answered)
         /\ disk.state # "VOID"
         /\ disk.selection # {} => mem.selection = disk.selection
         /\ disk.t0 # NoTime => mem.t0 = disk.t0
BY Zenon DEF SerialInv, MemInv, TypeOK

\* _void: the run is void in memory, and in the file if the write gets there.
LEMMA VoidStep ==
  ASSUME SerialInv, running # NoRun, mem.state # "VOID", NEW why \in VoidReasons,
         VoidRun(why), running' = running, now' \in 0..MaxTime, asked' = asked,
         answered \subseteq answered',
         answered' \in SUBSET [message : Messages, at : 0..MaxTime],
         calls' \in [Slots -> Call \cup {Idle}],
         \A slot \in Slots : calls'[slot] = Idle
  PROVE  SerialInv' /\ FileMoves
<1>1. PICK s : s = Voided(mem, why)
  BY Zenon
<1>2. /\ s \in ControllerState /\ s.state = "VOID"
      /\ s.selection = mem.selection /\ s.t0 = mem.t0 /\ Sound(s, answered)
  BY Zenon, <1>1, LiveController, VoidedSound
<1>3. Persist(s)
  BY Zenon, <1>1 DEF VoidRun
<1>4. /\ mem' = s /\ disk' \in {disk, s} /\ disk' \in ControllerState
      /\ faults' \in 0..MaxFaults
  BY Zenon, <1>2, <1>3, PersistType DEF SerialInv
<1>5. TypeOK'
  BY Zenon, <1>2, <1>4 DEF SerialInv, TypeOK
<1>6. Sound(s, answered')
  BY Zenon, <1>2, SoundGrows
<1> QED
  BY Zenon, <1>2, <1>4, <1>5, <1>6, LiveController, SaveStep

\* A method that writes a new record and calls nothing.
LEMMA MethodStep ==
  ASSUME SerialInv, running # NoRun, mem.state # "VOID", NEW s \in ControllerState,
         Persist(s), UNCHANGED <<running, calls, now, asked, answered>>,
         \A slot \in Slots : calls[slot] = Idle,
         Sound(s, answered),
         disk.selection # {} => s.selection = disk.selection,
         disk.t0 # NoTime => s.t0 = disk.t0,
         Registered(s) = Registered(mem), s.destinationsUsed = mem.destinationsUsed
  PROVE  SerialInv' /\ FileMoves
<1>1. /\ mem' = s /\ disk' \in {disk, s} /\ disk' \in ControllerState
      /\ faults' \in 0..MaxFaults
  BY Zenon, PersistType DEF SerialInv
<1>2. TypeOK'
  BY Zenon, <1>1 DEF SerialInv, TypeOK
<1>3. Accounts(s, asked)
  BY Zenon DEF SerialInv, MemInv, Accounts
<1> QED
  BY Zenon, <1>1, <1>2, <1>3, LiveController, SaveStep

\* No call is under way unless the run is between T0 and completion.
LEMMA NoCall ==
  ASSUME SerialInv,
         mem.state \notin {"CANARY_PENDING", "CANARY_PASSED", "GMAIL_ACQUIRING"}
  PROVE  \A slot \in Slots : calls[slot] = Idle
BY Zenon DEF SerialInv, CallInv

\* authorizePM, of a run that has neither selection nor T0.
LEMMA AuthorizeStep == ASSUME SerialInv, AuthorizePM PROVE SerialInv' /\ FileMoves
<1>1. PICK s : s = Authorized(mem, running)
  BY Zenon
<1>2. /\ running # NoRun /\ mem.state = "PRE_T0" /\ Persist(s)
      /\ UNCHANGED <<running, calls, now, asked, answered>>
  BY Zenon, <1>1 DEF AuthorizePM, MayAuthorize
<1>3. mem \in ControllerState /\ Sound(mem, answered) /\ running \in RunIds
  BY Zenon, <1>2, LiveController DEF SerialInv, TypeOK
<1>4. /\ s \in ControllerState /\ s.state = "PM_AUTHORIZED" /\ s.selection = mem.selection
      /\ s.t0 = mem.t0 /\ s.completed = mem.completed
      /\ s.destinationsUsed = mem.destinationsUsed
  BY Zenon, <1>1, <1>3 DEF Authorized, ControllerState, STATES
<1>5. Registered(s) = Registered(mem) /\ Sound(s, answered)
  BY <1>2, <1>3, <1>4 DEF Sound, Counted, Registered
<1> QED
  BY Zenon, <1>2, <1>4, <1>5, LiveController, NoCall, MethodStep

\* A sample of enough candidates has TOTAL_GMAIL messages: the number of smaller
\* candidates is a bijection of the candidates and 0..(their number - 1).
LEMMA SampleSize ==
  ASSUME NEW candidates \in SUBSET Messages, Enough(candidates)
  PROVE  Cardinality(Sample(candidates)) = TOTAL_GMAIL
<1>1. IsFiniteSet(candidates) /\ Cardinality(candidates) \in Nat /\ candidates \subseteq Nat
  BY Zenon, AcquisitionAssumption, FS_Subset, FS_CardinalityType
<1> DEFINE below(m) == {n \in candidates : n < m}
           N == Cardinality(candidates)
           f == [m \in candidates |-> Cardinality(below(m))]
<1>2. \A m \in candidates : IsFiniteSet(below(m)) /\ Cardinality(below(m)) \in Nat
  BY Zenon, <1>1, FS_Subset, FS_CardinalityType
<1>3. \A m \in candidates : Cardinality(below(m)) < N
  <2> TAKE m \in candidates
  <2>1. below(m) \in SUBSET candidates /\ below(m) # candidates
    BY <1>1
  <2> QED
    BY <1>1, <1>2, <2>1, FS_Subset
<1>4. \A m, n \in candidates : m < n => Cardinality(below(m)) < Cardinality(below(n))
  <2> SUFFICES ASSUME NEW m \in candidates, NEW n \in candidates, m < n
               PROVE  Cardinality(below(m)) < Cardinality(below(n))
    BY Zenon
  <2>1. m \in Nat /\ n \in Nat
    BY Zenon, <1>1
  <2>2. m \in below(n) /\ m \notin below(m)
    BY <2>1
  <2>3. \A k \in below(m) : k \in below(n)
    BY <1>1, <2>1
  <2>4. below(m) \in SUBSET below(n) /\ below(m) # below(n)
    BY Zenon, <2>2, <2>3
  <2> QED
    BY <1>2, <2>4, FS_Subset
<1>5. f \in Injection(candidates, 0..(N - 1))
  <2>1. \A m \in candidates : f[m] \in Nat /\ f[m] < N /\ f[m] \in 0..(N - 1)
    BY <1>1, <1>2, <1>3
  <2>2. \A m, n \in candidates : m < n => f[m] < f[n]
    BY Zenon, <1>4
  <2>3. \A m, n \in candidates : f[m] = f[n] => m = n
    <3> SUFFICES ASSUME NEW m \in candidates, NEW n \in candidates, f[m] = f[n]
                 PROVE  m = n
      BY Zenon
    <3>1. m \in Nat /\ n \in Nat /\ f[m] \in Nat /\ f[n] \in Nat
      BY Zenon, <1>1, <2>1
    <3>2. ~(m < n) /\ ~(n < m)
      BY <2>2, <3>1
    <3> QED
      BY <3>1, <3>2
  <2>4. f \in [candidates -> 0..(N - 1)]
    BY Zenon, <2>1
  <2> QED
    BY Zenon, <2>3, <2>4 DEF Injection, IsInjective
<1>6. IsFiniteSet(0..(N - 1)) /\ Cardinality(0..(N - 1)) = N
  BY SMTT(120), <1>1, FS_Interval
<1>7. f \in Surjection(candidates, 0..(N - 1))
  BY Zenon, <1>5, <1>6, FS_Injection
<1> DEFINE S == Sample(candidates)
           g == [m \in S |-> f[m]]
<1>8. TOTAL_GMAIL \in Nat /\ TOTAL_GMAIL >= 2 /\ TOTAL_GMAIL <= N
  BY Zenon, AcquisitionAssumption DEF Enough
<1>9. g \in Bijection(S, 0..(TOTAL_GMAIL - 1))
  <2>1. S \subseteq candidates /\ \A m \in candidates : m \in S <=> f[m] < TOTAL_GMAIL
    BY Zenon DEF Sample
  <2> HIDE DEF f
  <2>2. \A m \in S : g[m] = f[m] /\ g[m] \in 0..(TOTAL_GMAIL - 1)
    BY <1>5, <1>8, <2>1 DEF Injection
  <2>3. g \in Injection(S, 0..(TOTAL_GMAIL - 1))
    BY Zenon, <1>5, <2>1, <2>2 DEF Injection, IsInjective
  <2>4. \A k \in 0..(TOTAL_GMAIL - 1) : \E m \in S : g[m] = k
    <3> TAKE k \in 0..(TOTAL_GMAIL - 1)
    <3>1. k \in 0..(N - 1) /\ k < TOTAL_GMAIL
      BY <1>1, <1>8
    <3>2. PICK m \in candidates : f[m] = k
      BY Zenon, <1>7, <3>1 DEF Surjection
    <3> QED
      BY Zenon, <2>1, <2>2, <3>1, <3>2
  <2> QED
    BY Zenon, <2>3, <2>4 DEF Injection, Surjection, Bijection
<1>10. IsFiniteSet(S)
  BY Zenon, <1>1, FS_Subset DEF Sample
<1>11. Cardinality(0..(TOTAL_GMAIL - 1)) = TOTAL_GMAIL
  BY <1>8, FS_Interval
<1>12. ExistsBijection(S, 0..(TOTAL_GMAIL - 1))
  BY Zenon, <1>9 DEF ExistsBijection
<1> QED
  BY Zenon, <1>10, <1>11, <1>12, FS_Bijection

\* resolveSelection finds no selection, in memory or in the file.
LEMMA ResolveStep ==
  ASSUME SerialInv, NEW candidates \in SUBSET Messages, ResolveSelection(candidates)
  PROVE  SerialInv' /\ FileMoves
<1>1. PICK s : s = Resolved(mem, candidates)
  BY Zenon
<1>2. /\ running # NoRun /\ mem.state = "PM_AUTHORIZED" /\ Persist(s)
      /\ UNCHANGED <<running, calls, now, asked, answered>>
  BY Zenon, <1>1 DEF ResolveSelection, MayResolve
<1>3. mem \in ControllerState /\ Sound(mem, answered)
  BY Zenon, <1>2, LiveController
<1>4. Sample(candidates) \in SUBSET Messages
  BY Zenon DEF Sample
<1>5. /\ s \in ControllerState /\ s.state = "METADATA_SELECTION_RESOLVED"
      /\ s.t0 = mem.t0 /\ s.completed = mem.completed
      /\ s.destinationsUsed = mem.destinationsUsed
  BY Zenon, <1>1, <1>3, <1>4 DEF Resolved, ControllerState, STATES
<1>6. Registered(s) = Registered(mem) /\ Registered(s) = {}
  BY <1>2, <1>3, <1>5 DEF Sound, Registered
<1>7. Counted(s)
  <2>1. s.selection = Sample(candidates) /\ Cardinality(s.selection) = TOTAL_GMAIL
    BY Zenon, <1>1, <1>3, SampleSize DEF ResolveSelection, Resolved, ControllerState
  <2> QED
    BY Zenon, <1>2, <1>3, <1>5, <1>6, <2>1 DEF Sound, Counted
<1>8. Sound(s, answered)
  BY Zenon, <1>2, <1>3, <1>5, <1>6, <1>7 DEF Sound
<1>9. disk.selection = {}
  BY Zenon, <1>2, <1>3, LiveController DEF Sound
<1> QED
  BY Zenon, <1>2, <1>5, <1>6, <1>8, <1>9, LiveController, NoCall, MethodStep

\* recordT0 finds no T0, in memory or in the file.
LEMMA RecordT0Step == ASSUME SerialInv, RecordT0 PROVE SerialInv' /\ FileMoves
<1>1. PICK s : s = [mem EXCEPT !.t0 = now, !.state = "CANARY_PENDING"]
  BY Zenon
<1>2. /\ running # NoRun /\ mem.state = "METADATA_SELECTION_RESOLVED" /\ Persist(s)
      /\ mem.t0 = NoTime
      /\ UNCHANGED <<running, calls, now, asked, answered>>
  BY Zenon, <1>1 DEF RecordT0
<1>3. mem \in ControllerState /\ Sound(mem, answered) /\ now \in Nat
  BY <1>2, LiveController, ControllerAssumption DEF SerialInv, TypeOK
<1>4. /\ s \in ControllerState /\ s.state = "CANARY_PENDING" /\ s.selection = mem.selection
      /\ s.t0 = now /\ s.completed = mem.completed
      /\ s.destinationsUsed = mem.destinationsUsed
  BY Zenon, <1>1, <1>3 DEF ControllerState, STATES
<1>5. Registered(s) = Registered(mem) /\ Registered(s) = {}
  BY <1>2, <1>3, <1>4 DEF Sound, Registered
<1>6. Sound(s, answered)
  BY <1>2, <1>3, <1>4, <1>5 DEF Sound, Counted, NoTime
<1> QED
  BY Zenon, <1>2, <1>4, <1>5, <1>6, LiveController, NoCall, MethodStep

\* completeToValidationPending changes the state's name only.
LEMMA CompleteStep == ASSUME SerialInv, CompleteToValidationPending PROVE SerialInv' /\ FileMoves
<1>1. PICK s : s = [mem EXCEPT !.state = "VALIDATION_PENDING"]
  BY Zenon
<1>2. /\ running # NoRun /\ mem.state = "ACQUISITION_COMPLETE" /\ Persist(s)
      /\ UNCHANGED <<running, calls, now, asked, answered>>
  BY Zenon, <1>1 DEF CompleteToValidationPending
<1>3. mem \in ControllerState /\ Sound(mem, answered)
  BY Zenon, <1>2, LiveController
<1>4. /\ s \in ControllerState /\ s.state = "VALIDATION_PENDING"
      /\ s.selection = mem.selection /\ s.t0 = mem.t0 /\ s.completed = mem.completed
      /\ s.destinationsUsed = mem.destinationsUsed
  BY Zenon, <1>1, <1>3 DEF ControllerState, STATES
<1>5. Registered(s) = Registered(mem) /\ Sound(s, answered)
  BY SMTT(120), <1>2, <1>3, <1>4 DEF Sound, Counted, Registered
<1> QED
  BY Zenon, <1>2, <1>4, <1>5, LiveController, NoCall, MethodStep

\* The in-flight marker is in the file before acquireRaw is called.
LEMMA AskStep ==
  ASSUME SerialInv, running # NoRun, NEW slot \in Slots,
         NEW m \in Messages, NEW d \in Destinations,
         mem.state \in {"CANARY_PENDING", "CANARY_PASSED", "GMAIL_ACQUIRING"},
         m \in mem.selection \ Registered(mem),
         mem.state = "CANARY_PENDING" => IsCanary(m, mem.selection),
         \A other \in Slots : other = slot /\ calls[other] = Idle,
         Ask(slot, m, d), UNCHANGED <<running, now, answered>>
  PROVE  SerialInv' /\ FileMoves
<1>1. PICK s : s = [mem EXCEPT !.acquisitionInFlight = m]
  BY Zenon
<1>2. PICK call : call = [message |-> m, destination |-> d]
  BY Zenon
<1>3. /\ mem \in ControllerState /\ Sound(mem, answered) /\ disk.state # "VOID"
      /\ disk.selection # {} => mem.selection = disk.selection
      /\ disk.t0 # NoTime => mem.t0 = disk.t0
      /\ Accounts(mem, asked)
  BY Zenon, LiveController DEF SerialInv, MemInv
<1>4. /\ s \in ControllerState /\ s.state = mem.state /\ s.selection = mem.selection
      /\ s.t0 = mem.t0 /\ s.completed = mem.completed
      /\ s.destinationsUsed = mem.destinationsUsed /\ s.acquisitionInFlight = m
  BY Zenon, <1>1, <1>3 DEF ControllerState
<1>5. Registered(s) = Registered(mem) /\ Sound(s, answered) /\ Accounts(s, asked)
  BY SMTT(120), <1>3, <1>4 DEF Sound, Counted, Registered, Accounts
<1>6. call \in Call /\ call # Idle /\ m # NoMessage
  BY Zenon, <1>2, AcquisitionAssumption DEF Call, Idle, NoMessage
<1>7. PICK ok \in BOOLEAN :
        /\ Save(s, ok) /\ mem' = s
        /\ IF ok THEN calls' = [calls EXCEPT ![slot] = call] /\ asked' = asked \cup {call}
                 ELSE UNCHANGED <<calls, asked>>
  BY Zenon, <1>1, <1>2 DEF Ask
<1>8. disk' \in {disk, s} /\ disk' \in ControllerState /\ faults' \in 0..MaxFaults
  BY Zenon, <1>4, <1>7, SaveType DEF SerialInv
<1>9. TypeOK'
  BY Zenon, <1>4, <1>6, <1>7, <1>8 DEF SerialInv, TypeOK
<1>10. CASE ~ok
  BY Zenon, <1>3, <1>4, <1>5, <1>7, <1>8, <1>9, <1>10, SaveStep
<1>11. CASE ok
  <2>1. /\ disk' = s /\ calls'[slot] = call /\ asked' = asked \cup {call}
    BY Zenon, <1>7, <1>11 DEF Save, SerialInv, TypeOK
  <2>2. FileInv'
    BY Zenon, <1>4, <1>5, <1>6, <2>1 DEF FileInv
  <2>3. MemInv'
    BY Zenon, <1>4, <1>5, <1>6, <1>7, <2>1 DEF MemInv
  <2>4. CallInv'
    BY SMTT(120), <1>2, <1>4, <1>5, <1>6, <1>7, <2>1 DEF CallInv, Accounts
  <2>5. CanaryFirst'
    <3>1. asked # {} => disk.selection = s.selection
      BY Zenon, <1>3, <1>4 DEF SerialInv, FileInv
    <3>2. ~IsCanary(m, s.selection) => \E e \in answered : IsCanary(e.message, s.selection)
      BY Zenon, <1>3, <1>4 DEF Sound
    <3> QED
      BY SMTT(120), <1>2, <2>1, <3>1, <3>2 DEF SerialInv, CanaryFirst
  <2>6. FileMoves
    BY Zenon, <1>3, <1>4, <2>1 DEF FileMoves
  <2> QED
    BY Zenon, <1>9, <2>2, <2>3, <2>4, <2>5, <2>6 DEF SerialInv
<1> QED
  BY Zenon, <1>10, <1>11

\* runCanary up to its await.
LEMMA RunCanaryStep ==
  ASSUME Serial, SerialInv, NEW slot \in Slots, NEW d \in Destinations, RunCanary(slot, d)
  PROVE  SerialInv' /\ FileMoves
<1>1. /\ running # NoRun /\ mem.state = "CANARY_PENDING"
      /\ UNCHANGED <<running, now, answered>>
      /\ \A other \in Slots : other = slot /\ calls[other] = Idle
  BY Zenon DEF RunCanary, Serial
<1>2. CASE PastDeadline(mem, now)
  <2>1. VoidRun("deadline") /\ UNCHANGED <<calls, asked>> /\ "deadline" \in VoidReasons
    BY Zenon, <1>2 DEF RunCanary, VoidReasons
  <2> QED
    BY Zenon, <1>1, <2>1, VoidStep DEF SerialInv, TypeOK
<1>3. CASE ~PastDeadline(mem, now)
  <2>1. PICK m \in mem.selection : IsCanary(m, mem.selection) /\ Ask(slot, m, d)
    BY Zenon, <1>3 DEF RunCanary
  <2>2. m \in Messages
    BY Zenon, <2>1 DEF SerialInv, TypeOK, ControllerState
  <2>3. Registered(mem) = {}
    BY <1>1 DEF SerialInv, MemInv, Sound, Registered
  <2> QED
    BY Zenon, <1>1, <2>1, <2>2, <2>3, AskStep
<1> QED
  BY Zenon, <1>2, <1>3

\* acquireNext up to its await.
LEMMA AcquireNextStep ==
  ASSUME Serial, SerialInv, NEW slot \in Slots, NEW m \in Messages, NEW d \in Destinations,
         AcquireNext(slot, m, d)
  PROVE  SerialInv' /\ FileMoves
<1>1. /\ running # NoRun /\ mem.state \in {"CANARY_PASSED", "GMAIL_ACQUIRING"}
      /\ UNCHANGED <<running, now, answered>>
      /\ \A other \in Slots : other = slot /\ calls[other] = Idle
  BY Zenon DEF AcquireNext, Serial
<1>2. CASE PastDeadline(mem, now)
  <2>1. VoidRun("deadline") /\ UNCHANGED <<calls, asked>> /\ "deadline" \in VoidReasons
    BY Zenon, <1>2 DEF AcquireNext, VoidReasons
  <2> QED
    BY Zenon, <1>1, <2>1, VoidStep DEF SerialInv, TypeOK
<1>3. CASE ~PastDeadline(mem, now)
  <2>1. m \in mem.selection \ Registered(mem) /\ Ask(slot, m, d)
    BY Zenon, <1>3 DEF AcquireNext
  <2> QED
    BY Zenon, <1>1, <2>1, AskStep
<1> QED
  BY Zenon, <1>2, <1>3

\* What runCanary and acquireNext do when acquireRaw has answered or thrown.
LEMMA SettleStep ==
  ASSUME Serial, SerialInv, NEW slot \in Slots,
         NEW outcome \in {"throws", "invalid", "valid"}, Settle(slot, outcome)
  PROVE  SerialInv' /\ FileMoves
<1>1. PICK call : call = calls[slot]
  BY Zenon
<1>2. /\ call # Idle /\ running # NoRun
      /\ mem.state \in {"CANARY_PENDING", "CANARY_PASSED", "GMAIL_ACQUIRING"}
      /\ call.message \in mem.selection \ Registered(mem)
      /\ mem.state = "CANARY_PENDING" => IsCanary(call.message, mem.selection)
      /\ \A a \in asked : \/ a = call
                          \/ /\ a.message \in Registered(mem)
                             /\ a.destination \in mem.destinationsUsed
  BY Zenon, <1>1 DEF Settle, SerialInv, CallInv
<1>3. call \in Call /\ call.message \in Messages
  BY Zenon, <1>1, <1>2 DEF SerialInv, TypeOK, Call
<1>4. /\ calls' \in [Slots -> Call \cup {Idle}]
      /\ \A other \in Slots : calls'[other] = Idle
      /\ UNCHANGED <<running, now, asked>> /\ now \in 0..MaxTime
  BY Zenon DEF Settle, Serial, SerialInv, TypeOK
<1>5. /\ answered \subseteq answered'
      /\ answered' \in SUBSET [message : Messages, at : 0..MaxTime]
  BY <1>1, <1>3 DEF Settle, SerialInv, TypeOK
<1>6. ASSUME NEW why \in VoidReasons, VoidRun(why) PROVE SerialInv' /\ FileMoves
  BY Zenon, <1>2, <1>4, <1>5, <1>6, VoidStep
<1>7. {"ambiguous", "fidelity", "deadline"} \subseteq VoidReasons
  BY Zenon DEF VoidReasons
<1>8. CASE outcome = "throws" \/ outcome = "invalid" \/ PastDeadline(mem, now)
  <2>1. \E why \in {"ambiguous", "fidelity", "deadline"} : VoidRun(why)
    BY Zenon, <1>8 DEF Settle
  <2> QED
    BY Zenon, <1>6, <1>7, <2>1
<1>9. CASE outcome = "valid" /\ ~PastDeadline(mem, now)
  <2>1. PICK s : s = Register(mem, call)
    BY Zenon
  <2>2. Persist(s)
    BY Zenon, <1>1, <1>9, <2>1 DEF Settle
  <2>3. /\ mem \in ControllerState /\ Sound(mem, answered) /\ disk.state # "VOID"
        /\ disk.selection # {} => mem.selection = disk.selection
        /\ disk.t0 # NoTime => mem.t0 = disk.t0
    BY Zenon, <1>2, LiveController
  <2>4. mem.t0 # NoTime /\ now <= mem.t0 + ACQUISITION_DURATION
    <3>1. mem.t0 # NoTime
      BY Zenon, <1>2, <2>3 DEF Sound
    <3>2. mem.t0 \in Nat /\ now \in Nat
      BY SMTT(120), <1>4, <2>3, <3>1, ControllerAssumption DEF ControllerState
    <3> QED
      BY <1>9, <3>1, <3>2, AcquisitionAssumption DEF PastDeadline
  <2>5. Sound(mem, answered')
    BY Zenon, <1>5, <2>3, SoundGrows
  <2>6. [message |-> call.message, at |-> now] \in answered' /\ now \in Nat
    BY SMTT(120), <1>1, <1>4, <1>9, ControllerAssumption DEF Settle
  <2>7. /\ s \in ControllerState /\ s.state # "VOID" /\ s.selection = mem.selection
        /\ s.t0 = mem.t0
        /\ s.destinationsUsed = mem.destinationsUsed \cup {call.destination}
        /\ Registered(s) = Registered(mem) \cup {call.message}
        /\ Sound(s, answered')
    BY Zenon, <1>2, <1>3, <2>1, <2>3, <2>4, <2>5, <2>6, RegisterSound
  <2>8. Accounts(s, asked)
    BY Zenon, <1>2, <2>7 DEF Accounts
  <2>9. /\ mem' = s /\ disk' \in {disk, s} /\ disk' \in ControllerState
        /\ faults' \in 0..MaxFaults
    BY Zenon, <2>2, <2>7, PersistType DEF SerialInv
  <2>10. TypeOK'
    BY Zenon, <1>4, <1>5, <2>7, <2>9 DEF SerialInv, TypeOK
  <2> QED
    BY Zenon, <1>2, <1>4, <1>5, <2>3, <2>7, <2>8, <2>9, <2>10, SaveStep
<1> QED
  BY Zenon, <1>8, <1>9

\* The process dies: the file and the history stay.
LEMMA CrashStep == ASSUME SerialInv, Crash PROVE SerialInv' /\ FileMoves
<1>1. /\ disk' = disk /\ now' = now /\ asked' = asked /\ answered' = answered
      /\ running' = NoRun /\ mem' = PreT0 /\ mem' \in ControllerState
      /\ calls' = [c \in Slots |-> Idle]
      /\ faults < MaxFaults /\ faults' = faults + 1
  BY Zenon, PreT0Sound DEF Crash
<1>2. TypeOK'
  BY SMTT(120), <1>1, ControllerAssumption DEF SerialInv, TypeOK
<1>3. FileInv' /\ MemInv' /\ CallInv' /\ CanaryFirst'
  BY Zenon, <1>1 DEF SerialInv, FileInv, MemInv, CallInv, CanaryFirst
<1> QED
  BY Zenon, <1>1, <1>2, <1>3 DEF SerialInv, FileMoves

\* Only the clock moves.
LEMMA TickStep == ASSUME SerialInv, Tick PROVE SerialInv' /\ FileMoves
<1>1. TypeOK'
  BY SMTT(120), ControllerAssumption DEF SerialInv, TypeOK, Tick
<1>2. FileInv' /\ MemInv' /\ CallInv' /\ CanaryFirst'
  BY Zenon DEF SerialInv, FileInv, MemInv, CallInv, CanaryFirst, Tick
<1> QED
  BY Zenon, <1>1, <1>2 DEF SerialInv, FileMoves, Tick

\* A fresh installation: no state file, no process, no call.
LEMMA InitSerial == Init => SerialInv
<1> SUFFICES ASSUME Init PROVE SerialInv
  BY Zenon
<1>1. TypeOK
  BY SMTT(120), PreT0Sound, ControllerAssumption DEF Init, TypeOK
<1>2. FileInv /\ MemInv /\ CallInv /\ CanaryFirst
  BY Zenon, PreT0Sound DEF Init, FileInv, MemInv, CallInv, CanaryFirst, Accounts, PreT0
<1> QED
  BY Zenon, <1>1, <1>2 DEF SerialInv

\* Every step keeps the inductive invariant and what the file holds.
LEMMA NextSerial ==
  ASSUME Serial, SerialInv, [Next]_vars
  PROVE  SerialInv' /\ FileMoves
<1>1. CASE UNCHANGED vars
  BY Zenon, <1>1 DEF vars, SerialInv, TypeOK, FileInv, MemInv, CallInv, CanaryFirst, FileMoves
<1>2. ASSUME NEW run \in RunIds, Open(run) PROVE SerialInv' /\ FileMoves
  BY Zenon, <1>2, OpenStep
<1>3. ASSUME NEW candidates \in SUBSET Messages, ResolveSelection(candidates)
      PROVE  SerialInv' /\ FileMoves
  BY Zenon, <1>3, ResolveStep
<1>4. ASSUME NEW slot \in Slots, NEW d \in Destinations, RunCanary(slot, d)
      PROVE  SerialInv' /\ FileMoves
  BY Zenon, <1>4, RunCanaryStep
<1>5. ASSUME NEW slot \in Slots, NEW m \in Messages, NEW d \in Destinations,
             AcquireNext(slot, m, d)
      PROVE  SerialInv' /\ FileMoves
  BY Zenon, <1>5, AcquireNextStep
<1>6. ASSUME NEW slot \in Slots, NEW outcome \in {"throws", "invalid", "valid"},
             Settle(slot, outcome)
      PROVE  SerialInv' /\ FileMoves
  BY Zenon, <1>6, SettleStep
<1>7. CASE AuthorizePM \/ RecordT0 \/ CompleteToValidationPending
  BY Zenon, <1>7, AuthorizeStep, RecordT0Step, CompleteStep
<1>8. CASE Crash \/ Tick
  BY Zenon, <1>8, CrashStep, TickStep
<1> QED
  BY Zenon, <1>1, <1>2, <1>3, <1>4, <1>5, <1>6, <1>7, <1>8 DEF Next

\* The only step that puts a new call under way is Ask, and it is made for a
\* message and a destination that no earlier call had.
LEMMA AskIsNew ==
  ASSUME Serial, SerialInv, [Next]_vars, NEW slot \in Slots,
         calls'[slot] \notin {calls[slot], Idle}, NEW a \in asked
  PROVE  a.message # calls'[slot].message /\ a.destination # calls'[slot].destination
<1>1. \/ \E c \in Slots, d \in Destinations : RunCanary(c, d)
      \/ \E c \in Slots, m \in Messages, d \in Destinations : AcquireNext(c, m, d)
  BY Zenon DEF Next, vars, Open, AuthorizePM, ResolveSelection, RecordT0, Settle,
         CompleteToValidationPending, Crash, Tick, SerialInv, TypeOK
<1>2. PICK c \in Slots, m \in Messages, d \in Destinations :
        /\ calls[c] = Idle /\ running # NoRun
        /\ mem.state \in {"CANARY_PENDING", "CANARY_PASSED", "GMAIL_ACQUIRING"}
        /\ m \notin Registered(mem) /\ Ask(c, m, d)
  <2>1. CASE \E c \in Slots, d \in Destinations : RunCanary(c, d)
    <3>1. PICK c \in Slots, d \in Destinations : RunCanary(c, d)
      BY Zenon, <2>1
    <3>2. PICK m \in mem.selection : Ask(c, m, d)
      BY Zenon, <3>1 DEF RunCanary
    <3>3. m \in Messages
      BY Zenon, <3>2 DEF SerialInv, TypeOK, ControllerState
    <3>4. Registered(mem) = {}
      <4>1. running # NoRun /\ mem.state = "CANARY_PENDING"
        BY Zenon, <3>1 DEF RunCanary
      <4>2. mem.completed = <<>>
        BY Zenon, <4>1 DEF SerialInv, MemInv, Sound
      <4> QED
        BY <4>2 DEF Registered
    <3> QED
      BY Zenon, <3>1, <3>2, <3>3, <3>4 DEF RunCanary
  <2>2. CASE \E c \in Slots, m \in Messages, d \in Destinations : AcquireNext(c, m, d)
    BY Zenon, <2>2 DEF AcquireNext
  <2> QED
    BY Zenon, <1>1, <2>1, <2>2
<1>3. c = slot /\ \A other \in Slots : calls[other] = Idle
  BY Zenon, <1>2 DEF Serial
<1>4. Accounts(mem, asked)
  BY Zenon, <1>2, <1>3 DEF SerialInv, MemInv
<1>5. calls'[slot] = [message |-> m, destination |-> d] /\ d \notin mem.destinationsUsed
  BY Zenon, <1>2, <1>3 DEF Ask, SerialInv, TypeOK
<1> QED
  BY <1>2, <1>4, <1>5 DEF Accounts
----------------------------------------------------------------------------
\* The inductive invariant of serial acquisition (controller.mjs: the marker
\* is persisted before each acquireRaw and cleared by registering or voiding).
THEOREM SerialInvariant == ASSUME Serial PROVE Spec => []SerialInv
<1>1. SerialInv /\ [Next]_vars => SerialInv'
  BY Zenon, NextSerial
<1> QED
  BY InitSerial, <1>1, PTL DEF Spec

\* Type correctness of the controller's memory, the state file and the history.
THEOREM AcquisitionTypes == ASSUME Serial PROVE Spec => []TypeOK
<1>1. SerialInv => TypeOK
  BY Zenon DEF SerialInv
<1> QED
  BY SerialInvariant, <1>1, PTL

\* One-shot acquisition: across any crashes, restarts and failed writes,
\* acquireRaw is called at most once per message and once per destination.
THEOREM AcquiredAtMostOnce == ASSUME Serial PROVE Spec => AskedOnce
<1>1. SerialInv /\ [Next]_vars =>
        [\A slot \in Slots :
           calls'[slot] \notin {calls[slot], Idle} =>
             \A a \in asked : /\ a.message # calls'[slot].message
                              /\ a.destination # calls'[slot].destination]_vars
  BY Zenon, AskIsNew
<1> QED
  BY SerialInvariant, <1>1, PTL DEF Spec, AskedOnce

\* A void state file stays void with its reason, whatever the process does.
THEOREM VoidStays == ASSUME Serial PROVE Spec => VoidIsTerminal
<1>1. SerialInv /\ [Next]_vars =>
        [disk.state = "VOID" =>
           disk'.state = "VOID" /\ disk'.voidReason = disk.voidReason]_vars
  BY Zenon, NextSerial DEF FileMoves
<1> QED
  BY SerialInvariant, <1>1, PTL DEF Spec, VoidIsTerminal

\* The sample and T0, once in the state file, are never replaced.
THEOREM SelectionAndT0Stay == ASSUME Serial PROVE Spec => SelectionAndT0Fixed
<1>1. SerialInv /\ [Next]_vars =>
        [/\ disk.selection # {} => disk'.selection = disk.selection
         /\ disk.t0 # NoTime => disk'.t0 = disk.t0]_vars
  BY Zenon, NextSerial DEF FileMoves
<1> QED
  BY SerialInvariant, <1>1, PTL DEF Spec, SelectionAndT0Fixed

\* Nothing but the canary is asked for before the canary was answered.
THEOREM CanaryComesFirst == ASSUME Serial PROVE Spec => []CanaryFirst
<1>1. SerialInv => CanaryFirst
  BY Zenon DEF SerialInv
<1> QED
  BY SerialInvariant, <1>1, PTL

\* Every message in the file's completed list was answered by the deadline
\* that follows from the file's T0.
THEOREM CompletedWereInTime == ASSUME Serial PROVE Spec => []RegisteredInTime
<1>1. SerialInv => RegisteredInTime
  BY Zenon DEF SerialInv, FileInv, Sound, RegisteredInTime
<1> QED
  BY SerialInvariant, <1>1, PTL

\* A record that calls its run complete has registered its whole selection.
LEMMA CompleteIsWhole ==
  ASSUME NEW s \in ControllerState, Counted(s),
         s.state \in {"ACQUISITION_COMPLETE", "VALIDATION_PENDING"}
  PROVE  Registered(s) = s.selection /\ Len(s.completed) = Cardinality(s.selection)
<1>1. /\ s.completed \in Seq(Messages) /\ DOMAIN s.completed = 1..Len(s.completed)
      /\ Len(s.completed) = TOTAL_GMAIL /\ TOTAL_GMAIL \in Nat /\ TOTAL_GMAIL >= 2
      /\ s.selection \in SUBSET Messages /\ IsFiniteSet(s.selection)
  BY SMTT(120), AcquisitionAssumption, FS_Subset DEF ControllerState, Counted
<1> DEFINE f == [i \in 1..TOTAL_GMAIL |-> s.completed[i]]
<1>2. f \in Bijection(1..TOTAL_GMAIL, Registered(s))
  BY Zenon, <1>1 DEF Counted, Registered, Bijection, Injection, Surjection, IsInjective
<1>3. Cardinality(Registered(s)) = TOTAL_GMAIL
  <2>1. ExistsBijection(1..TOTAL_GMAIL, Registered(s))
    BY Zenon, <1>2 DEF ExistsBijection
  <2>2. IsFiniteSet(1..TOTAL_GMAIL) /\ Cardinality(1..TOTAL_GMAIL) = TOTAL_GMAIL
    BY <1>1, FS_Interval
  <2> QED
    BY Zenon, <2>1, <2>2, FS_Bijection
<1>4. s.selection # {}
  <2>1. s.completed[1] \in Registered(s)
    BY <1>1 DEF Registered
  <2> QED
    BY Zenon, <2>1 DEF Counted
<1>5. Cardinality(s.selection) = TOTAL_GMAIL /\ Registered(s) \in SUBSET s.selection
  BY Zenon, <1>4 DEF Counted
<1> QED
  BY Zenon, <1>1, <1>3, <1>5, FS_Subset

\* A run that the state file calls complete has every selected message, each
\* registered exactly once, for any sample size and mailbox (controller.mjs
\* counts the completed list and never looks at the selection again).
THEOREM CompletionEarned == ASSUME Serial PROVE Spec => []CompletionIsEarned
<1>1. SerialInv => CompletionIsEarned
  BY Zenon, CompleteIsWhole DEF SerialInv, TypeOK, FileInv, Sound, CompletionIsEarned
<1> QED
  BY SerialInvariant, <1>1, PTL
=============================================================================
