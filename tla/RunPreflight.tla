---------------------------- MODULE RunPreflight ----------------------------
(***************************************************************************)
(* The operator preflights of the acquisition runs.  Run-2's walks through *)
(* fifteen checks (runPreflight), Run-3's through thirteen                 *)
(* (runRun3Preflight); both re-verify the GitHub records of Run-2 that are *)
(* about to be reused, from the manifest, the recorded selection and the   *)
(* artifacts on disk.  Every check reads the disk anew, while the operator *)
(* may still be repairing it and while another preflight runs.             *)
(***************************************************************************)
EXTENDS Integers, Sequences, FiniteSets, SequencesExt

CONSTANTS Procs,
          Scenes,          \* initial disks, which preflight each process runs, and a
                           \* bound on the edits made meanwhile
          Edits,           \* what the operator may do to it: a set of names
          Edited(_, _),    \* the disk after such an edit
          EXPECTED_RUN2_GITHUB_REUSE_COUNT

VARIABLES disk, procs, edits, maxEdits

vars == <<disk, procs, edits, maxEdits>>

(***************************************************************************)
(* The manifest.  A line that is not JSON makes the reader throw, which    *)
(* fails the check that reads it.  A row carries the number its artifact's *)
(* file name ends in (0 if it has none) and the ordinal of its record id   *)
(* (0 if it is not of the form P1D-n).                                     *)
(***************************************************************************)
Github(d) == SelectSeq(d.manifest, LAMBDA r : r.provider = "github")

Rows(d) == Range(Github(d))

Readable(d) == d.manifestJson

Classes == {"github_pull_request", "github_issue"}

HasIdentity(r) == r.universe # "none" /\ r.class \in Classes /\ r.number # 0

githubRowIdentityKey(r) == <<r.universe, r.class, r.number>>

Keys(d) == {githubRowIdentityKey(r) : r \in Rows(d)}

(***************************************************************************)
(* The selection: what each bucket of a universe holds.  An entry is a     *)
(* number, or the same digits as text.                                     *)
(***************************************************************************)
Bucket(d, universe, class) == {e \in d.selection : e.universe = universe /\ e.class = class}

selectedGithubIdentityKeys(d) ==
    {<<e.universe, e.class, e.number>> : e \in {x \in d.selection : x.class \in Classes}}

(***************************************************************************)
(* The reuse checks.                                                       *)
(***************************************************************************)
checkRun2GithubReuseMetadata(d) ==
    /\ Readable(d) /\ Rows(d) # {}
    /\ \A r \in Rows(d) : r.complete /\ r.observedInWindow
    /\ \A i, j \in DOMAIN Github(d) : i # j => Github(d)[i].id # Github(d)[j].id

checkRun2GithubSelectionProvenance(d) ==
    /\ Readable(d) /\ Rows(d) # {}
    /\ \A r \in Rows(d) :
         /\ HasIdentity(r)
         /\ \E e \in Bucket(d, r.universe, r.class) : e.number = r.number /\ ~e.text

checkRun2GithubCountExact(d, expected) ==
    /\ Readable(d)
    /\ Len(Github(d)) = expected
    /\ \A r \in Rows(d) : HasIdentity(r)
    /\ Cardinality(Keys(d)) = expected

\* resolveRun2ArtifactRealPath and the read: the bytes, if they are inside the root.
ArtifactOf(d, r) == IF r.path \in DOMAIN d.artifacts THEN d.artifacts[r.path] ELSE "missing"

Exists(d, r) == r.hash # "none" /\ ArtifactOf(d, r) \notin {"missing", "outside"}

ArtifactsExist(d) == Readable(d) /\ Rows(d) # {} /\ \A r \in Rows(d) : Exists(d, r)

ArtifactsMatch(d) == ArtifactsExist(d) /\ \A r \in Rows(d) : ArtifactOf(d, r) = r.hash

\* Mutant: every row is selected, and that is all.
checkRun2GithubSelectionSetIncludes(d) ==
    /\ Readable(d) /\ Rows(d) # {}
    /\ \A r \in Rows(d) : HasIdentity(r)
    /\ Cardinality(Keys(d)) = Len(Github(d))
    /\ Keys(d) \subseteq selectedGithubIdentityKeys(d)

checkRun2GithubSelectionSetEqual(d) ==
    /\ Readable(d) /\ Rows(d) # {}
    /\ \A r \in Rows(d) : HasIdentity(r)
    /\ Cardinality(Keys(d)) = Len(Github(d))
    /\ Cardinality(selectedGithubIdentityKeys(d)) = Cardinality(Keys(d))
    /\ Keys(d) \subseteq selectedGithubIdentityKeys(d)

checkRun2GithubRecordOrderValid(d) ==
    /\ Readable(d) /\ Rows(d) # {}
    /\ \A r \in Rows(d) : r.id # 0
    /\ \A i \in 1..(Len(Github(d)) - 1) : Github(d)[i].id < Github(d)[i + 1].id

checkRun2ManifestRecordIdSequential(d) ==
    /\ Readable(d) /\ d.manifest # <<>>
    /\ \A r \in Range(d.manifest) : r.id # 0
    /\ \A i \in 1..(Len(d.manifest) - 1) : d.manifest[i + 1].id = d.manifest[i].id + 1

(***************************************************************************)
(* The plan, the state directory, and the run root.                        *)
(***************************************************************************)
\* sealedCheck: the plan has the pinned length and hash, and its sidecar names
\* that hash.  The two files are read once, before the first check.
PlanAuthorityMatch(plan, sidecar) == plan = "ratified" /\ sidecar = "ratified"

checkPrivateStateRootValid(d) == d.stateDir = "private" /\ d.stateFile \in {"absent", "empty", "json"}

Entries(d) == d.root.entries

IsProbe(entry) == entry \in Procs

checkRunRootValid(d) == d.root.exists /\ \A e \in Entries(d) : IsProbe(e)

(***************************************************************************)
(* Order of the checks.  "probe" is destination_writable (and              *)
(* readback_works, which repeats its result): it writes a file of a fresh  *)
(* name into the run root, reads it back and removes it.                   *)
(***************************************************************************)
CheckOrder(kind) ==
    IF kind = "run2"
    THEN <<"gmail", "probe", "disk_space_sufficient", "run_root_valid", "plan_hash_matches",
           "reuse_metadata_valid", "selection_provenance_valid", "count_exact",
           "artifacts_exist", "selection_set_equal", "record_order_valid", "record_id_sequential">>
    ELSE IF kind = "none" THEN <<>>
    ELSE <<"oauth_state", "gmail", "private_state_root_valid", "plan_authority_valid", "count_exact",
           "artifacts_exist", "selection_provenance_valid", "selection_set_equal">>

Holds(name, d, p) ==
    CASE name = "oauth_state" -> d.client /\ d.refreshToken
      [] name = "disk_space_sufficient" -> d.root.exists /\ d.space
      [] name = "run_root_valid" -> checkRunRootValid(d)
      [] name = "plan_hash_matches" -> d.plan = "ratified"
      [] name = "reuse_metadata_valid" -> checkRun2GithubReuseMetadata(d)
      [] name = "selection_provenance_valid" -> checkRun2GithubSelectionProvenance(d)
      [] name = "count_exact" -> checkRun2GithubCountExact(d, EXPECTED_RUN2_GITHUB_REUSE_COUNT)
      [] name = "artifacts_exist" -> ArtifactsExist(d) /\ ArtifactsMatch(d)
      [] name = "selection_set_equal" -> checkRun2GithubSelectionSetEqual(d)
      [] name = "record_order_valid" -> checkRun2GithubRecordOrderValid(d)
      [] name = "record_id_sequential" -> checkRun2ManifestRecordIdSequential(d)
      [] name = "private_state_root_valid" -> checkPrivateStateRootValid(d)
      [] name = "plan_authority_valid" -> PlanAuthorityMatch(procs[p].plan, procs[p].sidecar)

(***************************************************************************)
(* One process.                                                            *)
(***************************************************************************)
Current(p) == CheckOrder(procs[p].kind)[procs[p].at]

\* The failed checks are collected; a failure never stops the walk.
Record(p, ok) ==
    procs' = [procs EXCEPT ![p].at = @ + 1,
                           ![p].failed = IF ok THEN @ ELSE @ \cup {Current(p)}]

Walking(p, name) == procs[p].at \in DOMAIN CheckOrder(procs[p].kind) /\ Current(p) = name

\* run3-preflight reads the plan and its sidecar before it starts.
Start(p) ==
    /\ procs[p].at = 0 /\ procs[p].kind # "none"
    /\ procs' = [procs EXCEPT ![p].at = 1, ![p].plan = disk.plan, ![p].sidecar = disk.sidecar,
                              ![p].began = edits]
    /\ UNCHANGED <<disk, edits, maxEdits>>

\* checkGmailAuth: see GmailTransport.
Gmail(p) ==
    /\ Walking(p, "gmail")
    /\ \E available \in BOOLEAN : Record(p, available)
    /\ UNCHANGED <<disk, edits, maxEdits>>

\* writeBytesDurable: nothing is made when there is no run root or the file cannot
\* be opened; a write or a sync that fails after that leaves the file behind,
\* for the check has not entered its try yet.
Probe(p) ==
    /\ Walking(p, "probe") /\ ~procs[p].probing
    /\ \/ Record(p, FALSE) /\ UNCHANGED disk
       \/ /\ disk.root.exists
          /\ disk' = [disk EXCEPT !.root.entries = @ \cup {p}]
          /\ \/ procs' = [procs EXCEPT ![p].probing = TRUE]
             \/ Record(p, FALSE)
    /\ UNCHANGED <<edits, maxEdits>>

\* The probe is removed also when reading it back fails; a removal that throws
\* fails the check and leaves the probe.
Unprobe(p) ==
    /\ Walking(p, "probe") /\ procs[p].probing
    /\ \E readBack, removed \in BOOLEAN :
         /\ procs' = [procs EXCEPT ![p].at = @ + 1, ![p].probing = FALSE,
                                   ![p].failed = IF readBack /\ removed THEN @ ELSE @ \cup {"probe"}]
         /\ disk' = IF removed THEN [disk EXCEPT !.root.entries = @ \ {p}] ELSE disk
    /\ UNCHANGED <<edits, maxEdits>>

Check(p) ==
    /\ procs[p].at \in DOMAIN CheckOrder(procs[p].kind) /\ Current(p) \notin {"gmail", "probe"}
    /\ procs' = [procs EXCEPT ![p].at = @ + 1,
                              ![p].failed = IF Holds(Current(p), disk, p) THEN @ ELSE @ \cup {Current(p)}]
    /\ UNCHANGED <<disk, edits, maxEdits>>

Finished(p) == procs[p].kind # "none" /\ procs[p].at > Len(CheckOrder(procs[p].kind))

Kill(p) ==
    /\ procs[p].at > 0 /\ ~Finished(p)
    /\ procs' = [procs EXCEPT ![p].at = Len(CheckOrder(procs[p].kind)) + 1, ![p].failed = @ \cup {"killed"}]
    /\ UNCHANGED <<disk, edits, maxEdits>>

Edit(name) ==
    /\ edits < maxEdits
    /\ disk' = Edited(disk, name)
    /\ edits' = edits + 1
    /\ UNCHANGED <<procs, maxEdits>>

Init ==
    \E s \in Scenes :
    /\ disk = s.disk
    /\ maxEdits = s.maxEdits
    /\ procs = [p \in Procs |-> [kind |-> s.kinds[p], at |-> 0, failed |-> {}, probing |-> FALSE,
                                 plan |-> "unread", sidecar |-> "unread", began |-> 0]]
    /\ edits = 0

Next ==
    \/ \E p \in Procs : Start(p) \/ Gmail(p) \/ Probe(p) \/ Unprobe(p) \/ Check(p) \/ Kill(p)
    \/ \E name \in Edits : Edit(name)

Spec == Init /\ [][Next]_vars

(***************************************************************************)
(* Properties.                                                             *)
(***************************************************************************)
\* Nobody has edited the disk since the process started.
Undisturbed(p) == procs[p].began = edits

Passed(p) == Finished(p) /\ procs[p].failed = {}

\* What the reuse needs: the records and the selected numbers are in one-to-one
\* correspondence, of the ratified count, and each record's bytes are on disk.
Reusable(d) ==
    /\ \A e \in d.selection : e.class \in Classes =>
         Cardinality({i \in DOMAIN d.manifest : /\ d.manifest[i].provider = "github"
                                               /\ d.manifest[i].universe = e.universe
                                               /\ d.manifest[i].class = e.class
                                               /\ d.manifest[i].number = e.number}) = 1
    /\ Cardinality({<<e.universe, e.class, e.number>> : e \in d.selection}) = EXPECTED_RUN2_GITHUB_REUSE_COUNT
    /\ Len(Github(d)) = EXPECTED_RUN2_GITHUB_REUSE_COUNT
    /\ \A r \in Rows(d) : r.path \in DOMAIN d.artifacts /\ d.artifacts[r.path] = r.hash

\* A preflight of either run that passes on a disk nobody touched meanwhile has
\* found records that can be reused: no record missing, selected twice or extra.
PassMeansReusable ==
    \A p \in Procs : Passed(p) /\ Undisturbed(p) => Reusable(disk)

\* Two preflights at once, or one whose probe failed or that was killed, do not
\* make a run root look occupied: probe files are not counted.
ProbesNeverBlock ==
    \A p \in Procs : "run_root_valid" \in procs[p].failed /\ Undisturbed(p) =>
        ~disk.root.exists \/ \E e \in Entries(disk) : e \notin Procs

\* A preflight creates no run root, and its probe file stays behind only when the
\* preflight was killed over it or reports the destination as not writable (the
\* write or the removal failed): one that reports it as writable has left nothing.
LeftProbesAreReported ==
    /\ \A p \in Procs : p \in Entries(disk) => procs[p].probing \/ "probe" \in procs[p].failed
    /\ Entries(disk) # {} => disk.root.exists

=============================================================================
