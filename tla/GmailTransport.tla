--------------------------- MODULE GmailTransport ---------------------------
(***************************************************************************)
(* The operator's Gmail tools: `auth-check`, `oauth-authorize`, `acquire`  *)
(* and the metadata enumeration of Run-3.  Each is an operating-system     *)
(* process of its own; they share one OAuth client file, one token file    *)
(* and the acquisition root, and they all talk to the same provider.       *)
(*                                                                         *)
(* A process is cut where another one can come in between: at every await  *)
(* on the network and between two system calls on a shared file.  It may   *)
(* be killed at any cut.                                                   *)
(***************************************************************************)
EXTENDS Integers, Sequences, FiniteSets, SequencesExt

CONSTANTS Absent,     \* no file, no token
          Manual,     \* the token of ATRA_P1_2_GMAIL_TOKEN
          Procs,      \* processes
          Scenes,     \* what is installed and which commands are run
          EXPIRY_SKEW,
          TTL,        \* life of an access token the provider issues
          MAX_PAGES,
          MaxGrants   \* bound: refresh tokens the provider ever issues

VARIABLES scene,      \* the scenario; its budgets are spent by the environment
          now,
          tokenFile,  \* token.json: Absent, or a token state
          honoured,   \* refresh tokens the provider still accepts
          issued,     \* refresh tokens issued so far (they are numbered)
          files,      \* the acquisition root: path -> Absent or [by, bytes]
          mailbox,    \* message ids, in the order the provider lists them
          procs

vars == <<scene, now, tokenFile, honoured, issued, files, mailbox, procs>>

None == "none"

Update(p, fields) ==
    procs' = [procs EXCEPT ![p] = [f \in DOMAIN @ |-> IF f \in DOMAIN fields THEN fields[f] ELSE @[f]]]

(***************************************************************************)
(* Token state.  readTokenState answers null for a missing or unreadable   *)
(* file, which is what Absent is here.                                     *)
(***************************************************************************)
hasRefreshState(t) == t # Absent /\ t.refresh # Absent

isAccessTokenFresh(t) == t.access # Absent /\ t.expiry > now + EXPIRY_SKEW

Access(grant, at) == [grant |-> grant, until |-> at + TTL]

\* The provider's view of a bearer token.
Accepts(token) == token # Manual => token.grant \in honoured /\ now < token.until

(***************************************************************************)
(* How a command ends.  oauth-authorize goes on to the consent flow when,  *)
(* and only when, no refresh token is stored.                              *)
(***************************************************************************)
End(p, result) == Update(p, [pc |-> "done", result |-> result])

Refuse(p, code) ==
    IF procs[p].cmd = "authorize" /\ code = "gmail_oauth_consent_required"
    THEN Update(p, [pc |-> "server"])
    ELSE End(p, code)

\* With a bearer token in hand.
Proceed(p, token) ==
    IF procs[p].cmd = "authorize" THEN End(p, "READY")
    ELSE Update(p, [pc |-> CASE procs[p].cmd = "check" -> "profile"
                             [] procs[p].cmd = "acquire" -> "fetch"
                             [] procs[p].cmd = "enumerate" -> "list",
                    token |-> token, at |-> now])

(***************************************************************************)
(* main, and the checks acquire makes before any network call.             *)
(***************************************************************************)
Vacant(path) == files[path] = Absent

\* Neither by its name nor through a link is the destination outside the root.
Inside(place) == place = "inside"

Begin(p) ==
    LET c == procs[p]
    IN /\ c.pc = "start"
       /\ IF c.cmd = "authorize" /\ scene.client = "none"
            THEN End(p, "HUMAN_GOOGLE_OAUTH_CLIENT_REQUIRED")
          ELSE IF c.cmd = "acquire" /\ ~c.validId THEN End(p, "gmail_raw_message_id_invalid")
          ELSE IF c.cmd = "acquire" /\ ~Inside(c.place) THEN End(p, "gmail_raw_destination_outside_root")
          ELSE IF c.cmd = "acquire" /\ ~Vacant(c.path) THEN End(p, "gmail_raw_destination_exists")
          ELSE Update(p, [pc |-> "resolve"])
       /\ UNCHANGED <<scene, now, tokenFile, honoured, issued, files, mailbox>>

(***************************************************************************)
(* resolveGmailBearerToken and resolveOAuthAccessToken.                    *)
(***************************************************************************)
Resolve(p) ==
    /\ procs[p].pc = "resolve"
    /\ IF scene.client = "none" /\ procs[p].cmd # "authorize"
         THEN CASE scene.manual = "none" -> End(p, "gmail_raw_credential_not_configured")
                [] scene.manual = "malformed" -> End(p, "gmail_raw_credential_invalid")
                [] scene.manual = "valid" -> Proceed(p, Manual)
       ELSE IF ~hasRefreshState(tokenFile) THEN Refuse(p, "gmail_oauth_consent_required")
       ELSE IF isAccessTokenFresh(tokenFile) THEN Proceed(p, tokenFile.access)
       ELSE Update(p, [pc |-> "reload"])
    /\ UNCHANGED <<scene, now, tokenFile, honoured, issued, files, mailbox>>

\* refreshAccessToken, up to its await: it reads both files again.
Reload(p) ==
    /\ procs[p].pc = "reload"
    /\ IF scene.client = "none" THEN Refuse(p, "gmail_oauth_client_not_configured")
       ELSE IF scene.client = "invalid" THEN Refuse(p, "gmail_oauth_client_invalid")
       ELSE IF ~hasRefreshState(tokenFile) THEN Refuse(p, "gmail_oauth_consent_required")
       ELSE Update(p, [pc |-> "refresh", read |-> tokenFile])
    /\ UNCHANGED <<scene, now, tokenFile, honoured, issued, files, mailbox>>

NextRefresh(old, returned) == IF returned = Absent THEN old ELSE returned

\* The token state a successful answer is turned into.
StateFrom(refresh, grant) ==
    [refresh |-> refresh, access |-> Access(grant, now), expiry |-> now + TTL]

Refresh(p) ==
    LET old == procs[p].read.refresh
    IN /\ procs[p].pc = "refresh"
       /\ \/ Refuse(p, "gmail_oauth_refresh_failed") /\ UNCHANGED <<honoured, issued>>
          \* Accepted, and no new refresh token in the answer.
          \/ /\ old \in honoured
             /\ Update(p, [pc |-> "temp", state |-> StateFrom(NextRefresh(old, Absent), old)])
             /\ UNCHANGED <<honoured, issued>>
          \* Accepted, and the refresh token is rotated.
          \/ /\ old \in honoured /\ scene.rotates /\ issued < MaxGrants
             /\ Update(p, [pc |-> "temp",
                           state |-> StateFrom(NextRefresh(old, issued + 1), issued + 1)])
             /\ honoured' = (honoured \ {old}) \cup {issued + 1}
             /\ issued' = issued + 1
    /\ UNCHANGED <<scene, now, tokenFile, files, mailbox>>

(***************************************************************************)
(* writeTokenStateDurable: a temporary file of a fresh name, then a rename *)
(* over token.json, then chmod.  Any of them may fail.                     *)
(***************************************************************************)
Stored(p, code) ==
    IF procs[p].open THEN Update(p, [pc |-> "consent", state |-> Absent, answer |-> code])
    ELSE IF code = "READY" THEN Proceed(p, procs[p].state.access)
    ELSE Refuse(p, "gmail_oauth_persist_failed")

\* finish: the first answer stands.
Finish(p, code) == IF procs[p].answer = None THEN code ELSE procs[p].answer

Temp(p) ==
    /\ procs[p].pc = "temp"
    /\ \/ Stored(p, Finish(p, "gmail_oauth_consent_exchange_failed"))
       \/ Update(p, [pc |-> "rename"])
    /\ UNCHANGED <<scene, now, tokenFile, honoured, issued, files, mailbox>>

Rename(p) ==
    /\ procs[p].pc = "rename"
    /\ \/ Stored(p, Finish(p, "READY")) /\ tokenFile' = procs[p].state
       \/ /\ Stored(p, Finish(p, "gmail_oauth_consent_exchange_failed"))
          /\ tokenFile' \in {tokenFile, procs[p].state}          \* rename fails, or chmod does
    /\ UNCHANGED <<scene, now, honoured, issued, files, mailbox>>

(***************************************************************************)
(* runFirstRunConsent: a loopback server that waits for the browser.  The  *)
(* process stays up until every exchange it began has come back, also      *)
(* after its answer was given.                                             *)
(***************************************************************************)
Server(p) ==
    /\ procs[p].pc = "server"
    /\ \/ scene.client = "invalid" /\ End(p, "gmail_oauth_client_invalid")
       \/ scene.client = "none" /\ End(p, "gmail_oauth_client_not_configured")
       \/ /\ scene.client = "installed"
          /\ \/ End(p, "gmail_oauth_consent_server_failed")
             \/ Update(p, [pc |-> "consent", open |-> TRUE])
    /\ UNCHANGED <<scene, now, tokenFile, honoured, issued, files, mailbox>>

\* The operator's browser answers: a denial, a page left over from an earlier
\* attempt (its state is another one), or the code, possibly sent twice.
Callback(p) ==
    /\ procs[p].pc = "consent" /\ procs[p].answer = None
    /\ \/ Update(p, [answer |-> "gmail_oauth_state_invalid"])
       \/ Update(p, [answer |-> "gmail_oauth_consent_denied"])
       \/ procs[p].calls < 2 /\ Update(p, [calls |-> procs[p].calls + 1, pending |-> procs[p].pending + 1])
    /\ UNCHANGED <<scene, now, tokenFile, honoured, issued, files, mailbox>>

\* The exchange of a code comes back.  A code is good for one exchange.
Exchanged(p) ==
    /\ procs[p].pc = "consent" /\ procs[p].pending > 0
    /\ \/ /\ Update(p, [pending |-> procs[p].pending - 1,
                        answer |-> Finish(p, "gmail_oauth_consent_exchange_failed")])
          /\ UNCHANGED <<honoured, issued>>
       \/ /\ ~procs[p].used /\ issued < MaxGrants
          /\ \/ Update(p, [pending |-> procs[p].pending - 1, used |-> TRUE, pc |-> "temp",
                           state |-> StateFrom(issued + 1, issued + 1)])
             \/ Update(p, [pending |-> procs[p].pending - 1, used |-> TRUE,
                           answer |-> Finish(p, "gmail_oauth_no_refresh_token")])
          /\ issued' = issued + 1
          /\ honoured' = honoured \cup {issued + 1}
    /\ UNCHANGED <<scene, now, tokenFile, files, mailbox>>

Timeout(p) ==
    /\ procs[p].pc = "consent" /\ procs[p].answer = None
    /\ Update(p, [answer |-> "HUMAN_GOOGLE_OAUTH_CONSENT_REQUIRED"])
    /\ UNCHANGED <<scene, now, tokenFile, honoured, issued, files, mailbox>>

Answered(p) ==
    /\ procs[p].pc = "consent" /\ procs[p].answer # None /\ procs[p].pending = 0
    /\ End(p, procs[p].answer)
    /\ UNCHANGED <<scene, now, tokenFile, honoured, issued, files, mailbox>>

(***************************************************************************)
(* checkGmailAuth.                                                         *)
(***************************************************************************)
Unauthorized == "unauthorized"

\* What a call of the provider's API that is not a success ends with.
Failed(p) ==
    \/ End(p, "network_error")
    \/ ~Accepts(procs[p].token) /\ Update(p, [pc |-> "done", result |-> Unauthorized, ended |-> now])
    \/ Accepts(procs[p].token) /\ End(p, "http_error")

Profile(p) ==
    /\ procs[p].pc = "profile"
    /\ \/ Failed(p)
       \/ Accepts(procs[p].token) /\ End(p, "available")
    /\ UNCHANGED <<scene, now, tokenFile, honoured, issued, files, mailbox>>

(***************************************************************************)
(* acquireGmailRawMessage.  A message is its bytes and the form in which   *)
(* the provider encodes them.                                              *)
(***************************************************************************)
decodeBase64Url(raw) ==
    CASE raw.form = "missing" -> "gmail_raw_field_missing"
      [] raw.form = "malformed" -> "gmail_raw_field_malformed"
      [] raw.form = "loose" -> "gmail_raw_field_non_canonical"
      [] raw.form = "canonical" -> "decoded"

Fetch(p) ==
    LET raw == procs[p].raw
    IN /\ procs[p].pc = "fetch"
       /\ \/ Failed(p)
          \/ /\ Accepts(procs[p].token)
             /\ IF decodeBase64Url(raw) = "decoded" THEN Update(p, [pc |-> "open"])
                ELSE End(p, decodeBase64Url(raw))
       /\ UNCHANGED <<scene, now, tokenFile, honoured, issued, files, mailbox>>

\* open with 'wx': it creates the file or fails.
Open(p) ==
    /\ procs[p].pc = "open"
    /\ \/ End(p, "gmail_raw_write_failed") /\ UNCHANGED files
       \/ ~Vacant(procs[p].path) /\ End(p, "gmail_raw_destination_exists") /\ UNCHANGED files
       \/ /\ Vacant(procs[p].path)
          /\ Update(p, [pc |-> "write"])
          /\ files' = [files EXCEPT ![procs[p].path] = [by |-> p, bytes |-> "empty"]]
    /\ UNCHANGED <<scene, now, tokenFile, honoured, issued, mailbox>>

\* Only the file this process opened is written, also when its name has gone.
WriteTo(p, bytes) ==
    LET f == files[procs[p].path]
    IN files' = IF f # Absent /\ f.by = p
                THEN [files EXCEPT ![procs[p].path].bytes = bytes] ELSE files

WriteBytes(p) ==
    /\ procs[p].pc = "write"
    /\ \/ End(p, "gmail_raw_write_failed") /\ WriteTo(p, "partial")
       \/ Update(p, [pc |-> "verify"]) /\ WriteTo(p, procs[p].raw.bytes)
    /\ UNCHANGED <<scene, now, tokenFile, honoured, issued, mailbox>>

\* Mutant: the bytes in memory are compared with themselves.
VerdictInMemory(p, f) == "byte_equal"

Verdict(p, f) == IF f.bytes = procs[p].raw.bytes THEN "byte_equal" ELSE "bytes_differ"

\* verifyByteFidelity opens the destination anew and reads it back.
Verify(p) ==
    LET f == files[procs[p].path]
    IN /\ procs[p].pc = "verify"
       /\ IF f = Absent THEN End(p, "internal_error")
          ELSE Update(p, [pc |-> "done", result |-> Verdict(p, f), seen |-> f.bytes])
       /\ UNCHANGED <<scene, now, tokenFile, honoured, issued, files, mailbox>>

(***************************************************************************)
(* enumerateGmailMetadata: all pages of ids first, then one metadata call  *)
(* per id.  The provider pages by position, so that mail arriving or       *)
(* leaving in the meantime shifts the pages that follow; it may also send  *)
(* an empty page that has a successor.                                     *)
(***************************************************************************)
PageOf(from) == SubSeq(mailbox, from, IF from + scene.pageSize - 1 < Len(mailbox)
                                      THEN from + scene.pageSize - 1 ELSE Len(mailbox))

More(page, token) == token

Turn(p, page, from, token) ==
    Update(p, [pages |-> procs[p].pages + 1, ids |-> procs[p].ids \o page, from |-> from,
               pc |-> IF More(page, token) THEN "list" ELSE "metadata"])

List(p) ==
    LET c == procs[p]
        next == c.from + scene.pageSize
    IN /\ c.pc = "list"
       /\ \/ c.pages >= MAX_PAGES /\ End(p, "gmail_metadata_pagination_runaway")
          \/ /\ c.pages < MAX_PAGES
             /\ \/ Failed(p)
                \/ /\ Accepts(c.token)
                   /\ \/ Turn(p, PageOf(c.from), next, next <= Len(mailbox))
                      \/ scene.gaps /\ Turn(p, <<>>, c.from, TRUE)
       /\ UNCHANGED <<scene, now, tokenFile, honoured, issued, files, mailbox>>

Repeated(c) == c.ids[c.known + 1] \in {c.ids[i] : i \in 1..c.known}

Metadata(p) ==
    LET c == procs[p]
    IN /\ c.pc = "metadata"
       /\ IF c.known = Len(c.ids) THEN End(p, "enumerated")
          ELSE IF Repeated(c) THEN End(p, "P1_2_RUN3_GMAIL_DUPLICATE_PROVIDER_IDENTITY")
          ELSE \/ Failed(p)
               \/ /\ Accepts(c.token) /\ c.ids[c.known + 1] \in Range(mailbox)
                  /\ Update(p, [known |-> c.known + 1])
       /\ UNCHANGED <<scene, now, tokenFile, honoured, issued, files, mailbox>>

\* The window is closed at both ends.
isEligible(date) == date >= scene.window[1] /\ date <= scene.window[2]

Eligible(c) == {m \in Range(c.ids) : isEligible(scene.dates[m])}

(***************************************************************************)
(* The environment: the clock, the account's owner, other programs on the  *)
(* operator's machine, new and deleted mail, and kills.                    *)
(***************************************************************************)
Spend(what) == /\ scene.changes[what] > 0
               /\ scene' = [scene EXCEPT !.changes[what] = @ - 1]

Tick == /\ now < scene.maxNow
        /\ now' = now + 1
        /\ UNCHANGED <<scene, tokenFile, honoured, issued, files, mailbox, procs>>

Install == /\ scene.changes.install > 0 /\ scene.client = "none"
           /\ scene' = [scene EXCEPT !.changes.install = @ - 1, !.client = "installed"]
           /\ UNCHANGED <<now, tokenFile, honoured, issued, files, mailbox, procs>>

Revoke == /\ Spend("revoke")
          /\ honoured' = {}
          /\ UNCHANGED <<now, tokenFile, issued, files, mailbox, procs>>

Tamper(path) ==
    /\ Spend("tamper") /\ ~Vacant(path)
    /\ \E f \in {Absent, [by |-> files[path].by, bytes |-> "other"]} : files' = [files EXCEPT ![path] = f]
    /\ UNCHANGED <<now, tokenFile, honoured, issued, mailbox, procs>>

Arrive(m) ==
    /\ Spend("arrive") /\ m \notin Range(mailbox) \cup Range(scene.mailbox)  \* ids are not reused
    /\ mailbox' = <<m>> \o mailbox
    /\ UNCHANGED <<now, tokenFile, honoured, issued, files, procs>>

Leave(m) ==
    /\ Spend("leave") /\ m \in Range(mailbox)
    /\ mailbox' = SelectSeq(mailbox, LAMBDA x : x # m)
    /\ UNCHANGED <<now, tokenFile, honoured, issued, files, procs>>

Kill(p) ==
    /\ Spend("kill") /\ procs[p].pc # "done"
    /\ End(p, "killed")
    /\ UNCHANGED <<now, tokenFile, honoured, issued, files, mailbox>>

(***************************************************************************)
(* Specification.                                                          *)
(***************************************************************************)
Process(command) ==
    command @@ [cmd |-> "check", validId |-> TRUE, place |-> "inside", path |-> "f",
                raw |-> [bytes |-> "m", form |-> "canonical"]]
            @@ [pc |-> "start", result |-> None, token |-> Absent, at |-> 0, ended |-> 0,
                read |-> Absent, state |-> Absent, open |-> FALSE, answer |-> None,
                calls |-> 0, pending |-> 0, used |-> FALSE, seen |-> None,
                pages |-> 0, ids |-> <<>>, from |-> 1, known |-> 0]

Init ==
    /\ scene \in Scenes
    /\ now = 0
    /\ tokenFile = scene.token
    /\ honoured = IF hasRefreshState(scene.token) THEN {scene.token.refresh} ELSE {}
    /\ issued = Cardinality(honoured)
    /\ files = scene.files
    /\ mailbox = scene.mailbox
    /\ procs = [p \in Procs |-> Process(scene.commands[p])]

Step(p) ==
    \/ Begin(p) \/ Resolve(p) \/ Reload(p) \/ Refresh(p) \/ Temp(p) \/ Rename(p)
    \/ Server(p) \/ Exchanged(p) \/ Timeout(p) \/ Answered(p)
    \/ Profile(p) \/ Fetch(p) \/ Open(p) \/ WriteBytes(p) \/ Verify(p)
    \/ List(p) \/ Metadata(p)

Done == (\A p \in Procs : procs[p].pc = "done") /\ UNCHANGED vars

Next ==
    \/ \E p \in Procs : Step(p) \/ Callback(p) \/ Kill(p)
    \/ Tick \/ Install \/ Revoke
    \/ \E path \in DOMAIN files : Tamper(path)
    \/ \E m \in DOMAIN scene.dates : Arrive(m) \/ Leave(m)
    \/ Done

\* Every request has a timeout, the consent flow has a timer, and the rest is
\* straight-line code: a process that can take a step takes it.
Spec == Init /\ [][Next]_vars /\ \A p \in Procs : WF_vars(Step(p))

(***************************************************************************)
(* Properties.                                                             *)
(***************************************************************************)

\* `acquire` reports byte_equal only if the file it reopened held exactly the
\* bytes the provider sent, whatever other programs do to the file meanwhile.
EqualMeansFaithful ==
    \A p \in Procs : procs[p].result = "byte_equal" =>
        procs[p].seen = procs[p].raw.bytes /\ procs[p].raw.form = "canonical"

CreatorsKept ==
    \A path \in DOMAIN files :
        ~Vacant(path) /\ ~Vacant(path)' => files'[path].by = files[path].by

\* Two acquisitions never write the same file: a destination keeps its creator
\* for as long as it exists, and an earlier file keeps its bytes.
FilesAreNeverOverwritten == [][CreatorsKept]_vars

ConsentKept == hasRefreshState(tokenFile) => hasRefreshState(tokenFile)'

\* Consent once stored stays stored: no refresh, failed write or kill makes
\* token.json unreadable or drops the refresh token from it.
ConsentIsKept == [][ConsentKept]_vars

\* oauth-authorize says READY only when a refresh token is on disk.
ReadyMeansStored ==
    \A p \in Procs : procs[p].cmd = "authorize" /\ procs[p].result = "READY"
                      => hasRefreshState(tokenFile)

\* A token that was good when it was resolved is not refused within the skew:
\* 401 means that the owner revoked access or that the command took longer.
UnauthorizedMeansStale ==
    \A p \in Procs : procs[p].result = Unauthorized =>
        \/ honoured = {}
        \/ scene.rotates
        \/ procs[p].ended - procs[p].at > EXPIRY_SKEW

\* An enumeration that succeeds lists no message twice and, unless mail was
\* deleted while it ran, every message that was there when it began.
EnumerationIsComplete ==
    \A p \in Procs : procs[p].result = "enumerated" =>
        /\ IsInjective(procs[p].ids)
        /\ Range(scene.mailbox) \subseteq Range(mailbox) => Range(scene.mailbox) \subseteq Range(procs[p].ids)

Ended(p) == procs[p].pc = "done"

\* Every command ends, also when the browser never answers.
EveryCommandEnds == \A p \in Procs : <>Ended(p)

\* The authentication check changes no file (run3-preflight, which calls it,
\* is documented as read-only).
ChecksWriteNothing ==
    [][\A p \in Procs : procs[p].cmd = "check" /\ procs'[p] # procs[p] => tokenFile' = tokenFile]_vars

=============================================================================
