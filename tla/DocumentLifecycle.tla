------------------------- MODULE DocumentLifecycle -------------------------
(***************************************************************************)
(* Documents, their versions, their search chunks and their stored files,  *)
(* and the requests that upload, review, delete and reindex them           *)
(* (ingestion/service.py, retrieval/indexing.py, retrieval/reindexing.py). *)
(*                                                                         *)
(* A request is one database transaction (an upload or a review) or two (a *)
(* deletion): the rows below are the committed ones, a request keeps what  *)
(* it has not committed in draft.  The file store is not transactional.    *)
(* All requests come from administrators of the documents; one that is not *)
(* authorized records an audit event and changes nothing.                  *)
(***************************************************************************)
EXTENDS Naturals, FiniteSets

CONSTANTS
  Docs,         \* identifiers documents may take
  MaxVersions,  \* bound: versions of one document
  Keys,         \* idempotency keys of one actor
  Files,        \* payloads: equal when checksum and scope metadata are
  BadFiles,     \* payloads validate_file refuses
  Legacy,       \* documents approved before embeddings were introduced
  Requests,     \* HTTP requests in flight at the same time
  Offered,      \* kinds of requests the administrators send
  MaxUploads,   \* bound: versions ever inserted
  MaxFaults,    \* bound: crashes and database errors in a behaviour
  NoDoc, NoKey, NoFile, NoRequest

Numbers == 1..MaxVersions
Kinds == {"upload", "approve", "reject", "delete", "reindex"}

ASSUME LifecycleAssumption ==
  /\ MaxVersions \in Nat \ {0}
  /\ MaxUploads \in Nat
  /\ MaxFaults \in Nat
  /\ BadFiles \subseteq Files
  /\ Legacy \subseteq Docs
  /\ Offered \subseteq Kinds
  /\ NoDoc \notin Docs
  /\ NoKey \notin Keys
  /\ NoFile \notin Files
  /\ NoRequest \notin Requests

VARIABLES
  \* the committed rows
  docState,  \* documents: "none", "live", "deleted" (deleted_at is set)
  current,   \* documents.current_approved_version_id, 0 for NULL
  row,       \* document_versions with their ingestion_jobs, by number
  chunk,     \* document_chunks of a version, which change together
  docLock,   \* the transaction that holds the documents row
  chunkLock, \* the transaction that holds the active chunk rows
  \* the file store
  disk,      \* stored objects
  minted,    \* version identifiers generated so far
  \* the requests
  pc, job, draft,
  \* the outside
  faults,
  \* history variable, read by the properties only
  answers    \* uploads each idempotency key was accepted for

rowVars == <<docState, current, row, chunk>>
lockVars == <<docLock, chunkLock>>
storeVars == <<disk, minted>>
vars == <<rowVars, lockVars, storeVars, pc, job, draft, faults, answers>>

Statuses == {"UPLOADED", "VALIDATING", "PARSING", "PREVIEW_READY", "APPROVED",
             "REJECTED", "VALIDATION_FAILED", "PARSING_FAILED", "DELETED"}

\* state_machine.py
AllowedTransitions ==
  [s \in Statuses |->
     CASE s = "UPLOADED" -> {"VALIDATING", "DELETED"}
       [] s = "VALIDATING" -> {"PARSING", "VALIDATION_FAILED", "DELETED"}
       [] s = "PARSING" -> {"PREVIEW_READY", "PARSING_FAILED", "DELETED"}
       [] s = "PREVIEW_READY" -> {"APPROVED", "REJECTED", "DELETED"}
       [] s = "DELETED" -> {}
       [] OTHER -> {"DELETED"}]

\* StorageKey.generate: the document and the new version identifier.
Objects == Docs \X (0..MaxUploads)
NoObject == <<NoDoc, 0>>

VersionRow == [status : Statuses \cup {"none"}, key : Keys \cup {NoKey},
               file : Files \cup {NoFile}, target : Docs \cup {NoDoc},
               object : Objects \cup {NoObject}]
NoVersion == [status |-> "none", key |-> NoKey, file |-> NoFile,
              target |-> NoDoc, object |-> NoObject]

\* status is the copied version_status; vector is embedding_status.
ChunkRow == [status : {"none", "APPROVED", "REJECTED", "DELETED"}, active : BOOLEAN,
             deleted : BOOLEAN, vector : {"none", "PENDING", "READY", "STALE"}]
NoChunks == [status |-> "none", active |-> FALSE, deleted |-> FALSE, vector |-> "none"]

Job == [kind : Kinds, doc : Docs \cup {NoDoc}, num : 0..MaxVersions,
        key : Keys \cup {NoKey}, file : Files \cup {NoFile}]
NoJob == [kind |-> "reindex", doc |-> NoDoc, num |-> 0, key |-> NoKey, file |-> NoFile]

Draft == [doc : Docs \cup {NoDoc},       \* the document written to or audited
          num : 0..(MaxVersions + 1),    \* version_number of the upload
          object : Objects \cup {NoObject},
          accepted : BOOLEAN,            \* the audited answer is a success
          unlink : SUBSET Objects,       \* files a deletion still has to remove
          claimed : SUBSET Docs]         \* documents a reindex has locked
NoDraft == [doc |-> NoDoc, num |-> 0, object |-> NoObject, accepted |-> FALSE,
            unlink |-> {}, claimed |-> {}]

ProgramCounters == {"idle", "lock", "lookup", "badfile", "dedupe", "insert", "store",
                    "parse", "review", "embed", "delete", "unlink", "audit",
                    "claim", "reembed"}

TypeOK ==
  /\ docState \in [Docs -> {"none", "live", "deleted"}]
  /\ current \in [Docs -> 0..MaxVersions]
  /\ row \in [Docs -> [Numbers -> VersionRow]]
  /\ chunk \in [Docs -> [Numbers -> ChunkRow]]
  /\ docLock \in [Docs -> Requests \cup {NoRequest}]
  /\ chunkLock \in [Docs -> Requests \cup {NoRequest}]
  /\ disk \subseteq Objects
  /\ minted \in 0..MaxUploads
  /\ pc \in [Requests -> ProgramCounters]
  /\ job \in [Requests -> Job]
  /\ draft \in [Requests -> Draft]
  /\ faults \in 0..MaxFaults
  /\ answers \in [Keys -> SUBSET (Files \X (Docs \cup {NoDoc}))]
-----------------------------------------------------------------------------
(***************************************************************************)
(* Locks, and the end of a request.                                        *)
(***************************************************************************)
\* SELECT ... FOR UPDATE of a document waits for the transaction that has it,
\* and so does the foreign key check of an audit event that names it.
DocFree(d, q) == docLock[d] \in {NoRequest, q}

\* An UPDATE of chunk rows waits for the reindex that selected them.
ChunksFree(d, q) == chunkLock[d] \in {NoRequest, q}

Release(q) ==
  /\ docLock' = [d \in Docs |-> IF docLock[d] = q THEN NoRequest ELSE docLock[d]]
  /\ chunkLock' = [d \in Docs |-> IF chunkLock[d] = q THEN NoRequest ELSE chunkLock[d]]

Goto(q, label) == pc' = [pc EXCEPT ![q] = label]

EndRequest(q) ==
  /\ pc' = [pc EXCEPT ![q] = "idle"]
  /\ job' = [job EXCEPT ![q] = NoJob]
  /\ draft' = [draft EXCEPT ![q] = NoDraft]

\* record_document_event and commit come next, then the response.
ThenAudit(q, d, accepted) ==
  /\ Goto(q, "audit")
  /\ draft' = [draft EXCEPT ![q].doc = d, ![q].accepted = accepted]
  /\ UNCHANGED job
-----------------------------------------------------------------------------
(***************************************************************************)
(* Requests arrive, and find and lock their document.                      *)
(***************************************************************************)
JobsOf(kind) ==
  CASE kind = "upload" ->
         [kind : {kind}, doc : Docs \cup {NoDoc}, num : {0}, key : Keys, file : Files]
    [] kind \in {"approve", "reject"} ->
         [kind : {kind}, doc : Docs, num : Numbers, key : {NoKey}, file : {NoFile}]
    [] kind = "delete" ->
         [kind : {kind}, doc : Docs, num : {0}, key : {NoKey}, file : {NoFile}]
    [] OTHER -> {NoJob}

\* Clients name documents and versions they have been told of.
Known(j) ==
  /\ j.doc # NoDoc => docState[j.doc] # "none"
  /\ j.num # 0 => row[j.doc][j.num].status # "none"

Present(d) == {n \in Numbers : row[d][n].status # "none"}

\* Bounds: an upload will find an unused version number and identifier, and a
\* document identifier when it needs one.
Uploading == {q \in Requests : pc[q] # "idle" /\ job[q].kind = "upload"}
UploadingTo(d) == {q \in Uploading : job[q].doc = d}
InBounds(j) ==
  j.kind = "upload" =>
    /\ minted + Cardinality(Uploading) < MaxUploads
    /\ IF j.doc = NoDoc
       THEN Cardinality(UploadingTo(NoDoc)) < Cardinality({d \in Docs : docState[d] = "none"})
       ELSE Cardinality(Present(j.doc)) + Cardinality(UploadingTo(j.doc)) < MaxVersions

Receive(q, j) ==
  /\ pc[q] = "idle"
  /\ Known(j)
  /\ InBounds(j)
  /\ Goto(q, CASE j.kind = "reindex" -> "claim"
               [] j.kind = "upload" /\ j.doc = NoDoc -> "lookup"
               [] OTHER -> "lock")
  /\ job' = [job EXCEPT ![q] = j]
  /\ draft' = [draft EXCEPT ![q].num = IF j.kind = "upload" /\ j.doc = NoDoc THEN 1 ELSE 0]
  /\ UNCHANGED <<rowVars, lockVars, storeVars, faults, answers>>

\* max(version_number) + 1 over the versions loaded with the document
NextNumberOfReviewable(d) ==
  Cardinality({n \in Present(d) : row[d][n].status \notin {"VALIDATION_FAILED", "PARSING_FAILED"}}) + 1
NextNumber(d) == (CHOOSE n \in Present(d) : \A m \in Present(d) : m <= n) + 1

\* get_document_for_management with for_update: the versions are loaded after
\* the lock is granted.
LockDocument(q) ==
  LET d == job[q].doc IN
  /\ pc[q] = "lock"
  /\ docState[d] = "live"
  /\ DocFree(d, q)
  /\ docLock' = [docLock EXCEPT ![d] = q]
  /\ Goto(q, CASE job[q].kind = "upload" -> "lookup"
               [] job[q].kind = "delete" -> "delete"
               [] OTHER -> "review")
  /\ draft' = [draft EXCEPT ![q].doc = d,
                            ![q].num = IF job[q].kind = "upload" THEN NextNumber(d)
                                       ELSE job[q].num]
  /\ UNCHANGED <<rowVars, chunkLock, storeVars, job, faults, answers>>

\* 404: the document is deleted, possibly while the request waited.
NotFound(q) ==
  /\ pc[q] = "lock"
  /\ docState[job[q].doc] # "live"
  /\ EndRequest(q)
  /\ UNCHANGED <<rowVars, lockVars, storeVars, faults, answers>>
-----------------------------------------------------------------------------
(***************************************************************************)
(* Uploads.                                                                *)
(***************************************************************************)
Versions == Docs \X Numbers
At(v) == row[v[1]][v[2]]

\* get_idempotent_version
WithKey(k) == {v \in Versions : At(v).key = k}

\* request_fingerprint covers the payload and the document it was sent to.
SamePrint(v, j) == At(v).file = j.file /\ At(v).target = j.doc

\* The key is known: 409 when it was used for another upload, 404 when that
\* document is gone, else the stored outcome again.
Replay(q, v) ==
  /\ pc[q] = "lookup"
  /\ v \in WithKey(job[q].key)
  /\ ThenAudit(q, v[1], /\ SamePrint(v, job[q])
                        /\ docState[v[1]] = "live"
                        /\ At(v).status \notin {"VALIDATION_FAILED", "PARSING_FAILED"})
  /\ UNCHANGED <<rowVars, lockVars, storeVars, faults, answers>>

\* The key is new; the file is validated.
KeyIsNew(q) ==
  /\ pc[q] = "lookup"
  /\ WithKey(job[q].key) = {}
  /\ Goto(q, CASE job[q].file \in BadFiles -> "badfile"
               [] job[q].doc = NoDoc -> "dedupe"
               [] OTHER -> "insert")
  /\ UNCHANGED <<rowVars, lockVars, storeVars, job, draft, faults, answers>>

\* find_initial_duplicate
Duplicates(f) ==
  {v \in Versions : /\ docState[v[1]] = "live"
                    /\ At(v).file = f
                    /\ At(v).status \in {"PREVIEW_READY", "APPROVED"}}

\* An initial upload of a file that is already there creates no row.
Deduplicate(q, v) ==
  /\ pc[q] = "dedupe"
  /\ v \in Duplicates(job[q].file)
  /\ ThenAudit(q, v[1], TRUE)
  /\ UNCHANGED <<rowVars, lockVars, storeVars, faults, answers>>

NoDuplicate(q) ==
  /\ pc[q] = "dedupe"
  /\ Duplicates(job[q].file) = {}
  /\ Goto(q, "insert")
  /\ UNCHANGED <<rowVars, lockVars, storeVars, job, draft, faults, answers>>

\* The flush of a row with the same key, not committed yet, makes this one wait.
KeyInFlight(k, q) ==
  \E p \in Requests \ {q} : pc[p] \in {"store", "parse"} /\ job[p].key = k

\* The document the version goes to: the locked one, or a new identifier.
Destinations(q) ==
  IF job[q].doc # NoDoc THEN {job[q].doc}
  ELSE {d \in Docs : docState[d] = "none" /\ \A p \in Requests : draft[p].doc # d}

\* uq_document_versions_actor_idempotency_key, uq_document_versions_number
Violates(q, d) == WithKey(job[q].key) # {} \/ row[d][draft[q].num].status # "none"

\* The flush of the new version: its row locks the key and the number.
InsertVersion(q, d) ==
  /\ pc[q] = "insert"
  /\ d \in Destinations(q)
  /\ ~KeyInFlight(job[q].key, q)
  /\ draft[q].num \in Numbers
  /\ ~Violates(q, d)
  /\ minted < MaxUploads
  /\ minted' = minted + 1
  /\ draft' = [draft EXCEPT ![q].doc = d, ![q].object = <<d, minted + 1>>]
  /\ Goto(q, "store")
  /\ UNCHANGED <<rowVars, lockVars, disk, job, faults, answers>>

\* IntegrityError, which nothing handles: 500 and rollback.
InsertConflict(q, d) ==
  /\ pc[q] \in {"insert", "badfile"}
  /\ d \in Destinations(q)
  /\ ~KeyInFlight(job[q].key, q)
  /\ draft[q].num \in Numbers
  /\ Violates(q, d)
  /\ Release(q)
  /\ EndRequest(q)
  /\ UNCHANGED <<rowVars, storeVars, faults, answers>>

VersionOf(q, status, object) ==
  [status |-> status, key |-> job[q].key, file |-> job[q].file,
   target |-> job[q].doc, object |-> object]

\* The transaction of an upload commits its version with this outcome.
CommitVersion(q, d, status, object) ==
  /\ row' = [row EXCEPT ![d][draft[q].num] = VersionOf(q, status, object)]
  /\ docState' = IF job[q].doc = NoDoc THEN [docState EXCEPT ![d] = "live"] ELSE docState
  /\ answers' = IF status = "PREVIEW_READY"
                THEN [answers EXCEPT ![job[q].key] = @ \cup {<<job[q].file, job[q].doc>>}]
                ELSE answers
  /\ Release(q)
  /\ EndRequest(q)
  /\ UNCHANGED <<current, chunk, faults>>

\* _persist_validation_failure
PersistValidationFailure(q, d) ==
  /\ pc[q] = "badfile"
  /\ d \in Destinations(q)
  /\ ~KeyInFlight(job[q].key, q)
  /\ draft[q].num \in Numbers
  /\ ~Violates(q, d)
  /\ minted < MaxUploads
  /\ minted' = minted + 1
  /\ CommitVersion(q, d, "VALIDATION_FAILED", NoObject)
  /\ UNCHANGED disk

\* storage.put_bytes: a link into place, before the commit.
PutBytes(q) ==
  /\ pc[q] = "store"
  /\ disk' = disk \cup {draft[q].object}
  /\ Goto(q, "parse")
  /\ UNCHANGED <<rowVars, lockVars, minted, job, draft, faults, answers>>

\* ObjectStorageError, or a checksum that differs; a file that was written and
\* could not be removed is left behind and no row names it.
PutFails(q, leftBehind) ==
  /\ pc[q] = "store"
  /\ disk' = IF leftBehind THEN disk \cup {draft[q].object} ELSE disk
  /\ CommitVersion(q, draft[q].doc, "VALIDATION_FAILED", NoObject)
  /\ UNCHANGED minted

ParseSucceeds(q) ==
  /\ pc[q] = "parse"
  /\ CommitVersion(q, draft[q].doc, "PREVIEW_READY", draft[q].object)
  /\ UNCHANGED storeVars

\* The worker fails or is terminated at its timeout.  The row forgets the file
\* only when the file could be removed.
FailedObjectKept(q, removed) == draft[q].object
FailedObject(q, removed) == IF removed THEN NoObject ELSE draft[q].object
ParseFails(q, removed) ==
  /\ pc[q] = "parse"
  /\ disk' = IF removed THEN disk \ {draft[q].object} ELSE disk
  /\ CommitVersion(q, draft[q].doc, "PARSING_FAILED", FailedObject(q, removed))
  /\ UNCHANGED minted
-----------------------------------------------------------------------------
(***************************************************************************)
(* Review: approve and reject.                                             *)
(***************************************************************************)
Verdict(q) == IF job[q].kind = "approve" THEN "APPROVED" ELSE "REJECTED"

\* validate_transition
ReviewableAgain(q, s) == s \in {"PREVIEW_READY", "REJECTED"}
Reviewable(q, s) == Verdict(q) \in AllowedTransitions[s]

Reviewed(q) == row[job[q].doc][job[q].num].status

\* 409 invalid_document_state
ReviewDeniedKeepsLock(q) ==
  /\ pc[q] = "review"
  /\ ~Reviewable(q, Reviewed(q))
  /\ EndRequest(q)
  /\ UNCHANGED <<rowVars, lockVars, storeVars, faults, answers>>
ReviewDenied(q) ==
  /\ pc[q] = "review"
  /\ ~Reviewable(q, Reviewed(q))
  /\ ThenAudit(q, job[q].doc, FALSE)
  /\ UNCHANGED <<rowVars, lockVars, storeVars, faults, answers>>

\* The transition and the pointer are set in memory; then chunks are generated
\* and embedded while the lock of the document is held.
BeginApproval(q) ==
  /\ pc[q] = "review"
  /\ job[q].kind = "approve"
  /\ Reviewable(q, Reviewed(q))
  /\ Goto(q, "embed")
  /\ UNCHANGED <<rowVars, lockVars, storeVars, job, draft, faults, answers>>

\* Chunking or embedding fails or times out: rollback, then an audit event.
IndexingFails(q) ==
  /\ pc[q] = "embed"
  /\ Release(q)
  /\ ThenAudit(q, job[q].doc, FALSE)
  /\ UNCHANGED <<rowVars, storeVars, faults, answers>>

\* Every chunk of a version loses its vector and becomes inactive.
Stale(c) == IF c.status = "none" THEN c
            ELSE [c EXCEPT !.active = FALSE, !.vector = "STALE"]

ReadyChunks(status) == [status |-> status, active |-> TRUE, deleted |-> FALSE, vector |-> "READY"]

\* replace_active_chunks
ChunksAdded(d, n) == [chunk[d] EXCEPT ![n] = ReadyChunks("APPROVED")]
ChunksOfOldStatus(d, n) ==
  [m \in Numbers |-> IF m = n THEN ReadyChunks(row[d][n].status) ELSE Stale(chunk[d][m])]
ReplaceActiveChunks(d, n) ==
  [m \in Numbers |-> IF m = n THEN ReadyChunks("APPROVED") ELSE Stale(chunk[d][m])]

Approve(q) ==
  LET d == job[q].doc
      n == job[q].num IN
  /\ pc[q] = "embed"
  /\ ChunksFree(d, q)
  /\ row' = [row EXCEPT ![d][n].status = "APPROVED"]
  /\ current' = [current EXCEPT ![d] = n]
  /\ chunk' = [chunk EXCEPT ![d] = ReplaceActiveChunks(d, n)]
  /\ Release(q)
  /\ EndRequest(q)
  /\ UNCHANGED <<docState, storeVars, faults, answers>>

\* deactivate_version_chunks, with the version's new status
WithStatus(c, s, gone) ==
  IF c.status = "none" THEN c ELSE [Stale(c) EXCEPT !.status = s, !.deleted = gone]

Reject(q) ==
  LET d == job[q].doc
      n == job[q].num IN
  /\ pc[q] = "review"
  /\ job[q].kind = "reject"
  /\ Reviewable(q, Reviewed(q))
  /\ row' = [row EXCEPT ![d][n].status = "REJECTED"]
  /\ chunk' = [chunk EXCEPT ![d][n] = WithStatus(@, "REJECTED", FALSE)]
  /\ Release(q)
  /\ EndRequest(q)
  /\ UNCHANGED <<docState, current, storeVars, faults, answers>>
-----------------------------------------------------------------------------
(***************************************************************************)
(* Deletion, audit, reindexing, faults.                                    *)
(***************************************************************************)
DeletedRow(v) == IF v.status = "none" THEN v ELSE [v EXCEPT !.status = "DELETED"]

ObjectsOf(d) == {row[d][n].object : n \in Numbers} \ {NoObject}

\* deactivate_document_chunks
DeactivateDocumentChunks(d) == [n \in Numbers |-> WithStatus(chunk[d][n], "DELETED", TRUE)]

\* The document and all its versions become unavailable in one commit.
DeleteRows(q) ==
  LET d == job[q].doc IN
  /\ pc[q] = "delete"
  /\ ChunksFree(d, q)
  /\ row' = [row EXCEPT ![d] = [n \in Numbers |-> DeletedRow(row[d][n])]]
  /\ docState' = [docState EXCEPT ![d] = "deleted"]
  /\ current' = [current EXCEPT ![d] = 0]
  /\ chunk' = [chunk EXCEPT ![d] = DeactivateDocumentChunks(d)]
  /\ draft' = [draft EXCEPT ![q].unlink = ObjectsOf(d)]
  /\ Release(q)
  /\ Goto(q, "unlink")
  /\ UNCHANGED <<job, storeVars, faults, answers>>

\* storage.delete after the commit; a failure is audited and otherwise ignored.
Unlink(q, o, removed) ==
  /\ pc[q] = "unlink"
  /\ o \in draft[q].unlink
  /\ disk' = IF removed THEN disk \ {o} ELSE disk
  /\ draft' = [draft EXCEPT ![q].unlink = @ \ {o}]
  /\ UNCHANGED <<rowVars, lockVars, minted, pc, job, faults, answers>>

DeleteDone(q) ==
  /\ pc[q] = "unlink"
  /\ draft[q].unlink = {}
  /\ EndRequest(q)
  /\ UNCHANGED <<rowVars, lockVars, storeVars, faults, answers>>

\* The insert of an audit event checks its foreign key to the document, which
\* waits for the transaction that holds the document.
Audit(q) ==
  /\ pc[q] = "audit"
  /\ DocFree(draft[q].doc, q)
  /\ answers' = IF draft[q].accepted
                THEN [answers EXCEPT ![job[q].key] = @ \cup {<<job[q].file, job[q].doc>>}]
                ELSE answers
  /\ Release(q)
  /\ EndRequest(q)
  /\ UNCHANGED <<rowVars, storeVars, faults>>

\* Active chunks of a current approved version that still have no vector.
Backlog(d) ==
  /\ docState[d] = "live"
  /\ \E n \in Numbers : /\ current[d] = n
                        /\ row[d][n].status = "APPROVED"
                        /\ chunk[d][n].status = "APPROVED"
                        /\ chunk[d][n].active
                        /\ ~chunk[d][n].deleted
                        /\ chunk[d][n].vector = "PENDING"

\* FOR UPDATE SKIP LOCKED, as many rows as the limit allows.
Claim(q, ds) ==
  /\ pc[q] = "claim"
  /\ \A d \in ds : Backlog(d) /\ chunkLock[d] = NoRequest
  /\ chunkLock' = [d \in Docs |-> IF d \in ds THEN q ELSE chunkLock[d]]
  /\ draft' = [draft EXCEPT ![q].claimed = ds]
  /\ Goto(q, "reembed")
  /\ UNCHANGED <<rowVars, docLock, storeVars, job, faults, answers>>

\* The rows are written as they were when they were locked.
Reindexed(d) ==
  [n \in Numbers |-> IF chunk[d][n].vector = "PENDING"
                     THEN [chunk[d][n] EXCEPT !.vector = "READY"] ELSE chunk[d][n]]

ReindexDone(q) ==
  /\ pc[q] = "reembed"
  /\ chunk' = [d \in Docs |-> IF d \in draft[q].claimed THEN Reindexed(d) ELSE chunk[d]]
  /\ Release(q)
  /\ EndRequest(q)
  /\ UNCHANGED <<docState, current, row, storeVars, faults, answers>>

\* 503: the provider failed, rollback.
ReindexFails(q) ==
  /\ pc[q] = "reembed"
  /\ Release(q)
  /\ EndRequest(q)
  /\ UNCHANGED <<rowVars, storeVars, faults, answers>>

\* Rollback: the transaction of q is gone and so are its locks.
Rollback(q) ==
  /\ Release(q)
  /\ EndRequest(q)
  /\ UNCHANGED <<rowVars, storeVars, answers>>

\* The worker dies or the database connection fails.
Lose(q) ==
  /\ pc[q] # "idle"
  /\ faults < MaxFaults
  /\ faults' = faults + 1
  /\ Rollback(q)

WaitsFor(q, p) == pc[q] = "audit" /\ p # q /\ docLock[draft[q].doc] = p

\* PostgreSQL aborts one of several transactions that wait for each other.
DeadlockVictim(q) ==
  /\ \E S \in SUBSET Requests :
       /\ q \in S
       /\ \A p \in S : (\E o \in S : WaitsFor(p, o)) /\ (\E o \in S : WaitsFor(o, p))
  /\ Rollback(q)
  /\ UNCHANGED faults
-----------------------------------------------------------------------------
LegacyRow == [NoVersion EXCEPT !.status = "APPROVED"]
LegacyChunks == [status |-> "APPROVED", active |-> TRUE, deleted |-> FALSE, vector |-> "PENDING"]

\* After the migration that adds embeddings: the legacy documents have one
\* approved version whose chunks have no vector yet.
Init ==
  /\ docState = [d \in Docs |-> IF d \in Legacy THEN "live" ELSE "none"]
  /\ current = [d \in Docs |-> IF d \in Legacy THEN 1 ELSE 0]
  /\ row = [d \in Docs |-> [n \in Numbers |->
              IF d \in Legacy /\ n = 1 THEN [LegacyRow EXCEPT !.object = <<d, 0>>]
              ELSE NoVersion]]
  /\ chunk = [d \in Docs |-> [n \in Numbers |->
                IF d \in Legacy /\ n = 1 THEN LegacyChunks ELSE NoChunks]]
  /\ docLock = [d \in Docs |-> NoRequest]
  /\ chunkLock = [d \in Docs |-> NoRequest]
  /\ disk = {<<d, 0>> : d \in Legacy}
  /\ minted = 0
  /\ pc = [q \in Requests |-> "idle"]
  /\ job = [q \in Requests |-> NoJob]
  /\ draft = [q \in Requests |-> NoDraft]
  /\ faults = 0
  /\ answers = [k \in Keys |-> {}]

UploadSteps(q) ==
  \/ \E v \in Versions : Replay(q, v) \/ Deduplicate(q, v)
  \/ KeyIsNew(q) \/ NoDuplicate(q)
  \/ \E d \in Docs : PersistValidationFailure(q, d) \/ InsertVersion(q, d) \/ InsertConflict(q, d)
  \/ PutBytes(q) \/ ParseSucceeds(q)
  \/ \E done \in BOOLEAN : PutFails(q, done) \/ ParseFails(q, done)

ReviewSteps(q) ==
  \/ ReviewDenied(q) \/ BeginApproval(q) \/ IndexingFails(q) \/ Approve(q) \/ Reject(q)

OtherSteps(q) ==
  \/ NotFound(q)
  \/ DeleteRows(q) \/ DeleteDone(q)
  \/ \E o \in Objects, removed \in BOOLEAN : Unlink(q, o, removed)
  \/ \E ds \in SUBSET Docs : Claim(q, ds)
  \/ ReindexDone(q) \/ ReindexFails(q)
  \/ DeadlockVictim(q)

Next ==
  \E q \in Requests :
    \/ \E kind \in Offered : \E j \in JobsOf(kind) : Receive(q, j)
    \/ LockDocument(q) \/ Audit(q)
    \/ UploadSteps(q) \/ ReviewSteps(q) \/ OtherSteps(q)
    \/ Lose(q)

Spec == Init /\ [][Next]_vars
-----------------------------------------------------------------------------
(***************************************************************************)
(* Safety.                                                                 *)
(***************************************************************************)
\* Chunks are active exactly for the version the document points to, that
\* version is approved and the document not deleted: no interleaving of
\* approvals, rejections, deletions and reindexing leaves an old version in the
\* index, a current one out of it, or a copied flag that disagrees.
IndexMatchesPointer ==
  \A d \in Docs :
    /\ current[d] # 0 => docState[d] = "live" /\ row[d][current[d]].status = "APPROVED"
    /\ \A n \in Numbers :
         /\ chunk[d][n].active <=> current[d] = n
         /\ chunk[d][n].active => chunk[d][n].status = "APPROVED" /\ ~chunk[d][n].deleted
         /\ chunk[d][n].vector \in {"READY", "PENDING"} <=> chunk[d][n].active

\* The file of every version that is not deleted is in the store, whatever
\* crash, parser or storage failure happened: files are written before the
\* commit that names them and removed after the commit that forgets them.
FilesPresent ==
  \A v \in Versions :
    At(v).object # NoObject /\ At(v).status # "DELETED" => At(v).object \in disk

\* The version number an upload was given when it locked the document is still
\* free when it inserts its row, and version numbers have no gaps.
NumbersReserved ==
  /\ \A q \in Requests :
       pc[q] \in {"lookup", "badfile", "insert", "store", "parse"} /\ job[q].doc # NoDoc
         => Present(job[q].doc) = 1..(draft[q].num - 1)
  /\ \A d \in Docs : \A n \in Present(d) : 1..n \subseteq Present(d)

\* Statuses a committed version may move to.  UPLOADED, VALIDATING and PARSING
\* are passed through inside the transaction of the upload.
Committable(s) ==
  CASE s = "none" -> (AllowedTransitions["VALIDATING"] \cup AllowedTransitions["PARSING"])
                       \ {"PARSING", "DELETED"}
    [] OTHER -> AllowedTransitions[s]

\* A version only moves along the state machine, and its key, payload and
\* document never change; chunks that became inactive stay inactive, and a
\* deleted document stays deleted.
LifecycleForward ==
  [][/\ \A v \in Versions :
          LET new == row'[v[1]][v[2]] IN
          /\ new.status # At(v).status => new.status \in Committable(At(v).status)
          /\ At(v).status # "none" => new = [At(v) EXCEPT !.status = new.status]
     /\ \A d \in Docs, n \in Numbers :
          chunk[d][n].status # "none" /\ ~chunk[d][n].active => ~chunk'[d][n].active
     /\ \A d \in Docs : docState[d] = "deleted" => docState'[d] = "deleted"]_vars

\* _lifecycle_clause
SearchableByStatus(d, n) ==
  /\ chunk[d][n].status = "APPROVED"
  /\ ~chunk[d][n].deleted
  /\ docState[d] = "live"
  /\ row[d][n].status = "APPROVED"
Searchable(d, n) ==
  /\ chunk[d][n].active
  /\ chunk[d][n].status = "APPROVED"
  /\ ~chunk[d][n].deleted
  /\ docState[d] = "live"
  /\ row[d][n].status = "APPROVED"
  /\ current[d] = n

\* What search may return of each document.
Index == INSTANCE PublishedIndex WITH
  offered <- [d \in Docs |-> {n \in Numbers : Searchable(d, n)}],
  spent <- [d \in Docs |-> {n \in Numbers : chunk[d][n].status # "none"}],
  withdrawn <- [d \in Docs |-> docState[d] = "deleted"]

\* Locks, transactions, files and embeddings implement the promise to search.
IndexRefined == Index!Spec
-----------------------------------------------------------------------------
(***************************************************************************)
(* Liveness.  A request keeps being served: parsing and embedding run under *)
(* a timeout.  PostgreSQL grants a lock to its waiters in turn.            *)
(***************************************************************************)
WaitingSteps(q) ==
  \/ LockDocument(q) \/ NotFound(q) \/ Audit(q) \/ Approve(q) \/ IndexingFails(q)
  \/ DeleteRows(q)
  \/ \E d \in Docs : PersistValidationFailure(q, d) \/ InsertVersion(q, d) \/ InsertConflict(q, d)

Fairness ==
  \A q \in Requests :
    /\ SF_vars(WaitingSteps(q))
    /\ WF_vars(UploadSteps(q) \/ ReviewSteps(q) \/ OtherSteps(q))

FairSpec == Spec /\ Fairness

\* Every request is answered: no upload, review or deletion waits for ever for
\* a document, a chunk row, an idempotency key or an audit event.
RequestsFinish == \A q \in Requests : pc[q] # "idle" ~> pc[q] = "idle"
-----------------------------------------------------------------------------
(***************************************************************************)
(* Two statements of the documentation that the code does not keep.        *)
(***************************************************************************)
\* docs/architecture.md: "Initial uploads deduplicate on checksum plus
\* canonical scope metadata."
InitialUploadsDeduplicated ==
  \A d, e \in Docs :
    /\ docState[d] = "live" /\ row[d][1].status \in {"PREVIEW_READY", "APPROVED"}
    /\ docState[e] = "live" /\ row[e][1].status \in {"PREVIEW_READY", "APPROVED"}
    /\ row[d][1].file = row[e][1].file /\ row[d][1].file # NoFile
    => d = e

\* docs/security-invariants.md: "Actor-scoped idempotency keys and request
\* fingerprints prevent accidental duplicate writes. Conflicting reuse fails."
ConflictingReuseFails == \A k \in Keys : Cardinality(answers[k]) <= 1
=============================================================================
