---------------------- MODULE DocumentLifecycleProofs ----------------------
(***************************************************************************)
(* Machine-checked proofs about DocumentLifecycle, for any documents,      *)
(* files and keys, any number of requests at the same time, and any        *)
(* crashes, storage failures and deadlocks.                                *)
(***************************************************************************)
EXTENDS DocumentLifecycle, TLAPS

-----------------------------------------------------------------------------
(***************************************************************************)
(* The inductive invariant.                                                *)
(***************************************************************************)

\* The rows of a document: numbered without gaps, named before they are
\* filled, all deleted with it.
VersionFacts(d) ==
  /\ \E k \in 0..MaxVersions : Present(d) = 1..k /\ (k = 0 <=> docState[d] = "none")
  /\ \A n \in Numbers :
       /\ row[d][n].status = "none" => row[d][n] = NoVersion
       /\ docState[d] = "deleted" => row[d][n].status \in {"none", "DELETED"}

\* Their files: under the document's own prefix, and there until deletion.
FileFacts(d) ==
  \A n \in Numbers : row[d][n].object # NoObject =>
    /\ row[d][n].object[1] = d
    /\ row[d][n].object[2] <= minted
    /\ row[d][n].status # "DELETED" => row[d][n].object \in disk

\* Their chunks: made by the approval, active for the version in force.
ChunkFacts(d) ==
  /\ current[d] # 0 => docState[d] = "live" /\ row[d][current[d]].status = "APPROVED"
  /\ \A n \in Numbers :
       /\ chunk[d][n].active <=> current[d] = n
       /\ chunk[d][n].active => chunk[d][n].status = "APPROVED" /\ ~chunk[d][n].deleted
       /\ chunk[d][n].vector \in {"READY", "PENDING"} <=> chunk[d][n].active
       /\ chunk[d][n].status # "none" => row[d][n].status \in {"APPROVED", "DELETED"}

DocFacts(d) == VersionFacts(d) /\ FileFacts(d) /\ ChunkFacts(d)

UploadPcs == {"lookup", "badfile", "dedupe", "insert", "store", "parse"}
Storing(q) == pc[q] \in {"store", "parse"}

\* What a request has been told of, and what it has locked.
LockFacts(q) ==
  /\ pc[q] = "idle" => job[q] = NoJob /\ draft[q] = NoDraft
  /\ job[q].doc # NoDoc => docState[job[q].doc] # "none"
  /\ job[q].num # 0 => job[q].doc # NoDoc /\ row[job[q].doc][job[q].num].status # "none"
  /\ pc[q] \in {"lock", "review", "embed", "delete"} => job[q].doc # NoDoc
  /\ pc[q] = "lock" => job[q].kind # "reindex"
  /\ pc[q] \in {"lock", "review", "embed"} /\ job[q].kind \in {"approve", "reject"} =>
       job[q].num \in Numbers
  /\ pc[q] \in {"review", "embed"} => job[q].kind \in {"approve", "reject"}
  /\ pc[q] \in UploadPcs \cup {"review", "embed", "delete"} /\ job[q].doc # NoDoc =>
       docLock[job[q].doc] = q /\ docState[job[q].doc] = "live"
  /\ pc[q] = "embed" => job[q].kind = "approve" /\ Reviewed(q) = "PREVIEW_READY"

\* An upload has a number for its version, and from the flush on a place for
\* its file that no row names.
UploadFacts(q) ==
  /\ job[q].kind = "upload" => job[q].key \in Keys /\ job[q].file \in Files
  /\ pc[q] \in UploadPcs =>
       /\ job[q].kind = "upload"
       /\ draft[q].num > 0
       /\ IF job[q].doc = NoDoc THEN draft[q].num = 1
          ELSE Present(job[q].doc) = 1..(draft[q].num - 1)
  /\ Storing(q) =>
       /\ draft[q].num \in Numbers
       /\ draft[q].doc \in Docs
       /\ IF job[q].doc = NoDoc THEN docState[draft[q].doc] = "none"
          ELSE draft[q].doc = job[q].doc
       /\ \E i \in 1..minted : draft[q].object = <<draft[q].doc, i>>
       /\ \A n \in Numbers : row[draft[q].doc][n].object # draft[q].object
  /\ pc[q] = "parse" => draft[q].object \in disk
  /\ draft[q].accepted => job[q].file \in Files

\* A deletion removes files of documents that are deleted.
UnlinkFacts(q) == \A o \in draft[q].unlink : docState[o[1]] = "deleted"

RequestFacts(q) == LockFacts(q) /\ UploadFacts(q) /\ UnlinkFacts(q)

\* Nobody else touches the identifier an upload has generated.
FreshFacts ==
  \A q, p \in Requests : p # q /\ Storing(q) /\ job[q].doc = NoDoc =>
    draft[p].doc # draft[q].doc

Facts ==
  (\A d \in Docs : DocFacts(d)) /\ (\A q \in Requests : RequestFacts(q)) /\ FreshFacts
Inv == TypeOK /\ Facts

-----------------------------------------------------------------------------
(***************************************************************************)
(* Types and frames.                                                       *)
(***************************************************************************)

\* The constants, one fact each.
LEMMA ConstantTypes ==
  /\ MaxVersions \in Nat /\ MaxVersions > 0 /\ MaxUploads \in Nat /\ MaxFaults \in Nat
  /\ NoDoc \notin Docs /\ NoKey \notin Keys /\ NoFile \notin Files /\ NoRequest \notin Requests
  /\ Numbers = 1..MaxVersions /\ Numbers \subseteq Nat /\ 0 \notin Numbers
  /\ Legacy \subseteq Docs /\ BadFiles \subseteq Files
BY LifecycleAssumption DEF Numbers

\* A version and its chunks.
LEMMA VersionTypes ==
  ASSUME TypeOK, NEW d \in Docs, NEW n \in Numbers
  PROVE  /\ row[d] \in [Numbers -> VersionRow] /\ chunk[d] \in [Numbers -> ChunkRow]
         /\ row[d][n] \in VersionRow /\ chunk[d][n] \in ChunkRow
         /\ row[d][n].status \in Statuses \cup {"none"}
         /\ row[d][n].key \in Keys \cup {NoKey}
         /\ row[d][n].object \in Objects \cup {NoObject}
<1>1. /\ row[d] \in [Numbers -> VersionRow] /\ chunk[d] \in [Numbers -> ChunkRow]
      /\ row[d][n] \in VersionRow /\ chunk[d][n] \in ChunkRow
  BY DEF TypeOK
<1> QED
  BY <1>1 DEF VersionRow

\* A request.
LEMMA RequestTypes ==
  ASSUME TypeOK, NEW q \in Requests
  PROVE  /\ pc[q] \in ProgramCounters /\ job[q] \in Job /\ draft[q] \in Draft
         /\ job[q].kind \in Kinds /\ job[q].doc \in Docs \cup {NoDoc}
         /\ job[q].num \in 0..MaxVersions /\ job[q].key \in Keys \cup {NoKey}
         /\ job[q].file \in Files \cup {NoFile}
         /\ draft[q].doc \in Docs \cup {NoDoc} /\ draft[q].num \in 0..(MaxVersions + 1)
         /\ draft[q].object \in Objects \cup {NoObject} /\ draft[q].accepted \in BOOLEAN
         /\ draft[q].unlink \subseteq Objects /\ draft[q].claimed \subseteq Docs
<1>1. pc[q] \in ProgramCounters /\ job[q] \in Job /\ draft[q] \in Draft
  BY DEF TypeOK
<1> QED
  BY <1>1 DEF Job, Draft

\* The place of a file names its document.
LEMMA ObjectTypes ==
  /\ \A o \in Objects : o[1] \in Docs /\ o[2] \in 0..MaxUploads /\ o # NoObject
  /\ NoObject \notin Objects
BY ConstantTypes DEF Objects, NoObject

\* A commit or a rollback gives up the locks of one request.
LEMMA ReleaseEffect ==
  ASSUME TypeOK, NEW q \in Requests, Release(q)
  PROVE  /\ docLock' \in [Docs -> Requests \cup {NoRequest}]
         /\ chunkLock' \in [Docs -> Requests \cup {NoRequest}]
         /\ \A p \in Requests \ {q} : \A d \in Docs : docLock[d] = p => docLock'[d] = p
<1>1. /\ docLock \in [Docs -> Requests \cup {NoRequest}]
      /\ chunkLock \in [Docs -> Requests \cup {NoRequest}]
  BY DEF TypeOK
<1> QED
  BY <1>1 DEF Release

\* The request is answered.
LEMMA EndEffect ==
  ASSUME TypeOK, NEW q \in Requests, EndRequest(q)
  PROVE  /\ pc' \in [Requests -> ProgramCounters] /\ job' \in [Requests -> Job]
         /\ draft' \in [Requests -> Draft]
         /\ \A p \in Requests \ {q} : pc'[p] = pc[p] /\ job'[p] = job[p] /\ draft'[p] = draft[p]
         /\ pc'[q] = "idle" /\ job'[q] = NoJob /\ draft'[q] = NoDraft
<1>1. NoJob \in Job /\ NoDraft \in Draft /\ "idle" \in ProgramCounters
  BY ConstantTypes DEF NoJob, Job, Kinds, NoDraft, Draft, ProgramCounters
<1>2. /\ pc \in [Requests -> ProgramCounters] /\ job \in [Requests -> Job]
      /\ draft \in [Requests -> Draft]
  BY DEF TypeOK
<1> QED
  BY <1>1, <1>2 DEF EndRequest

\* A request that is not there has no facts to keep.
LEMMA IdleFacts ==
  ASSUME NEW q \in Requests, pc'[q] = "idle", job'[q] = NoJob, draft'[q] = NoDraft
  PROVE  RequestFacts(q)' /\ ~Storing(q)'
BY DEF RequestFacts, LockFacts, UploadFacts, UnlinkFacts, Storing, UploadPcs, NoJob, NoDraft

\* A document nobody writes to.
LEMMA DocKept ==
  ASSUME TypeOK, NEW d \in Docs, DocFacts(d), docState'[d] = docState[d],
         current'[d] = current[d], row'[d] = row[d], chunk'[d] = chunk[d],
         minted' \in Nat, minted' >= minted,
         \A n \in Numbers : row[d][n].object \in disk /\ row[d][n].status # "DELETED" =>
           row[d][n].object \in disk'
  PROVE  DocFacts(d)'
<1>1. VersionFacts(d)'
  BY DEF DocFacts, VersionFacts, Present
<1>2. FileFacts(d)'
  <2>1. \A n \in Numbers : row[d][n].object # NoObject => row[d][n].object[2] \in Nat
    BY VersionTypes, ObjectTypes, ConstantTypes
  <2>2. minted \in Nat
    BY ConstantTypes DEF TypeOK
  <2> QED
    BY <2>1, <2>2 DEF DocFacts, FileFacts
<1>3. ChunkFacts(d)'
  BY DEF DocFacts, ChunkFacts
<1> QED
  BY <1>1, <1>2, <1>3 DEF DocFacts

\* The documents a request has for itself.
Holds(q, d) ==
  \/ job[q].doc = d /\ docLock[d] = q
  \/ Storing(q) /\ draft[q].doc = d

\* Documents come, are deleted and stay so; versions stay.
DocsEvolve ==
  \A d \in Docs :
    /\ docState[d] # "none" => docState'[d] # "none"
    /\ docState[d] = "deleted" => docState'[d] = "deleted"
    /\ \A n \in Numbers : row[d][n].status # "none" => row'[d][n].status # "none"

\* A request that does not move, while others work on other documents.
LEMMA RequestKept ==
  ASSUME TypeOK, NEW p \in Requests, RequestFacts(p),
         pc'[p] = pc[p], job'[p] = job[p], draft'[p] = draft[p],
         minted' \in Nat, minted' >= minted, DocsEvolve,
         \A d \in Docs : docLock[d] = p => docLock'[d] = p,
         \A d \in Docs : Holds(p, d) => row'[d] = row[d] /\ docState'[d] = docState[d],
         pc[p] = "parse" => draft[p].object \in disk'
  PROVE  RequestFacts(p)'
<1>1. /\ job[p].doc \in Docs \cup {NoDoc} /\ job[p].num \in 0..MaxVersions
      /\ draft[p].unlink \subseteq Objects
  BY RequestTypes
<1>2. job[p].num # 0 => job[p].num \in Numbers
  BY <1>1, ConstantTypes
<1>3. LockFacts(p)'
  BY <1>1, <1>2 DEF RequestFacts, LockFacts, DocsEvolve, Holds, Reviewed
<1>4. UploadFacts(p)'
  <2>1. pc[p] \in UploadPcs /\ job[p].doc # NoDoc =>
          Present(job[p].doc)' = Present(job[p].doc)
    BY <1>1 DEF RequestFacts, LockFacts, Holds, Present
  <2>2. Storing(p) => /\ row'[draft[p].doc] = row[draft[p].doc]
                      /\ docState'[draft[p].doc] = docState[draft[p].doc]
    BY DEF RequestFacts, UploadFacts, Holds
  <2>3. Storing(p)' = Storing(p)
    BY DEF Storing
  <2>4. \A i \in 1..minted : i \in 1..minted'
    BY ConstantTypes DEF TypeOK
  <2>5. (Storing(p) =>
          /\ draft[p].num \in Numbers
          /\ draft[p].doc \in Docs
          /\ IF job[p].doc = NoDoc THEN docState[draft[p].doc] = "none"
             ELSE draft[p].doc = job[p].doc
          /\ \E i \in 1..minted : draft[p].object = <<draft[p].doc, i>>
          /\ \A n \in Numbers : row[draft[p].doc][n].object # draft[p].object)'
    BY <2>2, <2>3, <2>4 DEF RequestFacts, UploadFacts
  <2>6. (pc[p] \in UploadPcs =>
          /\ job[p].kind = "upload"
          /\ draft[p].num > 0
          /\ IF job[p].doc = NoDoc THEN draft[p].num = 1
             ELSE Present(job[p].doc) = 1..(draft[p].num - 1))'
    BY <2>1 DEF RequestFacts, UploadFacts
  <2> QED
    BY <2>5, <2>6 DEF RequestFacts, UploadFacts
<1>5. UnlinkFacts(p)'
  BY <1>1, ObjectTypes DEF RequestFacts, UnlinkFacts, DocsEvolve
<1> QED
  BY <1>3, <1>4, <1>5 DEF RequestFacts

-----------------------------------------------------------------------------
(***************************************************************************)
(* Steps that commit nothing.                                              *)
(***************************************************************************)

\* What remains to be shown of a step of request q that writes no row.
LEMMA QuietStep ==
  ASSUME Inv, NEW q \in Requests, UNCHANGED rowVars, TypeOK', minted' >= minted,
         \A p \in Requests \ {q} :
           /\ pc'[p] = pc[p] /\ job'[p] = job[p] /\ draft'[p] = draft[p]
           /\ \A d \in Docs : docLock[d] = p => docLock'[d] = p,
         \A o \in disk : o \in disk' \/ docState[o[1]] = "deleted",
         RequestFacts(q)',
         Storing(q)' /\ job'[q].doc = NoDoc =>
           \A p \in Requests \ {q} : draft[p].doc # draft'[q].doc,
         \A p \in Requests \ {q} : Storing(p) /\ job[p].doc = NoDoc =>
           draft'[q].doc # draft[p].doc
  PROVE  Inv'
<1>1. /\ TypeOK /\ FreshFacts /\ \A d \in Docs : DocFacts(d)
      /\ \A p \in Requests : RequestFacts(p)
  BY DEF Inv, Facts
<1>2. UNCHANGED <<docState, current, row, chunk>> /\ minted' \in Nat
  BY ConstantTypes DEF rowVars, TypeOK
<1>3. ASSUME NEW d \in Docs
      PROVE  DocFacts(d)'
  <2>1. ASSUME NEW n \in Numbers, row[d][n].object \in disk, row[d][n].status # "DELETED"
        PROVE  row[d][n].object \in disk'
    <3>1. row[d][n].object # NoObject
      BY <1>1, <2>1, ObjectTypes DEF TypeOK
    <3>2. row[d][n].object[1] = d /\ row[d][n].status # "none"
      <4>1. NoVersion.object = NoObject
        BY DEF NoVersion
      <4> QED
        BY <1>1, <3>1, <4>1 DEF DocFacts, FileFacts, VersionFacts
    <3>3. docState[d] # "deleted"
      BY <1>1, <2>1, <3>2 DEF DocFacts, VersionFacts
    <3> QED
      BY <2>1, <3>2, <3>3
  <2> QED
    BY <1>1, <1>2, <2>1, DocKept
<1>4. DocsEvolve
  BY <1>2 DEF DocsEvolve
<1>5. ASSUME NEW p \in Requests \ {q}
      PROVE  RequestFacts(p)' /\ Storing(p)' = Storing(p)
  <2>1. pc[p] = "parse" => draft[p].object \in disk'
    <3> SUFFICES ASSUME pc[p] = "parse" PROVE draft[p].object \in disk'
      OBVIOUS
    <3>1. draft[p].object \in disk /\ draft[p].object[1] = draft[p].doc
      BY <1>1 DEF RequestFacts, UploadFacts, Storing
    <3>2. docState[draft[p].doc] # "deleted"
      BY <1>1 DEF RequestFacts, UploadFacts, LockFacts, Storing, UploadPcs
    <3> QED
      BY <3>1, <3>2
  <2>2. RequestFacts(p)'
    BY <1>1, <1>2, <1>4, <2>1, RequestKept
  <2> QED
    BY <2>2 DEF Storing
<1>6. FreshFacts'
  <2>1. \A p, r \in Requests \ {q} : r # p /\ Storing(p)' /\ job'[p].doc = NoDoc =>
          draft'[r].doc # draft'[p].doc
    BY <1>1, <1>5 DEF FreshFacts
  <2>2. \A r \in Requests \ {q} : Storing(q)' /\ job'[q].doc = NoDoc =>
          draft'[r].doc # draft'[q].doc
    OBVIOUS
  <2>3. \A p \in Requests \ {q} : Storing(p)' /\ job'[p].doc = NoDoc =>
          draft'[q].doc # draft'[p].doc
    BY <1>5
  <2> QED
    BY <2>1, <2>2, <2>3 DEF FreshFacts
<1> QED
  BY <1>3, <1>5, <1>6 DEF Inv, Facts

\* A request that ends without having written a row.
LEMMA QuietEnd ==
  ASSUME Inv, NEW q \in Requests, UNCHANGED <<rowVars, storeVars>>, EndRequest(q),
         Release(q) \/ UNCHANGED lockVars, faults' \in 0..MaxFaults,
         answers' \in [Keys -> SUBSET (Files \X (Docs \cup {NoDoc}))]
  PROVE  Inv'
<1>1. TypeOK
  BY DEF Inv
<1>2. /\ pc' \in [Requests -> ProgramCounters] /\ job' \in [Requests -> Job]
      /\ draft' \in [Requests -> Draft]
      /\ \A p \in Requests \ {q} : pc'[p] = pc[p] /\ job'[p] = job[p] /\ draft'[p] = draft[p]
      /\ pc'[q] = "idle" /\ job'[q] = NoJob /\ draft'[q] = NoDraft
  BY <1>1, EndEffect
<1>3. /\ docLock' \in [Docs -> Requests \cup {NoRequest}]
      /\ chunkLock' \in [Docs -> Requests \cup {NoRequest}]
      /\ \A p \in Requests \ {q} : \A d \in Docs : docLock[d] = p => docLock'[d] = p
  <2>1. CASE Release(q)
    BY <1>1, <2>1, ReleaseEffect
  <2>2. CASE UNCHANGED lockVars
    BY <1>1, <2>2 DEF lockVars, TypeOK
  <2> QED
    BY <2>1, <2>2
<1>4. TypeOK' /\ minted' >= minted /\ disk' = disk
  BY <1>1, <1>2, <1>3, ConstantTypes DEF TypeOK, rowVars, storeVars
<1>5. RequestFacts(q)' /\ ~Storing(q)'
  BY <1>2, IdleFacts
<1>6. \A p \in Requests \ {q} : Storing(p) /\ job[p].doc = NoDoc => draft'[q].doc # draft[p].doc
  <2>1. \A p \in Requests : Storing(p) => draft[p].doc \in Docs
    BY DEF Inv, Facts, RequestFacts, UploadFacts
  <2> QED
    BY <1>2, <2>1, ConstantTypes DEF NoDraft
<1> QED
  BY <1>2, <1>3, <1>4, <1>5, <1>6, QuietStep

\* One more accepted upload for a key.
LEMMA AnswersGrow ==
  ASSUME NEW S, NEW f \in [Keys -> SUBSET S], NEW x \in S, NEW k
  PROVE  [f EXCEPT ![k] = @ \cup {x}] \in [Keys -> SUBSET S]
OBVIOUS

\* Answers without a change: not found, a conflict, a failed reindex, the
\* audit event after a refusal or a repetition, the end of a deletion.
LEMMA InvEnds ==
  ASSUME Inv, NEW q \in Requests,
         \/ NotFound(q) \/ DeleteDone(q) \/ ReindexFails(q) \/ Audit(q)
         \/ Lose(q) \/ DeadlockVictim(q) \/ \E d \in Docs : InsertConflict(q, d)
  PROVE  Inv'
<1>1. /\ UNCHANGED <<rowVars, storeVars>> /\ EndRequest(q)
      /\ Release(q) \/ UNCHANGED lockVars
  BY DEF NotFound, DeleteDone, ReindexFails, Audit, Lose, DeadlockVictim, InsertConflict, Rollback
<1>2. faults' \in 0..MaxFaults
  BY ConstantTypes DEF Inv, TypeOK, NotFound, DeleteDone, ReindexFails, Audit, Lose,
     DeadlockVictim, InsertConflict, Rollback
<1>3. answers' \in [Keys -> SUBSET (Files \X (Docs \cup {NoDoc}))]
  <2>1. answers \in [Keys -> SUBSET (Files \X (Docs \cup {NoDoc}))]
    BY DEF Inv, TypeOK
  <2>2. CASE UNCHANGED answers
    BY <2>1, <2>2
  <2>3. CASE Audit(q) /\ draft[q].accepted
    <3>1. job[q].file \in Files /\ job[q].doc \in Docs \cup {NoDoc}
      BY <2>3, RequestTypes DEF Inv, Facts, RequestFacts, UploadFacts
    <3>2. PICK x \in Files \X (Docs \cup {NoDoc}), k \in {job[q].key} :
            answers' = [answers EXCEPT ![k] = @ \cup {x}]
      BY <2>3, <3>1 DEF Audit
    <3> QED
      BY <2>1, <3>2, AnswersGrow
  <2> QED
    BY <2>2, <2>3 DEF NotFound, DeleteDone, ReindexFails, Audit, Lose, DeadlockVictim,
       InsertConflict, Rollback
<1> QED
  BY <1>1, <1>2, <1>3, QuietEnd

\* A request that only moves on, and may have written its file.
LEMMA MoveStep ==
  ASSUME Inv, NEW q \in Requests, NEW label \in ProgramCounters \ {"idle", "lock"}, Goto(q, label),
         pc[q] # "idle", disk \subseteq disk', disk' \subseteq Objects,
         UNCHANGED <<rowVars, lockVars, minted, job, draft, faults, answers>>,
         label \in UploadPcs => pc[q] \in UploadPcs,
         label \in {"store", "parse"} => Storing(q),
         label = "parse" => draft[q].object \in disk',
         label \in {"review", "embed"} => pc[q] = "review",
         label = "embed" => job[q].kind = "approve" /\ Reviewed(q) = "PREVIEW_READY",
         label # "delete"
  PROVE  Inv'
<1>1. TypeOK /\ RequestFacts(q) /\ FreshFacts
  BY DEF Inv, Facts
<1>2. /\ pc' \in [Requests -> ProgramCounters] /\ pc'[q] = label
      /\ \A p \in Requests \ {q} : pc'[p] = pc[p]
  BY <1>1 DEF Goto, TypeOK
<1>3. TypeOK' /\ minted' >= minted
  BY <1>1, <1>2, ConstantTypes DEF TypeOK, rowVars, lockVars
<1>4. Storing(q)' => Storing(q)
  BY <1>2 DEF Storing
<1>5. LockFacts(q)'
  BY <1>1, <1>2 DEF RequestFacts, LockFacts, rowVars, lockVars, Reviewed, UploadPcs
<1>6. UploadFacts(q)'
  <2>1. pc'[q] \in UploadPcs => pc[q] \in UploadPcs
    BY <1>2
  <2>2. job[q].doc # NoDoc => Present(job[q].doc)' = Present(job[q].doc)
    BY DEF Present, rowVars
  <2> QED
    BY <1>1, <1>2, <1>4, <2>1, <2>2 DEF RequestFacts, UploadFacts, rowVars
<1>7. UnlinkFacts(q)'
  BY <1>1 DEF RequestFacts, UnlinkFacts, rowVars
<1>8. \A p \in Requests \ {q} :
        /\ Storing(q)' /\ job'[q].doc = NoDoc => draft[p].doc # draft'[q].doc
        /\ Storing(p) /\ job[p].doc = NoDoc => draft'[q].doc # draft[p].doc
  BY <1>1, <1>4 DEF FreshFacts
<1>9. \A p \in Requests \ {q} :
           /\ pc'[p] = pc[p] /\ job'[p] = job[p] /\ draft'[p] = draft[p]
           /\ \A d \in Docs : docLock[d] = p => docLock'[d] = p
  BY <1>2 DEF lockVars
<1> QED
  BY <1>3, <1>5, <1>6, <1>7, <1>8, <1>9, QuietStep DEF RequestFacts

\* The key is new, the file is new, the version may be approved, the file is
\* written.
LEMMA InvMoves ==
  ASSUME Inv, NEW q \in Requests,
         KeyIsNew(q) \/ NoDuplicate(q) \/ BeginApproval(q) \/ PutBytes(q)
  PROVE  Inv'
<1>1. TypeOK /\ RequestFacts(q)
  BY DEF Inv, Facts
<1>2. disk \subseteq Objects
  BY <1>1 DEF TypeOK
<1>3. CASE KeyIsNew(q)
  <2>1. PICK label \in {"badfile", "dedupe", "insert"} : Goto(q, label)
    BY <1>3 DEF KeyIsNew
  <2>2. pc[q] = "lookup" /\ UNCHANGED <<rowVars, lockVars, storeVars, job, draft, faults, answers>>
    BY <1>3 DEF KeyIsNew
  <2>3. disk' = disk /\ minted' = minted
    BY <2>2 DEF storeVars
  <2> QED
    BY <1>2, <2>1, <2>2, <2>3, MoveStep DEF ProgramCounters, UploadPcs
<1>4. CASE NoDuplicate(q)
  <2>1. /\ pc[q] = "dedupe" /\ Goto(q, "insert")
        /\ UNCHANGED <<rowVars, lockVars, storeVars, job, draft, faults, answers>>
    BY <1>4 DEF NoDuplicate
  <2>2. disk' = disk /\ minted' = minted
    BY <2>1 DEF storeVars
  <2> QED
    BY <1>2, <2>1, <2>2, MoveStep DEF ProgramCounters, UploadPcs
<1>5. CASE BeginApproval(q)
  <2>1. /\ pc[q] = "review" /\ Goto(q, "embed") /\ job[q].kind = "approve"
        /\ Reviewable(q, Reviewed(q))
        /\ UNCHANGED <<rowVars, lockVars, storeVars, job, draft, faults, answers>>
    BY <1>5 DEF BeginApproval
  <2>2. disk' = disk /\ minted' = minted
    BY <2>1 DEF storeVars
  <2>3. Reviewed(q) = "PREVIEW_READY"
    <3>1. job[q].doc \in Docs /\ job[q].num \in Numbers /\ Reviewed(q) # "none"
      BY <1>1, <2>1, RequestTypes, ConstantTypes DEF RequestFacts, LockFacts, Reviewed
    <3>2. Reviewed(q) \in Statuses
      BY <1>1, <3>1, VersionTypes DEF Reviewed
    <3> QED
      BY <2>1, <3>2 DEF Reviewable, Verdict, AllowedTransitions, Statuses
  <2> QED
    BY <1>2, <2>1, <2>2, <2>3, MoveStep DEF ProgramCounters, UploadPcs
<1>6. CASE PutBytes(q)
  <2>1. /\ pc[q] = "store" /\ Goto(q, "parse") /\ disk' = disk \cup {draft[q].object}
        /\ UNCHANGED <<rowVars, lockVars, minted, job, draft, faults, answers>>
    BY <1>6 DEF PutBytes
  <2>2. draft[q].object \in Objects
    <3>1. PICK i \in 1..minted : draft[q].object = <<draft[q].doc, i>>
      BY <1>1, <2>1 DEF RequestFacts, UploadFacts, Storing
    <3>2. draft[q].doc \in Docs /\ i \in 0..MaxUploads
      BY <1>1, <2>1, ConstantTypes DEF RequestFacts, UploadFacts, Storing, TypeOK
    <3> QED
      BY <3>1, <3>2 DEF Objects
  <2>3. disk \subseteq disk' /\ disk' \subseteq Objects /\ draft[q].object \in disk'
    BY <1>2, <2>1, <2>2
  <2> QED
    BY <2>1, <2>3, MoveStep DEF ProgramCounters, UploadPcs, Storing
<1> QED
  BY <1>3, <1>4, <1>5, <1>6

\* Versions belong to documents.
LEMMA VersionOfDocument ==
  ASSUME Inv, NEW d \in Docs, NEW n \in Numbers, row[d][n].status # "none"
  PROVE  docState[d] # "none"
<1>1. VersionFacts(d)
  BY DEF Inv, Facts, DocFacts
<1>2. n \in Present(d)
  BY DEF Present
<1> QED
  BY <1>1, <1>2 DEF VersionFacts

\* A request that is answered after an audit event of document d.
LEMMA AuditStep ==
  ASSUME Inv, NEW q \in Requests, NEW d \in Docs, NEW ok \in BOOLEAN, pc[q] # "idle",
         docState[d] # "none", ThenAudit(q, d, ok), ok => job[q].file \in Files,
         Release(q) \/ UNCHANGED lockVars,
         UNCHANGED <<rowVars, storeVars, faults, answers>>
  PROVE  Inv'
<1>1. TypeOK /\ RequestFacts(q) /\ draft[q] \in Draft
  BY DEF Inv, Facts, TypeOK
<1> DEFINE N == [draft[q] EXCEPT !.doc = d, !.accepted = ok]
<1>2. draft' = [draft EXCEPT ![q] = N] /\ job' = job /\ pc' = [pc EXCEPT ![q] = "audit"]
  BY <1>1 DEF ThenAudit, Goto, TypeOK
<1>3. N \in Draft /\ N.doc = d /\ N.accepted = ok /\ N.unlink = draft[q].unlink
  BY <1>1 DEF Draft
<1> HIDE DEF N
<1>4. /\ draft' \in [Requests -> Draft] /\ pc' \in [Requests -> ProgramCounters]
      /\ draft'[q] = N /\ pc'[q] = "audit"
      /\ \A p \in Requests \ {q} : pc'[p] = pc[p] /\ draft'[p] = draft[p]
  BY <1>1, <1>2, <1>3 DEF TypeOK, ProgramCounters
<1>5. /\ docLock' \in [Docs -> Requests \cup {NoRequest}]
      /\ chunkLock' \in [Docs -> Requests \cup {NoRequest}]
      /\ \A p \in Requests \ {q} : \A e \in Docs : docLock[e] = p => docLock'[e] = p
  <2>1. CASE Release(q)
    BY <1>1, <2>1, ReleaseEffect
  <2>2. CASE UNCHANGED lockVars
    BY <1>1, <2>2 DEF lockVars, TypeOK
  <2> QED
    BY <2>1, <2>2
<1>6. TypeOK' /\ minted' >= minted /\ disk' = disk
  BY <1>1, <1>2, <1>4, <1>5, ConstantTypes DEF TypeOK, rowVars, storeVars
<1>7. RequestFacts(q)' /\ ~Storing(q)'
  <2>1. LockFacts(q)'
    BY <1>1, <1>2, <1>4 DEF RequestFacts, LockFacts, UploadPcs, rowVars
  <2>2. UploadFacts(q)' /\ ~Storing(q)'
    BY <1>1, <1>2, <1>3, <1>4 DEF RequestFacts, UploadFacts, UploadPcs, Storing
  <2>3. UnlinkFacts(q)'
    BY <1>1, <1>3, <1>4 DEF RequestFacts, UnlinkFacts, rowVars
  <2> QED
    BY <2>1, <2>2, <2>3 DEF RequestFacts
<1>8. \A p \in Requests \ {q} : Storing(p) /\ job[p].doc = NoDoc => draft'[q].doc # draft[p].doc
  <2>1. \A p \in Requests : Storing(p) /\ job[p].doc = NoDoc => docState[draft[p].doc] = "none"
    BY DEF Inv, Facts, RequestFacts, UploadFacts
  <2> QED
    BY <1>3, <1>4, <2>1
<1> QED
  BY <1>2, <1>4, <1>5, <1>6, <1>7, <1>8, QuietStep

\* A repeated key, a known file, a review that is not allowed, a failed
\* indexing.
LEMMA InvAudits ==
  ASSUME Inv, NEW q \in Requests,
         \/ \E v \in Versions : Replay(q, v) \/ Deduplicate(q, v)
         \/ ReviewDenied(q) \/ IndexingFails(q)
  PROVE  Inv'
<1>1. TypeOK /\ RequestFacts(q)
  BY DEF Inv, Facts
<1>2. ASSUME NEW v \in Versions, Replay(q, v)
      PROVE  Inv'
  <2> DEFINE ok == /\ SamePrint(v, job[q]) /\ docState[v[1]] = "live"
                   /\ At(v).status \notin {"VALIDATION_FAILED", "PARSING_FAILED"}
  <2>1. /\ pc[q] = "lookup" /\ v \in WithKey(job[q].key) /\ ThenAudit(q, v[1], ok)
        /\ UNCHANGED <<rowVars, lockVars, storeVars, faults, answers>>
    BY <1>2 DEF Replay
  <2>2. ok \in BOOLEAN /\ v[1] \in Docs /\ v[2] \in Numbers
    BY DEF Versions, SamePrint
  <2>3. job[q].key \in Keys /\ job[q].file \in Files
    BY <1>1, <2>1 DEF RequestFacts, UploadFacts, UploadPcs
  <2>4. docState[v[1]] # "none"
    <3>1. row[v[1]][v[2]].key \in Keys
      BY <2>1, <2>3 DEF WithKey, At
    <3>2. row[v[1]][v[2]].status # "none"
      BY <2>2, <3>1, ConstantTypes DEF Inv, Facts, DocFacts, VersionFacts, NoVersion
    <3> QED
      BY <2>2, <3>2, VersionOfDocument
  <2> HIDE DEF ok
  <2> QED
    BY <2>1, <2>2, <2>3, <2>4, AuditStep
<1>3. ASSUME NEW v \in Versions, Deduplicate(q, v)
      PROVE  Inv'
  <2>1. /\ pc[q] = "dedupe" /\ v \in Duplicates(job[q].file) /\ ThenAudit(q, v[1], TRUE)
        /\ UNCHANGED <<rowVars, lockVars, storeVars, faults, answers>>
    BY <1>3 DEF Deduplicate
  <2>2. v[1] \in Docs /\ docState[v[1]] # "none"
    BY <2>1 DEF Versions, Duplicates
  <2>3. job[q].file \in Files
    BY <1>1, <2>1 DEF RequestFacts, UploadFacts, UploadPcs
  <2> QED
    BY <2>1, <2>2, <2>3, AuditStep
<1>4. CASE ReviewDenied(q) \/ IndexingFails(q)
  <2>1. /\ pc[q] \in {"review", "embed"} /\ ThenAudit(q, job[q].doc, FALSE)
        /\ Release(q) \/ UNCHANGED lockVars
        /\ UNCHANGED <<rowVars, storeVars, faults, answers>>
    BY <1>4 DEF ReviewDenied, IndexingFails
  <2>2. job[q].doc \in Docs /\ docState[job[q].doc] # "none"
    BY <1>1, <2>1, RequestTypes DEF RequestFacts, LockFacts
  <2> QED
    BY <2>1, <2>2, AuditStep
<1> QED
  BY <1>2, <1>3, <1>4

\* What a request may ask for.
LEMMA JobTypes ==
  ASSUME NEW kind \in Offered, NEW j \in JobsOf(kind)
  PROVE  /\ j \in Job /\ j.kind = kind
         /\ j.num # 0 => j.doc # NoDoc
         /\ j.kind = "upload" => j.key \in Keys /\ j.file \in Files
         /\ j.kind \in {"approve", "reject"} => j.num \in Numbers
         /\ j.kind \notin {"upload", "reindex"} => j.doc # NoDoc
         /\ j.kind = "reindex" => j = NoJob
<1>1. kind \in Kinds
  BY LifecycleAssumption
<1>2. CASE kind = "upload"
  BY <1>1, <1>2, ConstantTypes DEF JobsOf, Job, Kinds
<1>3. CASE kind \in {"approve", "reject"}
  BY <1>1, <1>3, ConstantTypes DEF JobsOf, Job, Kinds
<1>4. CASE kind = "delete"
  BY <1>1, <1>4, ConstantTypes DEF JobsOf, Job, Kinds
<1>5. CASE kind = "reindex"
  BY <1>1, <1>5, ConstantTypes DEF JobsOf, Job, Kinds, NoJob
<1> QED
  BY <1>1, <1>2, <1>3, <1>4, <1>5 DEF Kinds

\* A request arrives.
LEMMA InvReceives ==
  ASSUME Inv, NEW q \in Requests, NEW kind \in Offered, NEW j \in JobsOf(kind), Receive(q, j)
  PROVE  Inv'
<1>1. TypeOK /\ RequestFacts(q) /\ draft[q] = NoDraft /\ NoDraft \in Draft
  <2>1. RequestFacts(q) /\ TypeOK
    BY DEF Inv, Facts
  <2>2. draft[q] = NoDraft
    BY <2>1 DEF RequestFacts, LockFacts, Receive
  <2> QED
    BY <2>1, <2>2 DEF TypeOK
<1>2. /\ j \in Job /\ j.kind = kind
      /\ j.num # 0 => j.doc # NoDoc
      /\ j.kind = "upload" => j.key \in Keys /\ j.file \in Files
      /\ j.kind \in {"approve", "reject"} => j.num \in Numbers
      /\ j.kind \notin {"upload", "reindex"} => j.doc # NoDoc
      /\ j.kind = "reindex" => j = NoJob
  BY JobTypes
<1> DEFINE label == CASE j.kind = "reindex" -> "claim"
                      [] j.kind = "upload" /\ j.doc = NoDoc -> "lookup"
                      [] OTHER -> "lock"
           num == IF j.kind = "upload" /\ j.doc = NoDoc THEN 1 ELSE 0
           N == [NoDraft EXCEPT !.num = num]
<1>3. /\ pc' = [pc EXCEPT ![q] = label] /\ job' = [job EXCEPT ![q] = j]
      /\ Known(j) /\ UNCHANGED <<rowVars, lockVars, storeVars, faults, answers>>
      /\ draft' = [draft EXCEPT ![q].num = num]
  BY DEF Receive, Goto
<1>4. draft' = [draft EXCEPT ![q] = N]
  BY <1>1, <1>3
<1>5. /\ N \in Draft /\ N.num = num /\ N.doc = NoDoc /\ N.accepted = FALSE /\ N.unlink = {}
  <2>1. num \in 0..(MaxVersions + 1)
    BY ConstantTypes
  <2> HIDE DEF num
  <2> QED
    BY <1>1, <2>1 DEF Draft, NoDraft
<1>6. /\ j.kind = "reindex" => label = "claim"
      /\ j.kind = "upload" /\ j.doc = NoDoc => label = "lookup" /\ num = 1
      /\ j.kind # "reindex" /\ (j.kind # "upload" \/ j.doc # NoDoc) => label = "lock"
  OBVIOUS
<1> HIDE DEF N, num, label
<1>7. label \in {"claim", "lookup", "lock"}
  BY <1>6
<1>8. /\ pc' \in [Requests -> ProgramCounters] /\ pc'[q] = label
      /\ job' \in [Requests -> Job] /\ job'[q] = j
      /\ draft' \in [Requests -> Draft] /\ draft'[q] = N
      /\ \A p \in Requests \ {q} : pc'[p] = pc[p] /\ job'[p] = job[p] /\ draft'[p] = draft[p]
  BY <1>1, <1>2, <1>3, <1>4, <1>5, <1>7 DEF TypeOK, ProgramCounters
<1>9. TypeOK' /\ minted' >= minted /\ disk' = disk
  BY <1>1, <1>3, <1>8, ConstantTypes DEF TypeOK, rowVars, lockVars, storeVars
<1>10. LockFacts(q)'
  <2>1. /\ j.doc # NoDoc => docState'[j.doc] # "none"
        /\ j.num # 0 => row'[j.doc][j.num].status # "none"
    BY <1>3 DEF Known, rowVars
  <2>2. label = "lock" => j.kind # "reindex" /\ j.doc # NoDoc
    BY <1>2, <1>6, <1>7
  <2>3. label = "lookup" => j.kind = "upload" /\ j.doc = NoDoc
    BY <1>6, <1>7
  <2> QED
    BY <1>2, <1>7, <1>8, <2>1, <2>2, <2>3 DEF LockFacts, UploadPcs
<1>11. UploadFacts(q)' /\ ~Storing(q)'
  <2>1. label = "lookup" => j.kind = "upload" /\ j.doc = NoDoc /\ N.num = 1
    BY <1>5, <1>6, <1>7
  <2> QED
    BY <1>2, <1>5, <1>7, <1>8, <2>1 DEF UploadFacts, UploadPcs, Storing
<1>12. UnlinkFacts(q)'
  BY <1>5, <1>8 DEF UnlinkFacts
<1>13. \A p \in Requests \ {q} : Storing(p) /\ job[p].doc = NoDoc => draft'[q].doc # draft[p].doc
  <2>1. \A p \in Requests : Storing(p) => draft[p].doc \in Docs
    BY DEF Inv, Facts, RequestFacts, UploadFacts
  <2> QED
    BY <1>5, <1>8, <2>1, ConstantTypes
<1>14. \A p \in Requests \ {q} : \A d \in Docs : docLock[d] = p => docLock'[d] = p
  BY <1>3 DEF lockVars
<1> QED
  BY <1>3, <1>8, <1>9, <1>10, <1>11, <1>12, <1>13, <1>14, QuietStep DEF RequestFacts

\* A document is locked: its versions cannot change until the commit, so
\* that the next number stays free.
LEMMA InvLocks ==
  ASSUME Inv, NEW q \in Requests, LockDocument(q)
  PROVE  Inv'
<1>0. PICK d : d = job[q].doc
  OBVIOUS
<1> DEFINE label == CASE job[q].kind = "upload" -> "lookup"
                      [] job[q].kind = "delete" -> "delete"
                      [] OTHER -> "review"
           num == IF job[q].kind = "upload" THEN NextNumber(d) ELSE job[q].num
           N == [draft[q] EXCEPT !.doc = d, !.num = num]
<1>1. TypeOK /\ RequestFacts(q) /\ draft[q] \in Draft
  BY DEF Inv, Facts, TypeOK
<1>2. /\ pc[q] = "lock" /\ docState[d] = "live" /\ docLock[d] \in {NoRequest, q}
      /\ docLock' = [docLock EXCEPT ![d] = q] /\ pc' = [pc EXCEPT ![q] = label]
      /\ draft' = [draft EXCEPT ![q].doc = d, ![q].num = num]
      /\ UNCHANGED <<rowVars, chunkLock, storeVars, job, faults, answers>>
  BY <1>0 DEF LockDocument, Goto, DocFree
<1>3. d \in Docs /\ job[q].num \in 0..MaxVersions /\ job[q].kind \in Kinds \ {"reindex"}
  BY <1>0, <1>1, <1>2, RequestTypes DEF RequestFacts, LockFacts
<1>4. PICK k \in 0..MaxVersions : Present(d) = 1..k /\ k > 0
  BY <1>2, <1>3 DEF Inv, Facts, DocFacts, VersionFacts
<1>5. NextNumber(d) = k + 1
  <2>1. k \in Nat /\ k \in 1..k /\ \A m \in 1..k : m <= k
    BY <1>4, ConstantTypes
  <2>2. (CHOOSE n \in Present(d) : \A m \in Present(d) : m <= n) = k
    BY <1>4, <2>1
  <2> QED
    BY <2>2 DEF NextNumber
<1>6. draft' = [draft EXCEPT ![q] = N]
  BY <1>1, <1>2 DEF TypeOK
<1>7. /\ num \in 0..(MaxVersions + 1)
      /\ job[q].kind = "upload" => num = k + 1
  BY <1>3, <1>4, <1>5, ConstantTypes
<1>8. /\ job[q].kind = "upload" => label = "lookup"
      /\ job[q].kind = "delete" => label = "delete"
      /\ job[q].kind \in {"approve", "reject"} => label = "review"
      /\ label \in {"lookup", "delete", "review"}
  OBVIOUS
<1> HIDE DEF num, label
<1>9. /\ N \in Draft /\ N.num = num /\ N.doc = d /\ N.accepted = draft[q].accepted
      /\ N.unlink = draft[q].unlink
  BY <1>1, <1>3, <1>7 DEF Draft
<1> HIDE DEF N
<1>10. /\ pc' \in [Requests -> ProgramCounters] /\ pc'[q] = label
       /\ draft' \in [Requests -> Draft] /\ draft'[q] = N
       /\ docLock' \in [Docs -> Requests \cup {NoRequest}] /\ docLock'[d] = q
       /\ \A p \in Requests \ {q} : pc'[p] = pc[p] /\ draft'[p] = draft[p]
  <2>1. /\ pc \in [Requests -> ProgramCounters] /\ draft \in [Requests -> Draft]
        /\ docLock \in [Docs -> Requests \cup {NoRequest}] /\ label \in ProgramCounters
    BY <1>1, <1>8 DEF TypeOK, ProgramCounters
  <2>2. pc' = [pc EXCEPT ![q] = label] /\ docLock' = [docLock EXCEPT ![d] = q]
    BY <1>2
  <2>3. /\ pc' \in [Requests -> ProgramCounters] /\ pc'[q] = label
        /\ \A p \in Requests \ {q} : pc'[p] = pc[p]
    BY <2>1, <2>2
  <2>4. /\ draft' \in [Requests -> Draft] /\ draft'[q] = N
        /\ \A p \in Requests \ {q} : draft'[p] = draft[p]
    BY <1>6, <1>9, <2>1
  <2>5. docLock' \in [Docs -> Requests \cup {NoRequest}] /\ docLock'[d] = q
    BY <1>3, <2>1, <2>2
  <2> QED
    BY <2>3, <2>4, <2>5
<1>11. \A p \in Requests \ {q} : \A e \in Docs : docLock[e] = p => docLock'[e] = p
  BY <1>1, <1>2, <1>3, ConstantTypes DEF TypeOK
<1>12. TypeOK' /\ minted' >= minted /\ disk' = disk
  BY <1>1, <1>2, <1>10, ConstantTypes DEF TypeOK, rowVars, storeVars
<1>13. job'[q] = job[q] /\ job[q].doc = d /\ docState' = docState /\ row' = row
  BY <1>0, <1>2 DEF rowVars
<1>14. LockFacts(q)'
  <2>1. label = "review" => job[q].kind \in {"approve", "reject"}
    BY <1>3, <1>8 DEF Kinds
  <2>2. d # NoDoc
    BY <1>3, ConstantTypes
  <2> QED
    BY <1>1, <1>2, <1>8, <1>10, <1>13, <2>1, <2>2 DEF RequestFacts, LockFacts, UploadPcs
<1>15. UploadFacts(q)' /\ ~Storing(q)'
  <2>1. label = "lookup" => job[q].kind = "upload" /\ num = k + 1
    BY <1>3, <1>7, <1>8 DEF Kinds
  <2>2. Present(d)' = 1..k /\ d # NoDoc /\ k \in Nat
    BY <1>3, <1>4, <1>13, ConstantTypes DEF Present
  <2>3. (pc[q] \in UploadPcs =>
          /\ job[q].kind = "upload"
          /\ draft[q].num > 0
          /\ IF job[q].doc = NoDoc THEN draft[q].num = 1
             ELSE Present(job[q].doc) = 1..(draft[q].num - 1))'
    <3>1. SUFFICES ASSUME pc'[q] \in UploadPcs
                   PROVE  /\ job[q].kind = "upload" /\ N.num > 0
                          /\ Present(d)' = 1..(N.num - 1)
      BY <1>10, <1>13, <2>2
    <3>2. label = "lookup"
      BY <1>8, <1>10, <3>1 DEF UploadPcs
    <3> QED
      BY <1>9, <2>1, <2>2, <3>2
  <2> QED
    BY <1>1, <1>8, <1>9, <1>10, <1>13, <2>3 DEF RequestFacts, UploadFacts, Storing
<1>16. UnlinkFacts(q)'
  BY <1>1, <1>9, <1>10, <1>13 DEF RequestFacts, UnlinkFacts
<1>17. \A p \in Requests \ {q} : Storing(p) /\ job[p].doc = NoDoc => draft'[q].doc # draft[p].doc
  <2>1. \A p \in Requests : Storing(p) /\ job[p].doc = NoDoc => docState[draft[p].doc] = "none"
    BY DEF Inv, Facts, RequestFacts, UploadFacts
  <2> QED
    BY <1>2, <1>9, <1>10, <2>1
<1> QED
  BY <1>2, <1>10, <1>11, <1>12, <1>14, <1>15, <1>16, <1>17, QuietStep DEF RequestFacts

\* The flush of a new version generates a place for its file.
LEMMA InvInserts ==
  ASSUME Inv, NEW q \in Requests, NEW d \in Docs, InsertVersion(q, d)
  PROVE  Inv'
<1> DEFINE i == minted + 1
           N == [draft[q] EXCEPT !.doc = d, !.object = <<d, i>>]
<1>1. TypeOK /\ RequestFacts(q) /\ draft[q] \in Draft /\ DocFacts(d) /\ FreshFacts
  BY DEF Inv, Facts, TypeOK
<1>2. /\ pc[q] = "insert" /\ d \in Destinations(q) /\ draft[q].num \in Numbers
      /\ minted < MaxUploads /\ minted' = i /\ pc' = [pc EXCEPT ![q] = "store"]
      /\ draft' = [draft EXCEPT ![q].doc = d, ![q].object = <<d, i>>]
      /\ UNCHANGED <<rowVars, lockVars, disk, job, faults, answers>>
  BY DEF InsertVersion, Goto
<1>3. draft' = [draft EXCEPT ![q] = N]
  BY <1>1, <1>2 DEF TypeOK
<1>4. minted \in Nat /\ i \in 0..MaxUploads /\ i \in 1..i /\ i > minted
  BY <1>1, <1>2, ConstantTypes DEF TypeOK
<1>5. /\ N \in Draft /\ N.doc = d /\ N.object = <<d, i>> /\ N.num = draft[q].num
      /\ N.accepted = draft[q].accepted /\ N.unlink = draft[q].unlink
  <2>1. <<d, i>> \in Objects
    BY <1>4 DEF Objects
  <2> HIDE DEF i
  <2> QED
    BY <1>1, <2>1 DEF Draft
<1>6. PICK x : x = N
  OBVIOUS
<1> HIDE DEF N
<1>7. /\ pc' \in [Requests -> ProgramCounters] /\ pc'[q] = "store"
      /\ \A p \in Requests \ {q} : pc'[p] = pc[p]
  BY <1>1, <1>2 DEF TypeOK, ProgramCounters
<1>8. /\ draft' \in [Requests -> Draft] /\ draft'[q] = x
      /\ \A p \in Requests \ {q} : draft'[p] = draft[p]
  BY <1>1, <1>3, <1>5, <1>6 DEF TypeOK
<1>9. TypeOK' /\ minted' >= minted
  BY <1>1, <1>2, <1>4, <1>7, <1>8 DEF TypeOK, rowVars, lockVars
<1>10. job'[q] = job[q] /\ UNCHANGED <<docState, row, docLock, disk>>
  BY <1>2 DEF rowVars, lockVars
<1>11. LockFacts(q)'
  BY <1>1, <1>2, <1>7, <1>10 DEF RequestFacts, LockFacts, UploadPcs
<1>12. \A n \in Numbers : row[d][n].object # <<d, i>>
  <2>1. \A n \in Numbers : row[d][n].object = NoObject \/ row[d][n].object[2] <= minted
    BY <1>1 DEF DocFacts, FileFacts
  <2>2. NoObject # <<d, i>>
    BY ConstantTypes DEF NoObject
  <2>3. PICK j \in Nat : j = i /\ j > minted
    BY <1>4
  <2>4. <<d, j>>[2] = j /\ ~(j <= minted)
    BY <1>4, <2>3
  <2> HIDE DEF i
  <2> QED
    BY <2>1, <2>2, <2>3, <2>4
<1>13. job[q].doc = NoDoc => docState[d] = "none" /\ \A p \in Requests : draft[p].doc # d
  BY <1>2 DEF Destinations
<1>14. job[q].doc # NoDoc => d = job[q].doc /\ docState[d] = "live"
  BY <1>1, <1>2 DEF Destinations, RequestFacts, LockFacts, UploadPcs
<1>15. UploadFacts(q)'
  <2>1. (pc[q] \in UploadPcs =>
          /\ job[q].kind = "upload"
          /\ draft[q].num > 0
          /\ IF job[q].doc = NoDoc THEN draft[q].num = 1
             ELSE Present(job[q].doc) = 1..(draft[q].num - 1))'
    <3>1. Present(job[q].doc)' = Present(job[q].doc)
      BY <1>10 DEF Present
    <3>2. pc[q] \in UploadPcs
      BY <1>2 DEF UploadPcs
    <3> QED
      BY <1>1, <1>5, <1>6, <1>8, <1>10, <3>1, <3>2 DEF RequestFacts, UploadFacts
  <2>2. (/\ draft[q].num \in Numbers
         /\ draft[q].doc \in Docs
         /\ IF job[q].doc = NoDoc THEN docState[draft[q].doc] = "none"
            ELSE draft[q].doc = job[q].doc
         /\ \E j \in 1..minted : draft[q].object = <<draft[q].doc, j>>
         /\ \A n \in Numbers : row[draft[q].doc][n].object # draft[q].object)'
    BY <1>2, <1>4, <1>5, <1>6, <1>8, <1>10, <1>12, <1>13, <1>14
  <2> QED
    BY <1>1, <1>5, <1>6, <1>7, <1>8, <1>10, <2>1, <2>2 DEF RequestFacts, UploadFacts
<1>16. UnlinkFacts(q)'
  BY <1>1, <1>5, <1>6, <1>8, <1>10 DEF RequestFacts, UnlinkFacts
<1>17. \A p \in Requests \ {q} :
        /\ job'[q].doc = NoDoc => draft[p].doc # draft'[q].doc
        /\ Storing(p) /\ job[p].doc = NoDoc => draft'[q].doc # draft[p].doc
  <2>1. \A p \in Requests : Storing(p) /\ job[p].doc = NoDoc => docState[draft[p].doc] = "none"
    BY DEF Inv, Facts, RequestFacts, UploadFacts
  <2> QED
    BY <1>5, <1>6, <1>8, <1>10, <1>13, <1>14, <2>1
<1>18. \A p \in Requests \ {q} :
         /\ pc'[p] = pc[p] /\ job'[p] = job[p] /\ draft'[p] = draft[p]
         /\ \A e \in Docs : docLock[e] = p => docLock'[e] = p
  BY <1>2, <1>7, <1>8, <1>10
<1> QED
  BY <1>2, <1>9, <1>10, <1>11, <1>15, <1>16, <1>17, <1>18, QuietStep DEF RequestFacts

\* A deletion removes a file, or fails to; a reindex locks its chunks.
LEMMA InvUnlinksClaims ==
  ASSUME Inv, NEW q \in Requests,
         \/ \E o \in Objects, removed \in BOOLEAN : Unlink(q, o, removed)
         \/ \E ds \in SUBSET Docs : Claim(q, ds)
  PROVE  Inv'
<1>1. TypeOK /\ RequestFacts(q) /\ draft[q] \in Draft
  BY DEF Inv, Facts, TypeOK
<1>2. ASSUME NEW x \in Draft, draft' = [draft EXCEPT ![q] = x], x.doc = draft[q].doc,
             x.accepted = draft[q].accepted, x.unlink \subseteq draft[q].unlink,
             NEW label \in {"unlink", "reembed"}, pc' = [pc EXCEPT ![q] = label],
             pc[q] \in {"unlink", "claim"},
             UNCHANGED <<rowVars, docLock, minted, job, faults, answers>>,
             chunkLock' \in [Docs -> Requests \cup {NoRequest}], disk' \subseteq disk,
             \A o \in disk : o \in disk' \/ docState[o[1]] = "deleted"
      PROVE  Inv'
  <2>1. /\ pc' \in [Requests -> ProgramCounters] /\ pc'[q] = label
        /\ \A p \in Requests \ {q} : pc'[p] = pc[p]
    BY <1>1, <1>2 DEF TypeOK, ProgramCounters
  <2>2. /\ draft' \in [Requests -> Draft] /\ draft'[q] = x
        /\ \A p \in Requests \ {q} : draft'[p] = draft[p]
    BY <1>1, <1>2 DEF TypeOK
  <2>3. TypeOK' /\ minted' >= minted
    BY <1>1, <1>2, <2>1, <2>2, ConstantTypes DEF TypeOK, rowVars
  <2>4. job'[q] = job[q] /\ UNCHANGED <<docState, row>>
    BY <1>2 DEF rowVars
  <2>5. LockFacts(q)'
    BY <1>1, <1>2, <2>1, <2>2, <2>4 DEF RequestFacts, LockFacts, UploadPcs
  <2>6. UploadFacts(q)' /\ ~Storing(q)'
    BY <1>1, <1>2, <2>1, <2>2, <2>4 DEF RequestFacts, UploadFacts, UploadPcs, Storing
  <2>7. UnlinkFacts(q)'
    BY <1>1, <1>2, <2>2, <2>4 DEF RequestFacts, UnlinkFacts
  <2>8. \A p \in Requests \ {q} : Storing(p) /\ job[p].doc = NoDoc => draft'[q].doc # draft[p].doc
    BY <1>2, <2>2 DEF Inv, Facts, FreshFacts
  <2> QED
    BY <1>2, <2>1, <2>2, <2>3, <2>5, <2>6, <2>7, <2>8, QuietStep DEF RequestFacts
<1>3. ASSUME NEW o \in Objects, NEW removed \in BOOLEAN, Unlink(q, o, removed)
      PROVE  Inv'
  <2>1. PICK x : x = [draft[q] EXCEPT !.unlink = @ \ {o}]
    OBVIOUS
  <2>2. /\ x \in Draft /\ x.doc = draft[q].doc /\ x.accepted = draft[q].accepted
        /\ x.unlink \subseteq draft[q].unlink
    BY <1>1, <2>1 DEF Draft
  <2>3. /\ pc[q] = "unlink" /\ o \in draft[q].unlink
        /\ disk' = IF removed THEN disk \ {o} ELSE disk
        /\ UNCHANGED <<rowVars, lockVars, minted, pc, job, faults, answers>>
        /\ draft' = [draft EXCEPT ![q] = x]
    BY <1>3, <2>1 DEF Unlink
  <2>4. pc' = [pc EXCEPT ![q] = "unlink"]
    BY <1>1, <2>3 DEF TypeOK
  <2>5. docState[o[1]] = "deleted"
    BY <1>1, <2>3 DEF RequestFacts, UnlinkFacts
  <2>6. disk' \subseteq disk /\ \A z \in disk : z \in disk' \/ docState[z[1]] = "deleted"
    BY <2>3, <2>5
  <2>7. docLock' = docLock /\ chunkLock' \in [Docs -> Requests \cup {NoRequest}]
    BY <1>1, <2>3 DEF lockVars, TypeOK
  <2> QED
    BY <1>2, <2>2, <2>3, <2>4, <2>6, <2>7
<1>4. ASSUME NEW ds \in SUBSET Docs, Claim(q, ds)
      PROVE  Inv'
  <2>1. PICK x : x = [draft[q] EXCEPT !.claimed = ds]
    OBVIOUS
  <2>2. /\ x \in Draft /\ x.doc = draft[q].doc /\ x.accepted = draft[q].accepted
        /\ x.unlink \subseteq draft[q].unlink
    BY <1>1, <2>1 DEF Draft
  <2>3. /\ pc[q] = "claim" /\ pc' = [pc EXCEPT ![q] = "reembed"]
        /\ chunkLock' = [d \in Docs |-> IF d \in ds THEN q ELSE chunkLock[d]]
        /\ UNCHANGED <<rowVars, docLock, storeVars, job, faults, answers>>
        /\ draft' = [draft EXCEPT ![q] = x]
    BY <1>4, <2>1 DEF Claim, Goto
  <2>4. chunkLock' \in [Docs -> Requests \cup {NoRequest}]
    BY <1>1, <2>3 DEF TypeOK
  <2>5. disk' = disk /\ minted' = minted
    BY <2>3 DEF storeVars
  <2> QED
    BY <1>2, <2>2, <2>3, <2>4, <2>5
<1> QED
  BY <1>3, <1>4

-----------------------------------------------------------------------------
(***************************************************************************)
(* Steps that commit.                                                      *)
(***************************************************************************)

\* What remains to be shown of a step in which q writes rows that no other
\* request has for itself.
LEMMA CommitStep ==
  ASSUME Inv, NEW q \in Requests, TypeOK', minted' >= minted,
         \A p \in Requests \ {q} :
           /\ pc'[p] = pc[p] /\ job'[p] = job[p] /\ draft'[p] = draft[p]
           /\ \A d \in Docs : docLock[d] = p => docLock'[d] = p
           /\ \A d \in Docs : Holds(p, d) => row'[d] = row[d] /\ docState'[d] = docState[d]
           /\ pc[p] = "parse" => draft[p].object \in disk',
         DocsEvolve, \A d \in Docs : DocFacts(d)', RequestFacts(q)', ~Storing(q)',
         \A p \in Requests \ {q} : Storing(p) /\ job[p].doc = NoDoc =>
           draft'[q].doc # draft[p].doc
  PROVE  Inv'
<1>1. TypeOK /\ FreshFacts /\ \A p \in Requests : RequestFacts(p)
  BY DEF Inv, Facts
<1>2. minted' \in Nat
  BY ConstantTypes DEF TypeOK
<1>3. ASSUME NEW p \in Requests \ {q}
      PROVE  RequestFacts(p)' /\ Storing(p)' = Storing(p)
  <2>1. RequestFacts(p)'
    BY <1>1, <1>2, RequestKept
  <2> QED
    BY <2>1 DEF Storing
<1>4. FreshFacts'
  <2>1. \A p, r \in Requests \ {q} : r # p /\ Storing(p)' /\ job'[p].doc = NoDoc =>
          draft'[r].doc # draft'[p].doc
    BY <1>1, <1>3 DEF FreshFacts
  <2>2. \A p \in Requests \ {q} : Storing(p)' /\ job'[p].doc = NoDoc =>
          draft'[q].doc # draft'[p].doc
    BY <1>3
  <2> QED
    BY <2>1, <2>2 DEF FreshFacts
<1> QED
  BY <1>3, <1>4 DEF Inv, Facts

\* A document is written to by one request at a time: the one that has its
\* row, or the one that makes it.
LEMMA Exclusive ==
  ASSUME Inv, NEW q \in Requests, NEW d \in Docs,
         \/ docLock[d] = q /\ docState[d] = "live"
         \/ /\ docState[d] = "none"
            /\ \A p \in Requests \ {q} : draft[p].doc # d,
         NEW p \in Requests \ {q}
  PROVE  ~Holds(p, d)
<1>1. RequestFacts(p) /\ d # NoDoc
  BY ConstantTypes DEF Inv, Facts
<1>2. job[p].doc = d => docState[d] # "none"
  BY <1>1 DEF RequestFacts, LockFacts
<1>3. Storing(p) /\ draft[p].doc = d =>
        \/ docState[d] = "none"
        \/ job[p].doc = d /\ docLock[d] = p
  BY <1>1 DEF RequestFacts, UploadFacts, LockFacts, Storing, UploadPcs
<1> QED
  BY <1>2, <1>3 DEF Holds

\* One document is written to, and files of no other document are removed.
LEMMA WriteStep ==
  ASSUME Inv, NEW q \in Requests, NEW d \in Docs, TypeOK', minted' >= minted,
         \A p \in Requests \ {q} :
           /\ pc'[p] = pc[p] /\ job'[p] = job[p] /\ draft'[p] = draft[p]
           /\ \A e \in Docs : docLock[e] = p => docLock'[e] = p
           /\ ~Holds(p, d),
         \A e \in Docs \ {d} : /\ docState'[e] = docState[e] /\ current'[e] = current[e]
                               /\ row'[e] = row[e] /\ chunk'[e] = chunk[e],
         docState[d] # "deleted", docState'[d] # "none",
         \A n \in Numbers : row[d][n].status # "none" => row'[d][n].status # "none",
         \A o \in disk : o \in disk' \/ o[1] = d,
         DocFacts(d)', RequestFacts(q)', ~Storing(q)',
         \A p \in Requests \ {q} : Storing(p) /\ job[p].doc = NoDoc =>
           draft'[q].doc # draft[p].doc
  PROVE  Inv'
<1>1. /\ TypeOK /\ \A e \in Docs : DocFacts(e)
      /\ \A p \in Requests : RequestFacts(p)
  BY DEF Inv, Facts
<1>2. minted' \in Nat
  BY ConstantTypes DEF TypeOK
<1>3. ASSUME NEW e \in Docs \ {d}
      PROVE  DocFacts(e)'
  <2>1. ASSUME NEW n \in Numbers, row[e][n].object \in disk
        PROVE  row[e][n].object \in disk'
    <3>1. row[e][n].object # NoObject
      BY <1>1, <2>1, ObjectTypes DEF TypeOK
    <3>2. row[e][n].object[1] = e
      BY <1>1, <3>1 DEF DocFacts, FileFacts
    <3> QED
      BY <2>1, <3>2
  <2> QED
    BY <1>1, <1>2, <2>1, DocKept
<1>4. DocsEvolve
  <2>1. ASSUME NEW e \in Docs
        PROVE  /\ docState[e] # "none" => docState'[e] # "none"
               /\ docState[e] = "deleted" => docState'[e] = "deleted"
               /\ \A n \in Numbers : row[e][n].status # "none" => row'[e][n].status # "none"
    <3>1. CASE e = d
      BY <3>1
    <3>2. CASE e # d
      BY <3>2
    <3> QED
      BY <3>1, <3>2
  <2> QED
    BY <2>1 DEF DocsEvolve
<1>5. ASSUME NEW p \in Requests \ {q}, NEW e \in Docs, Holds(p, e)
      PROVE  row'[e] = row[e] /\ docState'[e] = docState[e]
  BY <1>5
<1>6. ASSUME NEW p \in Requests \ {q}, pc[p] = "parse"
      PROVE  draft[p].object \in disk'
  <2>1. draft[p].object \in disk /\ draft[p].object[1] = draft[p].doc /\ draft[p].doc \in Docs
    BY <1>1, <1>6 DEF RequestFacts, UploadFacts, Storing
  <2>2. draft[p].doc # d
    BY <1>6 DEF Holds, Storing
  <2> QED
    BY <2>1, <2>2
<1>7. \A e \in Docs : DocFacts(e)'
  <2>1. ASSUME NEW e \in Docs PROVE DocFacts(e)'
    BY <1>3
  <2> QED
    BY <2>1
<1> QED
  BY <1>4, <1>5, <1>6, <1>7, CommitStep

\* The vectors of a reindex, and nothing else.
LEMMA InvReindexDone ==
  ASSUME Inv, NEW q \in Requests, ReindexDone(q)
  PROVE  Inv'
<1>1. /\ TypeOK /\ \A d \in Docs : DocFacts(d)
      /\ \A p \in Requests : RequestFacts(p)
  BY DEF Inv, Facts
<1>2. /\ chunk' = [d \in Docs |-> IF d \in draft[q].claimed THEN Reindexed(d) ELSE chunk[d]]
      /\ Release(q) /\ EndRequest(q)
      /\ UNCHANGED <<docState, current, row, disk, minted, faults, answers>>
  BY DEF ReindexDone, storeVars
<1>3. /\ pc' \in [Requests -> ProgramCounters] /\ job' \in [Requests -> Job]
      /\ draft' \in [Requests -> Draft]
      /\ \A p \in Requests \ {q} : pc'[p] = pc[p] /\ job'[p] = job[p] /\ draft'[p] = draft[p]
      /\ pc'[q] = "idle" /\ job'[q] = NoJob /\ draft'[q] = NoDraft
  BY <1>1, <1>2, EndEffect
<1>4. /\ docLock' \in [Docs -> Requests \cup {NoRequest}]
      /\ chunkLock' \in [Docs -> Requests \cup {NoRequest}]
      /\ \A p \in Requests \ {q} : \A d \in Docs : docLock[d] = p => docLock'[d] = p
  BY <1>1, <1>2, ReleaseEffect
<1>5. ASSUME NEW d \in Docs
      PROVE  chunk'[d] = chunk[d] \/ chunk'[d] = Reindexed(d)
  BY <1>2
<1>6. ASSUME NEW d \in Docs, NEW n \in Numbers
      PROVE  /\ chunk'[d][n] \in ChunkRow
             /\ chunk'[d][n].status = chunk[d][n].status
             /\ chunk'[d][n].active = chunk[d][n].active
             /\ chunk'[d][n].deleted = chunk[d][n].deleted
             /\ chunk'[d][n].vector \in {"READY", "PENDING"} <=>
                  chunk[d][n].vector \in {"READY", "PENDING"}
  <2>1. chunk[d][n] \in ChunkRow
    BY <1>1, VersionTypes
  <2>2. \/ chunk'[d][n] = chunk[d][n]
        \/ /\ chunk[d][n].vector = "PENDING"
           /\ chunk'[d][n] = [chunk[d][n] EXCEPT !.vector = "READY"]
    BY <1>5 DEF Reindexed
  <2> QED
    BY <2>1, <2>2 DEF ChunkRow
<1>7. TypeOK' /\ minted' >= minted
  <2>1. chunk' \in [Docs -> [Numbers -> ChunkRow]]
    <3>1. ASSUME NEW d \in Docs PROVE chunk'[d] \in [Numbers -> ChunkRow]
      <4>1. chunk[d] \in [Numbers -> ChunkRow]
        BY <1>1 DEF TypeOK
      <4>2. chunk'[d] = [n \in Numbers |-> chunk'[d][n]]
        BY <1>5, <4>1 DEF Reindexed
      <4> QED
        BY <1>6, <4>2
    <3>2. chunk' = [d \in Docs |-> chunk'[d]]
      BY <1>2
    <3> QED
      BY <3>1, <3>2
  <2> QED
    BY <1>1, <1>2, <1>3, <1>4, <2>1, ConstantTypes DEF TypeOK
<1>8. ASSUME NEW d \in Docs
      PROVE  DocFacts(d)'
  <2>1. VersionFacts(d)' /\ FileFacts(d)'
    BY <1>1, <1>2 DEF DocFacts, VersionFacts, Present, FileFacts
  <2>2. ChunkFacts(d)'
    BY <1>1, <1>2, <1>6 DEF DocFacts, ChunkFacts
  <2> QED
    BY <2>1, <2>2 DEF DocFacts
<1>9. DocsEvolve
  BY <1>2 DEF DocsEvolve
<1>10. RequestFacts(q)' /\ ~Storing(q)'
  BY <1>3, IdleFacts
<1>11. \A p \in Requests \ {q} : Storing(p) /\ job[p].doc = NoDoc => draft'[q].doc # draft[p].doc
  <2>1. \A p \in Requests : Storing(p) => draft[p].doc \in Docs
    BY <1>1 DEF RequestFacts, UploadFacts
  <2> QED
    BY <1>3, <2>1, ConstantTypes DEF NoDraft
<1>12. \A p \in Requests \ {q} : pc[p] = "parse" => draft[p].object \in disk'
  BY <1>1, <1>2 DEF RequestFacts, UploadFacts
<1> QED
  BY <1>2, <1>3, <1>4, <1>7, <1>8, <1>9, <1>10, <1>11, <1>12, CommitStep

\* One version of one document is written.
LEMMA RowWritten ==
  ASSUME TypeOK, NEW d \in Docs, NEW n \in Numbers, NEW v \in VersionRow,
         row' = [row EXCEPT ![d][n] = v]
  PROVE  /\ row' \in [Docs -> [Numbers -> VersionRow]]
         /\ row'[d][n] = v
         /\ \A m \in Numbers \ {n} : row'[d][m] = row[d][m]
         /\ \A e \in Docs \ {d} : row'[e] = row[e]
BY DEF TypeOK

\* An upload commits its version: the next number of the document it locked,
\* or the first one of the document it made.
LEMMA InvCommits ==
  ASSUME Inv, NEW q \in Requests, NEW d \in Docs,
         pc[q] \in {"badfile", "store", "parse"}, draft[q].num \in Numbers,
         NEW status \in {"VALIDATION_FAILED", "PREVIEW_READY", "PARSING_FAILED"},
         NEW object \in Objects \cup {NoObject}, CommitVersion(q, d, status, object),
         minted' \in 0..MaxUploads, minted' >= minted, disk' \subseteq Objects,
         \A o \in disk : o \in disk' \/ (o[1] = d /\ \A n \in Numbers : row[d][n].object # o),
         object # NoObject => object[1] = d /\ object[2] <= minted /\ object \in disk',
         IF job[q].doc = NoDoc
         THEN docState[d] = "none" /\ \A p \in Requests \ {q} : draft[p].doc # d
         ELSE d = job[q].doc
  PROVE  Inv'
<1>1. /\ TypeOK /\ DocFacts(d) /\ RequestFacts(q) /\ \A p \in Requests : RequestFacts(p)
  BY DEF Inv, Facts
<1>2. PICK v : v = VersionOf(q, status, object)
  OBVIOUS
<1>3. PICK num \in Numbers : num = draft[q].num
  OBVIOUS
<1>4. /\ job[q].key \in Keys /\ job[q].file \in Files /\ job[q].doc \in Docs \cup {NoDoc}
      /\ IF job[q].doc = NoDoc THEN num = 1 ELSE Present(job[q].doc) = 1..(num - 1)
  <2>1. pc[q] \in UploadPcs
    BY DEF UploadPcs
  <2>2. job[q].kind = "upload" /\ (job[q].doc # NoDoc => Present(job[q].doc) = 1..(num - 1))
    BY <1>1, <1>3, <2>1 DEF RequestFacts, UploadFacts
  <2>3. job[q].doc = NoDoc => num = 1
    BY <1>1, <1>3, <2>1 DEF RequestFacts, UploadFacts
  <2>4. job[q].key \in Keys /\ job[q].file \in Files
    BY <1>1, <2>2 DEF RequestFacts, UploadFacts
  <2> QED
    BY <1>1, <2>2, <2>3, <2>4, RequestTypes
<1>5. v \in VersionRow /\ v.status = status /\ v.object = object
  BY <1>2, <1>4 DEF VersionOf, VersionRow, Statuses
<1>6. /\ row' = [row EXCEPT ![d][num] = v]
      /\ docState' = IF job[q].doc = NoDoc THEN [docState EXCEPT ![d] = "live"] ELSE docState
      /\ answers' = IF status = "PREVIEW_READY"
                    THEN [answers EXCEPT ![job[q].key] = @ \cup {<<job[q].file, job[q].doc>>}]
                    ELSE answers
      /\ Release(q) /\ EndRequest(q) /\ UNCHANGED <<current, chunk, faults>>
  BY <1>2, <1>3 DEF CommitVersion
<1>7. /\ row' \in [Docs -> [Numbers -> VersionRow]]
      /\ row'[d][num] = v
      /\ \A m \in Numbers \ {num} : row'[d][m] = row[d][m]
      /\ \A e \in Docs \ {d} : row'[e] = row[e]
  BY <1>1, <1>5, <1>6, RowWritten
<1>8. /\ job[q].doc = NoDoc => docState[d] = "none"
      /\ job[q].doc # NoDoc => docState[d] = "live" /\ docLock[d] = q
  BY <1>1 DEF RequestFacts, LockFacts, UploadPcs
<1>9. /\ docState' \in [Docs -> {"none", "live", "deleted"}] /\ docState'[d] = "live"
      /\ \A e \in Docs \ {d} : docState'[e] = docState[e]
  BY <1>1, <1>6, <1>8 DEF TypeOK
<1>10. /\ pc' \in [Requests -> ProgramCounters] /\ job' \in [Requests -> Job]
       /\ draft' \in [Requests -> Draft]
       /\ \A p \in Requests \ {q} : pc'[p] = pc[p] /\ job'[p] = job[p] /\ draft'[p] = draft[p]
       /\ pc'[q] = "idle" /\ job'[q] = NoJob /\ draft'[q] = NoDraft
  BY <1>1, <1>6, EndEffect
<1>11. /\ docLock' \in [Docs -> Requests \cup {NoRequest}]
       /\ chunkLock' \in [Docs -> Requests \cup {NoRequest}]
       /\ \A p \in Requests \ {q} : \A e \in Docs : docLock[e] = p => docLock'[e] = p
  BY <1>1, <1>6, ReleaseEffect
<1>12. answers' \in [Keys -> SUBSET (Files \X (Docs \cup {NoDoc}))]
  <2>1. answers \in [Keys -> SUBSET (Files \X (Docs \cup {NoDoc}))]
    BY <1>1 DEF TypeOK
  <2>2. PICK x \in Files \X (Docs \cup {NoDoc}) : x = <<job[q].file, job[q].doc>>
    BY <1>4
  <2>3. CASE status = "PREVIEW_READY"
    <3>1. PICK k : answers' = [answers EXCEPT ![k] = @ \cup {x}]
      BY <1>6, <2>2, <2>3
    <3> QED
      BY <2>1, <3>1, AnswersGrow
  <2>4. CASE status # "PREVIEW_READY"
    BY <1>6, <2>1, <2>4
  <2> QED
    BY <2>3, <2>4
<1>13. TypeOK'
  BY <1>1, <1>6, <1>7, <1>9, <1>10, <1>11, <1>12, ConstantTypes DEF TypeOK
<1>14. Present(d) = 1..(num - 1) /\ num \in Nat /\ num <= MaxVersions
  <2>1. CASE job[q].doc = NoDoc
    <3>1. PICK k \in 0..MaxVersions : Present(d) = 1..k /\ k = 0
      BY <1>1, <1>8, <2>1 DEF DocFacts, VersionFacts
    <3> QED
      BY <1>4, <2>1, <3>1, ConstantTypes
  <2>2. CASE job[q].doc # NoDoc
    BY <1>4, <2>2, ConstantTypes
  <2> QED
    BY <2>1, <2>2
<1>15. row[d][num].status = "none"
  <2>1. num \notin Present(d)
    BY <1>14
  <2> QED
    BY <2>1 DEF Present
<1>16. VersionFacts(d)'
  <2>1. Present(d)' = Present(d) \cup {num}
    BY <1>5, <1>7 DEF Present
  <2>2. Present(d)' = 1..num /\ num \in 0..MaxVersions /\ num # 0
    BY <1>14, <2>1, ConstantTypes
  <2>3. \E k \in 0..MaxVersions : Present(d)' = 1..k /\ (k = 0 <=> docState'[d] = "none")
    BY <1>9, <2>2
  <2>4. ASSUME NEW n \in Numbers
        PROVE  row'[d][n].status = "none" => row'[d][n] = NoVersion
    BY <1>1, <1>5, <1>7 DEF DocFacts, VersionFacts
  <2> QED
    BY <1>9, <2>3, <2>4 DEF VersionFacts
<1>17. FileFacts(d)'
  <2>0. minted \in Nat /\ minted' \in Nat
    BY <1>1, ConstantTypes DEF TypeOK
  <2>1. ASSUME NEW n \in Numbers \ {num}, row[d][n].object # NoObject
        PROVE  /\ row[d][n].object[1] = d /\ row[d][n].object[2] <= minted'
               /\ row[d][n].status # "DELETED" => row[d][n].object \in disk'
    <3>1. /\ row[d][n].object[1] = d /\ row[d][n].object[2] <= minted
          /\ row[d][n].status # "DELETED" => row[d][n].object \in disk
      BY <1>1, <2>1 DEF DocFacts, FileFacts
    <3>2. row[d][n].object[2] \in Nat
      BY <1>1, <2>1, VersionTypes, ObjectTypes, ConstantTypes
    <3> QED
      BY <2>0, <3>1, <3>2
  <2>2. object # NoObject => object[2] \in Nat
    BY ObjectTypes, ConstantTypes
  <2>3. ASSUME object # NoObject
        PROVE  object[1] = d /\ object[2] <= minted' /\ object \in disk'
    BY <2>0, <2>2, <2>3
  <2>4. ASSUME NEW n \in Numbers, row'[d][n].object # NoObject
        PROVE  /\ row'[d][n].object[1] = d /\ row'[d][n].object[2] <= minted'
               /\ row'[d][n].status # "DELETED" => row'[d][n].object \in disk'
    BY <1>5, <1>7, <2>1, <2>3, <2>4
  <2> QED
    BY <2>4 DEF FileFacts
<1>18. ChunkFacts(d)'
  <2>1. ChunkFacts(d) /\ current[d] \in 0..MaxVersions
    BY <1>1 DEF DocFacts, TypeOK
  <2>2. current[d] # num /\ chunk[d][num].status = "none"
    BY <1>15, <2>1, ConstantTypes DEF ChunkFacts
  <2>3. current[d] # 0 => current[d] \in Numbers \ {num} /\ row'[d][current[d]] = row[d][current[d]]
    BY <1>7, <2>1, <2>2, ConstantTypes
  <2>4. current'[d] # 0 => docState'[d] = "live" /\ row'[d][current'[d]].status = "APPROVED"
    BY <1>6, <1>9, <2>1, <2>3 DEF ChunkFacts
  <2>5. \A n \in Numbers : chunk[d][n].status # "none" => row'[d][n].status \in {"APPROVED", "DELETED"}
    BY <1>7, <2>1, <2>2 DEF ChunkFacts
  <2> QED
    BY <1>6, <2>1, <2>4, <2>5 DEF ChunkFacts
<1>19. RequestFacts(q)' /\ ~Storing(q)'
  BY <1>10, IdleFacts
<1>20. \A p \in Requests \ {q} : ~Holds(p, d)
  BY <1>8, Exclusive
<1>21. \A p \in Requests \ {q} : Storing(p) /\ job[p].doc = NoDoc => draft'[q].doc # draft[p].doc
  <2>1. \A p \in Requests : Storing(p) => draft[p].doc \in Docs
    BY <1>1 DEF RequestFacts, UploadFacts
  <2> QED
    BY <1>10, <2>1, ConstantTypes DEF NoDraft
<1>22. \A n \in Numbers : row[d][n].status # "none" => row'[d][n].status # "none"
  BY <1>7, <1>15
<1>23. \A e \in Docs \ {d} : /\ docState'[e] = docState[e] /\ current'[e] = current[e]
                             /\ row'[e] = row[e] /\ chunk'[e] = chunk[e]
  BY <1>6, <1>7, <1>9
<1>24. docState[d] # "deleted" /\ docState'[d] # "none" /\ DocFacts(d)'
  BY <1>8, <1>9, <1>16, <1>17, <1>18 DEF DocFacts
<1>25. \A o \in disk : o \in disk' \/ o[1] = d
  OBVIOUS
<1> QED
  BY <1>10, <1>11, <1>13, <1>19, <1>20, <1>21, <1>22, <1>23, <1>24, <1>25, WriteStep

\* The ways an upload ends with a version.
LEMMA InvUploadEnds ==
  ASSUME Inv, NEW q \in Requests,
         \/ \E d \in Docs : PersistValidationFailure(q, d)
         \/ ParseSucceeds(q)
         \/ \E done \in BOOLEAN : PutFails(q, done) \/ ParseFails(q, done)
  PROVE  Inv'
<1>1. /\ TypeOK /\ RequestFacts(q) /\ FreshFacts /\ minted \in 0..MaxUploads /\ disk \subseteq Objects
      /\ minted \in Nat
  BY ConstantTypes DEF Inv, Facts, TypeOK
<1>2. ASSUME NEW d \in Docs, PersistValidationFailure(q, d)
      PROVE  Inv'
  <2>1. /\ pc[q] = "badfile" /\ d \in Destinations(q) /\ draft[q].num \in Numbers
        /\ minted < MaxUploads /\ minted' = minted + 1 /\ disk' = disk
        /\ CommitVersion(q, d, "VALIDATION_FAILED", NoObject)
    BY <1>2 DEF PersistValidationFailure
  <2>2. minted' \in 0..MaxUploads /\ minted' >= minted
    BY <1>1, <2>1, ConstantTypes
  <2>3. IF job[q].doc = NoDoc
        THEN docState[d] = "none" /\ \A p \in Requests \ {q} : draft[p].doc # d
        ELSE d = job[q].doc
    BY <2>1 DEF Destinations
  <2> QED
    BY <1>1, <2>1, <2>2, <2>3, InvCommits
<1>3. ASSUME Storing(q)
      PROVE  /\ draft[q].num \in Numbers /\ draft[q].doc \in Docs
             /\ draft[q].object \in Objects
             /\ draft[q].object[1] = draft[q].doc /\ draft[q].object[2] <= minted
             /\ \A n \in Numbers : row[draft[q].doc][n].object # draft[q].object
             /\ IF job[q].doc = NoDoc
                THEN /\ docState[draft[q].doc] = "none"
                     /\ \A p \in Requests \ {q} : draft[p].doc # draft[q].doc
                ELSE draft[q].doc = job[q].doc
  <2>1. /\ draft[q].num \in Numbers /\ draft[q].doc \in Docs
        /\ \E i \in 1..minted : draft[q].object = <<draft[q].doc, i>>
        /\ \A n \in Numbers : row[draft[q].doc][n].object # draft[q].object
        /\ job[q].doc = NoDoc => docState[draft[q].doc] = "none"
        /\ job[q].doc # NoDoc => draft[q].doc = job[q].doc
    BY <1>1, <1>3 DEF RequestFacts, UploadFacts
  <2>2. PICK i \in 1..minted : draft[q].object = <<draft[q].doc, i>>
    BY <2>1
  <2>3. i \in 0..MaxUploads /\ i <= minted
    BY <1>1, ConstantTypes
  <2>4. draft[q].object \in Objects /\ draft[q].object[1] = draft[q].doc /\ draft[q].object[2] = i
    BY <2>1, <2>2, <2>3 DEF Objects
  <2>5. job[q].doc = NoDoc => \A p \in Requests \ {q} : draft[p].doc # draft[q].doc
    BY <1>1, <1>3 DEF FreshFacts
  <2> QED
    BY <2>1, <2>3, <2>4, <2>5
<1>4. PICK d, x : d = draft[q].doc /\ x = draft[q].object
  OBVIOUS
<1>5. ASSUME NEW done \in BOOLEAN, PutFails(q, done)
      PROVE  Inv'
  <2>1. /\ pc[q] = "store" /\ disk' = (IF done THEN disk \cup {x} ELSE disk)
        /\ CommitVersion(q, d, "VALIDATION_FAILED", NoObject) /\ minted' = minted
    BY <1>4, <1>5 DEF PutFails
  <2>2. Storing(q)
    BY <2>1 DEF Storing
  <2>3. disk' \subseteq Objects /\ disk \subseteq disk'
    BY <1>1, <1>3, <1>4, <2>1, <2>2
  <2>4. minted' \in 0..MaxUploads /\ minted' >= minted
    BY <1>1, <2>1
  <2> QED
    BY <1>3, <1>4, <2>1, <2>2, <2>3, <2>4, InvCommits
<1>6. CASE ParseSucceeds(q)
  <2>1. /\ pc[q] = "parse" /\ CommitVersion(q, d, "PREVIEW_READY", x)
        /\ disk' = disk /\ minted' = minted
    BY <1>4, <1>6 DEF ParseSucceeds, storeVars
  <2>2. Storing(q) /\ x \in disk
    BY <1>1, <1>4, <2>1 DEF Storing, RequestFacts, UploadFacts
  <2>3. minted' \in 0..MaxUploads /\ minted' >= minted
    BY <1>1, <2>1
  <2> QED
    BY <1>1, <1>3, <1>4, <2>1, <2>2, <2>3, InvCommits
<1>7. ASSUME NEW done \in BOOLEAN, ParseFails(q, done)
      PROVE  Inv'
  <2>1. PICK y : y = FailedObject(q, done)
    OBVIOUS
  <2>2. /\ pc[q] = "parse" /\ disk' = (IF done THEN disk \ {x} ELSE disk)
        /\ CommitVersion(q, d, "PARSING_FAILED", y) /\ minted' = minted
    BY <1>4, <1>7, <2>1 DEF ParseFails
  <2>3. Storing(q) /\ x \in disk
    BY <1>1, <1>4, <2>2 DEF Storing, RequestFacts, UploadFacts
  <2>4. minted' \in 0..MaxUploads /\ minted' >= minted /\ disk' \subseteq Objects
    BY <1>1, <2>2
  <2>5. /\ y \in Objects \cup {NoObject}
        /\ y # NoObject => y[1] = d /\ y[2] <= minted /\ y \in disk'
    BY <1>3, <1>4, <2>1, <2>2, <2>3 DEF FailedObject
  <2>6. \A o \in disk : o \in disk' \/ (o[1] = d /\ \A n \in Numbers : row[d][n].object # o)
    BY <1>3, <1>4, <2>2, <2>3
  <2> QED
    BY <1>3, <1>4, <2>2, <2>3, <2>4, <2>5, <2>6, InvCommits
<1> QED
  BY <1>2, <1>5, <1>6, <1>7

\* An approval: the version becomes the current one, and the chunks of all
\* others leave the index in the same commit.
LEMMA InvApproves ==
  ASSUME Inv, NEW q \in Requests, Approve(q)
  PROVE  Inv'
<1>0. PICK d, n : d = job[q].doc /\ n = job[q].num
  OBVIOUS
<1>1. TypeOK /\ RequestFacts(q) /\ \A p \in Requests : RequestFacts(p)
  BY DEF Inv, Facts
<1>2. /\ pc[q] = "embed" /\ row' = [row EXCEPT ![d][n].status = "APPROVED"]
      /\ current' = [current EXCEPT ![d] = n]
      /\ chunk' = [chunk EXCEPT ![d] = ReplaceActiveChunks(d, n)]
      /\ Release(q) /\ EndRequest(q) /\ UNCHANGED <<docState, disk, minted, faults, answers>>
  BY <1>0 DEF Approve, storeVars
<1>3. /\ d \in Docs /\ n \in Numbers /\ docLock[d] = q /\ docState[d] = "live"
      /\ row[d][n].status = "PREVIEW_READY"
  BY <1>0, <1>1, <1>2, RequestTypes DEF RequestFacts, LockFacts, Reviewed
<1>4. DocFacts(d)
  BY <1>3 DEF Inv, Facts
<1>5. PICK v : v = [row[d][n] EXCEPT !.status = "APPROVED"]
  OBVIOUS
<1>6. v \in VersionRow /\ v.status = "APPROVED" /\ v.object = row[d][n].object
  BY <1>1, <1>3, <1>5, VersionTypes DEF VersionRow, Statuses
<1>7. row' = [row EXCEPT ![d][n] = v]
  BY <1>1, <1>2, <1>3, <1>5 DEF TypeOK
<1>8. /\ row' \in [Docs -> [Numbers -> VersionRow]]
      /\ row'[d][n] = v
      /\ \A m \in Numbers \ {n} : row'[d][m] = row[d][m]
      /\ \A e \in Docs \ {d} : row'[e] = row[e]
  BY <1>1, <1>3, <1>6, <1>7, RowWritten
<1>9. /\ \A m \in Numbers \ {n} : chunk'[d][m] = Stale(chunk[d][m])
      /\ chunk'[d][n] = ReadyChunks("APPROVED")
      /\ \A e \in Docs \ {d} : chunk'[e] = chunk[e]
  BY <1>1, <1>2, <1>3 DEF TypeOK, ReplaceActiveChunks
<1>10. ASSUME NEW m \in Numbers \ {n}
       PROVE  /\ chunk'[d][m] \in ChunkRow /\ ~chunk'[d][m].active
              /\ chunk'[d][m].vector \notin {"READY", "PENDING"}
              /\ chunk'[d][m].status = chunk[d][m].status
  <2>1. chunk[d][m] \in ChunkRow
    BY <1>1, <1>3, VersionTypes
  <2>2. chunk[d][m].status = "none" =>
          ~chunk[d][m].active /\ chunk[d][m].vector \notin {"READY", "PENDING"}
    BY <1>4 DEF DocFacts, ChunkFacts
  <2>3. CASE chunk[d][m].status = "none"
    BY <1>9, <2>1, <2>2, <2>3 DEF Stale
  <2>4. CASE chunk[d][m].status # "none"
    BY <1>9, <2>1, <2>4 DEF Stale, ChunkRow
  <2> QED
    BY <2>3, <2>4
<1>11. /\ chunk'[d][n] \in ChunkRow /\ chunk'[d][n].active /\ ~chunk'[d][n].deleted
       /\ chunk'[d][n].vector = "READY" /\ chunk'[d][n].status = "APPROVED"
  BY <1>9 DEF ReadyChunks, ChunkRow
<1>12. chunk' \in [Docs -> [Numbers -> ChunkRow]]
  <2>1. ReplaceActiveChunks(d, n) \in [Numbers -> ChunkRow]
    <3>1. ReplaceActiveChunks(d, n) = [m \in Numbers |-> chunk'[d][m]]
      BY <1>3, <1>9 DEF ReplaceActiveChunks
    <3> QED
      BY <1>10, <1>11, <3>1
  <2> QED
    BY <1>1, <1>2, <1>3, <2>1 DEF TypeOK
<1>13. /\ pc' \in [Requests -> ProgramCounters] /\ job' \in [Requests -> Job]
       /\ draft' \in [Requests -> Draft]
       /\ \A p \in Requests \ {q} : pc'[p] = pc[p] /\ job'[p] = job[p] /\ draft'[p] = draft[p]
       /\ pc'[q] = "idle" /\ job'[q] = NoJob /\ draft'[q] = NoDraft
  BY <1>1, <1>2, EndEffect
<1>14. /\ docLock' \in [Docs -> Requests \cup {NoRequest}]
       /\ chunkLock' \in [Docs -> Requests \cup {NoRequest}]
       /\ \A p \in Requests \ {q} : \A e \in Docs : docLock[e] = p => docLock'[e] = p
  BY <1>1, <1>2, ReleaseEffect
<1>15. /\ current' \in [Docs -> 0..MaxVersions] /\ current'[d] = n
       /\ \A e \in Docs \ {d} : current'[e] = current[e]
  BY <1>1, <1>2, <1>3, ConstantTypes DEF TypeOK
<1>16. TypeOK' /\ minted' >= minted
  BY <1>1, <1>2, <1>8, <1>12, <1>13, <1>14, <1>15, ConstantTypes DEF TypeOK
<1>17. VersionFacts(d)'
  <2>1. Present(d)' = Present(d)
    BY <1>3, <1>6, <1>8 DEF Present
  <2>2. \A m \in Numbers : row'[d][m].status = "none" => row'[d][m] = NoVersion
    BY <1>4, <1>6, <1>8 DEF DocFacts, VersionFacts
  <2> QED
    BY <1>2, <1>3, <1>4, <2>1, <2>2 DEF DocFacts, VersionFacts
<1>18. FileFacts(d)'
  <2>1. ASSUME NEW m \in Numbers
        PROVE  /\ row'[d][m].object = row[d][m].object
               /\ row'[d][m].status # "DELETED" => row[d][m].status # "DELETED"
    BY <1>3, <1>6, <1>8
  <2> QED
    BY <1>2, <1>4, <2>1 DEF DocFacts, FileFacts
<1>19. ChunkFacts(d)'
  <2>1. current'[d] # 0 => docState'[d] = "live" /\ row'[d][current'[d]].status = "APPROVED"
    BY <1>2, <1>3, <1>6, <1>8, <1>15
  <2>2. ASSUME NEW m \in Numbers
        PROVE  /\ chunk'[d][m].active <=> current'[d] = m
               /\ chunk'[d][m].active => chunk'[d][m].status = "APPROVED" /\ ~chunk'[d][m].deleted
               /\ chunk'[d][m].vector \in {"READY", "PENDING"} <=> chunk'[d][m].active
               /\ chunk'[d][m].status # "none" => row'[d][m].status \in {"APPROVED", "DELETED"}
    <3>1. CASE m = n
      BY <1>6, <1>8, <1>11, <1>15, <3>1
    <3>2. CASE m # n
      BY <1>4, <1>8, <1>10, <1>15, <3>2 DEF DocFacts, ChunkFacts
    <3> QED
      BY <3>1, <3>2
  <2> QED
    BY <2>1, <2>2 DEF ChunkFacts
<1>20. RequestFacts(q)' /\ ~Storing(q)'
  BY <1>13, IdleFacts
<1>21. \A p \in Requests \ {q} : ~Holds(p, d)
  BY <1>3, Exclusive
<1>22. \A p \in Requests \ {q} : Storing(p) /\ job[p].doc = NoDoc => draft'[q].doc # draft[p].doc
  <2>1. \A p \in Requests : Storing(p) => draft[p].doc \in Docs
    BY <1>1 DEF RequestFacts, UploadFacts
  <2> QED
    BY <1>13, <2>1, ConstantTypes DEF NoDraft
<1>23. /\ \A m \in Numbers : row[d][m].status # "none" => row'[d][m].status # "none"
       /\ docState[d] # "deleted" /\ docState'[d] # "none" /\ DocFacts(d)'
  BY <1>2, <1>3, <1>6, <1>8, <1>17, <1>18, <1>19 DEF DocFacts
<1>24. \A e \in Docs \ {d} : /\ docState'[e] = docState[e] /\ current'[e] = current[e]
                             /\ row'[e] = row[e] /\ chunk'[e] = chunk[e]
  BY <1>2, <1>8, <1>9, <1>15
<1>25. \A o \in disk : o \in disk' \/ o[1] = d
  BY <1>2
<1> QED
  BY <1>3, <1>13, <1>14, <1>16, <1>20, <1>21, <1>22, <1>23, <1>24, <1>25, WriteStep

\* A rejection: the version was never indexed.
LEMMA InvRejects ==
  ASSUME Inv, NEW q \in Requests, Reject(q)
  PROVE  Inv'
<1>0. PICK d, n : d = job[q].doc /\ n = job[q].num
  OBVIOUS
<1>1. TypeOK /\ RequestFacts(q) /\ \A p \in Requests : RequestFacts(p)
  BY DEF Inv, Facts
<1>2. /\ pc[q] = "review" /\ job[q].kind = "reject" /\ Reviewable(q, row[d][n].status)
      /\ row' = [row EXCEPT ![d][n].status = "REJECTED"]
      /\ chunk' = [chunk EXCEPT ![d][n] = WithStatus(@, "REJECTED", FALSE)]
      /\ Release(q) /\ EndRequest(q)
      /\ UNCHANGED <<docState, current, disk, minted, faults, answers>>
  BY <1>0 DEF Reject, storeVars, Reviewed
<1>3. /\ d \in Docs /\ n \in Numbers /\ docLock[d] = q /\ docState[d] = "live"
      /\ row[d][n].status # "none"
  BY <1>0, <1>1, <1>2, RequestTypes, ConstantTypes DEF RequestFacts, LockFacts, Reviewed
<1>4. DocFacts(d) /\ row[d][n].status = "PREVIEW_READY"
  <2>1. row[d][n].status \in Statuses
    BY <1>1, <1>3, VersionTypes
  <2>2. row[d][n].status = "PREVIEW_READY"
    BY <1>2, <2>1 DEF Reviewable, Verdict, AllowedTransitions, Statuses
  <2> QED
    BY <1>3, <2>2 DEF Inv, Facts
<1>5. PICK v : v = [row[d][n] EXCEPT !.status = "REJECTED"]
  OBVIOUS
<1>6. v \in VersionRow /\ v.status = "REJECTED" /\ v.object = row[d][n].object
  BY <1>1, <1>3, <1>5, VersionTypes DEF VersionRow, Statuses
<1>7. row' = [row EXCEPT ![d][n] = v]
  BY <1>1, <1>2, <1>3, <1>5 DEF TypeOK
<1>8. /\ row' \in [Docs -> [Numbers -> VersionRow]]
      /\ row'[d][n] = v
      /\ \A m \in Numbers \ {n} : row'[d][m] = row[d][m]
      /\ \A e \in Docs \ {d} : row'[e] = row[e]
  BY <1>1, <1>3, <1>6, <1>7, RowWritten
<1>9. chunk' = chunk
  <2>1. chunk[d][n].status = "none"
    BY <1>3, <1>4 DEF DocFacts, ChunkFacts
  <2>2. WithStatus(chunk[d][n], "REJECTED", FALSE) = chunk[d][n]
    BY <2>1 DEF WithStatus
  <2> QED
    BY <1>1, <1>2, <1>3, <2>2 DEF TypeOK
<1>10. /\ pc' \in [Requests -> ProgramCounters] /\ job' \in [Requests -> Job]
       /\ draft' \in [Requests -> Draft]
       /\ \A p \in Requests \ {q} : pc'[p] = pc[p] /\ job'[p] = job[p] /\ draft'[p] = draft[p]
       /\ pc'[q] = "idle" /\ job'[q] = NoJob /\ draft'[q] = NoDraft
  BY <1>1, <1>2, EndEffect
<1>11. /\ docLock' \in [Docs -> Requests \cup {NoRequest}]
       /\ chunkLock' \in [Docs -> Requests \cup {NoRequest}]
       /\ \A p \in Requests \ {q} : \A e \in Docs : docLock[e] = p => docLock'[e] = p
  BY <1>1, <1>2, ReleaseEffect
<1>12. TypeOK' /\ minted' >= minted
  <2>1. /\ chunk' \in [Docs -> [Numbers -> ChunkRow]] /\ current' \in [Docs -> 0..MaxVersions]
        /\ docState' \in [Docs -> {"none", "live", "deleted"}] /\ disk' \subseteq Objects
    BY <1>1, <1>2, <1>9 DEF TypeOK
  <2>2. /\ minted' \in 0..MaxUploads /\ minted' >= minted /\ faults' \in 0..MaxFaults
        /\ answers' \in [Keys -> SUBSET (Files \X (Docs \cup {NoDoc}))]
    BY <1>1, <1>2, ConstantTypes DEF TypeOK
  <2> QED
    BY <1>8, <1>10, <1>11, <2>1, <2>2 DEF TypeOK
<1>13. VersionFacts(d)'
  <2>1. Present(d)' = Present(d)
    BY <1>3, <1>6, <1>8 DEF Present
  <2>2. \A m \in Numbers : row'[d][m].status = "none" => row'[d][m] = NoVersion
    BY <1>4, <1>6, <1>8 DEF DocFacts, VersionFacts
  <2> QED
    BY <1>2, <1>3, <1>4, <2>1, <2>2 DEF DocFacts, VersionFacts
<1>14. FileFacts(d)'
  <2>1. ASSUME NEW m \in Numbers
        PROVE  /\ row'[d][m].object = row[d][m].object
               /\ row'[d][m].status # "DELETED" => row[d][m].status # "DELETED"
    BY <1>4, <1>6, <1>8
  <2> QED
    BY <1>2, <1>4, <2>1 DEF DocFacts, FileFacts
<1>15. ChunkFacts(d)'
  <2>1. ChunkFacts(d) /\ current[d] \in 0..MaxVersions
    BY <1>1, <1>3, <1>4 DEF DocFacts, TypeOK
  <2>2. current[d] # n /\ chunk[d][n].status = "none"
    BY <1>3, <1>4, <2>1, ConstantTypes DEF ChunkFacts
  <2>3. current[d] # 0 => row'[d][current[d]] = row[d][current[d]]
    BY <1>8, <2>1, <2>2, ConstantTypes
  <2>4. \A m \in Numbers : chunk[d][m].status # "none" => row'[d][m].status \in {"APPROVED", "DELETED"}
    BY <1>8, <2>1, <2>2 DEF ChunkFacts
  <2>5. current'[d] # 0 => docState'[d] = "live" /\ row'[d][current'[d]].status = "APPROVED"
    BY <1>2, <2>1, <2>3 DEF ChunkFacts
  <2>6. chunk'[d] = chunk[d] /\ current'[d] = current[d]
    BY <1>2, <1>9
  <2> QED
    BY <2>1, <2>4, <2>5, <2>6 DEF ChunkFacts
<1>16. RequestFacts(q)' /\ ~Storing(q)'
  BY <1>10, IdleFacts
<1>17. \A p \in Requests \ {q} : ~Holds(p, d)
  BY <1>3, Exclusive
<1>18. \A p \in Requests \ {q} : Storing(p) /\ job[p].doc = NoDoc => draft'[q].doc # draft[p].doc
  <2>1. \A p \in Requests : Storing(p) => draft[p].doc \in Docs
    BY <1>1 DEF RequestFacts, UploadFacts
  <2> QED
    BY <1>10, <2>1, ConstantTypes DEF NoDraft
<1>19. /\ \A m \in Numbers : row[d][m].status # "none" => row'[d][m].status # "none"
       /\ docState[d] # "deleted" /\ docState'[d] # "none" /\ DocFacts(d)'
  BY <1>2, <1>3, <1>6, <1>8, <1>13, <1>14, <1>15 DEF DocFacts
<1>20. \A e \in Docs \ {d} : /\ docState'[e] = docState[e] /\ current'[e] = current[e]
                             /\ row'[e] = row[e] /\ chunk'[e] = chunk[e]
  BY <1>2, <1>8, <1>9
<1>21. \A o \in disk : o \in disk' \/ o[1] = d
  BY <1>2
<1> QED
  BY <1>3, <1>10, <1>11, <1>12, <1>16, <1>17, <1>18, <1>19, <1>20, <1>21, WriteStep

\* A deletion takes the document, its versions and its chunks away in one
\* commit; its files are then nobody's.
LEMMA InvDeletes ==
  ASSUME Inv, NEW q \in Requests, DeleteRows(q)
  PROVE  Inv'
<1>0. PICK d : d = job[q].doc
  OBVIOUS
<1>1. TypeOK /\ RequestFacts(q) /\ draft[q] \in Draft /\ FreshFacts
  BY DEF Inv, Facts, TypeOK
<1>2. PICK x : x = [draft[q] EXCEPT !.unlink = ObjectsOf(d)]
  OBVIOUS
<1>3. /\ pc[q] = "delete"
      /\ row' = [row EXCEPT ![d] = [n \in Numbers |-> DeletedRow(row[d][n])]]
      /\ docState' = [docState EXCEPT ![d] = "deleted"]
      /\ current' = [current EXCEPT ![d] = 0]
      /\ chunk' = [chunk EXCEPT ![d] = DeactivateDocumentChunks(d)]
      /\ Release(q) /\ UNCHANGED <<job, disk, minted, faults, answers>>
      /\ draft' = [draft EXCEPT ![q] = x] /\ pc' = [pc EXCEPT ![q] = "unlink"]
  BY <1>0, <1>2 DEF DeleteRows, storeVars, Goto
<1>4. d \in Docs /\ docLock[d] = q /\ docState[d] = "live"
  BY <1>0, <1>1, <1>3, RequestTypes DEF RequestFacts, LockFacts
<1>5. DocFacts(d)
  BY <1>4 DEF Inv, Facts
<1>6. ASSUME NEW n \in Numbers
      PROVE  /\ row'[d][n] = DeletedRow(row[d][n]) /\ row'[d][n] \in VersionRow
             /\ row'[d][n].object = row[d][n].object
             /\ row[d][n].status = "none" => row'[d][n] = row[d][n]
             /\ row[d][n].status # "none" => row'[d][n].status = "DELETED"
  <2>1. row[d][n] \in VersionRow
    BY <1>1, <1>4, VersionTypes
  <2>2. row'[d][n] = DeletedRow(row[d][n])
    BY <1>1, <1>3, <1>4 DEF TypeOK
  <2> QED
    BY <2>1, <2>2 DEF DeletedRow, VersionRow, Statuses
<1>7. ASSUME NEW n \in Numbers
      PROVE  /\ chunk'[d][n] \in ChunkRow /\ ~chunk'[d][n].active
             /\ chunk'[d][n].vector \notin {"READY", "PENDING"}
             /\ chunk'[d][n].status # "none" => chunk[d][n].status # "none"
  <2>1. chunk[d][n] \in ChunkRow
    BY <1>1, <1>4, VersionTypes
  <2>2. chunk[d][n].status = "none" =>
          ~chunk[d][n].active /\ chunk[d][n].vector \notin {"READY", "PENDING"}
    BY <1>5 DEF DocFacts, ChunkFacts
  <2>3. chunk'[d][n] = WithStatus(chunk[d][n], "DELETED", TRUE)
    BY <1>1, <1>3, <1>4 DEF TypeOK, DeactivateDocumentChunks
  <2>4. CASE chunk[d][n].status = "none"
    BY <2>1, <2>2, <2>3, <2>4 DEF WithStatus
  <2>5. CASE chunk[d][n].status # "none"
    <3>1. PICK c : c = Stale(chunk[d][n])
      OBVIOUS
    <3>2. c \in ChunkRow /\ ~c.active /\ c.vector = "STALE"
      BY <2>1, <2>5, <3>1 DEF Stale, ChunkRow
    <3>3. chunk'[d][n] = [c EXCEPT !.status = "DELETED", !.deleted = TRUE]
      BY <2>3, <2>5, <3>1 DEF WithStatus
    <3> QED
      BY <2>5, <3>2, <3>3 DEF ChunkRow
  <2> QED
    BY <2>4, <2>5
<1>8. /\ \A e \in Docs \ {d} : /\ docState'[e] = docState[e] /\ current'[e] = current[e]
                               /\ row'[e] = row[e] /\ chunk'[e] = chunk[e]
      /\ docState'[d] = "deleted" /\ current'[d] = 0
  BY <1>1, <1>3, <1>4 DEF TypeOK
<1>9. ObjectsOf(d) \subseteq Objects /\ \A o \in ObjectsOf(d) : o[1] = d
  <2>1. ASSUME NEW o \in ObjectsOf(d) PROVE o \in Objects /\ o[1] = d
    <3>1. PICK n \in Numbers : o = row[d][n].object /\ o # NoObject
      BY <2>1 DEF ObjectsOf
    <3> QED
      BY <1>1, <1>4, <1>5, <3>1, VersionTypes DEF DocFacts, FileFacts
  <2> QED
    BY <2>1
<1>10. /\ x \in Draft /\ x.doc = draft[q].doc /\ x.accepted = draft[q].accepted
       /\ x.unlink = ObjectsOf(d)
  <2>1. PICK S \in SUBSET Objects : S = ObjectsOf(d)
    BY <1>9
  <2>2. x = [draft[q] EXCEPT !.unlink = S]
    BY <1>2, <2>1
  <2> QED
    BY <1>1, <2>1, <2>2 DEF Draft
<1>11. /\ pc' \in [Requests -> ProgramCounters] /\ pc'[q] = "unlink"
       /\ \A p \in Requests \ {q} : pc'[p] = pc[p]
  BY <1>1, <1>3 DEF TypeOK, ProgramCounters
<1>12. /\ draft' \in [Requests -> Draft] /\ draft'[q] = x
       /\ \A p \in Requests \ {q} : draft'[p] = draft[p]
  BY <1>1, <1>3, <1>10 DEF TypeOK
<1>13. /\ docLock' \in [Docs -> Requests \cup {NoRequest}]
       /\ chunkLock' \in [Docs -> Requests \cup {NoRequest}]
       /\ \A p \in Requests \ {q} : \A e \in Docs : docLock[e] = p => docLock'[e] = p
  BY <1>1, <1>3, ReleaseEffect
<1>14. TypeOK' /\ minted' >= minted
  <2>1. row' \in [Docs -> [Numbers -> VersionRow]]
    <3>1. [n \in Numbers |-> DeletedRow(row[d][n])] \in [Numbers -> VersionRow]
      BY <1>6
    <3> QED
      BY <1>1, <1>3, <1>4, <3>1 DEF TypeOK
  <2>2. chunk' \in [Docs -> [Numbers -> ChunkRow]]
    <3>1. DeactivateDocumentChunks(d) = [n \in Numbers |-> chunk'[d][n]]
      BY <1>1, <1>3, <1>4 DEF TypeOK, DeactivateDocumentChunks
    <3>2. DeactivateDocumentChunks(d) \in [Numbers -> ChunkRow]
      BY <1>7, <3>1
    <3> QED
      BY <1>1, <1>3, <1>4, <3>2 DEF TypeOK
  <2>3. /\ docState' \in [Docs -> {"none", "live", "deleted"}]
        /\ current' \in [Docs -> 0..MaxVersions]
    BY <1>1, <1>3, <1>4, ConstantTypes DEF TypeOK
  <2>4. /\ minted' \in 0..MaxUploads /\ minted' >= minted /\ faults' \in 0..MaxFaults
        /\ answers' \in [Keys -> SUBSET (Files \X (Docs \cup {NoDoc}))]
        /\ disk' \subseteq Objects /\ job' \in [Requests -> Job]
    BY <1>1, <1>3, ConstantTypes DEF TypeOK
  <2> QED
    BY <1>11, <1>12, <1>13, <2>1, <2>2, <2>3, <2>4 DEF TypeOK
<1>15. VersionFacts(d)'
  <2>1. Present(d)' = Present(d)
    BY <1>6 DEF Present
  <2>2. \A m \in Numbers : /\ row'[d][m].status = "none" => row'[d][m] = NoVersion
                           /\ row'[d][m].status \in {"none", "DELETED"}
    BY <1>5, <1>6 DEF DocFacts, VersionFacts
  <2> QED
    BY <1>4, <1>5, <1>8, <2>1, <2>2 DEF DocFacts, VersionFacts
<1>16. FileFacts(d)'
  <2>1. ASSUME NEW n \in Numbers, row'[d][n].object # NoObject
        PROVE  /\ row'[d][n].object[1] = d /\ row'[d][n].object[2] <= minted'
               /\ row'[d][n].status # "DELETED" => row'[d][n].object \in disk'
    <3>1. NoVersion.object = NoObject
      BY DEF NoVersion
    <3>2. row[d][n].status # "none"
      BY <1>5, <1>6, <2>1, <3>1 DEF DocFacts, VersionFacts
    <3> QED
      BY <1>3, <1>5, <1>6, <2>1, <3>2 DEF DocFacts, FileFacts
  <2> QED
    BY <2>1 DEF FileFacts
<1>17. ChunkFacts(d)'
  <2>1. ASSUME NEW n \in Numbers
        PROVE  chunk'[d][n].status # "none" => row'[d][n].status \in {"APPROVED", "DELETED"}
    BY <1>5, <1>6, <1>7 DEF DocFacts, ChunkFacts
  <2>2. \A n \in Numbers : ~(current'[d] = n)
    BY <1>8, ConstantTypes
  <2> QED
    BY <1>7, <1>8, <2>1, <2>2 DEF ChunkFacts
<1>18. \A n \in Numbers : row[d][n].status # "none" => row'[d][n].status # "none"
  BY <1>6
<1>19. LockFacts(q)'
  <2>1. job'[q] = job[q] /\ job[q].num \in 0..MaxVersions /\ job[q].doc = d
    BY <1>0, <1>1, <1>3, RequestTypes
  <2>2. job[q].num # 0 => row'[d][job[q].num].status # "none"
    BY <1>1, <1>18, <2>1, ConstantTypes DEF RequestFacts, LockFacts
  <2> QED
    BY <1>1, <1>4, <1>8, <1>11, <2>1, <2>2, ConstantTypes DEF RequestFacts, LockFacts, UploadPcs
<1>20. UploadFacts(q)' /\ ~Storing(q)'
  BY <1>1, <1>3, <1>10, <1>11, <1>12 DEF RequestFacts, UploadFacts, UploadPcs, Storing
<1>21. UnlinkFacts(q)'
  BY <1>8, <1>9, <1>10, <1>12 DEF UnlinkFacts
<1>22. \A p \in Requests \ {q} : ~Holds(p, d)
  BY <1>4, Exclusive
<1>23. \A p \in Requests \ {q} : Storing(p) /\ job[p].doc = NoDoc => draft'[q].doc # draft[p].doc
  BY <1>1, <1>10, <1>12 DEF FreshFacts
<1>24. /\ docState[d] # "deleted" /\ docState'[d] # "none" /\ DocFacts(d)' /\ RequestFacts(q)'
  BY <1>4, <1>8, <1>15, <1>16, <1>17, <1>19, <1>20, <1>21 DEF DocFacts, RequestFacts
<1>25. \A o \in disk : o \in disk' \/ o[1] = d
  BY <1>3
<1>26. \A p \in Requests \ {q} : pc'[p] = pc[p] /\ job'[p] = job[p] /\ draft'[p] = draft[p]
  BY <1>3, <1>11, <1>12
<1> QED
  BY <1>4, <1>8, <1>13, <1>14, <1>18, <1>20, <1>22, <1>23, <1>24, <1>25, <1>26, WriteStep

-----------------------------------------------------------------------------
(***************************************************************************)
(* The invariant, and the safety properties it implies.                    *)
(***************************************************************************)

\* The database after the migration satisfies the invariant.
LEMMA InvInit == Init => Inv
<1> SUFFICES ASSUME Init PROVE Inv
  OBVIOUS
<1>1. LegacyRow = [status |-> "APPROVED", key |-> NoKey, file |-> NoFile,
                   target |-> NoDoc, object |-> NoObject]
  BY DEF LegacyRow, NoVersion
<1> DEFINE R(d) == [status |-> "APPROVED", key |-> NoKey, file |-> NoFile,
                    target |-> NoDoc, object |-> <<d, 0>>]
<1>2. ASSUME NEW d \in Docs
      PROVE  /\ R(d) = [LegacyRow EXCEPT !.object = <<d, 0>>] /\ R(d) \in VersionRow
             /\ R(d).status = "APPROVED" /\ R(d).object = <<d, 0>> /\ <<d, 0>> \in Objects
  <2>1. <<d, 0>> \in Objects
    BY ConstantTypes DEF Objects
  <2> QED
    BY <1>1, <2>1 DEF VersionRow, Statuses
<1> HIDE DEF R
<1>3. /\ NoVersion \in VersionRow /\ NoVersion.status = "none" /\ NoVersion.object = NoObject
  BY DEF NoVersion, VersionRow
<1>4. /\ NoChunks \in ChunkRow /\ LegacyChunks \in ChunkRow
      /\ NoChunks.status = "none" /\ ~NoChunks.active /\ NoChunks.vector = "none"
      /\ LegacyChunks.status = "APPROVED" /\ LegacyChunks.active /\ ~LegacyChunks.deleted
      /\ LegacyChunks.vector = "PENDING"
  BY DEF NoChunks, LegacyChunks, ChunkRow
<1>5. /\ row = [d \in Docs |-> [n \in Numbers |-> IF d \in Legacy /\ n = 1 THEN R(d) ELSE NoVersion]]
  BY <1>2 DEF Init
<1>6. TypeOK
  <2>1. NoJob \in Job /\ NoDraft \in Draft /\ "idle" \in ProgramCounters
    BY ConstantTypes DEF NoJob, Job, Kinds, NoDraft, Draft, ProgramCounters
  <2>2. row \in [Docs -> [Numbers -> VersionRow]]
    BY <1>2, <1>3, <1>5
  <2>3. chunk \in [Docs -> [Numbers -> ChunkRow]]
    BY <1>4 DEF Init
  <2>4. pc \in [Requests -> ProgramCounters] /\ job \in [Requests -> Job] /\ draft \in [Requests -> Draft]
    BY <2>1 DEF Init
  <2>5. disk \subseteq Objects
    BY <1>2, ConstantTypes DEF Init
  <2>6. /\ docState \in [Docs -> {"none", "live", "deleted"}] /\ current \in [Docs -> 0..MaxVersions]
        /\ minted \in 0..MaxUploads /\ faults \in 0..MaxFaults
        /\ answers \in [Keys -> SUBSET (Files \X (Docs \cup {NoDoc}))]
        /\ docLock \in [Docs -> Requests \cup {NoRequest}]
        /\ chunkLock \in [Docs -> Requests \cup {NoRequest}]
    BY ConstantTypes DEF Init
  <2> QED
    BY <2>2, <2>3, <2>4, <2>5, <2>6 DEF TypeOK
<1>7. 1 \in Numbers
  BY ConstantTypes
<1>8. ASSUME NEW d \in Docs
      PROVE  DocFacts(d)
  <2>1. CASE d \in Legacy
    <3>1. /\ docState[d] = "live" /\ current[d] = 1 /\ row[d][1] = R(d) /\ minted = 0
          /\ \A n \in Numbers \ {1} : row[d][n] = NoVersion /\ chunk[d][n] = NoChunks
          /\ chunk[d][1] = LegacyChunks /\ <<d, 0>> \in disk
      BY <1>5, <1>7, <2>1 DEF Init
    <3>2. Present(d) = 1..1 /\ 1 \in 0..MaxVersions
      BY <1>2, <1>3, <1>7, <3>1, ConstantTypes DEF Present
    <3>3. VersionFacts(d)
      BY <1>2, <3>1, <3>2 DEF VersionFacts
    <3>4. FileFacts(d)
      BY <1>2, <1>3, <3>1 DEF FileFacts
    <3>5. ChunkFacts(d)
      <4>1. current[d] # 0 => docState[d] = "live" /\ row[d][current[d]].status = "APPROVED"
        BY <1>2, <3>1
      <4>2. ASSUME NEW n \in Numbers
            PROVE  /\ chunk[d][n].active <=> current[d] = n
                   /\ chunk[d][n].active => chunk[d][n].status = "APPROVED" /\ ~chunk[d][n].deleted
                   /\ chunk[d][n].vector \in {"READY", "PENDING"} <=> chunk[d][n].active
                   /\ chunk[d][n].status # "none" => row[d][n].status \in {"APPROVED", "DELETED"}
        <5>1. CASE n = 1
          BY <1>2, <1>4, <3>1, <5>1
        <5>2. CASE n # 1
          BY <1>4, <3>1, <5>2
        <5> QED
          BY <5>1, <5>2
      <4> QED
        BY <4>1, <4>2 DEF ChunkFacts
    <3> QED
      BY <3>3, <3>4, <3>5 DEF DocFacts
  <2>2. CASE d \notin Legacy
    <3>1. /\ docState[d] = "none" /\ current[d] = 0
          /\ \A n \in Numbers : row[d][n] = NoVersion /\ chunk[d][n] = NoChunks
      BY <1>5, <2>2 DEF Init
    <3>2. Present(d) = 1..0 /\ 0 \in 0..MaxVersions
      BY <1>3, <3>1, ConstantTypes DEF Present
    <3>3. VersionFacts(d)
      BY <3>1, <3>2 DEF VersionFacts
    <3>4. FileFacts(d)
      BY <1>3, <3>1 DEF FileFacts
    <3>5. ChunkFacts(d)
      BY <1>4, <3>1, ConstantTypes DEF ChunkFacts
    <3> QED
      BY <3>3, <3>4, <3>5 DEF DocFacts
  <2> QED
    BY <2>1, <2>2
<1>9. ASSUME NEW q \in Requests
      PROVE  RequestFacts(q) /\ ~Storing(q)
  BY DEF Init, RequestFacts, LockFacts, UploadFacts, UnlinkFacts, Storing, UploadPcs, NoJob, NoDraft
<1> QED
  BY <1>6, <1>8, <1>9 DEF Inv, Facts, FreshFacts

\* A step that changes nothing.
LEMMA InvStutters ==
  ASSUME Inv, UNCHANGED vars
  PROVE  Inv'
<1>1. /\ UNCHANGED <<docState, current, row, chunk, docLock, chunkLock, disk, minted>>
      /\ UNCHANGED <<pc, job, draft, faults, answers>>
  BY DEF vars, rowVars, lockVars, storeVars
<1>2. TypeOK'
  BY <1>1 DEF Inv, TypeOK
<1>3. \A d \in Docs : DocFacts(d)'
  BY <1>1 DEF Inv, Facts, DocFacts, VersionFacts, FileFacts, ChunkFacts, Present
<1>4. ASSUME NEW q \in Requests
      PROVE  RequestFacts(q)'
  <2>1. RequestFacts(q)
    BY DEF Inv, Facts
  <2>2. LockFacts(q)' /\ UnlinkFacts(q)'
    BY <1>1, <2>1 DEF RequestFacts, LockFacts, UnlinkFacts, Reviewed
  <2>3. UploadFacts(q)'
    BY <1>1, <2>1 DEF RequestFacts, UploadFacts, Storing, Present
  <2> QED
    BY <2>2, <2>3 DEF RequestFacts
<1>5. FreshFacts'
  BY <1>1 DEF Inv, Facts, FreshFacts, Storing
<1> QED
  BY <1>2, <1>3, <1>4, <1>5 DEF Inv, Facts

\* Every step of every request keeps the invariant.
LEMMA InvNext == Inv /\ [Next]_vars => Inv'
<1> SUFFICES ASSUME Inv, [Next]_vars PROVE Inv'
  OBVIOUS
<1>1. CASE UNCHANGED vars
  BY <1>1, InvStutters
<1>2. ASSUME NEW q \in Requests, NEW kind \in Offered, NEW j \in JobsOf(kind), Receive(q, j)
      PROVE  Inv'
  BY <1>2, InvReceives
<1>3. ASSUME NEW q \in Requests, LockDocument(q) \/ Audit(q) \/ Lose(q)
      PROVE  Inv'
  BY <1>3, InvLocks, InvEnds
<1>4. ASSUME NEW q \in Requests, UploadSteps(q)
      PROVE  Inv'
  BY <1>4, InvAudits, InvMoves, InvInserts, InvEnds, InvUploadEnds DEF UploadSteps
<1>5. ASSUME NEW q \in Requests, ReviewSteps(q)
      PROVE  Inv'
  BY <1>5, InvAudits, InvMoves, InvApproves, InvRejects DEF ReviewSteps
<1>6. ASSUME NEW q \in Requests, OtherSteps(q)
      PROVE  Inv'
  BY <1>6, InvEnds, InvDeletes, InvUnlinksClaims, InvReindexDone DEF OtherSteps
<1> QED
  BY <1>1, <1>2, <1>3, <1>4, <1>5, <1>6 DEF Next

\* The inductive invariant holds in every reachable state.
LEMMA LifecycleInvariant == Spec => []Inv
BY InvInit, InvNext, PTL DEF Spec

\* Rows, chunks, locks, files and requests keep their types: in particular
\* no upload is given a number or an identifier beyond what exists.
THEOREM LifecycleTypes == Spec => []TypeOK
<1>1. Inv => TypeOK
  BY DEF Inv
<1> QED
  BY <1>1, LifecycleInvariant, PTL

\* The search index is exactly what the documents point to, after any
\* sequence of approvals, rejections, deletions, reindexing and crashes
\* (replace_active_chunks, deactivate_document_chunks).
THEOREM IndexFollowsPointer == Spec => []IndexMatchesPointer
<1>1. Inv => IndexMatchesPointer
  BY DEF Inv, Facts, DocFacts, ChunkFacts, IndexMatchesPointer
<1> QED
  BY <1>1, LifecycleInvariant, PTL

\* No version that can still be read has lost its file: storage.put_bytes
\* comes before the commit, storage.delete after it.
THEOREM FilesArePresent == Spec => []FilesPresent
<1>1. Inv => FilesPresent
  BY DEF Inv, Facts, DocFacts, FileFacts, FilesPresent, Versions, At
<1> QED
  BY <1>1, LifecycleInvariant, PTL

\* The lock of the document reserves the version number of an upload until
\* its row is inserted, and numbers have no gaps.
THEOREM NumbersStayReserved == Spec => []NumbersReserved
<1>1. Inv => NumbersReserved
  <2> SUFFICES ASSUME Inv PROVE NumbersReserved
    OBVIOUS
  <2>1. ASSUME NEW q \in Requests, pc[q] \in {"lookup", "badfile", "insert", "store", "parse"},
               job[q].doc # NoDoc
        PROVE  Present(job[q].doc) = 1..(draft[q].num - 1)
    BY <2>1 DEF Inv, Facts, RequestFacts, UploadFacts, UploadPcs
  <2>2. ASSUME NEW d \in Docs, NEW n \in Present(d)
        PROVE  1..n \subseteq Present(d)
    <3>1. PICK k \in 0..MaxVersions : Present(d) = 1..k
      BY DEF Inv, Facts, DocFacts, VersionFacts
    <3>2. n \in Nat /\ n <= k /\ k \in Nat
      BY <3>1, ConstantTypes
    <3> QED
      BY <3>1, <3>2
  <2> QED
    BY <2>1, <2>2 DEF NumbersReserved
<1> QED
  BY <1>1, LifecycleInvariant, PTL

-----------------------------------------------------------------------------
(***************************************************************************)
(* What a step may do to rows and chunks.                                  *)
(***************************************************************************)

\* Where an upload commits, and that nothing is there yet.
LEMMA CommitPlace ==
  ASSUME Inv, NEW q \in Requests,
         \/ \E d \in Docs : PersistValidationFailure(q, d)
         \/ ParseSucceeds(q)
         \/ \E done \in BOOLEAN : PutFails(q, done) \/ ParseFails(q, done)
  PROVE  \E d \in Docs, status \in {"VALIDATION_FAILED", "PREVIEW_READY", "PARSING_FAILED"},
            object \in Objects \cup {NoObject} :
           /\ CommitVersion(q, d, status, object)
           /\ draft[q].num \in Numbers
           /\ row[d][draft[q].num].status = "none"
           /\ docState[d] # "deleted"
<1>1. RequestFacts(q) /\ draft[q].object \in Objects \cup {NoObject}
  BY RequestTypes DEF Inv, Facts
<1>2. ASSUME NEW d \in Docs, PersistValidationFailure(q, d)
      PROVE  /\ CommitVersion(q, d, "VALIDATION_FAILED", NoObject)
             /\ draft[q].num \in Numbers
             /\ row[d][draft[q].num].status = "none"
             /\ docState[d] # "deleted"
  BY <1>1, <1>2 DEF PersistValidationFailure, Violates, Destinations, RequestFacts, LockFacts, UploadPcs
<1>3. ASSUME Storing(q)
      PROVE  /\ draft[q].doc \in Docs /\ draft[q].num \in Numbers
             /\ row[draft[q].doc][draft[q].num].status = "none"
             /\ docState[draft[q].doc] # "deleted"
  <2>1. pc[q] \in UploadPcs
    BY <1>3 DEF Storing, UploadPcs
  <2>2. /\ draft[q].doc \in Docs /\ draft[q].num \in Numbers
        /\ job[q].doc = NoDoc => docState[draft[q].doc] = "none"
        /\ job[q].doc # NoDoc => draft[q].doc = job[q].doc
    BY <1>1, <1>3 DEF RequestFacts, UploadFacts
  <2>3. job[q].doc # NoDoc => Present(job[q].doc) = 1..(draft[q].num - 1)
    BY <1>1, <2>1 DEF RequestFacts, UploadFacts
  <2>4. job[q].doc # NoDoc => docState[job[q].doc] = "live"
    BY <1>1, <2>1 DEF RequestFacts, LockFacts
  <2>5. draft[q].num \notin Present(draft[q].doc)
    <3>1. CASE job[q].doc = NoDoc
      <4>1. \A n \in Numbers : row[draft[q].doc][n].status = "none"
        BY <2>2, <3>1, VersionOfDocument
      <4> QED
        BY <4>1 DEF Present
    <3>2. CASE job[q].doc # NoDoc
      BY <2>2, <2>3, <3>2, ConstantTypes
    <3> QED
      BY <3>1, <3>2
  <2> QED
    BY <2>2, <2>4, <2>5 DEF Present
<1>4. CASE ParseSucceeds(q)
  BY <1>1, <1>3, <1>4 DEF ParseSucceeds, Storing
<1>5. ASSUME NEW done \in BOOLEAN, PutFails(q, done)
      PROVE  Storing(q) /\ CommitVersion(q, draft[q].doc, "VALIDATION_FAILED", NoObject)
  BY <1>5 DEF PutFails, Storing
<1>6. ASSUME NEW done \in BOOLEAN, ParseFails(q, done)
      PROVE  Storing(q) /\ CommitVersion(q, draft[q].doc, "PARSING_FAILED", FailedObject(q, done))
  BY <1>6 DEF ParseFails, Storing
<1>7. \A done \in BOOLEAN : FailedObject(q, done) \in Objects \cup {NoObject}
  BY <1>1 DEF FailedObject
<1> QED
  BY <1>2, <1>3, <1>4, <1>5, <1>6, <1>7

\* A version moves along the state machine and keeps what it is.
RowForward(d, n) ==
  /\ row'[d][n].status # row[d][n].status => row'[d][n].status \in Committable(row[d][n].status)
  /\ row[d][n].status # "none" => row'[d][n] = [row[d][n] EXCEPT !.status = row'[d][n].status]

\* What may be searched, and what is withdrawn, stays.
IndexStays ==
  /\ current' = current
  /\ \A d \in Docs : docState'[d] = "deleted" <=> docState[d] = "deleted"
  /\ \A d \in Docs, n \in Numbers : /\ chunk'[d][n].status = chunk[d][n].status
                                    /\ chunk'[d][n].active = chunk[d][n].active

\* A row that is not written goes nowhere.
LEMMA SameRow ==
  ASSUME TypeOK, NEW d \in Docs, NEW n \in Numbers, row'[d][n] = row[d][n]
  PROVE  RowForward(d, n)
<1>1. row[d][n] \in VersionRow
  BY VersionTypes
<1>2. row[d][n] = [row[d][n] EXCEPT !.status = row[d][n].status]
  BY <1>1 DEF VersionRow
<1> QED
  BY <1>2 DEF RowForward

\* An upload ends with a version that was not there, in a state an upload
\* may end in.
LEMMA CommitForward ==
  ASSUME Inv, NEW q \in Requests,
         \/ \E d \in Docs : PersistValidationFailure(q, d)
         \/ ParseSucceeds(q)
         \/ \E done \in BOOLEAN : PutFails(q, done) \/ ParseFails(q, done)
  PROVE  IndexStays /\ \A d \in Docs, n \in Numbers : RowForward(d, n)
<1>1. TypeOK
  BY DEF Inv
<1>2. PICK d \in Docs, status \in {"VALIDATION_FAILED", "PREVIEW_READY", "PARSING_FAILED"},
            object \in Objects \cup {NoObject} :
        /\ CommitVersion(q, d, status, object)
        /\ draft[q].num \in Numbers
        /\ row[d][draft[q].num].status = "none"
        /\ docState[d] # "deleted"
  BY CommitPlace
<1>3. PICK num \in Numbers, v \in {VersionOf(q, status, object)} : num = draft[q].num
  BY <1>2
<1>4. /\ row' = [row EXCEPT ![d][num] = v] /\ current' = current /\ chunk' = chunk
      /\ docState' = IF job[q].doc = NoDoc THEN [docState EXCEPT ![d] = "live"] ELSE docState
  BY <1>2, <1>3 DEF CommitVersion
<1>5. /\ row'[d][num] = v
      /\ \A e \in Docs, n \in Numbers : <<e, n>> # <<d, num>> => row'[e][n] = row[e][n]
  BY <1>1, <1>4 DEF TypeOK
<1>6. v.status = status
  BY <1>3 DEF VersionOf
<1>7. status \in Committable("none")
  BY DEF Committable, AllowedTransitions, Statuses
<1>8. RowForward(d, num)
  BY <1>2, <1>3, <1>5, <1>6, <1>7 DEF RowForward
<1>9. ASSUME NEW e \in Docs, NEW n \in Numbers
      PROVE  RowForward(e, n)
  <2>1. CASE e = d /\ n = num
    BY <1>8, <2>1
  <2>2. CASE ~(e = d /\ n = num)
    BY <1>1, <1>5, <2>2, SameRow
  <2> QED
    BY <2>1, <2>2
<1>10. IndexStays
  BY <1>1, <1>2, <1>4 DEF IndexStays, TypeOK
<1> QED
  BY <1>9, <1>10

\* A rejection closes a version under review.
LEMMA RejectForward ==
  ASSUME Inv, NEW q \in Requests, Reject(q)
  PROVE  IndexStays /\ \A d \in Docs, n \in Numbers : RowForward(d, n)
<1>0. PICK d, n : d = job[q].doc /\ n = job[q].num
  OBVIOUS
<1>1. TypeOK /\ RequestFacts(q)
  BY DEF Inv, Facts
<1>2. /\ pc[q] = "review" /\ job[q].kind = "reject" /\ Reviewable(q, row[d][n].status)
      /\ row' = [row EXCEPT ![d][n].status = "REJECTED"]
      /\ chunk' = [chunk EXCEPT ![d][n] = WithStatus(@, "REJECTED", FALSE)]
      /\ UNCHANGED <<docState, current>>
  BY <1>0 DEF Reject, Reviewed
<1>3. d \in Docs /\ n \in Numbers /\ row[d][n].status # "none"
  BY <1>0, <1>1, <1>2, RequestTypes, ConstantTypes DEF RequestFacts, LockFacts, Reviewed
<1>4. row[d][n].status = "PREVIEW_READY"
  <2>1. row[d][n].status \in Statuses
    BY <1>1, <1>3, VersionTypes
  <2> QED
    BY <1>2, <2>1 DEF Reviewable, Verdict, AllowedTransitions, Statuses
<1>5. chunk' = chunk
  <2>1. chunk[d][n].status = "none"
    BY <1>3, <1>4 DEF Inv, Facts, DocFacts, ChunkFacts
  <2>2. WithStatus(chunk[d][n], "REJECTED", FALSE) = chunk[d][n]
    BY <2>1 DEF WithStatus
  <2> QED
    BY <1>1, <1>2, <1>3, <2>2 DEF TypeOK
<1>6. /\ row'[d][n] = [row[d][n] EXCEPT !.status = "REJECTED"] /\ row[d][n] \in VersionRow
      /\ \A e \in Docs, m \in Numbers : <<e, m>> # <<d, n>> => row'[e][m] = row[e][m]
  BY <1>1, <1>2, <1>3 DEF TypeOK
<1>7. row'[d][n].status = "REJECTED"
  BY <1>6 DEF VersionRow
<1>8. "REJECTED" \in Committable("PREVIEW_READY")
  BY DEF Committable, AllowedTransitions, Statuses
<1>9. RowForward(d, n)
  BY <1>4, <1>6, <1>7, <1>8 DEF RowForward
<1>10. ASSUME NEW e \in Docs, NEW m \in Numbers
      PROVE  RowForward(e, m)
  <2>1. CASE e = d /\ m = n
    BY <1>9, <2>1
  <2>2. CASE ~(e = d /\ m = n)
    BY <1>1, <1>6, <2>2, SameRow
  <2> QED
    BY <2>1, <2>2
<1>11. IndexStays
  BY <1>2, <1>5 DEF IndexStays
<1> QED
  BY <1>10, <1>11

\* A reindex adds vectors to chunks that are in the index already.
LEMMA ReindexForward ==
  ASSUME Inv, NEW q \in Requests, ReindexDone(q)
  PROVE  IndexStays /\ \A d \in Docs, n \in Numbers : RowForward(d, n)
<1>1. TypeOK
  BY DEF Inv
<1>2. /\ chunk' = [d \in Docs |-> IF d \in draft[q].claimed THEN Reindexed(d) ELSE chunk[d]]
      /\ UNCHANGED <<docState, current, row>>
  BY DEF ReindexDone
<1>3. ASSUME NEW d \in Docs, NEW n \in Numbers
      PROVE  /\ chunk'[d][n].status = chunk[d][n].status
             /\ chunk'[d][n].active = chunk[d][n].active
  <2>1. chunk[d][n] \in ChunkRow
    BY <1>1, VersionTypes
  <2>2. chunk'[d][n] = chunk[d][n] \/ chunk'[d][n] = [chunk[d][n] EXCEPT !.vector = "READY"]
    BY <1>2 DEF Reindexed
  <2> QED
    BY <2>1, <2>2 DEF ChunkRow
<1>4. IndexStays
  BY <1>2, <1>3 DEF IndexStays
<1> QED
  BY <1>1, <1>2, <1>4, SameRow

\* All steps but approvals and deletions.
LEMMA QuietForward ==
  ASSUME Inv, [Next]_vars, \A q \in Requests : ~Approve(q) /\ ~DeleteRows(q)
  PROVE  IndexStays /\ \A d \in Docs, n \in Numbers : RowForward(d, n)
<1>1. ASSUME UNCHANGED rowVars
      PROVE  IndexStays /\ \A d \in Docs, n \in Numbers : RowForward(d, n)
  <2>1. UNCHANGED <<docState, current, row, chunk>> /\ TypeOK
    BY <1>1 DEF rowVars, Inv
  <2>2. IndexStays
    BY <2>1 DEF IndexStays
  <2>3. \A d \in Docs, n \in Numbers : RowForward(d, n)
    BY <2>1, SameRow
  <2> QED
    BY <2>2, <2>3
<1>2. CASE UNCHANGED vars
  BY <1>1, <1>2 DEF vars
<1>3. ASSUME NEW q \in Requests, NEW kind \in Offered, NEW j \in JobsOf(kind), Receive(q, j)
      PROVE  UNCHANGED rowVars
  BY <1>3 DEF Receive
<1>4. ASSUME NEW q \in Requests, LockDocument(q) \/ Audit(q) \/ Lose(q)
      PROVE  UNCHANGED rowVars
  BY <1>4 DEF LockDocument, Audit, Lose, Rollback
<1>5. ASSUME NEW q \in Requests, UploadSteps(q)
      PROVE  \/ UNCHANGED rowVars
             \/ \E d \in Docs : PersistValidationFailure(q, d)
             \/ ParseSucceeds(q)
             \/ \E done \in BOOLEAN : PutFails(q, done) \/ ParseFails(q, done)
  BY <1>5 DEF UploadSteps, Replay, Deduplicate, KeyIsNew, NoDuplicate, InsertVersion, InsertConflict,
     PutBytes
<1>6. ASSUME NEW q \in Requests, ReviewSteps(q)
      PROVE  UNCHANGED rowVars \/ Reject(q)
  BY <1>6 DEF ReviewSteps, ReviewDenied, BeginApproval, IndexingFails
<1>7. ASSUME NEW q \in Requests, OtherSteps(q)
      PROVE  UNCHANGED rowVars \/ ReindexDone(q)
  BY <1>7 DEF OtherSteps, NotFound, DeleteDone, Unlink, Claim, ReindexFails, DeadlockVictim, Rollback
<1>8. \/ UNCHANGED rowVars
      \/ \E q \in Requests :
           \/ \E d \in Docs : PersistValidationFailure(q, d)
           \/ ParseSucceeds(q)
           \/ \E done \in BOOLEAN : PutFails(q, done) \/ ParseFails(q, done)
           \/ Reject(q) \/ ReindexDone(q)
  <2>1. CASE UNCHANGED vars
    BY <2>1 DEF vars
  <2>2. CASE Next
    BY <1>3, <1>4, <1>5, <1>6, <1>7, <2>2 DEF Next
  <2> QED
    BY <2>1, <2>2
<1> QED
  BY <1>1, <1>8, CommitForward, RejectForward, ReindexForward

\* An approval puts one version into the index, that was never there, in
\* place of the current one.
LEMMA ApproveForward ==
  ASSUME Inv, NEW q \in Requests, Approve(q)
  PROVE  /\ \A d \in Docs, n \in Numbers : RowForward(d, n)
         /\ \E d \in Docs, n \in Numbers :
              /\ docState[d] = "live" /\ docState' = docState
              /\ current' = [current EXCEPT ![d] = n]
              /\ chunk[d][n].status = "none" /\ chunk'[d][n].status # "none"
              /\ \A e \in Docs, m \in Numbers : <<e, m>> # <<d, n>> =>
                   /\ chunk'[e][m].status = chunk[e][m].status
                   /\ chunk'[e][m].active => chunk[e][m].active
<1>0. PICK d, n : d = job[q].doc /\ n = job[q].num
  OBVIOUS
<1>1. TypeOK /\ RequestFacts(q)
  BY DEF Inv, Facts
<1>2. /\ pc[q] = "embed" /\ row' = [row EXCEPT ![d][n].status = "APPROVED"]
      /\ current' = [current EXCEPT ![d] = n] /\ docState' = docState
      /\ chunk' = [chunk EXCEPT ![d] = ReplaceActiveChunks(d, n)]
  BY <1>0 DEF Approve
<1>3. d \in Docs /\ n \in Numbers /\ docState[d] = "live" /\ row[d][n].status = "PREVIEW_READY"
  BY <1>0, <1>1, <1>2, RequestTypes DEF RequestFacts, LockFacts, Reviewed
<1>4. /\ row'[d][n] = [row[d][n] EXCEPT !.status = "APPROVED"] /\ row[d][n] \in VersionRow
      /\ \A e \in Docs, m \in Numbers : <<e, m>> # <<d, n>> => row'[e][m] = row[e][m]
  BY <1>1, <1>2, <1>3 DEF TypeOK
<1>5. row'[d][n].status = "APPROVED"
  BY <1>4 DEF VersionRow
<1>6. "APPROVED" \in Committable("PREVIEW_READY")
  BY DEF Committable, AllowedTransitions, Statuses
<1>7. RowForward(d, n)
  BY <1>3, <1>4, <1>5, <1>6 DEF RowForward
<1>8. ASSUME NEW e \in Docs, NEW m \in Numbers
      PROVE  RowForward(e, m)
  <2>1. CASE e = d /\ m = n
    BY <1>7, <2>1
  <2>2. CASE ~(e = d /\ m = n)
    BY <1>1, <1>4, <2>2, SameRow
  <2> QED
    BY <2>1, <2>2
<1>9. chunk[d][n].status = "none"
  BY <1>3 DEF Inv, Facts, DocFacts, ChunkFacts
<1>10. /\ \A m \in Numbers \ {n} : chunk'[d][m] = Stale(chunk[d][m])
       /\ chunk'[d][n] = ReadyChunks("APPROVED")
       /\ \A e \in Docs \ {d} : chunk'[e] = chunk[e]
  BY <1>1, <1>2, <1>3 DEF TypeOK, ReplaceActiveChunks
<1>11. chunk'[d][n].status # "none"
  BY <1>10 DEF ReadyChunks
<1>12. ASSUME NEW e \in Docs, NEW m \in Numbers, <<e, m>> # <<d, n>>
       PROVE  /\ chunk'[e][m].status = chunk[e][m].status
              /\ chunk'[e][m].active => chunk[e][m].active
  <2>1. CASE e # d
    BY <1>10, <2>1
  <2>2. CASE e = d
    <3>1. chunk[d][m] \in ChunkRow /\ chunk'[d][m] = Stale(chunk[d][m])
      BY <1>1, <1>3, <1>10, <1>12, <2>2, VersionTypes
    <3> QED
      BY <2>2, <3>1 DEF Stale, ChunkRow
  <2> QED
    BY <2>1, <2>2
<1> DEFINE Publishes(e, m) ==
      /\ docState[e] = "live" /\ docState' = docState
      /\ current' = [current EXCEPT ![e] = m]
      /\ chunk[e][m].status = "none" /\ chunk'[e][m].status # "none"
      /\ \A f \in Docs, k \in Numbers : <<f, k>> # <<e, m>> =>
           /\ chunk'[f][k].status = chunk[f][k].status
           /\ chunk'[f][k].active => chunk[f][k].active
<1>13. Publishes(d, n)
  <2>1. /\ docState[d] = "live" /\ docState' = docState
        /\ current' = [current EXCEPT ![d] = n]
        /\ chunk[d][n].status = "none" /\ chunk'[d][n].status # "none"
    BY <1>2, <1>3, <1>9, <1>11
  <2> QED
    BY <1>12, <2>1
<1>14. \E e \in Docs, m \in Numbers : Publishes(e, m)
  <2> HIDE DEF Publishes
  <2> QED
    BY <1>3, <1>13
<1> QED
  BY <1>8, <1>14

\* A deletion withdraws a document, its versions and its chunks.
LEMMA DeleteForward ==
  ASSUME Inv, NEW q \in Requests, DeleteRows(q)
  PROVE  /\ \A d \in Docs, n \in Numbers : RowForward(d, n)
         /\ \E d \in Docs :
              /\ docState[d] = "live" /\ docState' = [docState EXCEPT ![d] = "deleted"]
              /\ current' = [current EXCEPT ![d] = 0]
              /\ \A e \in Docs, m \in Numbers :
                   /\ chunk'[e][m].status = "none" <=> chunk[e][m].status = "none"
                   /\ chunk'[e][m].active => chunk[e][m].active
<1>0. PICK d : d = job[q].doc
  OBVIOUS
<1>1. TypeOK /\ RequestFacts(q)
  BY DEF Inv, Facts
<1>2. /\ pc[q] = "delete"
      /\ row' = [row EXCEPT ![d] = [n \in Numbers |-> DeletedRow(row[d][n])]]
      /\ docState' = [docState EXCEPT ![d] = "deleted"]
      /\ current' = [current EXCEPT ![d] = 0]
      /\ chunk' = [chunk EXCEPT ![d] = DeactivateDocumentChunks(d)]
  BY <1>0 DEF DeleteRows
<1>3. d \in Docs /\ docState[d] = "live"
  BY <1>0, <1>1, <1>2, RequestTypes DEF RequestFacts, LockFacts
<1>4. ASSUME NEW e \in Docs, NEW m \in Numbers
      PROVE  RowForward(e, m)
  <2>1. row[e][m] \in VersionRow /\ row[e][m].status \in Statuses \cup {"none"}
    BY <1>1, VersionTypes
  <2>2. row'[e][m] = row[e][m] \/ (row[e][m].status # "none" /\ row'[e][m] = DeletedRow(row[e][m]))
    BY <1>1, <1>2, <1>3 DEF TypeOK, DeletedRow
  <2>3. CASE row'[e][m] = row[e][m]
    BY <1>1, <2>3, SameRow
  <2>4. CASE row[e][m].status # "none" /\ row'[e][m] = DeletedRow(row[e][m])
    <3>1. row'[e][m] = [row[e][m] EXCEPT !.status = "DELETED"]
      BY <2>4 DEF DeletedRow
    <3>2. row'[e][m].status = "DELETED"
      BY <2>1, <3>1 DEF VersionRow
    <3>3. PICK s \in Statuses : s = row[e][m].status
      BY <2>1, <2>4
    <3>4. s # "DELETED" => "DELETED" \in Committable(s)
      BY DEF Committable, AllowedTransitions, Statuses
    <3> QED
      BY <3>1, <3>2, <3>3, <3>4 DEF RowForward
  <2> QED
    BY <2>2, <2>3, <2>4
<1>5. ASSUME NEW e \in Docs, NEW m \in Numbers
      PROVE  /\ chunk'[e][m].status = "none" <=> chunk[e][m].status = "none"
             /\ chunk'[e][m].active => chunk[e][m].active
  <2>1. CASE e # d
    BY <1>1, <1>2, <1>3, <2>1 DEF TypeOK
  <2>2. CASE e = d
    <3>1. chunk[d][m] \in ChunkRow /\ chunk'[d][m] = WithStatus(chunk[d][m], "DELETED", TRUE)
      BY <1>1, <1>2, <1>3, VersionTypes DEF TypeOK, DeactivateDocumentChunks
    <3>2. CASE chunk[d][m].status = "none"
      BY <2>2, <3>1, <3>2 DEF WithStatus
    <3>3. CASE chunk[d][m].status # "none"
      <4>1. PICK c : c = Stale(chunk[d][m])
        OBVIOUS
      <4>2. c \in ChunkRow /\ ~c.active
        BY <3>1, <3>3, <4>1 DEF Stale, ChunkRow
      <4>3. chunk'[d][m] = [c EXCEPT !.status = "DELETED", !.deleted = TRUE]
        BY <3>1, <3>3, <4>1 DEF WithStatus
      <4> QED
        BY <2>2, <3>3, <4>2, <4>3 DEF ChunkRow
    <3> QED
      BY <3>2, <3>3
  <2> QED
    BY <2>1, <2>2
<1> QED
  BY <1>2, <1>3, <1>4, <1>5

\* A step is quiet, an approval or a deletion.
LEMMA ThreeKinds ==
  ASSUME Inv, [Next]_vars
  PROVE  \/ \A q \in Requests : ~Approve(q) /\ ~DeleteRows(q)
         \/ \E q \in Requests : Approve(q)
         \/ \E q \in Requests : DeleteRows(q)
OBVIOUS

\* Versions move along the state machine of state_machine.py and never
\* change their identity; what left the index does not come back, and a
\* deleted document stays deleted.
THEOREM LifecycleMovesForward == Spec => LifecycleForward
<1> DEFINE Forward ==
      /\ \A v \in Versions :
           LET new == row'[v[1]][v[2]] IN
           /\ new.status # At(v).status => new.status \in Committable(At(v).status)
           /\ At(v).status # "none" => new = [At(v) EXCEPT !.status = new.status]
      /\ \A d \in Docs, n \in Numbers :
           chunk[d][n].status # "none" /\ ~chunk[d][n].active => ~chunk'[d][n].active
      /\ \A d \in Docs : docState[d] = "deleted" => docState'[d] = "deleted"
<1>1. ASSUME Inv, [Next]_vars
      PROVE  Forward
  <2>1. \A d \in Docs, n \in Numbers : RowForward(d, n)
    BY <1>1, ThreeKinds, QuietForward, ApproveForward, DeleteForward
  <2>2. \A v \in Versions :
          LET new == row'[v[1]][v[2]] IN
          /\ new.status # At(v).status => new.status \in Committable(At(v).status)
          /\ At(v).status # "none" => new = [At(v) EXCEPT !.status = new.status]
    BY <2>1 DEF Versions, At, RowForward
  <2>3. /\ \A d \in Docs, n \in Numbers :
             chunk[d][n].status # "none" /\ ~chunk[d][n].active => ~chunk'[d][n].active
        /\ \A d \in Docs : docState[d] = "deleted" => docState'[d] = "deleted"
    <3>1. CASE \A q \in Requests : ~Approve(q) /\ ~DeleteRows(q)
      BY <1>1, <3>1, QuietForward DEF IndexStays
    <3>2. ASSUME NEW q \in Requests, Approve(q)
          PROVE  /\ docState' = docState
                 /\ \A d \in Docs, n \in Numbers :
                      chunk[d][n].status # "none" /\ ~chunk[d][n].active => ~chunk'[d][n].active
      BY <1>1, <3>2, ApproveForward
    <3>3. ASSUME NEW q \in Requests, DeleteRows(q)
          PROVE  /\ \A d \in Docs : docState[d] = "deleted" => docState'[d] = "deleted"
                 /\ \A d \in Docs, n \in Numbers :
                      chunk[d][n].status # "none" /\ ~chunk[d][n].active => ~chunk'[d][n].active
      BY <1>1, <3>3, DeleteForward DEF Inv, TypeOK
    <3> QED
      BY <1>1, <3>1, <3>2, <3>3, ThreeKinds
  <2> QED
    BY <2>2, <2>3
<1>2. Inv /\ [Next]_vars => [Forward]_vars
  BY <1>1
<1> QED
  BY <1>2, LifecycleInvariant, PTL DEF Spec, LifecycleForward

-----------------------------------------------------------------------------
(***************************************************************************)
(* Refinement: the database implements the promise to search.              *)
(***************************************************************************)

\* What search may return is what the document points to.
LEMMA OfferedIsCurrent ==
  ASSUME Inv, NEW d \in Docs, NEW n \in Numbers
  PROVE  Searchable(d, n) <=> current[d] = n
<1>1. ChunkFacts(d) /\ n # 0
  BY ConstantTypes DEF Inv, Facts, DocFacts
<1> QED
  BY <1>1 DEF ChunkFacts, Searchable

\* The initial database offers the legacy documents.
LEMMA IndexInit == Init => Index!Init
<1> SUFFICES ASSUME Init PROVE Index!Init
  OBVIOUS
<1>1. Inv
  BY InvInit
<1>2. ASSUME NEW d \in Docs
      PROVE  {n \in Numbers : Searchable(d, n)} = {n \in Numbers : current[d] = n}
  BY <1>1, OfferedIsCurrent
<1>3. ASSUME NEW d \in Docs
      PROVE  {n \in Numbers : chunk[d][n].status # "none"} = {n \in Numbers : current[d] = n}
  <2>1. \A n \in Numbers : chunk[d][n] = IF d \in Legacy /\ n = 1 THEN LegacyChunks ELSE NoChunks
    BY DEF Init
  <2>2. LegacyChunks.status # "none" /\ NoChunks.status = "none"
    BY DEF LegacyChunks, NoChunks
  <2>3. current[d] = IF d \in Legacy THEN 1 ELSE 0
    BY DEF Init
  <2> QED
    BY <2>1, <2>2, <2>3, ConstantTypes
<1>4. ASSUME NEW d \in Docs
      PROVE  {n \in Numbers : current[d] = n} \in {{}} \cup {{n} : n \in Numbers}
  <2>1. CASE \E n \in Numbers : current[d] = n
    BY <2>1
  <2>2. CASE ~\E n \in Numbers : current[d] = n
    BY <2>2
  <2> QED
    BY <2>1, <2>2
<1>5. \A d \in Docs : docState[d] # "deleted"
  BY DEF Init
<1> QED
  BY <1>2, <1>3, <1>4, <1>5 DEF Index!Init

\* An approval publishes, a deletion withdraws, all else is invisible.
LEMMA IndexStep ==
  ASSUME Inv, Inv', [Next]_vars
  PROVE  [Index!Next]_(Index!indexVars)
<1> DEFINE Off == [d \in Docs |-> {n \in Numbers : Searchable(d, n)}]
           Spe == [d \in Docs |-> {n \in Numbers : chunk[d][n].status # "none"}]
           Wit == [d \in Docs |-> docState[d] = "deleted"]
<1>1. Off = [d \in Docs |-> {n \in Numbers : current[d] = n}]
  BY OfferedIsCurrent
<1>2. Off' = [d \in Docs |-> {n \in Numbers : current'[d] = n}]
  <2>1. ASSUME NEW d \in Docs, NEW n \in Numbers
        PROVE  Searchable(d, n)' <=> current'[d] = n
    <3>1. ChunkFacts(d)' /\ n # 0
      BY ConstantTypes DEF Inv, Facts, DocFacts
    <3> QED
      BY <3>1 DEF ChunkFacts, Searchable
  <2> QED
    BY <2>1
<1>3. TypeOK /\ current \in [Docs -> 0..MaxVersions] /\ docState \in [Docs -> {"none", "live", "deleted"}]
  BY DEF Inv, TypeOK
<1>4. CASE \A q \in Requests : ~Approve(q) /\ ~DeleteRows(q)
  <2>1. IndexStays
    BY <1>4, QuietForward
  <2>2. Off' = Off
    BY <1>1, <1>2, <2>1 DEF IndexStays
  <2>3. Spe' = Spe
    BY <2>1 DEF IndexStays
  <2>4. Wit' = Wit
    BY <2>1 DEF IndexStays
  <2> QED
    BY <2>2, <2>3, <2>4 DEF Index!indexVars
<1>5. ASSUME NEW q \in Requests, Approve(q)
      PROVE  Index!Next
  <2>1. PICK d \in Docs, n \in Numbers :
          /\ docState[d] = "live" /\ docState' = docState
          /\ current' = [current EXCEPT ![d] = n]
          /\ chunk[d][n].status = "none" /\ chunk'[d][n].status # "none"
          /\ \A e \in Docs, m \in Numbers : <<e, m>> # <<d, n>> =>
               /\ chunk'[e][m].status = chunk[e][m].status
               /\ chunk'[e][m].active => chunk[e][m].active
    BY <1>5, ApproveForward
  <2>2. Off' = [Off EXCEPT ![d] = {n}]
    <3>1. current'[d] = n /\ \A e \in Docs \ {d} : current'[e] = current[e]
      BY <1>3, <2>1
    <3>2. {m \in Numbers : current'[d] = m} = {n}
      BY <3>1
    <3>3. ASSUME NEW e \in Docs
          PROVE  {m \in Numbers : current'[e] = m} = IF e = d THEN {n} ELSE Off[e]
      BY <1>1, <3>1, <3>2
    <3>4. Off' = [e \in Docs |-> IF e = d THEN {n} ELSE Off[e]]
      BY <1>2, <3>3
    <3> HIDE DEF Off
    <3>5. Off = [e \in Docs |-> Off[e]]
      BY <1>1
    <3> QED
      BY <3>4, <3>5
  <2>3. Spe' = [Spe EXCEPT ![d] = @ \cup {n}]
    <3>1. \A e \in Docs \ {d} : {m \in Numbers : chunk'[e][m].status # "none"}
                                  = {m \in Numbers : chunk[e][m].status # "none"}
      BY <2>1
    <3>2. {m \in Numbers : chunk'[d][m].status # "none"}
            = {m \in Numbers : chunk[d][m].status # "none"} \cup {n}
      BY <2>1
    <3> QED
      BY <3>1, <3>2
  <2>4. Wit' = Wit /\ ~Wit[d] /\ n \notin Spe[d]
    BY <2>1
  <2> HIDE DEF Off, Spe, Wit
  <2>5. /\ ~Wit[d] /\ n \notin Spe[d] /\ Off' = [Off EXCEPT ![d] = {n}]
        /\ Spe' = [Spe EXCEPT ![d] = @ \cup {n}] /\ Wit' = Wit
    BY <2>2, <2>3, <2>4
  <2>6. Index!Publish(d, n)
    BY <2>5 DEF Index!Publish, Off, Spe, Wit
  <2> QED
    BY <2>6 DEF Index!Next
<1>6. ASSUME NEW q \in Requests, DeleteRows(q)
      PROVE  Index!Next
  <2>1. PICK d \in Docs :
          /\ docState[d] = "live" /\ docState' = [docState EXCEPT ![d] = "deleted"]
          /\ current' = [current EXCEPT ![d] = 0]
          /\ \A e \in Docs, m \in Numbers :
               /\ chunk'[e][m].status = "none" <=> chunk[e][m].status = "none"
               /\ chunk'[e][m].active => chunk[e][m].active
    BY <1>6, DeleteForward
  <2>2. Off' = [Off EXCEPT ![d] = {}]
    <3>1. current'[d] = 0 /\ \A e \in Docs \ {d} : current'[e] = current[e]
      BY <1>3, <2>1
    <3>2. {m \in Numbers : current'[d] = m} = {}
      BY <3>1, ConstantTypes
    <3> QED
      BY <1>1, <1>2, <3>1, <3>2
  <2>3. Spe' = Spe
    BY <2>1
  <2>4. Wit' = [Wit EXCEPT ![d] = TRUE] /\ ~Wit[d]
    BY <1>3, <2>1
  <2> HIDE DEF Off, Spe, Wit
  <2>5. /\ ~Wit[d] /\ Off' = [Off EXCEPT ![d] = {}]
        /\ Wit' = [Wit EXCEPT ![d] = TRUE] /\ Spe' = Spe
    BY <2>2, <2>3, <2>4
  <2>6. Index!Withdraw(d)
    BY <2>5 DEF Index!Withdraw, Off, Spe, Wit
  <2> QED
    BY <2>6 DEF Index!Next
<1> QED
  BY <1>4, <1>5, <1>6, ThreeKinds

\* Transactions, locks, files and embeddings implement the promise to
\* search: at most one version of a document, replaced in one step, offered
\* once, and nothing of a deleted document.
THEOREM LifecycleRefinesIndex == Spec => IndexRefined
<1>1. Inv /\ Inv' /\ [Next]_vars => [Index!Next]_(Index!indexVars)
  BY IndexStep
<1> QED
  BY <1>1, IndexInit, LifecycleInvariant, PTL DEF Spec, IndexRefined, Index!Spec
=============================================================================
