# Secure Portfolio Copilot: verification project

Secure Portfolio Copilot is a FastAPI and PostgreSQL service with a browser
client. It answers questions about portfolio companies from documents the user
may read, and runs an agent whose tool calls can be made subject to the user's
approval. This directory holds TLA+ models of its core, the TLC configurations
that check them, and TLAPS proofs. Paths below are relative to `backend/app/`
unless they start with `docs/`.

| File | What it is |
| --- | --- |
| `AgentRuns.tla` | agent runs, approvals and stored history, and the requests that work on them |
| `ApprovalGate.tla` | what human approval promises, as an abstract specification |
| `AgentRunsProofs.tla` | the proofs about `AgentRuns`: types, control and consent |
| `AgentHistoryProofs.tla` | the proofs about `AgentRuns`: history and the refinement of `ApprovalGate` |
| `DocumentLifecycle.tla` | documents, versions, search chunks and files, and the requests that change them |
| `DocumentLifecycleProofs.tla` | the proofs about `DocumentLifecycle` |
| `PublishedIndex.tla` | what the lifecycle promises to search, as an abstract specification |
| `ChatDelivery.tla` | messages of a conversation, their replay records, the stream and the page that reads it |
| `ReplayLedger.tla` | what a message identifier promises, as an abstract specification |
| `ChatDeliveryProofs.tla` | the proofs about `ChatDelivery` |
| `ScopedMemory.tla` | memories, and the chat turns and requests that change them |
| `ScopedMemoryProofs.tla` | the proofs about `ScopedMemory` |
| `ToolGateway.tla` | the tool calls of one agent run: attempts, retries, evidence, pauses |
| `EvidenceBook.tla` | what evidence identifiers promise, as an abstract specification |
| `ToolGatewayProofs.tla` | the proofs about `ToolGateway` |
| `EvaluationRuns.tla` | release evaluations: the guarded run, its cases, its verdict |
| `EvaluationRunsProofs.tla` | the proofs about `EvaluationRuns` |
| `MC*.tla`, `MC*_<run>.cfg` | instances for TLC |
| `PROJECT.json` | components, runs, mutants, the map from definitions to source lines, findings, hazards, theorems |

## 1. Inventory

**Agent runs and approvals** (`agent/service.py`, `approval_service.py`,
`approval_repository.py`, `history_repository.py`, `run_state.py`,
`models/agent_runs.py`, `api/routes/agent_runs.py`). State: `agent_runs` with a
status, plan versions, steps with observations, approval requests. Operations:
start a run, drive it, pause it, approve, reject, change, stop, expire. Hard:
every operation is an HTTP request with a session of its own; a loop takes many
seconds, calls tools that commit the shared session, and may be overtaken by
Stop, by a second Approve, by expiry, by revoked grants or by a crash. Correct
when one request executes a run, a question is open exactly while the run waits
for it, no gated tool call happens without its own consent, and the stored history
is what happened.

**Agent loop** (`agent/loop.py`, `plan_state.py`, `contracts.py`). State: the
session of one request: plans, steps, budgets. Operations: perceive, decide,
execute, replan, replay on resume, summarise. Hard: a resumed loop must rebuild
the state of the paused one from a model that may answer differently. Correct when
the step budget and the ban on repeated actions hold over all resumes.

**Document lifecycle** (`ingestion/service.py`, `repository.py`,
`state_machine.py`, `audit.py`, `storage/local.py`, `retrieval/indexing.py`,
`retrieval/reindexing.py`). State: documents with a pointer to the approved
version, versions with a status, chunks that copy part of that status, files.
Operations: upload, approve, reject, delete, reindex. Hard: row locks, unique
indexes and foreign keys between concurrent transactions, embedding under a lock,
files that do not roll back. Correct when search sees exactly the approved
version, statuses move forward, files exist while rows name them.

**File validation and parsing** (`ingestion/validation.py`, parsers, `worker.py`).
No state; a subprocess under a timeout. Correct when a bad file is refused.

**Retrieval** (`retrieval/service.py`, `repository.py`). Reads chunks under the
caller's scope and commits an audit row. Correct when it returns nothing outside
the scope or the lifecycle.

**Policy engine and grants, authentication** (`policies/`, `auth/`). State:
users, memberships, grants. Correct when decisions follow the grants of the
moment, deny first.

**Chat delivery, routing and answers** (`chat/`, `model_routing/`). State:
conversations, messages, replay records by `client_message_id`, traces, the progress queue of a stream.
Operations: send, stream, reconnect, replay, refuse, cancel. Hard: a client that
disconnects and retries while the first request still runs, and a search that
commits in the middle of the turn. Correct when an identifier stores one turn,
whole, and the page shows what is stored.

**Scoped memory** (`memory/`). State: memories with status, sources, expiry and
a successor; one summary per conversation and workspace. Operations: extract,
supersede, renew, summarise, create, confirm, dismiss, delete. Hard: turns and
requests that read a row, wait, and write over what happened since. Correct when a
deleted memory stays deleted and a memory is never wider than its sources.

**MCP gateway and evidence adapter** (`mcp_gateway/`, `agent/gateway_adapter.py`).
State: the attempt of a call, the evidence sequence of a request. Operations:
check, attempt, time out, retry once, number the evidence. Hard: three layers
count attempts, steps and identifiers on their own, and a resumed run has to
continue where the paused one stopped. Correct when the documented budgets hold
and an identifier keeps its chunk.

**Evaluations** (`evaluations/`). State: run rows, case results, the judge's
remaining calls. Operations: guarded start, case, store, score, finish, mark as
failed. Hard: competing starts, a worker that stops between two cases, cases that
fail after they found something. Correct when one run is active and the verdict
follows from the results.

**Calculations; chunking and embeddings.** Pure functions over stored cells and
texts.

**Application shell, browser application, scripts, migrations.** The session per
request matters to every model; the browser has a streaming reader with one
reconnect.

Interaction: routes open a session and call a service; the agent loop calls tools
through the MCP gateway, and search and calculations through it; search reads the
chunks the document lifecycle writes; runs store references to those chunks, so a
deletion of a document changes what a paused run may keep. Everything is shared
through PostgreSQL rows; there is no in-process sharing between requests.

`PROJECT.json` lists every component with its status, and the hazards at the line
where they bite.

## 2. Agent runs: `AgentRuns`, `ApprovalGate`

### State

The committed rows are variables of their own (`status`, `mode`, `message`,
`planCount`, `planRows`, `stepRows`, `approvals`); `rowLock[r]` is the request
whose transaction holds the `agent_runs` row. A request `q` has a program counter,
the run it works on, its input (`job`), the copies of rows its session read
(`seen`) and the loop it carries (`work`). The outside is `grant` (the scope the next
request authenticates to), `live` (chunks that are active) and `faults`. `calls` and
`gated` record what reached the gateway; only properties read them.

An action is what happens between two points where another request can get in:
a commit, a wait for a row lock, a model or tool call.

### Actions and code

| Actions | Code |
| --- | --- |
| `ReceiveMessage`, `RefuseBeforeRow`, `CreateRun`, `Begin` | `AgentRunService.run` up to the loop: authorization, INSERT and commit, move to RUNNING, flush of the message (which takes the row lock) |
| `DecideInitial`, `Replan`, `ReplayStep`, `ExecuteStep`, `AskApproval`, `ResumeMismatch`, `LoopReturns` | `AgentLoop` with its limits; the model may decide anything the contracts accept |
| `Pause`, `PauseFails`, `Finish`, `FinishFails` | the `except ApprovalRequired` clause, the final history transaction, and their failures |
| `Abort`, `MarkTerminal`, `CommitThenCancelled` | the other except clauses and `_mark_run_terminal`; a cancellation that arrives after the commit |
| `ReceiveResolution`, `LockOwned`, `Unavailable` | the approval and stop routes, the locked read, refusals |
| `ApproveOnce`, `ApproveFailsClosed`, `ResumeSetup`, `Reject`, `ChangeRequest`, `Stop` | `ApprovalService` |
| `Expire`, `Regrant`, `Deactivate`, `Lose` | time, administrators, document changes, crashes |

A search that ends inside `ExecuteStep` commits the shared session and therefore
drops the row lock (`CommitsOf`).

Abstracted: an action is its canonical hash; a scope is its fingerprint and the
chunks it may read; plans are step counts; texts, titles and timings are left
out. Requests of other users find no row and change nothing.

### Runs

| Run | Instance | What it shows |
| --- | --- | --- |
| `races` | one run, two requests, two actions (one risky), two control modes, one replan, one fault | `TypeOK`, `PendingIffAwaiting`, `OneDriver`, `TransitionsAllowed`, `GateRefined`, `RequestsFinish` |
| `change` | two runs, two requests | `ToolCallsOnce`, `HistoryAppendOnly`, with a run that replaces a changed one |
| `authority` | one request, three actions, plans of one to three steps, one replan, one chunk, two scopes, changing grants and documents | `GatedCallsApproved`, `ApproveRefusedForCause`, `HistoryFaithful` |
| `pausefails` | one request | finding 1 |

Why these bounds are enough: one request drives and one resolves, which is every
pair that can meet on the row of a run, and section 8 proves the safety properties
of `races` for any number of them; two actions are an ungated search that commits
and a gated one; with two steps a run can pause twice, which is where resumes,
replays and the order of approvals interact. The third action is a calculator,
the only kind that may not be replayed.

`ApproveRefusedForCause` lists what may refuse an approval whose question is still
open. Its last cause is no authority's doing: a run that stored a replan, was resumed,
and asks again before it has replayed the replan writes its new question under the
first plan version, while the latest plan row is the second. `_binding_is_current`
compares the two, so every approval of that run ends in APPROVAL_BINDING_MISMATCH. That
agrees with `docs/architecture.md`, where binding drift ends the run without a tool
call. In `authority` a replan of another size, a resume and a question asked early
all happen, so the cause is met and not only allowed for.

### Fairness

Steps that wait for a row lock are strongly fair: PostgreSQL queues the waiters of
a row and serves them in turn, so a step that is enabled again and again is
taken. The other steps of a request are weakly fair: model and tool calls run
under the loop's time budget and the gateway's timeout, so they end one way or
the other. Users, administrators, expiry and faults owe nothing.

## 3. Document lifecycle: `DocumentLifecycle`, `PublishedIndex`

### State

Committed rows: `docState`, `current` (the approved pointer), `row` (a version
with its job, by number), `chunk` (the chunks of one version, which always change
together: the copied status, active, deleted, embedding status). `docLock` and
`chunkLock` are row locks. `disk` is the file store, which is not transactional;
`minted` counts version identifiers. `draft` is what a request has not committed.
`answers` records which uploads a key was accepted for; only a property reads it.

### Actions and code

| Actions | Code |
| --- | --- |
| `Receive`, `LockDocument`, `NotFound` | the routes and the `FOR UPDATE` reads of `repository.py` |
| `Replay`, `KeyIsNew`, `Deduplicate`, `NoDuplicate`, `PersistValidationFailure`, `InsertVersion`, `InsertConflict`, `PutBytes`, `PutFails`, `ParseSucceeds`, `ParseFails` | `DocumentIngestionService.upload`, in its order |
| `ReviewDenied`, `BeginApproval`, `IndexingFails`, `Approve`, `Reject` | `_review` with `replace_active_chunks` and `deactivate_version_chunks` |
| `DeleteRows`, `Unlink`, `DeleteDone` | `delete`: rows first, files after the commit |
| `Claim`, `ReindexDone`, `ReindexFails` | `reindex_authorized_pending_chunks` with `SKIP LOCKED` |
| `Audit` | `record_document_event` and the commit that ends a refused or repeated request |
| `Lose`, `DeadlockVictim` | crashes; PostgreSQL's choice of a victim |

What PostgreSQL contributes is modelled from how the code uses it: a locked read
waits for the holder; an INSERT waits for an uncommitted row with the same unique
key and fails once that row is committed; the insert of an audit event takes a
key-share lock on the document it names and so waits for whoever holds it `FOR
UPDATE`; transactions that wait in a circle lose one of their number. The circle is
real: a retry of an upload to one document with a key that was used on another
audits the other document while it holds the first.

Abstracted: a payload is a model value that stands for checksum and canonical scope
metadata, and validation refuses the payloads in `BadFiles`; the parser may do
either; chunks of a version are one record, since every statement treats them
alike. Unauthorized requests write an audit event and nothing else and are left
out, as are the routes that only read.

### Runs

| Run | Instance | What it shows |
| --- | --- | --- |
| `doc_review` | one legacy document, three requests of every kind, two uploads, a good and a bad payload, one fault | `TypeOK`, `IndexMatchesPointer`, `LifecycleForward`, `IndexRefined`, `FilesPresent`, `NumbersReserved` |
| `doc_liveness` | a legacy and a new document, two requests, four uploads, two keys | `RequestsFinish`, deadlocks included |

Two uploads beside a legacy version give three versions, so that a replacement is
itself replaced; three requests allow an approval, a deletion and a reindex of
the same rows at once. A circle of waiting transactions needs two documents, two
keys and four uploads.

Fairness is chosen as for agent runs: strong for the steps that wait for a lock
or a key, weak for the rest (parsing and embedding have timeouts).

## 4. Chat delivery: `ChatDelivery`, `ReplayLedger`

Committed rows are `delivery` (`chat_message_requests`), `messages`, `traces`,
`remembered` and `title`; `rowLock` is the lock of the conversation row. A request
has a program counter, its input (`job`) and what it has flushed but not committed
(`draft`). `progress` and `wire` are the queue and the events of a stream; `tab` is
the page, with the single reconnect of `frontend/src/api/chat.ts`.

| Actions | Code |
| --- | --- |
| `Send`, `Reconnect`, `Read`, `Abort`, `BreakConnection` | the page and its stream reader |
| `Post` | the plain route, used by other clients, with any identifier or none |
| `Replay`, `NotSeen`, `InsertDelivery`, `InsertConflict` | the replay record at the start of `answer` |
| the steps of `Handle` after that | `answer` in its order: routing, the search and its commit, missing evidence, the refusal of a fast message, generation, grounding, storage |
| `DatabaseError`, `Crash` | a failing statement, a restart |

The search commits the shared session, so a replay record is durable before its
turn is (`chat/service.py`, `retrieval/service.py`). Abstracted: a question with
its response mode is a fingerprint; the router may choose any intent and the
provider may answer anything; wording is left out.

| Run | Instance | What it shows |
| --- | --- | --- |
| `chat_retries` | one identifier, two contents (one fast), a page and other clients, two requests at a time, three in all, one fault | `OncePerId`, `TurnsWhole`, `ShownIsStored`, `ProgressFits`, `LedgerRefined`, `SendSettles` |

Three requests are the first, its reconnect and a competitor, which sends the
content that is not fast; identifiers do not
interact except through the conversation row, which a request without an
identifier also takes. Fairness: the server works on what it received (searches
and providers have timeouts) and the page reads what arrives and reconnects.
Users, faults and other clients owe nothing.

## 5. Scoped memory: `ScopedMemory`

`rows` are memories with their sources, `inserted` numbers them. `rowLock` and
`convLock` are held by the turn that has updated a row or a conversation. `turn` is
what a chat turn has read and flushed, `req` a request of the memory page between
its read and its write. `grants` and `live` are the outside. `forgotten` records what
an owner was told is deleted.

A grant opens pairs of a company and a department, a company belongs to a workspace,
and a memory has the company and the department of what it was made from. The
evidence a turn retrieves decides its `company`; evidence of several companies, or
none, writes no memory, which is `ExtractNothing`, `NoEpisode` and `NoSummary`. A turn
reads the summary of its conversation from every workspace the user is granted
(`SummariesRead`) and fails if it finds two; it updates or inserts the summary of its
own workspace (`SummariesOf`).

| Actions | Code |
| --- | --- |
| `Begin`, `Question`, `TouchNext` | `retrieve_relevant` and the flush that stores the question |
| the `Extract*` actions, `Supersede`, `Renew` | `apply_semantic_candidates` in its savepoint |
| episode, summary and commit steps of `Step` | `create_episode`, `upsert_conversation_summary`, the end of the turn |
| `Create`, `Ask`, `Write` | the memory routes: read, then write the changed columns |
| `Expire`, `Retire`, `Revoke`, `Abort` | time, documents, administrators, a lost turn |

An update writes the columns it changed whatever happened to the row since it
was read, as SQLAlchemy does; transactions that wait in a circle lose one.

| Run | Instance | What it shows |
| --- | --- | --- |
| `memory_races` | two preferences, two turns in two conversations that may take them in opposite orders, one request | `SupersededBySuccessor`, `MemoryWorkFinishes`, the deadlock included |
| `memory_sources` | two users, two companies in two workspaces, a chunk of each, two turns of one conversation, two requests, one event | `ForgottenStays`, `OneSummary`, `AclFollowsSources` |

Two turns, a turn and a request, or two requests are every pair that can meet on
one row; in `memory_races` two preferences are stored and two rows are their
successors, or two competing successors of one of them. In `memory_sources` one user
is granted both workspaces and the other a department of the first; the chunks differ
in company and department, so a memory may be made from either and from both never.
Two companies of one workspace share a summary; no instance has them, and section 8
covers them. Fairness: what has begun is worked on, and PostgreSQL resolves a
deadlock.

## 6. Tool calls: `ToolGateway`, `EvidenceBook`

One agent run seen from its tool calls. `action`, `attempt`, `steps`, `searches`
are the loop's and the gateway's counters; `obs` and `evidence` what the request
has observed; `hist` what was stored at the last pause; `sequence` the counter of
the evidence adapter. `invoked` and `denials` are history. The plan and the approval
rows are `AgentRuns`; here the model may ask for any action at any time, which
includes every plan.

| Actions | Code |
| --- | --- |
| `RefuseAction`, `Call`, `Pause`, `Replay`, `Diverge`, `Stop`, `Abandon` | `AgentLoop.run`: limits, approval, replay, final answer, time budget |
| `AttemptReturns`, `AttemptDenied`, `AttemptTransient`, `AttemptFails` | `ApprovedToolGateway.execute` and the adapters |
| `Observe`, `Number` | snapshots of observations and `AgentGatewayAdapter._evidence` |
| `Approve`, `Decline` | `_reconstruct_completed_steps` and the restored sequence |
| `Publish` | a document comes or goes while the run works or waits |

| Run | Instance | What it shows |
| --- | --- | --- |
| `tools_calls` | two chunks, three steps, one retry, one rewrite, observations with room for one identifier | `TypeOK`, `BudgetsKept`, `DenialIsFinal`, `PausedFits`, `BookRefined`, `RunSettles` |

`LimitsAssumption` is the relation between the limits that the code sets in three
files (8 identifiers per observation, a sequence of at most 32, 4 steps,
calculators that read at most 7 cells); the instance keeps the relation at smaller
values, so that every limit is met. Three steps allow a pause between two calls
and a call after the resume. A call that input validation refuses (a search with the
arguments of a calculation, say) is one of the attempts that fail; calculations have
no case of their own for it. Fairness is weak fairness of the request: an attempt has a
timeout (`agent_tool_timeout_seconds`, 10 s by default) and so has the loop
(`agent_max_duration_seconds`, 90 s by default). A user who never answers is not
assumed to.

## 7. Evaluations: `EvaluationRuns`

`rows` are evaluation runs with their stored results, by the request that created
them; `phase` is where a request is; `lock` the advisory lock; `left` the judge's
remaining calls; `current` a result that is not stored yet. In a result, `met` and
`judged` are history.

| Actions | Code |
| --- | --- |
| `run_evaluation`, `AcquireLock`, `AlreadyRunning`, `NoneActive`, `create_run_guarded` | the route and the transaction that checks and inserts |
| `JudgeUnavailable`, `create_optional_judge` | the optional judge |
| `run_case` | `EvaluationRunner.run_case`: every result a case of its kind can have |
| `persist_case_result`, `finish_run` | one commit per case; scores, gates and the verdict |
| `RunnerFails` | an exception that leaves the session usable: `mark_run_error` |
| `DatabaseFails`, `Crash` | a failed statement, after which `mark_run_error` fails as well; a worker that stops |

The boundaries under test may answer anything. Rates are compared as integers;
latency, tokens and costs decide nothing and are left out.

`VerdictSound` is three implications: what PASSED takes (a result for every case, each
PASS, nothing forbidden found or cited, every rate at or over its threshold), that a
forbidden document found in a complete run makes it SECURITY_FAILED, and that nothing
blocks a complete run which has earned PASSED, such as a rate at exactly 90 % or a
rate of nothing, which counts as reached. It says nothing of a run with a
forbidden citation that no search found: that is finding 2.

| Run | Instance | What it shows |
| --- | --- | --- |
| `evaluation_verdicts` | two requests, two chats with an expected and a forbidden document, a judge with one call | `TypeOK`, `OneActive`, `VerdictSound`, `JudgeBounded`, `EvaluationEnds` |
| `evaluation_leak` | one case, up to two citations | finding 2 |

Two documents are enough because a case only distinguishes expected, forbidden and
neither. Chats are the only cases that cite and that are judged, and two of them
with one call let the judge run out. Of the rates, this manifest exercises the one
that can have nothing to count (the kinds of case it lacks); a rate of exactly 90 %
would take ten documents. The thresholds and the other kinds of case
are left to section 8, which proves `OneActive`, `VerdictSound` and `TypeOK` for every
manifest and any number of requests. Fairness: every await of a request ends, and the lock is held
for one short transaction.

## 8. Proofs

`AgentRunsProofs` proves, for any number of runs, requests, actions, chunks and
scopes and any number of faults, from `ConstantsAssumption` alone (the subset
relations between kinds of actions, the ranges the code's settings enforce for
step and replan limits, and that the "no such thing" values are outside their
sets):

- `TypeCorrect`: `Spec => []TypeOK`;
- `OneDriverCorrect`: `Spec => []OneDriver`;
- `PendingCorrect`: `Spec => []PendingIffAwaiting`;
- `TransitionsCorrect`: `Spec => TransitionsAllowed`;
- `ConsentCorrect`: `Spec => []GatedCallsApproved`.

None of the three invariants is inductive. Whether two requests can drive one run
depends on what each of them read and still relies on: `LockOK` says that a
request that resolves holds the row lock and that its copies of run and approval
are current; `DriverOK` says which status the run of a driving request has and
what that request may write. Together with `OneDriver` and `PendingIffAwaiting`
they form `ControlInv`. The case that carries the argument is a resolution that
meets a run which a search inside a loop has unlocked: the run is then RUNNING and
not AWAITING_APPROVAL, so the resolution finds nothing to answer, and a Stop is
refused unless the run waits.

Consent needs a second layer, `ConsentInv`: the approvals of a run are used in
order (`ApprovalsInOrder`: all but the newest are consumed, and at most one
consumed approval has not had its call), and the approved hash a loop carries is
exactly that one (`CarriedConsent`). The theorem then holds over any number of
pauses and resumes, and in spite of grants that change in between.

The proof that a step preserves each invariant follows the groups of `Next`
(start, loop, ending, resolution, environment). Facts about a group's frame are
lemmas (`OthersKeep`, `StepControl`, `QuietConsent`, ...), so that each action
only shows what it really disturbs.

`AgentHistoryProofs` builds on these two invariants and proves, from the same
assumptions:

- `CallsAreOnce`: `Spec => []ToolCallsOnce`;
- `HistoryIsFaithful`: `Spec => []HistoryFaithful`;
- `RefusalsHaveCause`: `Spec => []ApproveRefusedForCause`;
- `HistoryOnlyGrows`: `Spec => HistoryAppendOnly`;
- `RunsRefineGate`: `Spec => GateRefined`.

The first three need a third layer, `HistoryInv`; `RefusalsHaveCause` also needs
`PlanInv`: the open question of a paused run has the run's plan count as its plan
version, and the run has at least as many plan rows, so that the binding can fail only
if it has more. What was called and what is stored
meet only in the memory of the request that executes the run, so `LoopFollows` says
how they relate there: the steps a resumed loop was given are the stored ones;
there are as many calls as the longer of the given and the done steps; a step that
is done repeats the action of the call of its number, and after the replay its plan
version too. During the replay the plan version may differ, which is why the comparison
of the new rows with the stored ones (`HistoryMatches`) is part of the argument. The
ban on repeated actions looks only at what the loop has done; it covers the
whole run because a call is made only after the replay is over, when what is done is
everything that was called. `HistoryOnlyGrows` needs `ControlInv` only: a verdict is
written under the row lock, on an approval that is still PENDING. The refinement needs
`ConsentInv` as well: pausing is `Ask` because every earlier consent is used, approving is
`Grant` because the PENDING approval is the next one without a call, and a call that
needs consent is `Perform` because the hash it carries is that approval's.

`EvaluationRunsProofs` proves, for any manifest, any finite set of documents, any
number of requests and any crashes, from `ManifestAssumption` (the manifest is a
sequence of cases and not empty, the judge's limit is 0, 1 or 2):

- `AtMostOneActive`: `Spec => []OneActive`;
- `VerdictIsSound`: `Spec => []VerdictSound`;
- `EvaluationTypes`: `Spec => []TypeOK`.

`OneActive` needs `Guarded`: a request between check and commit holds the lock,
and nothing is active while it inserts. `VerdictSound` needs that results are
honest (`ResultsHonest`: a case that leaked did not pass, from the kind of the case
to the stored row), that the pass rates of the kinds of case
follow from the cases while the other gates are the rates (`GatesAreRates`), and that a row follows the phase of its request (`Lifecycle`:
it is RUNNING and untouched by others until its own request ends it, and a run
that fails is not complete). `RunCaseResult` and the `...Honest` lemmas say what
every kind of case can report.

`JudgeIsBounded`, `Spec => []JudgeBounded`, adds that what a row says of the judge
is counted: the cases whose result says `judged` are at most the calls already
used (`Asked` is the set of such cases, so that the count is a cardinality).

`DocumentLifecycleProofs` proves, for any documents, files and keys, any number of
requests and any faults, from `LifecycleAssumption` (bounds are numbers, the "no such
thing" values are outside their sets):

- `LifecycleTypes`: `Spec => []TypeOK`;
- `IndexFollowsPointer`: `Spec => []IndexMatchesPointer`;
- `FilesArePresent`: `Spec => []FilesPresent`;
- `NumbersStayReserved`: `Spec => []NumbersReserved`;
- `LifecycleMovesForward`: `Spec => LifecycleForward`;
- `LifecycleRefinesIndex`: `Spec => IndexRefined`.

The invariant says of a document how its rows, files and chunks belong together
(`VersionFacts`, `FileFacts`, `ChunkFacts`) and of a request what its lock, its
reserved number and its new file entitle it to (`LockFacts`, `UploadFacts`,
`UnlinkFacts`, `FreshFacts`). The argument is `Exclusive`: the requests that write a
document hold its lock, so what one of them has read is still true when it commits,
and `CommitStep` and `WriteStep` turn that into one obligation per commit. Files
need more than locks, since they do not roll back: a new file is under an
identifier nobody else has (`FreshFacts`), and what a deletion still has to unlink
belongs to documents that are deleted already. The refinement follows from
`OfferedIsCurrent`: what search would return for a document is exactly the version
its pointer names, so an approval is `Publish`, a deletion `Withdraw`, and every
other step leaves the index alone.

`ChatDeliveryProofs` proves, for any identifiers, fingerprints, pages and concurrent
requests and any faults, from `DeliveryAssumption`:

- `DeliveryTypes`: `Spec => []TypeOK`;
- `StoredOncePerId`: `Spec => []OncePerId`;
- `StoredTurnsWhole`: `Spec => []TurnsWhole`;
- `ShownAnswersStored`: `Spec => []ShownIsStored`;
- `ProgressAlwaysFits`: `Spec => []ProgressFits`;
- `ChatRefinesLedger`: `Spec => LedgerRefined`.

`RowInv` relates messages, traces and replay records of stored turns (`DeliveryFacts`:
what a record says is what is stored under its identifier). `WorkInv` says what a
request may count on: a turn nobody has stored, and from the insert on the record of
its identifier, uncommitted before the search (`flushed`) and PENDING after it
(`stored`); two requests never have the record of one identifier, because the unique
index makes the second one wait and then fail. `OwnRecord` concludes that nothing is
stored under the identifier when the turn commits, which gives `OncePerId`, and
`InvStores` does the commit of an answer and of a provider's error at once. `PageInv`
is about the browser: every unread event of a stream that carries text carries the
stored answer to the question of the page that listens (`Good`), so that nothing a
page reads can be foreign, not even when a page reconnects with its identifier and
another client has answered meanwhile. `ProgressFits` needs how much a request has
reported by where it is (`Reported`).

`ScopedMemoryProofs` proves, for any users, conversations, chunks and candidates, from
`MemoryAssumption` and `EarlierAssumption` (the rows found at the start are what
earlier turns have extracted: private semantic rows that nobody has superseded or
deleted):

- `MemoryTypes`: `Spec => []TypeOK`;
- `ForgottenForGood`: `Spec => []ForgottenStays`;
- `SupersessionsWhole`: `Spec => []SupersededBySuccessor`;
- `AclsFollow`: `Spec => []AclFollowsSources`;
- `SummariesUnique`: `Spec => []OneSummary`.

The invariant says of a stored row that its company and department are those of its
sources and that no summary waits for a confirmation (`Sound`), and of a turn what it
will commit: insertions with numbers of their own, a supersession together with its
successor, a summary only for a conversation that has none in the turn's workspace
(`DraftFacts`, `UpdateFacts`, `SummaryFacts`). A turn holds its conversation from the question to the
commit (`PhaseFacts`), which is why two turns cannot both find no summary. `Evolves`
is what every commit does to a stored row: it never comes back from deletion and
never changes owner, company, key, department or sources.

`ToolGatewayProofs` proves, for any chunks, scopes and limits, from `LimitsAssumption`
(limits are positive where the code's settings say so; an observation's citations
cover the inputs of a calculation; the highest sequence a rebuild accepts covers the
steps that can precede a pause):

- `GatewayTypes`: `Spec => []TypeOK`;
- `BudgetsAreKept`: `Spec => []BudgetsKept`;
- `DenialEndsTheRun`: `Spec => []DenialIsFinal`;
- `PausedRunFits`: `Spec => []PausedFits`;
- `GatewayRefinesBook`: `Spec => BookRefined`.

The hard part is the loop that is rebuilt from stored observations. `Account` is what
the run has observed so far: the stored observations until they are all replayed,
then the loop's own. `LoopInv` says that a replaying loop is a prefix of the stored
one and its counters are those of its observations, `NumberInv` that the identifiers
of the account are exactly 1 to the adapter's sequence with one owner each, and
`BudgetInv` that every invocation is paid for by an observation of the account or by
the call being made. Each is preserved by rebuilding precisely because it is stated
of the account and not of the loop.

Every inductive invariant was model-checked on small instances before it was proved.
Two properties and one abstract specification are worded for the provers and mean
what they meant: `JudgeBounded` counts with `Asked`, and `EvidenceBook!Next` says that
the new identifiers are consecutive without counting them. `LoseConnection` of
`ChatDelivery` states its alternatives so that they exclude each other, and `Arrive`
states the bound on attempts that `Reserved` had implied.

Only model-checked are the liveness properties `RequestsFinish` (of runs and of
documents), `SendSettles`, `MemoryWorkFinishes`, `RunSettles` and `EvaluationEnds`:
fairness and `ENABLED` are beyond the prover. Every invariant, action property and
refinement that a passing run checks is also a theorem.

## 9. Findings

Each of these runs checks a documented sentence as a property, and TLC's
counterexample is the scenario.

1. **A failed pause leaves a run RUNNING for ever** (`pausefails`). The
   checkpoint is written inside `except ApprovalRequired`; an error there reaches
   no sibling clause. `docs/architecture.md` says the run is then marked FAILED.
2. **A forbidden citation does not make the run SECURITY_FAILED**
   (`evaluation_leak`). Only the documents of the recall search are compared,
   although the case itself records AUTHORIZATION_LEAK.

The modules state further sentences that the code does not keep, without a run of
their own. TLC refutes each of them when it takes the place of the properties of
the configuration named here (with the changes in brackets).

| Formula | Configuration | What happens |
| --- | --- | --- |
| `ApprovedUnderItsPlan` | `MCAgentRuns_pausefails.cfg` | A resumed loop compares the hash of an approved action only; `docs/architecture.md` says plan drift fails closed. |
| `MessageCommitsWithStatus` | `MCAgentRuns_pausefails.cfg` | A search commits the user message before history and status; `docs/architecture.md` says they commit together. |
| `InitialUploadsDeduplicated` | `MCDocumentLifecycle_liveness.cfg` [`Legacy = {}`] | The duplicate check is an unlocked read with no constraint behind it. |
| `ConflictingReuseFails` | `MCDocumentLifecycle_liveness.cfg` | A deduplicated upload does not reserve its idempotency key; `docs/security-invariants.md` says conflicting reuse fails. |
| `PendingMeansProcessing` | `MCChatDelivery_retries.cfg` | The search commits the pending record; a request that then ends without an answer leaves it, and every retry is told that the message is still processing. |
| `UpgradeLeavesNothing` | `MCChatDelivery_retries.cfg` | `deep_mode_required` is raised after the search has committed the record; `docs/architecture.md` says "no persistence". |
| `UpgradeOffered` | `MCChatDelivery_retries.cfg` | The streaming route turns that refusal into `stream_failed`, and the page waits for a 409 with its own code. |
| `OnePreferencePerKey` | `MCScopedMemory_races.cfg` | Two turns supersede the same row, or a pending one is confirmed beside it; `docs/architecture.md` says a change supersedes atomically. |
| `InferredRemainsPending` | `MCScopedMemory_races.cfg` | An inferred preference takes the stated one out of force before anybody confirms it. |
| `OneSummaryRead` | `MCScopedMemory_sources.cfg` | A conversation gets one summary in each workspace its evidence is of, and the reader looks in all of them with `one_or_none`: two make every later turn fail. `docs/security-invariants.md` says that the rolling summary is selected by exact tenant. |
| `SearchObserved` | `MCToolGateway_calls.cfg` | The offered schema allows 20 results, a stored observation 8, and the difference is handled nowhere: a wide search fails the run. |
| `MemorySearchAnswers` | `MCToolGateway_calls.cfg` | The result contract of `search_memory` has other scope names than the memories, so a department memory makes the call fail. |
| `ActiveIsExecuting` | `MCEvaluationRuns_leak.cfg` | Nothing takes the row of an interrupted evaluation out of RUNNING, so it blocks all later ones. |
| `JudgeAdvisory` | `MCEvaluationRuns_leak.cfg` [`JudgeLimits = {1}`] | A failing judge turns a case that passed, and with it the run, into ERROR. |
| `ConfirmedCitationsCount` | `MCEvaluationRuns_leak.cfg` | Supported citations are counted as documents, so two citations of one document halve the precision. |

## 10. Not modelled

Texts, prompts, ranking and the arithmetic of calculations; the regular
expressions that classify questions; password hashing and tokens; the format
rules of file validation (bytes); providers beyond what they may return;
configuration and error envelopes; scripts and migrations beyond the state they
leave; pages of the browser other than chat. The policy engine is a function of
the grants: the models take its decisions as given, and grants change under them.
The gateway repeats the loop's own checks of name, capability and schema, which
cannot fail a second time, and validates its static catalog at startup; both are
left out. So is the validation of the checked-in evaluation manifest.
Grants and documents do not change in `ChatDelivery`: a replay returns the stored
answer with its citations without looking at them again. Which of two first
questions names a conversation is in the model, but nothing in the repository says
which should, so no property does. `TypeOK` of `ChatDelivery` and `ScopedMemory` is
stated for the proofs in the plan and belongs to no run.

## 11. Plan

1. `PolicyEngine`: `authorize` and scope building as operators against a
   reference definition; retrieval scope.
2. Operand selection of calculations and chunk splitting as operators over
   bounded inputs.
