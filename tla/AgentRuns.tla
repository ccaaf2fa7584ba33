----------------------------- MODULE AgentRuns -----------------------------
(***************************************************************************)
(* Agent runs of one user: the rows of agent_runs and their children, and  *)
(* the HTTP requests that create, drive, pause, approve, reject, change,   *)
(* stop and resume them (agent/service.py, agent/approval_service.py,      *)
(* agent/history_repository.py, agent/loop.py).                            *)
(*                                                                         *)
(* Every request has a database session of its own, so it works on copies  *)
(* of the rows (seen, work) that become stale unless it holds the row lock *)
(* of the run.  A request of somebody else finds no row (404) and changes  *)
(* nothing, so only the owner's requests appear.                           *)
(***************************************************************************)
EXTENDS Integers, Sequences, FiniteSets

CONSTANTS
  Runs,         \* identifiers new runs may take
  Requests,     \* HTTP requests in flight at the same time
  Actions,      \* canonical action hashes a plan may propose
  Searches,     \* actions of portfolio.search_authorized_documents
  Risky,        \* actions whose tool is classified ALWAYS_REQUIRE_APPROVAL
  Finalizing,   \* actions whose success ends the loop (calculators, memory)
  Calculators,  \* actions of a portfolio.calculate_* tool
  Chunks,       \* document chunks a tool may return as evidence
  Scopes,       \* authorization scopes, told apart by their fingerprint
  ScopeChunks,  \* [Scopes -> SUBSET Chunks]: what a scope may read
  Modes,        \* control modes new runs are started in
  Shapes,       \* step counts a plan may have
  MaxSteps,     \* AgentLoopLimits.max_steps
  MaxReplans,   \* AgentLoopLimits.max_replans
  MaxFaults,    \* bound: crashes and database errors in a behaviour
  NoRequest, NoRun, NoAction

ASSUME ConstantsAssumption ==
  /\ Calculators \subseteq Finalizing
  /\ Finalizing \subseteq Actions
  /\ Risky \subseteq Actions
  /\ Searches \subseteq Actions \ Finalizing
  /\ ScopeChunks \in [Scopes -> SUBSET Chunks]
  /\ Modes \subseteq {"guided", "balanced", "autonomous"}
  /\ Shapes \subseteq 1..3
  /\ MaxSteps \in 1..4
  /\ MaxReplans \in 0..1
  /\ MaxFaults \in Nat
  /\ Scopes # {}
  /\ NoRequest \notin Requests
  /\ NoRun \notin Runs
  /\ NoAction \notin Actions

VARIABLES
  \* the committed rows
  status,     \* agent_runs.status, "none" before the INSERT
  mode,       \* agent_runs.agent_control_mode
  message,    \* agent_runs.initial_user_message_id is set
  planCount,  \* agent_runs.plan_version_count
  planRows,   \* agent_plan_versions: planned_step_count by version
  stepRows,   \* agent_steps with their observations
  approvals,  \* agent_approval_requests in creation order
  rowLock,    \* the request whose transaction holds the agent_runs row
  \* the requests
  pc, on, job, seen, work,
  \* the outside
  grant,      \* the scope the next request of the user will authenticate to
  live,       \* chunks of active, approved document versions
  faults,
  \* history variables, read by the properties only
  calls,      \* tool calls that reached the gateway, in order
  gated       \* those among them that the control mode makes subject to consent

rowVars == <<status, mode, message, planCount, planRows, stepRows, approvals>>
requestVars == <<pc, on, job, seen, work>>
worldVars == <<grant, live, faults>>
historyVars == <<calls, gated>>
vars == <<rowVars, rowLock, requestVars, worldVars, historyVars>>

Terminal == {"COMPLETED", "REFUSED", "CLARIFICATION_REQUIRED",
             "INSUFFICIENT_EVIDENCE", "LIMIT_REACHED", "FAILED", "CANCELLED"}
Statuses == {"none", "CREATED", "RUNNING", "AWAITING_APPROVAL"} \cup Terminal
ApprovalStatuses == {"PENDING", "CONSUMED", "REJECTED", "CANCELLED",
                     "EXPIRED", "SUPERSEDED"}

\* run_state.py; "none" stands for the INSERT of the row.
AllowedTransitions ==
  [s \in Statuses |->
     CASE s = "none" -> {"CREATED", "RUNNING"}
       [] s = "CREATED" -> {"RUNNING", "REFUSED", "CANCELLED", "FAILED"}
       [] s = "RUNNING" -> {"AWAITING_APPROVAL"} \cup Terminal
       [] s = "AWAITING_APPROVAL" -> {"RUNNING", "CANCELLED", "FAILED"}
       [] OTHER -> {}]

StepRow == [hash : Actions, pv : Nat, ok : BOOLEAN, chunks : SUBSET Chunks]
ApprovalRow == [status : ApprovalStatuses, pv : Nat, step : Nat,
                hash : Actions, scope : Scopes, expired : BOOLEAN]
Call == [hash : Actions, pv : Nat]
GatedCall == [hash : Actions, pv : Nat, scope : Scopes]

Kinds == {"message", "approve", "reject", "change", "stop"}
Job == [kind : Kinds, item : Nat, scope : Scopes,
        mode : {"guided", "balanced", "autonomous"}]
Seen == [run : Statuses, item : ApprovalStatuses \cup {"none"}]
Work == [approved : Actions \cup {NoAction},  \* approved_action_hash
         recon : Seq(StepRow),                \* reconstructed_steps
         plans : Seq(Nat),                    \* session.plans
         done : Seq(StepRow),                 \* session.safe_steps
         ask : Actions \cup {NoAction},       \* the action that must be approved
         result : Statuses]                   \* status to be written at the end

NoSeen == [run |-> "none", item |-> "none"]
NoJob == [kind |-> "message", item |-> 0,
          scope |-> CHOOSE s \in Scopes : TRUE, mode |-> "balanced"]
NoWork == [approved |-> NoAction, recon |-> <<>>, plans |-> <<>>,
           done |-> <<>>, ask |-> NoAction, result |-> "none"]

\* A request with one of these is executing the run named by on[q].
Driving == {"begin", "setup", "loop", "pause", "finish", "mark"}
ProgramCounters == {"idle", "create", "wait", "held"} \cup Driving

TypeOK ==
  /\ status \in [Runs -> Statuses]
  /\ mode \in [Runs -> {"guided", "balanced", "autonomous"}]
  /\ message \in [Runs -> BOOLEAN]
  /\ planCount \in [Runs -> Nat]
  /\ planRows \in [Runs -> Seq(Nat)]
  /\ stepRows \in [Runs -> Seq(StepRow)]
  /\ approvals \in [Runs -> Seq(ApprovalRow)]
  /\ rowLock \in [Runs -> Requests \cup {NoRequest}]
  /\ pc \in [Requests -> ProgramCounters]
  /\ on \in [Requests -> Runs \cup {NoRun}]
  /\ \A q \in Requests : pc[q] \notin {"idle", "create"} => on[q] \in Runs
  /\ job \in [Requests -> Job]
  /\ \A q \in Requests :
       pc[q] \in {"wait", "held"} /\ job[q].kind # "stop"
         => job[q].item \in DOMAIN approvals[on[q]]
  /\ seen \in [Requests -> Seen]
  /\ work \in [Requests -> Work]
  /\ \A q \in Requests : pc[q] = "pause" => work[q].ask \in Actions
  /\ grant \in Scopes
  /\ live \subseteq Chunks
  /\ faults \in 0..MaxFaults
  /\ calls \in [Runs -> Seq(Call)]
  /\ gated \in [Runs -> Seq(GatedCall)]
-----------------------------------------------------------------------------
(***************************************************************************)
(* Row locks, authorization and the policy tables.                         *)
(***************************************************************************)
\* SELECT ... FOR UPDATE and UPDATE wait for the transaction that holds the row.
RowFree(r, q) == rowLock[r] \in {NoRequest, q}

Release(q) == rowLock' = [r \in Runs |-> IF rowLock[r] = q THEN NoRequest ELSE rowLock[r]]

Goto(q, label) == pc' = [pc EXCEPT ![q] = label]

\* The response is sent (or the exception is) and the session closed.
EndRequest(q) ==
  /\ pc' = [pc EXCEPT ![q] = "idle"]
  /\ on' = [on EXCEPT ![q] = NoRun]
  /\ seen' = [seen EXCEPT ![q] = NoSeen]
  /\ work' = [work EXCEPT ![q] = NoWork]
  /\ job' = [job EXCEPT ![q] = NoJob]

\* authorized_chunks_statement: the scope the request authenticated to, and
\* the document lifecycle as it is now.
Authorized(q) == ScopeChunks[job[q].scope] \cap live

\* _must_pause before the approved hash is taken into account.
NeedsConsent(m, a) == a \in Risky \/ m = "guided"

MustPause(m, a, approved) == approved # a /\ NeedsConsent(m, a)
-----------------------------------------------------------------------------
(***************************************************************************)
(* Starting a run: AgentRunService.run without resume_run.                 *)
(***************************************************************************)
\* POST .../agent-runs: authentication captures the scope of this request.
ReceiveMessage(q, m) ==
  /\ pc[q] = "idle"
  /\ pc' = [pc EXCEPT ![q] = "create"]
  /\ job' = [job EXCEPT ![q] = [kind |-> "message", item |-> 0,
                                scope |-> grant, mode |-> m]]
  /\ UNCHANGED <<rowVars, rowLock, on, seen, work, worldVars, historyVars>>

\* 404, 403 or 409 deep_mode_required: no row has been written.
RefuseBeforeRow(q) ==
  /\ pc[q] = "create"
  /\ EndRequest(q)
  /\ UNCHANGED <<rowVars, rowLock, worldVars, historyVars>>

\* create_run, and RUNNING when the request lies in the scope: one commit.
CreateRun(q, r, allowed) ==
  /\ pc[q] = "create"
  /\ status[r] = "none"
  /\ status' = [status EXCEPT ![r] = IF allowed THEN "RUNNING" ELSE "CREATED"]
  /\ mode' = [mode EXCEPT ![r] = job[q].mode]
  /\ on' = [on EXCEPT ![q] = r]
  /\ Goto(q, "begin")
  /\ UNCHANGED <<message, planCount, planRows, stepRows, approvals, rowLock,
                 job, seen, work, worldVars, historyVars>>

\* The flush of initial_user_message_id updates the row: its lock is kept
\* until the transaction ends, through the model and tool calls of the loop.
Begin(q) ==
  LET r == on[q] IN
  /\ pc[q] = "begin"
  /\ RowFree(r, q)
  /\ rowLock' = [rowLock EXCEPT ![r] = q]
  /\ IF status[r] = "CREATED"
     THEN /\ Goto(q, "finish")
          /\ work' = [work EXCEPT ![q].result = "REFUSED"]
     ELSE /\ Goto(q, "loop")
          /\ UNCHANGED work
  /\ UNCHANGED <<rowVars, on, job, seen, worldVars, historyVars>>
-----------------------------------------------------------------------------
(***************************************************************************)
(* The loop: AgentLoop.run, one step per decision the model returns.       *)
(***************************************************************************)
StepsUnder(w, v) == Cardinality({i \in DOMAIN w.done : w.done[i].pv = v})

Version(w) == Len(w.plans)

\* first_pending_step exists: the current plan is not exhausted.
HasPendingStep(w) == w.plans # <<>> /\ StepsUnder(w, Version(w)) < w.plans[Version(w)]

\* executed_action_fingerprints
Executed(w) == {w.done[i].hash : i \in DOMAIN w.done}

\* validate_next_action and the step budget let the tool action a through.
Executable(w, a) ==
  /\ HasPendingStep(w)
  /\ a \notin Executed(w)
  /\ Len(w.done) < MaxSteps

Looping(q) == pc[q] = "loop"

DecideInitial(q, n) ==
  /\ Looping(q)
  /\ work[q].plans = <<>>
  /\ work' = [work EXCEPT ![q].plans = <<n>>]
  /\ UNCHANGED <<rowVars, rowLock, pc, on, job, seen, worldVars, historyVars>>

\* apply_decision with a changed plan, possible once after each completed step.
Replan(q, n) ==
  LET w == work[q] IN
  /\ Looping(q)
  /\ w.done # <<>>
  /\ w.done[Len(w.done)].pv = Version(w)
  /\ Version(w) <= MaxReplans
  /\ work' = [work EXCEPT ![q].plans = Append(@, n)]
  /\ UNCHANGED <<rowVars, rowLock, pc, on, job, seen, worldVars, historyVars>>

\* A step already in the history is not executed: its observation is reused.
ReplayStep(q, a) ==
  LET w == work[q]
      i == Len(w.done) + 1 IN
  /\ Looping(q)
  /\ Executable(w, a)
  /\ i <= Len(w.recon)
  /\ w.recon[i].hash = a
  /\ work' = [work EXCEPT ![q].done =
                Append(@, [hash |-> a, pv |-> Version(w), ok |-> TRUE,
                           chunks |-> w.recon[i].chunks])]
  /\ UNCHANGED <<rowVars, rowLock, pc, on, job, seen, worldVars, historyVars>>

\* How a call ends the loop, "none" when the loop goes on.
ResultsIgnoringErrors(a, ok) == IF a \in Finalizing THEN {"COMPLETED", "FAILED"} ELSE {"none"}
ResultsOf(a, ok) ==
  CASE ~ok -> {"REFUSED", "FAILED"}
    [] ok /\ a \in Finalizing -> {"COMPLETED", "FAILED"}
    [] OTHER -> {"none"}

\* A search records its audit event and commits the session of the request:
\* the user message becomes durable and the row lock is gone.  A search that
\* fails may have failed before or after that commit.
CommitsOf(a, ok) ==
  CASE a \notin Searches -> {FALSE}
    [] a \in Searches /\ ok -> {TRUE}
    [] OTHER -> BOOLEAN

\* "An approval is for exactly one action, not a blanket continuation."
AfterCall(w, a, ok, found, result) ==
  [approved |-> IF w.approved = a THEN NoAction ELSE w.approved,
   recon |-> w.recon,
   plans |-> w.plans,
   done |-> Append(w.done, [hash |-> a, pv |-> Version(w), ok |-> ok, chunks |-> found]),
   ask |-> w.ask,
   result |-> result]

\* The gateway is called.  A denied, failed or timed-out call ends the loop,
\* and so does the success of a calculator or memory tool.
ExecuteStep(q, a, ok, found) ==
  LET w == work[q]
      r == on[q] IN
  /\ Looping(q)
  /\ Executable(w, a)
  /\ Len(w.done) >= Len(w.recon)
  /\ w.approved \in {NoAction, a}
  /\ ~MustPause(mode[r], a, w.approved)
  /\ found \subseteq Authorized(q)
  /\ ~ok => found = {}
  /\ \E result \in ResultsOf(a, ok) :
       /\ work' = [work EXCEPT ![q] = AfterCall(w, a, ok, found, result)]
       /\ Goto(q, IF result = "none" THEN "loop" ELSE "finish")
  /\ \E committed \in CommitsOf(a, ok) :
       IF committed
       THEN message' = [message EXCEPT ![r] = TRUE] /\ Release(q)
       ELSE UNCHANGED <<message, rowLock>>
  /\ calls' = [calls EXCEPT ![r] = Append(@, [hash |-> a, pv |-> Version(w)])]
  /\ gated' = IF NeedsConsent(mode[r], a)
              THEN [gated EXCEPT ![r] = Append(@, [hash |-> a, pv |-> Version(w),
                                                   scope |-> job[q].scope])]
              ELSE gated
  /\ UNCHANGED <<status, mode, planCount, planRows, stepRows, approvals,
                 on, job, seen, worldVars>>

\* raise ApprovalRequired
AskApproval(q, a) ==
  LET w == work[q] IN
  /\ Looping(q)
  /\ Executable(w, a)
  /\ Len(w.done) >= Len(w.recon)
  /\ w.approved \in {NoAction, a}
  /\ MustPause(mode[on[q]], a, w.approved)
  /\ work' = [work EXCEPT ![q].ask = a]
  /\ Goto(q, "pause")
  /\ UNCHANGED <<rowVars, rowLock, on, job, seen, worldVars, historyVars>>

\* raise ApprovalReconstructionMismatch: the model drifted from the history or
\* from the approved action.  The handler rolls back and marks the run FAILED.
ResumeMismatch(q, a) ==
  LET w == work[q]
      i == Len(w.done) + 1 IN
  /\ Looping(q)
  /\ Executable(w, a)
  /\ \/ i <= Len(w.recon) /\ w.recon[i].hash # a
     \/ i > Len(w.recon) /\ w.approved \notin {NoAction, a}
  /\ work' = [work EXCEPT ![q].result = "FAILED"]
  /\ Goto(q, "mark")
  /\ Release(q)
  /\ UNCHANGED <<rowVars, on, job, seen, worldVars, historyVars>>

\* The outcomes a run can return with no further tool call.
LoopOutcomes(w) ==
  {"FAILED", "LIMIT_REACHED"}
    \cup (IF HasPendingStep(w)
          THEN {"CLARIFICATION_REQUIRED", "REFUSED", "INSUFFICIENT_EVIDENCE"}
          ELSE {})
    \cup (IF HasPendingStep(w) /\ \E i \in DOMAIN w.done : w.done[i].chunks # {}
          THEN {"COMPLETED"}
          ELSE {})

LoopReturns(q, outcome) ==
  /\ Looping(q)
  /\ outcome \in LoopOutcomes(work[q])
  /\ work' = [work EXCEPT ![q].result = outcome]
  /\ Goto(q, "finish")
  /\ UNCHANGED <<rowVars, rowLock, on, job, seen, worldVars, historyVars>>
-----------------------------------------------------------------------------
(***************************************************************************)
(* Ending a request: history and status are written in one transaction.    *)
(***************************************************************************)
\* persist_outcome_history raises no AgentHistoryIntegrityError.
HistoryUnchecked(q) == TRUE
HistoryMatches(q) ==
  LET w == work[q]
      r == on[q] IN
  /\ Len(stepRows[r]) <= Len(w.done)
  /\ \A i \in DOMAIN stepRows[r] : stepRows[r][i] = w.done[i]
  /\ \A v \in DOMAIN planRows[r] : v \in DOMAIN w.plans => planRows[r][v] = w.plans[v]
  /\ \A i \in DOMAIN w.done : w.done[i].chunks \subseteq Authorized(q)

WriteHistory(q) ==
  LET w == work[q]
      r == on[q] IN
  /\ stepRows' = [stepRows EXCEPT ![r] = w.done]
  /\ planRows' = IF Len(planRows[r]) < Len(w.plans)
                 THEN [planRows EXCEPT ![r] = w.plans]
                 ELSE planRows
  /\ planCount' = [planCount EXCEPT ![r] = Len(w.plans)]
  /\ message' = [message EXCEPT ![r] = TRUE]

\* The partial unique index: at most one PENDING row of a run.
NoPending(r) == \A i \in DOMAIN approvals[r] : approvals[r][i].status # "PENDING"

PendingApproval(q) ==
  [status |-> "PENDING", pv |-> Version(work[q]), step |-> Len(work[q].done) + 1,
   hash |-> work[q].ask, scope |-> job[q].scope, expired |-> FALSE]

\* except ApprovalRequired: checkpoint, PENDING approval, AWAITING_APPROVAL.
Pause(q) ==
  LET r == on[q] IN
  /\ pc[q] = "pause"
  /\ RowFree(r, q)
  /\ HistoryMatches(q)
  /\ NoPending(r)
  /\ WriteHistory(q)
  /\ approvals' = [approvals EXCEPT ![r] = Append(@, PendingApproval(q))]
  /\ status' = [status EXCEPT ![r] = "AWAITING_APPROVAL"]
  /\ Release(q)
  /\ EndRequest(q)
  /\ UNCHANGED <<mode, worldVars, historyVars>>

\* An exception inside that handler reaches no other except clause of the try
\* statement: the session is closed and the run keeps its status.
PauseFails(q) ==
  /\ pc[q] = "pause"
  /\ RowFree(on[q], q)
  /\ ~HistoryMatches(q) \/ ~NoPending(on[q])
  /\ Release(q)
  /\ EndRequest(q)
  /\ UNCHANGED <<rowVars, worldVars, historyVars>>

Finish(q) ==
  LET r == on[q] IN
  /\ pc[q] = "finish"
  /\ RowFree(r, q)
  /\ HistoryMatches(q)
  /\ WriteHistory(q)
  /\ status' = [status EXCEPT ![r] = work[q].result]
  /\ Release(q)
  /\ EndRequest(q)
  /\ UNCHANGED <<mode, approvals, worldVars, historyVars>>

\* except Exception around persist_outcome_history: rollback, then mark FAILED.
FinishFails(q) ==
  /\ pc[q] = "finish"
  /\ RowFree(on[q], q)
  /\ ~HistoryMatches(q)
  /\ work' = [work EXCEPT ![q].result = "FAILED"]
  /\ Goto(q, "mark")
  /\ Release(q)
  /\ UNCHANGED <<rowVars, on, job, seen, worldVars, historyVars>>

\* The request is cancelled, or something in the try statement raises.
Abort(q, target) ==
  /\ pc[q] \in {"begin", "loop", "finish"}
  /\ target \in {"FAILED", "CANCELLED"}
  /\ work' = [work EXCEPT ![q].result = target]
  /\ Goto(q, "mark")
  /\ Release(q)
  /\ UNCHANGED <<rowVars, on, job, seen, worldVars, historyVars>>

\* _mark_run_terminal writes only over these.
MarkableAny == Statuses
Markable == {"CREATED", "RUNNING"}

MarkTerminal(q) ==
  LET r == on[q] IN
  /\ pc[q] = "mark"
  /\ RowFree(r, q)
  /\ status' = IF status[r] \in Markable
               THEN [status EXCEPT ![r] = work[q].result]
               ELSE status
  /\ EndRequest(q)
  /\ UNCHANGED <<mode, message, planCount, planRows, stepRows, approvals,
                 rowLock, worldVars, historyVars>>

\* The COMMIT took effect and the request was cancelled while awaiting it:
\* the except clause then finds a terminal status.
CommitThenCancelled(q) ==
  LET r == on[q] IN
  /\ pc[q] = "finish"
  /\ RowFree(r, q)
  /\ HistoryMatches(q)
  /\ WriteHistory(q)
  /\ status' = [status EXCEPT ![r] = work[q].result]
  /\ Release(q)
  /\ work' = [work EXCEPT ![q].result = "CANCELLED"]
  /\ Goto(q, "mark")
  /\ UNCHANGED <<mode, approvals, on, job, seen, worldVars, historyVars>>
-----------------------------------------------------------------------------
(***************************************************************************)
(* Answering an approval: AgentApprovalService.                            *)
(***************************************************************************)
\* The approval is looked up together with its run.
AnyApproval(kind, r, i) == TRUE
ApprovalOfRun(kind, r, i) == IF kind = "stop" THEN i = 0 ELSE i \in DOMAIN approvals[r]

ReceiveResolution(q, kind, r, i) ==
  /\ pc[q] = "idle"
  /\ status[r] # "none"
  /\ kind \in {"approve", "reject", "change", "stop"}
  /\ ApprovalOfRun(kind, r, i)
  /\ Goto(q, "wait")
  /\ on' = [on EXCEPT ![q] = r]
  /\ job' = [job EXCEPT ![q] = [kind |-> kind, item |-> i,
                                scope |-> grant, mode |-> mode[r]]]
  /\ UNCHANGED <<rowVars, rowLock, seen, work, worldVars, historyVars>>

\* _locked_owned (or the FOR UPDATE of stop): the copies are read under the lock.
LockOwnedWithoutLock(q) ==
  LET r == on[q] IN
  /\ pc[q] = "wait"
  /\ seen' = [seen EXCEPT ![q] =
                [run |-> status[r],
                 item |-> IF job[q].kind = "stop" THEN "none"
                          ELSE approvals[r][job[q].item].status]]
  /\ Goto(q, "held")
  /\ UNCHANGED <<rowVars, rowLock, on, job, work, worldVars, historyVars>>
LockOwned(q) ==
  LET r == on[q] IN
  /\ pc[q] = "wait"
  /\ RowFree(r, q)
  /\ rowLock' = [rowLock EXCEPT ![r] = q]
  /\ seen' = [seen EXCEPT ![q] =
                [run |-> status[r],
                 item |-> IF job[q].kind = "stop" THEN "none"
                          ELSE approvals[r][job[q].item].status]]
  /\ Goto(q, "held")
  /\ UNCHANGED <<rowVars, on, job, work, worldVars, historyVars>>

Available(q) ==
  /\ seen[q].run = "AWAITING_APPROVAL"
  /\ job[q].kind # "stop" => seen[q].item = "PENDING"

\* 409 approval_unavailable or run_not_stoppable
UnavailableKeepsLock(q) ==
  /\ pc[q] = "held"
  /\ ~Available(q)
  /\ EndRequest(q)
  /\ UNCHANGED <<rowVars, rowLock, worldVars, historyVars>>
Unavailable(q) ==
  /\ pc[q] = "held"
  /\ ~Available(q)
  /\ Release(q)
  /\ EndRequest(q)
  /\ UNCHANGED <<rowVars, worldVars, historyVars>>

Holds(q, kind) == pc[q] = "held" /\ job[q].kind = kind /\ Available(q)

\* Writes the verdict on approval row i of run r and the run's new status.
Settle(r, i, verdict, target) ==
  /\ approvals' = [approvals EXCEPT ![r][i].status = verdict]
  /\ status' = [status EXCEPT ![r] = target]
  /\ UNCHANGED <<mode, message, planCount, planRows, stepRows>>

\* _binding_is_current
BindingIsCurrent(r, i) ==
  /\ approvals[r][i].pv = Len(planRows[r])
  /\ planCount[r] = Len(planRows[r])
  /\ approvals[r][i].step = Len(stepRows[r]) + 1

\* _reconstruct_completed_steps raises nothing.
Reconstructible(q) ==
  \A k \in DOMAIN stepRows[on[q]] :
    LET s == stepRows[on[q]][k] IN
    s.ok /\ s.hash \notin Calculators /\ s.chunks \subseteq Authorized(q)

\* Everything approve_once checks after the status, in the order it checks it.
ResumableAnyScope(q) ==
  LET r == on[q]
      i == job[q].item IN
  /\ ~approvals[r][i].expired
  /\ BindingIsCurrent(r, i)
  /\ message[r]
  /\ Reconstructible(q)
Resumable(q) ==
  LET r == on[q]
      i == job[q].item IN
  /\ ~approvals[r][i].expired
  /\ BindingIsCurrent(r, i)
  /\ approvals[r][i].scope = job[q].scope
  /\ message[r]
  /\ Reconstructible(q)

ApproveFailsClosed(q) ==
  LET r == on[q]
      i == job[q].item IN
  /\ Holds(q, "approve")
  /\ ~Resumable(q)
  /\ Settle(r, i, IF approvals[r][i].expired THEN "EXPIRED" ELSE "CANCELLED", "FAILED")
  /\ Release(q)
  /\ EndRequest(q)
  /\ UNCHANGED <<worldVars, historyVars>>

\* What the resumed loop is given.
ResumeWithoutHistory(r, i) == [NoWork EXCEPT !.approved = approvals[r][i].hash]
ResumeWithoutHash(r, i) == [NoWork EXCEPT !.recon = stepRows[r]]
ResumeWork(r, i) == [NoWork EXCEPT !.approved = approvals[r][i].hash,
                                   !.recon = stepRows[r]]

\* CONSUMED and RUNNING are committed before the runner is called.
ApproveOnce(q) ==
  LET r == on[q]
      i == job[q].item IN
  /\ Holds(q, "approve")
  /\ Resumable(q)
  /\ Settle(r, i, "CONSUMED", "RUNNING")
  /\ work' = [work EXCEPT ![q] = ResumeWork(r, i)]
  /\ seen' = [seen EXCEPT ![q] = NoSeen]
  /\ Goto(q, "setup")
  /\ Release(q)
  /\ UNCHANGED <<on, job, worldVars, historyVars>>

\* AgentRunService.run with resume_run, up to its try statement.
ResumeSetup(q) ==
  /\ pc[q] = "setup"
  /\ Goto(q, "loop")
  /\ UNCHANGED <<rowVars, rowLock, on, job, seen, work, worldVars, historyVars>>

Reject(q) ==
  /\ Holds(q, "reject")
  /\ Settle(on[q], job[q].item, "REJECTED", "CANCELLED")
  /\ Release(q)
  /\ EndRequest(q)
  /\ UNCHANGED <<worldVars, historyVars>>

\* The old run is settled and committed; then the runner starts a new one.
ChangeRequest(q) ==
  /\ Holds(q, "change")
  /\ Settle(on[q], job[q].item, "SUPERSEDED", "CANCELLED")
  /\ Goto(q, "create")
  /\ on' = [on EXCEPT ![q] = NoRun]
  /\ seen' = [seen EXCEPT ![q] = NoSeen]
  /\ Release(q)
  /\ UNCHANGED <<job, work, worldVars, historyVars>>

\* The approval rows of r once a stop has cancelled the PENDING one.
StopLeavesApproval(r) == approvals[r]
StoppedApprovals(r) ==
  [i \in DOMAIN approvals[r] |->
     IF approvals[r][i].status = "PENDING"
     THEN [approvals[r][i] EXCEPT !.status = "CANCELLED"]
     ELSE approvals[r][i]]

Stop(q) ==
  LET r == on[q] IN
  /\ Holds(q, "stop")
  /\ approvals' = [approvals EXCEPT ![r] = StoppedApprovals(r)]
  /\ status' = [status EXCEPT ![r] = "CANCELLED"]
  /\ Release(q)
  /\ EndRequest(q)
  /\ UNCHANGED <<mode, message, planCount, planRows, stepRows, worldVars, historyVars>>
-----------------------------------------------------------------------------
(***************************************************************************)
(* Time, administrators, faults.                                           *)
(***************************************************************************)
\* expires_at passes; only the approve request ever looks.
Expire(r, i) ==
  /\ approvals[r][i].status = "PENDING"
  /\ ~approvals[r][i].expired
  /\ approvals' = [approvals EXCEPT ![r][i].expired = TRUE]
  /\ UNCHANGED <<status, mode, message, planCount, planRows, stepRows,
                 rowLock, requestVars, worldVars, historyVars>>

\* Memberships, roles or grants of the user change.
Regrant(s) ==
  /\ s # grant
  /\ grant' = s
  /\ UNCHANGED <<rowVars, rowLock, requestVars, live, faults, historyVars>>

\* A document is deleted or a newer version approved: its chunks go inactive.
Deactivate(c) ==
  /\ c \in live
  /\ live' = live \ {c}
  /\ UNCHANGED <<rowVars, rowLock, requestVars, grant, faults, historyVars>>

\* The worker dies, or the database fails where nothing catches it: before
\* the try statement of a resumed run, inside the pause handler, while the
\* run is being marked.  PostgreSQL rolls back and drops the locks.
Lose(q) ==
  /\ pc[q] # "idle"
  /\ faults < MaxFaults
  /\ faults' = faults + 1
  /\ Release(q)
  /\ EndRequest(q)
  /\ UNCHANGED <<rowVars, grant, live, historyVars>>
-----------------------------------------------------------------------------
Init ==
  /\ status = [r \in Runs |-> "none"]
  /\ mode = [r \in Runs |-> "balanced"]
  /\ message = [r \in Runs |-> FALSE]
  /\ planCount = [r \in Runs |-> 0]
  /\ planRows = [r \in Runs |-> <<>>]
  /\ stepRows = [r \in Runs |-> <<>>]
  /\ approvals = [r \in Runs |-> <<>>]
  /\ rowLock = [r \in Runs |-> NoRequest]
  /\ pc = [q \in Requests |-> "idle"]
  /\ on = [q \in Requests |-> NoRun]
  /\ grant \in Scopes
  /\ job = [q \in Requests |-> NoJob]
  /\ seen = [q \in Requests |-> NoSeen]
  /\ work = [q \in Requests |-> NoWork]
  /\ live = Chunks
  /\ faults = 0
  /\ calls = [r \in Runs |-> <<>>]
  /\ gated = [r \in Runs |-> <<>>]

\* Steps that wait for a row lock; PostgreSQL serves its waiters in order.
LockSteps(q) ==
  \/ Begin(q) \/ LockOwned(q)
  \/ Pause(q) \/ PauseFails(q)
  \/ Finish(q) \/ FinishFails(q) \/ CommitThenCancelled(q)
  \/ MarkTerminal(q)

LoopSteps(q) ==
  \/ \E n \in Shapes : DecideInitial(q, n) \/ Replan(q, n)
  \/ \E a \in Actions :
       \/ ReplayStep(q, a)
       \/ AskApproval(q, a)
       \/ ResumeMismatch(q, a)
       \/ \E ok \in BOOLEAN, found \in SUBSET Chunks : ExecuteStep(q, a, ok, found)
  \/ \E outcome \in Terminal : LoopReturns(q, outcome)

OtherSteps(q) ==
  \/ RefuseBeforeRow(q)
  \/ \E r \in Runs, allowed \in BOOLEAN : CreateRun(q, r, allowed)
  \/ \E target \in {"FAILED", "CANCELLED"} : Abort(q, target)
  \/ Unavailable(q)
  \/ ApproveFailsClosed(q) \/ ApproveOnce(q) \/ ResumeSetup(q)
  \/ Reject(q) \/ ChangeRequest(q) \/ Stop(q)

Receive(q) ==
  \/ \E m \in Modes : ReceiveMessage(q, m)
  \/ \E kind \in Kinds, r \in Runs :
       \E i \in {0} \cup DOMAIN approvals[r] : ReceiveResolution(q, kind, r, i)

Environment ==
  \/ \E r \in Runs : \E i \in DOMAIN approvals[r] : Expire(r, i)
  \/ \E s \in Scopes : Regrant(s)
  \/ \E c \in Chunks : Deactivate(c)
  \/ \E q \in Requests : Lose(q)

Next ==
  \/ \E q \in Requests : LockSteps(q) \/ LoopSteps(q) \/ OtherSteps(q) \/ Receive(q)
  \/ Environment

Spec == Init /\ [][Next]_vars
-----------------------------------------------------------------------------
(***************************************************************************)
(* Safety.                                                                 *)
(***************************************************************************)
OnlyNewestPending(r) ==
  \A i \in DOMAIN approvals[r] : approvals[r][i].status = "PENDING" => i = Len(approvals[r])

\* A run waits for approval exactly when one of its approvals is PENDING, and
\* that one is the newest: no resolution, stop, expiry or failed pause leaves
\* a paused run nobody can answer or an answerable question of a run that is over.
PendingIffAwaiting ==
  \A r \in Runs :
    /\ status[r] = "AWAITING_APPROVAL" <=> ~NoPending(r)
    /\ OnlyNewestPending(r)

\* Two requests never execute the same run: concurrent clicks on Approve, or
\* an Approve racing the request that is still pausing, start one loop.
OneDriver ==
  \A p, q \in Requests :
    pc[p] \in Driving /\ pc[q] \in Driving /\ on[p] = on[q] => p = q

ConsentUsedBy(r, k) ==
  /\ k \in DOMAIN approvals[r]
  /\ approvals[r][k].status = "CONSUMED"
  /\ approvals[r][k].hash = gated[r][k].hash
  /\ approvals[r][k].scope = gated[r][k].scope

\* Every tool call that the control mode or the risk class subjects to consent
\* used up an approval of its own, consumed before the call, for the same
\* action hash and under the same authorization scope.
GatedCallsApproved ==
  \A r \in Runs : \A k \in DOMAIN gated[r] : ConsentUsedBy(r, k)

\* The run's latest loop stored fewer plan versions than the run has rows of:
\* it asked again without having replayed a replan that an earlier pause stored.
ReplanNotReplayed(r) == planCount[r] < Len(planRows[r])

\* An approve request that finds its question still open refuses it for one of
\* four reasons only: it expired, the authority changed, evidence of a stored
\* step is no longer readable, or a stored replan was not replayed before the
\* question was asked.  The last one no user can mend: every approval of such
\* a paused run ends in APPROVAL_BINDING_MISMATCH.  In particular no pause
\* leaves a run without its message, with a question about another step than
\* the next one, or with a stored step that cannot be replayed.
ApproveRefusedForCause ==
  \A q \in Requests :
    LET r == on[q]
        i == job[q].item IN
    Holds(q, "approve") /\ ~Resumable(q) =>
      \/ approvals[r][i].expired
      \/ approvals[r][i].scope # job[q].scope
      \/ \E k \in DOMAIN stepRows[r] : ~(stepRows[r][k].chunks \subseteq Authorized(q))
      \/ ReplanNotReplayed(r)

\* The stored steps are the tool calls that happened, in order and under the
\* plan version they happened under; while a run is paused they are all of them.
HistoryFaithful ==
  \A r \in Runs :
    /\ Len(stepRows[r]) <= Len(calls[r])
    /\ \A i \in DOMAIN stepRows[r] : /\ stepRows[r][i].hash = calls[r][i].hash
                                     /\ stepRows[r][i].pv = calls[r][i].pv
    /\ status[r] = "AWAITING_APPROVAL" => Len(stepRows[r]) = Len(calls[r])

\* The step budget and the ban on repeating an action hold for the whole run,
\* over all the requests that pause and resume it.
ToolCallsOnce ==
  \A r \in Runs :
    /\ Len(calls[r]) <= MaxSteps
    /\ \A i, j \in DOMAIN calls[r] : calls[r][i].hash = calls[r][j].hash => i = j

StatusMovesAllowed ==
  \A r \in Runs : status'[r] # status[r] => status'[r] \in AllowedTransitions[status[r]]

\* A status only changes the way run_state.py allows, although a driving
\* request writes it from its own copy of the row; a terminal one never does.
TransitionsAllowed == [][StatusMovesAllowed]_vars

RowsAppendOnly ==
  \A r \in Runs :
    /\ \A i \in DOMAIN stepRows[r] :
         i \in DOMAIN stepRows'[r] /\ stepRows'[r][i] = stepRows[r][i]
    /\ \A v \in DOMAIN planRows[r] :
         v \in DOMAIN planRows'[r] /\ planRows'[r][v] = planRows[r][v]
    /\ \A i \in DOMAIN approvals[r] :
         /\ i \in DOMAIN approvals'[r]
         /\ approvals[r][i].status # "PENDING" => approvals'[r][i] = approvals[r][i]

\* Stored steps and plan versions are never rewritten or dropped, and an
\* approval that has been answered keeps its answer.
HistoryAppendOnly == [][RowsAppendOnly]_vars

\* The promise of human approval, without requests, locks and rows.
gatePhase ==
  [r \in Runs |-> CASE status[r] = "none" -> "none"
                    [] status[r] \in {"CREATED", "RUNNING"} -> "working"
                    [] status[r] = "AWAITING_APPROVAL" -> "waiting"
                    [] OTHER -> "over"]
gateAsked ==
  [r \in Runs |-> IF status[r] = "AWAITING_APPROVAL"
                  THEN approvals[r][Len(approvals[r])].hash
                  ELSE NoAction]
gateConsent ==
  [r \in Runs |->
     LET k == Len(gated[r]) + 1 IN
     IF k \in DOMAIN approvals[r] /\ approvals[r][k].status = "CONSUMED"
     THEN approvals[r][k].hash
     ELSE NoAction]
gatePerformed == [r \in Runs |-> [k \in DOMAIN gated[r] |-> gated[r][k].hash]]

Gate == INSTANCE ApprovalGate WITH
  phase <- gatePhase, asked <- gateAsked, consent <- gateConsent, performed <- gatePerformed

\* Requests, locks, crashes and resumes implement the promise of approval.
GateRefined == Gate!Spec
-----------------------------------------------------------------------------
(***************************************************************************)
(* Why the above holds: the inductive invariant behind the proofs.         *)
(***************************************************************************)
\* A request that resolves holds the row lock of its run, and what it read
\* under the lock is what the rows still say.
LockOK(q) ==
  pc[q] = "held" =>
    /\ rowLock[on[q]] = q
    /\ seen[q].run = status[on[q]]
    /\ job[q].kind # "stop" => seen[q].item = approvals[on[q]][job[q].item].status

\* A request knows only runs that exist; one that is not in a loop yet has
\* nothing of an earlier loop left; the status of the run a request executes,
\* and what that request may write.
DriverOK(q) ==
  /\ pc[q] \notin {"idle", "create"} => status[on[q]] # "none"
  /\ pc[q] \in {"idle", "create", "wait", "held", "begin"} => work[q] = NoWork
  /\ pc[q] \in {"setup", "loop", "pause"} => status[on[q]] = "RUNNING"
  /\ pc[q] = "begin" => status[on[q]] \in {"CREATED", "RUNNING"}
  /\ pc[q] = "finish" =>
       \/ status[on[q]] = "RUNNING" /\ work[q].result \in Terminal
       \/ status[on[q]] = "CREATED" /\ work[q].result = "REFUSED"
  /\ pc[q] = "mark" => /\ status[on[q]] \notin {"none", "AWAITING_APPROVAL"}
                       /\ work[q].result \in {"FAILED", "CANCELLED"}

ControlInv ==
  /\ \A q \in Requests : LockOK(q) /\ DriverOK(q)
  /\ OneDriver
  /\ PendingIffAwaiting

\* Approvals of a run are used in order: all but the newest are consumed, and
\* all but at most one consumed approval have had their call.
ApprovalsInOrder(r) ==
  LET n == Len(approvals[r]) IN
  /\ status[r] = "none" => n = 0
  /\ \A k \in 1..n : k < n \/ status[r] \in {"CREATED", "RUNNING"}
                      => approvals[r][k].status = "CONSUMED"
  /\ \A k \in 1..n : NeedsConsent(mode[r], approvals[r][k].hash)
  /\ status[r] = "AWAITING_APPROVAL" => Len(gated[r]) = n - 1
  /\ Len(gated[r]) <= n

\* The approved hash a loop carries is the one consent that has not been used.
CarriedConsent(q) ==
  LET r == on[q]
      n == Len(approvals[r])
      approved == work[q].approved IN
  /\ pc[q] \in {"begin", "setup", "loop", "pause"} /\ approved = NoAction
       => Len(gated[r]) = n
  /\ pc[q] \in {"setup", "loop", "pause"} /\ approved # NoAction
       => /\ n > 0
          /\ Len(gated[r]) = n - 1
          /\ approvals[r][n].hash = approved
          /\ approvals[r][n].scope = job[q].scope
  /\ pc[q] = "pause" => approved = NoAction /\ NeedsConsent(mode[r], work[q].ask)

ConsentInv ==
  /\ \A r \in Runs : ApprovalsInOrder(r)
  /\ \A q \in Requests : CarriedConsent(q)
  /\ GatedCallsApproved

\* What a loop has done, next to the calls of its run: a replayed step repeats
\* a stored one, every other step is a call of its own, and only a step that
\* succeeded and is no calculation leaves the loop running.
LoopFollows(q) ==
  LET r == on[q]
      w == work[q] IN
  /\ pc[q] = "begin" => stepRows[r] = <<>> /\ calls[r] = <<>>
  /\ pc[q] \in {"setup", "loop", "pause", "finish"} =>
       /\ w.recon = stepRows[r]
       /\ Len(calls[r]) = IF Len(w.done) < Len(w.recon) THEN Len(w.recon) ELSE Len(w.done)
       /\ \A i \in DOMAIN w.done : /\ w.done[i].hash = calls[r][i].hash
                                   /\ i > Len(w.recon) => w.done[i].pv = calls[r][i].pv
  /\ pc[q] \in {"setup", "loop", "pause"} =>
       /\ \A i \in DOMAIN w.recon : w.recon[i].hash \notin Calculators
       /\ \A i \in DOMAIN w.done : w.done[i].ok /\ w.done[i].hash \notin Calculators
  /\ pc[q] = "pause" => Len(w.recon) <= Len(w.done)

\* What a paused run keeps for approve_once, the plan versions apart: the
\* committed message, the number of the next step, steps that can be replayed.
PausedHistoryComplete ==
  \A r \in Runs : status[r] = "AWAITING_APPROVAL" =>
    /\ message[r]
    /\ approvals[r][Len(approvals[r])].step = Len(stepRows[r]) + 1
    /\ \A i \in DOMAIN stepRows[r] : stepRows[r][i].ok /\ stepRows[r][i].hash \notin Calculators

\* A question is asked under the last plan version its own loop stored, which
\* need not be the latest of the run.
PlanInv ==
  \A r \in Runs :
    /\ planCount[r] <= Len(planRows[r])
    /\ status[r] = "AWAITING_APPROVAL" => approvals[r][Len(approvals[r])].pv = planCount[r]

HistoryInv ==
  /\ \A r \in Runs : status[r] = "none" => stepRows[r] = <<>> /\ calls[r] = <<>>
  /\ \A q \in Requests : LoopFollows(q)
  /\ ToolCallsOnce
  /\ HistoryFaithful
  /\ PausedHistoryComplete
-----------------------------------------------------------------------------
(***************************************************************************)
(* Liveness.  A request keeps being served (model and tool calls run under *)
(* a time budget), and PostgreSQL grants a row lock to its waiters in turn.*)
(* Users, administrators and faults owe nothing.                           *)
(***************************************************************************)
Fairness ==
  \A q \in Requests :
    /\ SF_vars(LockSteps(q))
    /\ WF_vars(LoopSteps(q) \/ OtherSteps(q))

FairSpec == Spec /\ Fairness

\* Every request is answered: no waiting for a row lock lasts for ever and no
\* sequence of plans, pauses and replays goes on for ever inside one request.
RequestsFinish == \A q \in Requests : pc[q] # "idle" ~> pc[q] = "idle"
-----------------------------------------------------------------------------
(***************************************************************************)
(* Three statements of the documentation that the code does not keep.      *)
(***************************************************************************)
\* docs/architecture.md: "Any validation/database failure rolls this
\* transaction back; the prior checkpoint is then marked FAILED".
UnfinishedRunIsDriven ==
  \A r \in Runs : status[r] \in {"CREATED", "RUNNING"} =>
    \E q \in Requests : pc[q] \in Driving /\ on[q] = r

\* docs/architecture.md: "Messages, the existing request trace, history rows,
\* and terminal status commit together": while a run that never paused is
\* unfinished, its user message is not durable yet.
MessageCommitsWithStatus ==
  \A r \in Runs : message[r] /\ approvals[r] = <<>> => status[r] \in Terminal

\* docs/architecture.md: "provider or plan drift fails closed and the user
\* must start a new run".
ApprovedUnderItsPlan ==
  \A r \in Runs : \A k \in DOMAIN gated[r] :
    k \in DOMAIN approvals[r] => gated[r][k].pv = approvals[r][k].pv
=============================================================================
