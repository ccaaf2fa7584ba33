-------------------------- MODULE AgentRunsProofs --------------------------
(***************************************************************************)
(* Machine-checked proofs about AgentRuns, for any number of runs,         *)
(* requests, actions, chunks and scopes, any limits and any number of      *)
(* faults.                                                                 *)
(***************************************************************************)
EXTENDS AgentRuns, SequenceTheorems, TLAPS

USE DEF rowVars, requestVars, worldVars, historyVars
-----------------------------------------------------------------------------
(***************************************************************************)
(* Type correctness.                                                       *)
(***************************************************************************)
\* The records that stand for "nothing" have their types.
LEMMA DefaultsType ==
  /\ NoSeen \in Seen
  /\ NoJob \in Job
  /\ NoWork \in Work
<1>1. NoSeen \in Seen
  BY DEF NoSeen, Seen, Statuses, Terminal
<1>2. NoJob \in Job
  <2>1. (CHOOSE s \in Scopes : TRUE) \in Scopes
    BY ConstantsAssumption
  <2> QED BY <2>1 DEF NoJob, Job, Kinds
<1>3. NoWork \in Work
  BY DEF NoWork, Work, Statuses, Terminal
<1> QED BY <1>1, <1>2, <1>3

\* The initial state, before any run or request, is well typed.
LEMMA InitType == Init => TypeOK
<1> SUFFICES ASSUME Init PROVE TypeOK
  OBVIOUS
<1> USE DefaultsType DEF Init
<1>1. /\ status \in [Runs -> Statuses]
      /\ mode \in [Runs -> {"guided", "balanced", "autonomous"}]
      /\ message \in [Runs -> BOOLEAN]
      /\ planCount \in [Runs -> Nat]
      /\ planRows \in [Runs -> Seq(Nat)]
      /\ stepRows \in [Runs -> Seq(StepRow)]
      /\ approvals \in [Runs -> Seq(ApprovalRow)]
      /\ rowLock \in [Runs -> Requests \cup {NoRequest}]
  BY DEF Statuses
<1>2. /\ pc \in [Requests -> ProgramCounters]
      /\ on \in [Requests -> Runs \cup {NoRun}]
      /\ job \in [Requests -> Job]
      /\ seen \in [Requests -> Seen]
      /\ work \in [Requests -> Work]
      /\ \A q \in Requests : pc[q] = "idle"
  BY DEF ProgramCounters
<1>3. /\ grant \in Scopes
      /\ live \subseteq Chunks
      /\ faults \in 0..MaxFaults
      /\ calls \in [Runs -> Seq(Call)]
      /\ gated \in [Runs -> Seq(GatedCall)]
  BY ConstantsAssumption
<1> QED BY <1>1, <1>2, <1>3 DEF TypeOK

\* Rows and loop states keep their types when one field or element changes.
LEMMA WorkUpdate ==
  ASSUME NEW w \in Work
  PROVE  /\ \A s \in Statuses : [w EXCEPT !.result = s] \in Work
         /\ \A a \in Actions : [w EXCEPT !.ask = a] \in Work
         /\ \A p \in Seq(Nat) : [w EXCEPT !.plans = p] \in Work
         /\ \A d \in Seq(StepRow) : [w EXCEPT !.done = d] \in Work
BY DEF Work

\* An approval row keeps its type when it is settled or expires.
LEMMA ApprovalUpdate ==
  ASSUME NEW s \in Seq(ApprovalRow), NEW i \in DOMAIN s, NEW v \in ApprovalStatuses
  PROVE  /\ [s EXCEPT ![i].status = v] \in Seq(ApprovalRow)
         /\ [s EXCEPT ![i].expired = TRUE] \in Seq(ApprovalRow)
         /\ DOMAIN [s EXCEPT ![i].status = v] = DOMAIN s
         /\ DOMAIN [s EXCEPT ![i].expired = TRUE] = DOMAIN s
<1>1. i \in 1..Len(s) /\ s[i] \in ApprovalRow
  BY LenProperties, ElementOfSeq
<1>2. /\ [s[i] EXCEPT !.status = v] \in ApprovalRow
      /\ [s[i] EXCEPT !.expired = TRUE] \in ApprovalRow
  BY <1>1 DEF ApprovalRow
<1> QED BY <1>1, <1>2, ExceptSeq

\* A stop keeps the approval rows, their types and their order.
LEMMA StoppedType ==
  ASSUME TypeOK, NEW r \in Runs
  PROVE  /\ StoppedApprovals(r) \in Seq(ApprovalRow)
         /\ DOMAIN StoppedApprovals(r) = DOMAIN approvals[r]
<1> DEFINE s == approvals[r]
<1>1. s \in Seq(ApprovalRow) /\ Len(s) \in Nat /\ DOMAIN s = 1..Len(s)
  BY LenProperties DEF TypeOK
<1>2. \A i \in 1..Len(s) : s[i] \in ApprovalRow
  BY <1>1, ElementOfSeq
<1>3. \A i \in 1..Len(s) : [s[i] EXCEPT !.status = "CANCELLED"] \in ApprovalRow
  BY <1>2 DEF ApprovalRow, ApprovalStatuses
<1>4. StoppedApprovals(r) \in [1..Len(s) -> ApprovalRow]
  BY <1>1, <1>2, <1>3 DEF StoppedApprovals
<1> QED BY <1>1, <1>4, SeqDef

\* The end of a transaction leaves every lock with a request or nobody.
LEMMA ReleaseType ==
  ASSUME TypeOK, NEW q \in Requests, Release(q)
  PROVE  rowLock' \in [Runs -> Requests \cup {NoRequest}]
BY DEF TypeOK, Release

\* What the end of request q leaves behind.
Ended(q) ==
  /\ pc' \in [Requests -> ProgramCounters]
  /\ on' \in [Requests -> Runs \cup {NoRun}]
  /\ job' \in [Requests -> Job]
  /\ seen' \in [Requests -> Seen]
  /\ work' \in [Requests -> Work]
  /\ pc'[q] = "idle"
  /\ \A p \in Requests \ {q} :
       /\ pc'[p] = pc[p]
       /\ on'[p] = on[p]
       /\ job'[p] = job[p]
       /\ work'[p] = work[p]

\* The end of a request resets what the request carried, nothing else.
LEMMA EndRequestType ==
  ASSUME TypeOK, NEW q \in Requests, EndRequest(q)
  PROVE  Ended(q)
BY DefaultsType DEF TypeOK, EndRequest, ProgramCounters, Ended

\* Starting a run keeps the types.
LEMMA StartType ==
  ASSUME TypeOK, NEW q \in Requests
  PROVE  /\ \A m \in Modes : ReceiveMessage(q, m) => TypeOK'
         /\ RefuseBeforeRow(q) => TypeOK'
         /\ \A r \in Runs, allowed \in BOOLEAN : CreateRun(q, r, allowed) => TypeOK'
         /\ Begin(q) => TypeOK'
<1>1. ASSUME NEW m \in Modes, ReceiveMessage(q, m) PROVE TypeOK'
  <2>1. [kind |-> "message", item |-> 0, scope |-> grant, mode |-> m] \in Job
    BY ConstantsAssumption DEF Job, Kinds, TypeOK
  <2> QED BY <1>1, <2>1 DEF TypeOK, ReceiveMessage, ProgramCounters
<1>2. ASSUME RefuseBeforeRow(q) PROVE TypeOK'
  <2>1. Ended(q)
    BY <1>2, EndRequestType DEF RefuseBeforeRow
  <2> QED BY <1>2, <2>1 DEF TypeOK, RefuseBeforeRow, Ended
<1>3. ASSUME NEW r \in Runs, NEW allowed \in BOOLEAN, CreateRun(q, r, allowed) PROVE TypeOK'
  BY <1>3 DEF TypeOK, CreateRun, Goto, ProgramCounters, Driving, Statuses, Job
<1>4. ASSUME Begin(q) PROVE TypeOK'
  <2>1. [work[q] EXCEPT !.result = "REFUSED"] \in Work
    BY WorkUpdate DEF TypeOK, Statuses, Terminal
  <2>2. work' \in [Requests -> Work]
    BY <1>4, <2>1 DEF TypeOK, Begin
  <2>3. /\ pc' \in [Requests -> ProgramCounters]
        /\ pc'[q] \in {"loop", "finish"} /\ pc[q] = "begin"
        /\ \A p \in Requests \ {q} : pc'[p] = pc[p] /\ work'[p] = work[p]
    BY <1>4 DEF TypeOK, Begin, Goto, ProgramCounters, Driving
  <2>4. /\ rowLock' \in [Runs -> Requests \cup {NoRequest}]
        /\ UNCHANGED <<rowVars, on, job, seen, worldVars, historyVars>>
    BY <1>4 DEF TypeOK, Begin
  <2> QED BY <2>2, <2>3, <2>4 DEF TypeOK
<1> QED BY <1>1, <1>2, <1>3, <1>4

\* The loop of a driving request keeps the types.
LEMMA LoopType ==
  ASSUME TypeOK, NEW q \in Requests, LoopSteps(q)
  PROVE  TypeOK'
<1>0. work[q] \in Work /\ Version(work[q]) \in Nat /\ on[q] \in Runs \cup {NoRun}
  BY LenProperties DEF TypeOK, Work, Version
<1>1. ASSUME NEW n \in Shapes, DecideInitial(q, n) PROVE TypeOK'
  <2>1. <<n>> \in Seq(Nat)
    BY ConstantsAssumption
  <2>2. [work[q] EXCEPT !.plans = <<n>>] \in Work
    BY <1>0, <2>1, WorkUpdate
  <2> QED BY <1>1, <2>2 DEF TypeOK, DecideInitial, Looping
<1>2. ASSUME NEW n \in Shapes, Replan(q, n) PROVE TypeOK'
  <2>1. Append(work[q].plans, n) \in Seq(Nat)
    BY <1>0, ConstantsAssumption DEF Work
  <2>2. [work[q] EXCEPT !.plans = Append(work[q].plans, n)] \in Work
    BY <1>0, <2>1, WorkUpdate
  <2> QED BY <1>2, <2>2 DEF TypeOK, Replan, Looping
<1>3. ASSUME NEW a \in Actions, ReplayStep(q, a) PROVE TypeOK'
  <2> DEFINE w == work[q]
             step == [hash |-> a, pv |-> Version(w), ok |-> TRUE,
                      chunks |-> w.recon[Len(w.done) + 1].chunks]
  <2>1. w.recon \in Seq(StepRow) /\ w.done \in Seq(StepRow)
    BY <1>0 DEF Work
  <2>2. Len(w.done) + 1 \in 1..Len(w.recon)
    BY <1>3, <2>1, LenProperties DEF ReplayStep
  <2>3. w.recon[Len(w.done) + 1] \in StepRow
    BY <2>1, <2>2, ElementOfSeq
  <2>4. step \in StepRow
    BY <1>0, <2>3 DEF StepRow
  <2>5. [w EXCEPT !.done = Append(w.done, step)] \in Work
    <3> HIDE DEF step
    <3>1. Append(w.done, step) \in Seq(StepRow)
      BY <2>1, <2>4
    <3> QED BY <1>0, <3>1, WorkUpdate
  <2> QED BY <1>3, <2>5 DEF TypeOK, ReplayStep, Looping
<1>4. ASSUME NEW a \in Actions, AskApproval(q, a) PROVE TypeOK'
  <2>1. [work[q] EXCEPT !.ask = a] \in Work /\ [work[q] EXCEPT !.ask = a].ask = a
    BY <1>0, WorkUpdate DEF Work
  <2> QED BY <1>4, <2>1 DEF TypeOK, AskApproval, Looping, Goto, ProgramCounters, Driving
<1>5. ASSUME NEW a \in Actions, ResumeMismatch(q, a) PROVE TypeOK'
  <2>1. [work[q] EXCEPT !.result = "FAILED"] \in Work
    BY <1>0, WorkUpdate DEF Statuses, Terminal
  <2> QED BY <1>5, <2>1, ReleaseType
          DEF TypeOK, ResumeMismatch, Looping, Goto, ProgramCounters, Driving
<1>6. ASSUME NEW a \in Actions, NEW ok \in BOOLEAN, NEW found \in SUBSET Chunks,
             ExecuteStep(q, a, ok, found)
      PROVE  TypeOK'
  <2> DEFINE w == work[q]
             step == [hash |-> a, pv |-> Version(w), ok |-> ok, chunks |-> found]
  <2>1. on[q] \in Runs
    BY <1>6 DEF TypeOK, ExecuteStep, Looping
  <2>2. step \in StepRow
    BY <1>0 DEF StepRow
  <2>3. \A result \in Statuses : AfterCall(w, a, ok, found, result) \in Work
    BY <1>0, <2>2 DEF Work, AfterCall
  <2>4. PICK result \in ResultsOf(a, ok) :
          /\ work' = [work EXCEPT ![q] = AfterCall(w, a, ok, found, result)]
          /\ Goto(q, IF result = "none" THEN "loop" ELSE "finish")
    BY <1>6 DEF ExecuteStep
  <2>5. result \in Statuses
    BY <2>4 DEF ResultsOf, Statuses, Terminal
  <2>6. work' \in [Requests -> Work] /\ work'[q] \in Work
    BY <2>3, <2>4, <2>5 DEF TypeOK
  <2>7. /\ pc' \in [Requests -> ProgramCounters]
        /\ pc'[q] \in {"loop", "finish"}
        /\ \A p \in Requests \ {q} : pc'[p] = pc[p] /\ work'[p] = work[p]
    BY <2>4 DEF TypeOK, Goto, ProgramCounters, Driving
  <2>8. message' \in [Runs -> BOOLEAN] /\ rowLock' \in [Runs -> Requests \cup {NoRequest}]
    BY <1>6, <2>1, ReleaseType DEF ExecuteStep, TypeOK
  <2>9. calls' \in [Runs -> Seq(Call)]
    <3>1. [hash |-> a, pv |-> Version(w)] \in Call
      BY <1>0 DEF Call
    <3> QED BY <1>6, <2>1, <3>1 DEF ExecuteStep, TypeOK
  <2>10. gated' \in [Runs -> Seq(GatedCall)]
    <3>1. [hash |-> a, pv |-> Version(w), scope |-> job[q].scope] \in GatedCall
      BY <1>0 DEF GatedCall, TypeOK, Job
    <3> QED BY <1>6, <2>1, <3>1 DEF ExecuteStep, TypeOK
  <2> QED BY <1>6, <2>1, <2>6, <2>7, <2>8, <2>9, <2>10 DEF TypeOK, ExecuteStep
<1>7. ASSUME NEW outcome \in Terminal, LoopReturns(q, outcome) PROVE TypeOK'
  <2>1. [work[q] EXCEPT !.result = outcome] \in Work
    BY <1>0, WorkUpdate DEF Statuses
  <2> QED BY <1>7, <2>1 DEF TypeOK, LoopReturns, Looping, Goto, ProgramCounters, Driving
<1> QED BY <1>1, <1>2, <1>3, <1>4, <1>5, <1>6, <1>7 DEF LoopSteps

\* Writing the history keeps the types of the rows.
LEMMA WriteHistoryType ==
  ASSUME TypeOK, NEW q \in Requests, on[q] \in Runs, WriteHistory(q)
  PROVE  /\ stepRows' \in [Runs -> Seq(StepRow)]
         /\ planRows' \in [Runs -> Seq(Nat)]
         /\ planCount' \in [Runs -> Nat]
         /\ message' \in [Runs -> BOOLEAN]
<1>1. /\ work[q].done \in Seq(StepRow)
      /\ work[q].plans \in Seq(Nat)
      /\ Len(work[q].plans) \in Nat
  BY LenProperties DEF TypeOK, Work
<1> QED BY <1>1 DEF TypeOK, WriteHistory

\* Pausing, finishing, failing and cancelling keep the types.
LEMMA EndingType ==
  ASSUME TypeOK, NEW q \in Requests
  PROVE  /\ Pause(q) \/ PauseFails(q) => TypeOK'
         /\ Finish(q) \/ FinishFails(q) \/ CommitThenCancelled(q) => TypeOK'
         /\ \A target \in {"FAILED", "CANCELLED"} : Abort(q, target) => TypeOK'
         /\ MarkTerminal(q) => TypeOK'
<1>0. /\ work[q] \in Work
      /\ work[q].result \in Statuses
      /\ \A s \in {"FAILED", "CANCELLED"} : [work[q] EXCEPT !.result = s] \in Work
  BY WorkUpdate DEF TypeOK, Work, Statuses, Terminal
<1>1. ASSUME Pause(q) PROVE TypeOK'
  <2>1. on[q] \in Runs /\ work[q].ask \in Actions
    BY <1>1 DEF TypeOK, Pause
  <2>2. PendingApproval(q) \in ApprovalRow
    <3>1. Version(work[q]) \in Nat /\ Len(work[q].done) + 1 \in Nat
      BY <1>0, LenProperties DEF Version, Work
    <3> QED BY <2>1, <3>1 DEF PendingApproval, ApprovalRow, ApprovalStatuses, TypeOK, Job
  <2>3. approvals' \in [Runs -> Seq(ApprovalRow)]
    BY <1>1, <2>1, <2>2 DEF Pause, TypeOK
  <2>4. \A r \in Runs : DOMAIN approvals[r] \subseteq DOMAIN approvals'[r]
    <3>1. \A r \in Runs : Len(approvals[r]) <= Len(approvals'[r])
      BY <1>1, <2>1, <2>2 DEF Pause, TypeOK
    <3> QED BY <2>3, <3>1, LenProperties DEF TypeOK
  <2>5. status' \in [Runs -> Statuses]
    BY <1>1, <2>1 DEF Pause, TypeOK, Statuses
  <2>6. WriteHistory(q) /\ Release(q) /\ EndRequest(q)
    BY <1>1 DEF Pause
  <2>7. Ended(q) /\ rowLock' \in [Runs -> Requests \cup {NoRequest}]
    BY <2>6, ReleaseType, EndRequestType
  <2>8. /\ stepRows' \in [Runs -> Seq(StepRow)]
        /\ planRows' \in [Runs -> Seq(Nat)]
        /\ planCount' \in [Runs -> Nat]
        /\ message' \in [Runs -> BOOLEAN]
    BY <2>1, <2>6, WriteHistoryType
  <2>9. \A p \in Requests : pc'[p] \in {"wait", "held"} /\ job'[p].kind # "stop"
          => job'[p].item \in DOMAIN approvals'[on'[p]]
    BY <2>4, <2>7 DEF TypeOK, Ended
  <2> QED BY <1>1, <2>3, <2>5, <2>7, <2>8, <2>9 DEF TypeOK, Pause, Ended
<1>2. ASSUME PauseFails(q) PROVE TypeOK'
  <2>1. Ended(q) /\ rowLock' \in [Runs -> Requests \cup {NoRequest}]
    BY <1>2, ReleaseType, EndRequestType DEF PauseFails
  <2> QED BY <1>2, <2>1 DEF TypeOK, PauseFails, Ended
<1>3. ASSUME Finish(q) PROVE TypeOK'
  <2>1. on[q] \in Runs
    BY <1>3 DEF TypeOK, Finish
  <2>2. Ended(q) /\ rowLock' \in [Runs -> Requests \cup {NoRequest}]
    BY <1>3, ReleaseType, EndRequestType DEF Finish
  <2>3. /\ stepRows' \in [Runs -> Seq(StepRow)]
        /\ planRows' \in [Runs -> Seq(Nat)]
        /\ planCount' \in [Runs -> Nat]
        /\ message' \in [Runs -> BOOLEAN]
    BY <1>3, <2>1, WriteHistoryType DEF Finish
  <2> QED BY <1>0, <1>3, <2>2, <2>3 DEF TypeOK, Finish, Ended
<1>4. ASSUME FinishFails(q) PROVE TypeOK'
  BY <1>0, <1>4, ReleaseType DEF TypeOK, FinishFails, Goto, ProgramCounters, Driving
<1>5. ASSUME CommitThenCancelled(q) PROVE TypeOK'
  <2>1. on[q] \in Runs
    BY <1>5 DEF TypeOK, CommitThenCancelled
  <2> QED BY <1>0, <1>5, <2>1, WriteHistoryType, ReleaseType
          DEF TypeOK, CommitThenCancelled, Goto, ProgramCounters, Driving
<1>6. ASSUME NEW target \in {"FAILED", "CANCELLED"}, Abort(q, target) PROVE TypeOK'
  BY <1>0, <1>6, ReleaseType DEF TypeOK, Abort, Goto, ProgramCounters, Driving
<1>7. ASSUME MarkTerminal(q) PROVE TypeOK'
  <2>1. Ended(q)
    BY <1>7, EndRequestType DEF MarkTerminal
  <2> QED BY <1>0, <1>7, <2>1 DEF TypeOK, MarkTerminal, Ended
<1> QED BY <1>1, <1>2, <1>3, <1>4, <1>5, <1>6, <1>7

\* Settling an approval keeps the types.
LEMMA SettleType ==
  ASSUME TypeOK, NEW r \in Runs, NEW i \in DOMAIN approvals[r],
         NEW verdict \in ApprovalStatuses, NEW target \in Statuses,
         Settle(r, i, verdict, target)
  PROVE  /\ approvals' \in [Runs -> Seq(ApprovalRow)]
         /\ status' \in [Runs -> Statuses]
         /\ \A x \in Runs : DOMAIN approvals'[x] = DOMAIN approvals[x]
BY ApprovalUpdate DEF TypeOK, Settle

\* A request that writes answers and statuses and ends keeps the types.
LEMMA AnsweredType ==
  ASSUME TypeOK, NEW q \in Requests, Ended(q),
         rowLock' \in [Runs -> Requests \cup {NoRequest}],
         approvals' \in [Runs -> Seq(ApprovalRow)],
         \A x \in Runs : DOMAIN approvals'[x] = DOMAIN approvals[x],
         status' \in [Runs -> Statuses],
         UNCHANGED <<mode, message, planCount, planRows, stepRows, worldVars, historyVars>>
  PROVE  TypeOK'
<1>1. \A p \in Requests : pc'[p] \in {"wait", "held"} /\ job'[p].kind # "stop"
        => job'[p].item \in DOMAIN approvals'[on'[p]]
  <2> SUFFICES ASSUME NEW p \in Requests,
                      pc'[p] \in {"wait", "held"}, job'[p].kind # "stop"
               PROVE  job'[p].item \in DOMAIN approvals'[on'[p]]
    OBVIOUS
  <2>1. p # q
    BY DEF Ended
  <2>2. pc'[p] = pc[p] /\ on'[p] = on[p] /\ job'[p] = job[p]
    BY <2>1 DEF Ended
  <2>3. on[p] \in Runs /\ job[p].item \in DOMAIN approvals[on[p]]
    BY <2>2 DEF TypeOK
  <2> QED BY <2>2, <2>3
<1>2. \A p \in Requests : /\ pc'[p] \notin {"idle", "create"} => on'[p] \in Runs
                          /\ pc'[p] = "pause" => work'[p].ask \in Actions
  <2> SUFFICES ASSUME NEW p \in Requests
               PROVE  /\ pc'[p] \notin {"idle", "create"} => on'[p] \in Runs
                      /\ pc'[p] = "pause" => work'[p].ask \in Actions
    OBVIOUS
  <2>1. CASE p = q
    BY <2>1 DEF Ended
  <2>2. CASE p # q
    BY <2>2 DEF Ended, TypeOK
  <2> QED BY <2>1, <2>2
<1> QED BY <1>1, <1>2 DEF TypeOK, Ended

\* Receiving, locking and answering keep the types.
LEMMA ResolutionType ==
  ASSUME TypeOK, NEW q \in Requests
  PROVE  /\ \A kind \in Kinds, r \in Runs, i \in Nat :
              ReceiveResolution(q, kind, r, i) => TypeOK'
         /\ LockOwned(q) \/ Unavailable(q) => TypeOK'
         /\ ApproveFailsClosed(q) \/ ApproveOnce(q) \/ ResumeSetup(q) => TypeOK'
         /\ Reject(q) \/ ChangeRequest(q) \/ Stop(q) => TypeOK'
<1>0. \A kind \in Kinds \ {"stop"} : Holds(q, kind) =>
        on[q] \in Runs /\ job[q].item \in DOMAIN approvals[on[q]]
  BY DEF Holds, TypeOK
<1>1. ASSUME NEW kind \in Kinds, NEW r \in Runs, NEW i \in Nat, ReceiveResolution(q, kind, r, i)
      PROVE  TypeOK'
  <2>1. [kind |-> kind, item |-> i, scope |-> grant, mode |-> mode[r]] \in Job
    BY DEF Job, TypeOK
  <2> QED BY <1>1, <2>1 DEF TypeOK, ReceiveResolution, ApprovalOfRun, Goto, ProgramCounters
<1>2. ASSUME LockOwned(q) PROVE TypeOK'
  <2>1. on[q] \in Runs
    BY <1>2 DEF TypeOK, LockOwned
  <2>2. job[q].kind # "stop" => approvals[on[q]][job[q].item].status \in ApprovalStatuses
    <3>1. approvals[on[q]] \in Seq(ApprovalRow)
      BY <2>1 DEF TypeOK
    <3>2. job[q].kind # "stop" => job[q].item \in 1..Len(approvals[on[q]])
      BY <1>2, <3>1, LenProperties DEF TypeOK, LockOwned
    <3>3. job[q].kind # "stop" => approvals[on[q]][job[q].item] \in ApprovalRow
      BY <3>1, <3>2, ElementOfSeq
    <3> QED BY <3>3 DEF ApprovalRow
  <2>3. [run |-> status[on[q]],
         item |-> IF job[q].kind = "stop" THEN "none"
                  ELSE approvals[on[q]][job[q].item].status] \in Seen
    BY <2>1, <2>2 DEF Seen, TypeOK
  <2> QED BY <1>2, <2>1, <2>3 DEF TypeOK, LockOwned, Goto, ProgramCounters
<1>3. ASSUME Unavailable(q) PROVE TypeOK'
  <2>1. Ended(q) /\ rowLock' \in [Runs -> Requests \cup {NoRequest}]
    BY <1>3, ReleaseType, EndRequestType DEF Unavailable
  <2> QED BY <1>3, <2>1 DEF TypeOK, Unavailable, Ended
<1>4. ASSUME ApproveFailsClosed(q) PROVE TypeOK'
  <2>1. on[q] \in Runs /\ job[q].item \in DOMAIN approvals[on[q]]
    BY <1>0, <1>4 DEF ApproveFailsClosed, Kinds
  <2>2. PICK verdict \in {"EXPIRED", "CANCELLED"} : Settle(on[q], job[q].item, verdict, "FAILED")
    BY <1>4 DEF ApproveFailsClosed
  <2>3. /\ approvals' \in [Runs -> Seq(ApprovalRow)]
        /\ status' \in [Runs -> Statuses]
        /\ \A x \in Runs : DOMAIN approvals'[x] = DOMAIN approvals[x]
    BY <2>1, <2>2, SettleType DEF ApprovalStatuses, Statuses, Terminal
  <2>4. Ended(q) /\ rowLock' \in [Runs -> Requests \cup {NoRequest}]
    BY <1>4, ReleaseType, EndRequestType DEF ApproveFailsClosed
  <2>5. UNCHANGED <<mode, message, planCount, planRows, stepRows, worldVars, historyVars>>
    BY <1>4, <2>2 DEF ApproveFailsClosed, Settle
  <2> QED BY <2>3, <2>4, <2>5, AnsweredType
<1>5. ASSUME ApproveOnce(q) PROVE TypeOK'
  <2>1. on[q] \in Runs /\ job[q].item \in DOMAIN approvals[on[q]]
    BY <1>0, <1>5 DEF ApproveOnce, Kinds
  <2>2. /\ approvals' \in [Runs -> Seq(ApprovalRow)]
        /\ status' \in [Runs -> Statuses]
        /\ \A x \in Runs : DOMAIN approvals'[x] = DOMAIN approvals[x]
    BY <1>5, <2>1, SettleType DEF ApproveOnce, ApprovalStatuses, Statuses
  <2>3. ResumeWork(on[q], job[q].item) \in Work
    <3>1. approvals[on[q]] \in Seq(ApprovalRow) /\ stepRows[on[q]] \in Seq(StepRow)
      BY <2>1 DEF TypeOK
    <3>2. approvals[on[q]][job[q].item] \in ApprovalRow
      BY <2>1, <3>1, LenProperties, ElementOfSeq
    <3> QED BY <3>1, <3>2, DefaultsType DEF ResumeWork, Work, ApprovalRow, NoWork
  <2>4. /\ rowLock' \in [Runs -> Requests \cup {NoRequest}]
        /\ UNCHANGED <<mode, message, planCount, planRows, stepRows, on, job>>
        /\ UNCHANGED <<worldVars, historyVars>>
    BY <1>5, ReleaseType DEF ApproveOnce, Settle
  <2>5. /\ pc' \in [Requests -> ProgramCounters] /\ pc'[q] = "setup"
        /\ work' \in [Requests -> Work]
        /\ seen' \in [Requests -> Seen]
        /\ \A p \in Requests \ {q} : pc'[p] = pc[p] /\ work'[p] = work[p]
    BY <1>5, <2>3, DefaultsType DEF TypeOK, ApproveOnce, Goto, ProgramCounters, Driving
  <2>6. \A p \in Requests :
          /\ pc'[p] \notin {"idle", "create"} => on[p] \in Runs
          /\ pc'[p] = "pause" => work'[p].ask \in Actions
          /\ pc'[p] \in {"wait", "held"} /\ job[p].kind # "stop"
               => job[p].item \in DOMAIN approvals'[on[p]]
    BY <2>1, <2>2, <2>5 DEF TypeOK
  <2> QED BY <2>2, <2>4, <2>5, <2>6 DEF TypeOK
<1>6. ASSUME ResumeSetup(q) PROVE TypeOK'
  BY <1>6 DEF TypeOK, ResumeSetup, Goto, ProgramCounters, Driving
<1>7. ASSUME Reject(q) PROVE TypeOK'
  <2>1. on[q] \in Runs /\ job[q].item \in DOMAIN approvals[on[q]]
    BY <1>0, <1>7 DEF Reject, Kinds
  <2>2. /\ approvals' \in [Runs -> Seq(ApprovalRow)]
        /\ status' \in [Runs -> Statuses]
        /\ \A x \in Runs : DOMAIN approvals'[x] = DOMAIN approvals[x]
    BY <1>7, <2>1, SettleType DEF Reject, ApprovalStatuses, Statuses, Terminal
  <2>3. Ended(q) /\ rowLock' \in [Runs -> Requests \cup {NoRequest}]
    BY <1>7, ReleaseType, EndRequestType DEF Reject
  <2>4. UNCHANGED <<mode, message, planCount, planRows, stepRows, worldVars, historyVars>>
    BY <1>7 DEF Reject, Settle
  <2> QED BY <2>2, <2>3, <2>4, AnsweredType
<1>8. ASSUME ChangeRequest(q) PROVE TypeOK'
  <2>1. on[q] \in Runs /\ job[q].item \in DOMAIN approvals[on[q]]
    BY <1>0, <1>8 DEF ChangeRequest, Kinds
  <2>2. /\ approvals' \in [Runs -> Seq(ApprovalRow)]
        /\ status' \in [Runs -> Statuses]
        /\ \A x \in Runs : DOMAIN approvals'[x] = DOMAIN approvals[x]
    BY <1>8, <2>1, SettleType DEF ChangeRequest, ApprovalStatuses, Statuses, Terminal
  <2>3. /\ rowLock' \in [Runs -> Requests \cup {NoRequest}]
        /\ UNCHANGED <<mode, message, planCount, planRows, stepRows, job, work>>
        /\ UNCHANGED <<worldVars, historyVars>>
    BY <1>8, ReleaseType DEF ChangeRequest, Settle
  <2>4. /\ pc' \in [Requests -> ProgramCounters] /\ pc'[q] = "create"
        /\ on' \in [Requests -> Runs \cup {NoRun}]
        /\ seen' \in [Requests -> Seen]
        /\ \A p \in Requests \ {q} : pc'[p] = pc[p] /\ on'[p] = on[p]
    BY <1>8, DefaultsType DEF TypeOK, ChangeRequest, Goto, ProgramCounters
  <2>5. \A p \in Requests :
          /\ pc'[p] \notin {"idle", "create"} => on'[p] \in Runs
          /\ pc'[p] = "pause" => work[p].ask \in Actions
          /\ pc'[p] \in {"wait", "held"} /\ job[p].kind # "stop"
               => job[p].item \in DOMAIN approvals'[on'[p]]
    <3> SUFFICES ASSUME NEW p \in Requests, pc'[p] # "create"
                 PROVE  /\ pc'[p] # "idle" => on[p] \in Runs
                        /\ pc'[p] = "pause" => work[p].ask \in Actions
                        /\ pc'[p] \in {"wait", "held"} /\ job[p].kind # "stop"
                             => job[p].item \in DOMAIN approvals[on[p]]
      BY <2>2, <2>4
    <3> QED BY <2>4 DEF TypeOK
  <2> QED BY <2>2, <2>3, <2>4, <2>5 DEF TypeOK
<1>9. ASSUME Stop(q) PROVE TypeOK'
  <2>1. on[q] \in Runs
    BY <1>9 DEF TypeOK, Stop, Holds
  <2>2. /\ approvals' \in [Runs -> Seq(ApprovalRow)]
        /\ \A x \in Runs : DOMAIN approvals'[x] = DOMAIN approvals[x]
    BY <1>9, <2>1, StoppedType DEF Stop, TypeOK
  <2>3. status' \in [Runs -> Statuses]
    BY <1>9 DEF Stop, TypeOK, Statuses, Terminal
  <2>4. Ended(q) /\ rowLock' \in [Runs -> Requests \cup {NoRequest}]
    BY <1>9, ReleaseType, EndRequestType DEF Stop
  <2>5. UNCHANGED <<mode, message, planCount, planRows, stepRows, worldVars, historyVars>>
    BY <1>9 DEF Stop
  <2> QED BY <2>2, <2>3, <2>4, <2>5, AnsweredType
<1> QED BY <1>1, <1>2, <1>3, <1>4, <1>5, <1>6, <1>7, <1>8, <1>9

\* Time, administrators and faults keep the types.
LEMMA EnvironmentType == TypeOK /\ Environment => TypeOK'
<1> SUFFICES ASSUME TypeOK, Environment PROVE TypeOK'
  OBVIOUS
<1>1. ASSUME NEW r \in Runs, NEW i \in DOMAIN approvals[r], Expire(r, i) PROVE TypeOK'
  <2>1. /\ approvals' \in [Runs -> Seq(ApprovalRow)]
        /\ \A x \in Runs : DOMAIN approvals'[x] = DOMAIN approvals[x]
    BY <1>1, ApprovalUpdate DEF TypeOK, Expire, ApprovalStatuses
  <2>2. UNCHANGED <<status, mode, message, planCount, planRows, stepRows, rowLock>>
        /\ UNCHANGED <<requestVars, worldVars, historyVars>>
    BY <1>1 DEF Expire
  <2>3. \A p \in Requests : pc[p] \in {"wait", "held"} /\ job[p].kind # "stop"
          => job[p].item \in DOMAIN approvals'[on[p]]
    BY <2>1 DEF TypeOK
  <2> QED BY <2>1, <2>2, <2>3 DEF TypeOK
<1>2. ASSUME NEW s \in Scopes, Regrant(s) PROVE TypeOK'
  BY <1>2 DEF TypeOK, Regrant
<1>3. ASSUME NEW c \in Chunks, Deactivate(c) PROVE TypeOK'
  BY <1>3 DEF TypeOK, Deactivate
<1>4. ASSUME NEW q \in Requests, Lose(q) PROVE TypeOK'
  <2>1. faults' \in 0..MaxFaults
    BY <1>4, ConstantsAssumption DEF TypeOK, Lose
  <2>2. Ended(q) /\ rowLock' \in [Runs -> Requests \cup {NoRequest}]
    BY <1>4, ReleaseType, EndRequestType DEF Lose
  <2> QED BY <1>4, <2>1, <2>2 DEF TypeOK, Lose, Ended
<1> QED BY <1>1, <1>2, <1>3, <1>4 DEF Environment

\* Every step keeps the types.
LEMMA NextType == TypeOK /\ [Next]_vars => TypeOK'
<1> SUFFICES ASSUME TypeOK, [Next]_vars PROVE TypeOK'
  OBVIOUS
<1>1. ASSUME NEW q \in Requests, LockSteps(q) PROVE TypeOK'
  BY <1>1, StartType, EndingType, ResolutionType DEF LockSteps
<1>2. ASSUME NEW q \in Requests, LoopSteps(q) PROVE TypeOK'
  BY <1>2, LoopType
<1>3. ASSUME NEW q \in Requests, OtherSteps(q) PROVE TypeOK'
  BY <1>3, StartType, EndingType, ResolutionType DEF OtherSteps
<1>4. ASSUME NEW q \in Requests, Receive(q) PROVE TypeOK'
  <2>1. \A r \in Runs : {0} \cup DOMAIN approvals[r] \subseteq Nat
    BY LenProperties DEF TypeOK
  <2> QED BY <1>4, <2>1, StartType, ResolutionType DEF Receive
<1>5. CASE Environment
  BY <1>5, EnvironmentType
<1>6. CASE UNCHANGED vars
  BY <1>6 DEF TypeOK, vars
<1> QED BY <1>1, <1>2, <1>3, <1>4, <1>5, <1>6 DEF Next

\* Rows, requests and history variables always have their types: a request
\* that waits for or holds a row names an existing run and approval, and a
\* pause always knows which action it is about.
THEOREM TypeCorrect == Spec => []TypeOK
<1>1. Init => TypeOK
  BY InitType
<1>2. TypeOK /\ [Next]_vars => TypeOK'
  BY NextType
<1> QED BY <1>1, <1>2, PTL DEF Spec
-----------------------------------------------------------------------------
(***************************************************************************)
(* Control: row locks, one driver per run, PENDING exactly while waiting.  *)
(*                                                                         *)
(* Every step is taken by one request q and writes the rows of at most one *)
(* run r.  Such a step preserves ControlInv if nobody else resolves or     *)
(* executes r, q's own clause holds afterwards, q does not become a second *)
(* driver, and r's approvals still agree with its status.                  *)
(***************************************************************************)
Touches(q, r) ==
  /\ \A p \in Requests \ {q} :
       /\ pc'[p] = pc[p] /\ on'[p] = on[p] /\ job'[p] = job[p]
       /\ seen'[p] = seen[p] /\ work'[p] = work[p]
  /\ \A x \in Runs \ {r} : status'[x] = status[x] /\ approvals'[x] = approvals[x]
  /\ \A x \in Runs : rowLock[x] \notin {q, NoRequest} => rowLock'[x] = rowLock[x]
  /\ r \in Runs => status'[r] # "none"

Exclusive(q, r) ==
  \A p \in Requests \ {q} : pc[p] \in Driving \cup {"held"} => on[p] # r

AskedOK(r) ==
  /\ status[r] = "AWAITING_APPROVAL" <=> ~NoPending(r)
  /\ OnlyNewestPending(r)

\* A step of q on run r keeps the clauses of every other request.
LEMMA OthersKeep ==
  ASSUME TypeOK, ControlInv, NEW q \in Requests, NEW r \in Runs \cup {NoRun},
         Touches(q, r), Exclusive(q, r), NEW p \in Requests \ {q}
  PROVE  LockOK(p)' /\ DriverOK(p)'
<1>0. LockOK(p) /\ DriverOK(p)
  BY DEF ControlInv
<1>1. /\ pc'[p] = pc[p] /\ on'[p] = on[p] /\ job'[p] = job[p]
      /\ seen'[p] = seen[p] /\ work'[p] = work[p]
  BY DEF Touches
<1>2. LockOK(p)'
  <2> SUFFICES ASSUME pc[p] = "held"
               PROVE  /\ rowLock'[on[p]] = p
                      /\ seen[p].run = status'[on[p]]
                      /\ job[p].kind # "stop" =>
                           seen[p].item = approvals'[on[p]][job[p].item].status
    BY <1>1 DEF LockOK
  <2>1. on[p] \in Runs /\ on[p] # r
    BY DEF TypeOK, Exclusive
  <2>2. rowLock[on[p]] = p /\ p \notin {q, NoRequest}
    BY <1>0, ConstantsAssumption DEF LockOK
  <2> QED BY <1>0, <2>1, <2>2 DEF Touches, LockOK
<1>3. DriverOK(p)'
  <2>1. pc[p] \notin {"idle", "create"} => on[p] \in Runs
    BY DEF TypeOK
  <2>2. pc[p] \in Driving \cup {"held"} => status'[on[p]] = status[on[p]]
    BY <2>1 DEF Touches, Exclusive, Driving
  <2>3. pc[p] \notin {"idle", "create"} => status'[on[p]] # "none"
    BY <1>0, <2>1 DEF Touches, DriverOK
  <2> QED BY <1>0, <1>1, <2>2, <2>3 DEF DriverOK, Driving
<1> QED BY <1>2, <1>3

\* The frame rule described above.
LEMMA StepControl ==
  ASSUME TypeOK, ControlInv, NEW q \in Requests, NEW r \in Runs \cup {NoRun},
         Touches(q, r), Exclusive(q, r),
         LockOK(q)', DriverOK(q)',
         pc'[q] \in Driving =>
           \A p \in Requests \ {q} : pc[p] \in Driving => on[p] # on'[q],
         r \in Runs => AskedOK(r)'
  PROVE  ControlInv'
<1>1. \A p \in Requests : LockOK(p)' /\ DriverOK(p)'
  BY OthersKeep
<1>2. OneDriver'
  BY DEF ControlInv, OneDriver, Touches
<1>3. PendingIffAwaiting'
  <2> SUFFICES ASSUME NEW x \in Runs PROVE AskedOK(x)'
    BY DEF PendingIffAwaiting, AskedOK
  <2>1. CASE x = r
    BY <2>1
  <2>2. CASE x # r
    <3>1. status'[x] = status[x] /\ approvals'[x] = approvals[x]
      BY <2>2 DEF Touches
    <3>2. AskedOK(x)
      BY DEF ControlInv, PendingIffAwaiting, AskedOK
    <3> QED BY <3>1, <3>2 DEF AskedOK, NoPending, OnlyNewestPending
  <2> QED BY <2>1, <2>2
<1> QED BY <1>1, <1>2, <1>3 DEF ControlInv

\* A step of q that writes no status and no approval row, and makes q execute
\* a run only if q did before, preserves the invariant.
LEMMA QuietControl ==
  ASSUME TypeOK, ControlInv, NEW q \in Requests,
         Touches(q, NoRun), UNCHANGED <<status, approvals>>,
         LockOK(q)', DriverOK(q)',
         pc'[q] \in Driving => pc[q] \in Driving /\ on'[q] = on[q]
  PROVE  ControlInv'
<1>1. Exclusive(q, NoRun)
  <2>1. \A p \in Requests : pc[p] \in Driving \cup {"held"} => on[p] \in Runs
    BY DEF TypeOK, Driving
  <2> QED BY <2>1, ConstantsAssumption DEF Exclusive
<1>2. NoRun \notin Runs
  BY ConstantsAssumption
<1>3. pc'[q] \in Driving => \A p \in Requests \ {q} : pc[p] \in Driving => on[p] # on'[q]
  BY DEF ControlInv, OneDriver
<1> QED BY <1>1, <1>2, <1>3, StepControl

\* The request that ends holds no lock and carries nothing over.
LEMMA EndedControl ==
  ASSUME TypeOK, NEW q \in Requests, EndRequest(q)
  PROVE  /\ LockOK(q)' /\ DriverOK(q)' /\ pc'[q] \notin Driving
         /\ \A p \in Requests \ {q} :
              /\ pc'[p] = pc[p] /\ on'[p] = on[p] /\ job'[p] = job[p]
              /\ seen'[p] = seen[p] /\ work'[p] = work[p]
BY DEF TypeOK, EndRequest, LockOK, DriverOK, Driving

\* Releasing one's locks leaves the locks of others alone.
LEMMA ReleaseKeeps ==
  ASSUME TypeOK, NEW q \in Requests, Release(q)
  PROVE  \A x \in Runs : rowLock[x] \notin {q, NoRequest} => rowLock'[x] = rowLock[x]
BY DEF TypeOK, Release

\* The steps of a request before its loop.
LEMMA StartControl ==
  ASSUME TypeOK, ControlInv, NEW q \in Requests
  PROVE  /\ \A m \in Modes : ReceiveMessage(q, m) => ControlInv'
         /\ RefuseBeforeRow(q) => ControlInv'
         /\ \A r \in Runs, allowed \in BOOLEAN : CreateRun(q, r, allowed) => ControlInv'
         /\ Begin(q) => ControlInv'
<1>0. LockOK(q) /\ DriverOK(q) /\ NoRun \notin Runs
  BY ConstantsAssumption DEF ControlInv
<1>1. ASSUME NEW m \in Modes, ReceiveMessage(q, m) PROVE ControlInv'
  <2>1. Touches(q, NoRun) /\ UNCHANGED <<status, approvals>>
    BY <1>0, <1>1 DEF ReceiveMessage, Touches, TypeOK
  <2>2. pc'[q] = "create" /\ work'[q] = NoWork
    BY <1>0, <1>1 DEF ReceiveMessage, TypeOK, DriverOK
  <2>3. LockOK(q)' /\ DriverOK(q)' /\ pc'[q] \notin Driving
    BY <2>2 DEF LockOK, DriverOK, Driving
  <2> QED BY <2>1, <2>3, QuietControl
<1>2. ASSUME RefuseBeforeRow(q) PROVE ControlInv'
  <2>1. EndRequest(q) /\ UNCHANGED <<status, approvals, rowLock>>
    BY <1>2 DEF RefuseBeforeRow
  <2>2. Touches(q, NoRun)
    BY <1>0, <2>1, EndedControl DEF Touches
  <2> QED BY <2>1, <2>2, EndedControl, QuietControl
<1>3. ASSUME NEW r \in Runs, NEW allowed \in BOOLEAN, CreateRun(q, r, allowed)
      PROVE  ControlInv'
  <2>1. /\ status[r] = "none" /\ status'[r] \in {"CREATED", "RUNNING"}
        /\ approvals' = approvals /\ rowLock' = rowLock
        /\ pc'[q] = "begin" /\ on'[q] = r /\ work'[q] = work[q]
        /\ work[q] = NoWork
    BY <1>0, <1>3 DEF CreateRun, Goto, TypeOK, DriverOK
  <2>2. Touches(q, r)
    BY <1>3, <2>1 DEF CreateRun, Goto, Touches, TypeOK
  <2>3. \A p \in Requests \ {q} : pc[p] \in Driving \cup {"held"} => on[p] # r
    BY <2>1 DEF ControlInv, DriverOK, Driving
  <2>4. Exclusive(q, r)
    BY <2>3 DEF Exclusive
  <2>5. LockOK(q)' /\ DriverOK(q)'
    BY <2>1 DEF LockOK, DriverOK
  <2>6. AskedOK(r)'
    <3>1. AskedOK(r)
      BY DEF ControlInv, PendingIffAwaiting, AskedOK
    <3>2. NoPending(r) /\ OnlyNewestPending(r)
      BY <2>1, <3>1 DEF AskedOK
    <3> QED BY <2>1, <3>2 DEF AskedOK, NoPending, OnlyNewestPending
  <2> QED BY <2>1, <2>2, <2>3, <2>4, <2>5, <2>6, StepControl
<1>4. ASSUME Begin(q) PROVE ControlInv'
  <2>1. Touches(q, NoRun) /\ UNCHANGED <<status, approvals>>
    BY <1>0, <1>4 DEF Begin, Goto, RowFree, Touches, TypeOK
  <2>2. /\ pc[q] = "begin" /\ on'[q] = on[q] /\ pc'[q] \in {"finish", "loop"}
        /\ pc'[q] = "finish" => status[on[q]] = "CREATED" /\ work'[q].result = "REFUSED"
        /\ pc'[q] = "loop" => status[on[q]] # "CREATED"
    BY <1>4 DEF Begin, Goto, TypeOK, Work
  <2>3. LockOK(q)' /\ DriverOK(q)'
    BY <1>0, <2>1, <2>2 DEF LockOK, DriverOK
  <2> QED BY <2>1, <2>2, <2>3, QuietControl DEF Driving
<1> QED BY <1>1, <1>2, <1>3, <1>4

\* The steps of the loop: the run they belong to stays RUNNING.
LEMMA LoopControl ==
  ASSUME TypeOK, ControlInv, NEW q \in Requests, LoopSteps(q)
  PROVE  ControlInv'
<1>0. LockOK(q) /\ DriverOK(q) /\ NoRun \notin Runs
  BY ConstantsAssumption DEF ControlInv
<1>1. /\ pc[q] = "loop"
      /\ Touches(q, NoRun)
      /\ UNCHANGED <<status, approvals, on>>
      /\ \/ pc'[q] \in {"loop", "pause"}
         \/ pc'[q] = "finish" /\ work'[q].result \in Terminal
         \/ pc'[q] = "mark" /\ work'[q].result \in {"FAILED", "CANCELLED"}
  <2>1. ASSUME NEW n \in Shapes, DecideInitial(q, n) \/ Replan(q, n) PROVE <1>1!:
    BY <1>0, <2>1 DEF DecideInitial, Replan, Looping, Touches, TypeOK
  <2>2. ASSUME NEW a \in Actions, ReplayStep(q, a) PROVE <1>1!:
    BY <1>0, <2>2 DEF ReplayStep, Looping, Touches, TypeOK
  <2>3. ASSUME NEW a \in Actions, AskApproval(q, a) PROVE <1>1!:
    BY <1>0, <2>3 DEF AskApproval, Looping, Goto, Touches, TypeOK
  <2>4. ASSUME NEW a \in Actions, ResumeMismatch(q, a) PROVE <1>1!:
    BY <1>0, <2>4, ReleaseKeeps DEF ResumeMismatch, Looping, Goto, Touches, TypeOK, Work
  <2>5. ASSUME NEW a \in Actions, NEW ok \in BOOLEAN, NEW found \in SUBSET Chunks,
               ExecuteStep(q, a, ok, found)
        PROVE  <1>1!:
    <3>1. PICK result \in ResultsOf(a, ok) :
            /\ work' = [work EXCEPT ![q] = AfterCall(work[q], a, ok, found, result)]
            /\ Goto(q, IF result = "none" THEN "loop" ELSE "finish")
      BY <2>5 DEF ExecuteStep
    <3>2. result \in Terminal \cup {"none"} /\ "none" \notin Terminal
      BY <3>1 DEF ResultsOf, Terminal
    <3>3. work'[q].result = result /\ pc'[q] = IF result = "none" THEN "loop" ELSE "finish"
      BY <3>1 DEF Goto, TypeOK, AfterCall
    <3>4. \A x \in Runs : rowLock[x] \notin {q, NoRequest} => rowLock'[x] = rowLock[x]
      BY <2>5, ReleaseKeeps DEF ExecuteStep
    <3> QED BY <1>0, <2>5, <3>1, <3>2, <3>3, <3>4 DEF ExecuteStep, Looping, Goto, Touches, TypeOK
  <2>6. ASSUME NEW outcome \in Terminal, LoopReturns(q, outcome) PROVE <1>1!:
    BY <1>0, <2>6 DEF LoopReturns, Looping, Goto, Touches, TypeOK, Work
  <2> QED BY <2>1, <2>2, <2>3, <2>4, <2>5, <2>6 DEF LoopSteps
<1>2. LockOK(q)' /\ DriverOK(q)'
  BY <1>0, <1>1 DEF LockOK, DriverOK
<1> QED BY <1>1, <1>2, QuietControl DEF Driving

\* Nobody else resolves or executes the run of a driving request that may
\* write its row.
LEMMA DriverExclusive ==
  ASSUME TypeOK, ControlInv, NEW q \in Requests, pc[q] \in Driving, RowFree(on[q], q)
  PROVE  Exclusive(q, on[q])
<1> SUFFICES ASSUME NEW p \in Requests \ {q}, pc[p] \in Driving \cup {"held"}
             PROVE  on[p] # on[q]
  BY DEF Exclusive
<1>1. CASE pc[p] \in Driving
  BY <1>1 DEF ControlInv, OneDriver
<1>2. CASE pc[p] = "held"
  BY <1>2, ConstantsAssumption DEF ControlInv, LockOK, RowFree
<1> QED BY <1>1, <1>2

\* Nobody else resolves or executes the run of a request that holds its row
\* and found it waiting for approval.
LEMMA HolderExclusive ==
  ASSUME TypeOK, ControlInv, NEW q \in Requests, pc[q] = "held", Available(q)
  PROVE  /\ Exclusive(q, on[q])
         /\ status[on[q]] = "AWAITING_APPROVAL"
         /\ job[q].kind # "stop" => approvals[on[q]][job[q].item].status = "PENDING"
<1>1. /\ rowLock[on[q]] = q
      /\ status[on[q]] = "AWAITING_APPROVAL"
      /\ job[q].kind # "stop" => approvals[on[q]][job[q].item].status = "PENDING"
  BY DEF ControlInv, LockOK, Available
<1>2. ASSUME NEW p \in Requests \ {q}, pc[p] \in Driving \cup {"held"}
      PROVE  on[p] # on[q]
  <2>1. LockOK(p) /\ DriverOK(p)
    BY DEF ControlInv
  <2>2. CASE pc[p] = "held"
    BY <1>1, <2>1, <2>2 DEF LockOK
  <2>3. CASE pc[p] \in Driving
    BY <1>1, <2>1, <2>3 DEF DriverOK, Driving, Terminal
  <2> QED BY <1>2, <2>2, <2>3
<1> QED BY <1>1, <1>2 DEF Exclusive

\* A run that stops waiting has no PENDING approval left, one that does not
\* wait has none to begin with.
LEMMA NotWaiting ==
  ASSUME TypeOK, ControlInv, NEW r \in Runs, status[r] # "AWAITING_APPROVAL",
         approvals'[r] = approvals[r], status'[r] # "AWAITING_APPROVAL"
  PROVE  AskedOK(r)'
<1>1. NoPending(r) /\ OnlyNewestPending(r)
  BY DEF ControlInv, PendingIffAwaiting
<1> QED BY <1>1 DEF AskedOK, NoPending, OnlyNewestPending

\* Pausing, finishing, failing and cancelling.
LEMMA EndingControl ==
  ASSUME TypeOK, ControlInv, NEW q \in Requests
  PROVE  /\ Pause(q) \/ PauseFails(q) => ControlInv'
         /\ Finish(q) \/ FinishFails(q) \/ CommitThenCancelled(q) => ControlInv'
         /\ \A target \in {"FAILED", "CANCELLED"} : Abort(q, target) => ControlInv'
         /\ MarkTerminal(q) => ControlInv'
<1>0. LockOK(q) /\ DriverOK(q) /\ NoRun \notin Runs
  BY ConstantsAssumption DEF ControlInv
<1>1. ASSUME Pause(q) PROVE ControlInv'
  <2>0. PICK r \in Runs : r = on[q]
    BY <1>1 DEF Pause, TypeOK
  <2>1. pc[q] \in Driving /\ RowFree(r, q)
    BY <1>1, <2>0 DEF Pause, TypeOK, Driving
  <2>2. EndRequest(q) /\ Release(q)
    BY <1>1, <2>0 DEF Pause
  <2>3. /\ approvals' = [approvals EXCEPT ![r] = Append(@, PendingApproval(q))]
        /\ status' = [status EXCEPT ![r] = "AWAITING_APPROVAL"]
        /\ NoPending(r)
    BY <1>1, <2>0 DEF Pause
  <2>4. Touches(q, r)
    BY <2>0, <2>1, <2>2, <2>3, EndedControl, ReleaseKeeps DEF Touches, TypeOK
  <2>5. Exclusive(q, r)
    BY <2>0, <2>1, DriverExclusive
  <2>6. AskedOK(r)'
    <3> DEFINE s == approvals[r]
               n == Len(s) + 1
    <3>1. s \in Seq(ApprovalRow) /\ DOMAIN s = 1..Len(s) /\ Len(s) \in Nat
      BY <2>0, <2>1, LenProperties DEF TypeOK
    <3>2. approvals'[r] = Append(s, PendingApproval(q)) /\ status'[r] = "AWAITING_APPROVAL"
      BY <2>0, <2>1, <2>3 DEF TypeOK
    <3>3. PendingApproval(q).status = "PENDING"
      BY DEF PendingApproval
    <3>4. /\ DOMAIN approvals'[r] = 1..n
          /\ Len(approvals'[r]) = n
          /\ approvals'[r][n].status = "PENDING"
          /\ \A i \in 1..Len(s) : approvals'[r][i] = s[i]
      <4> HIDE DEF s
      <4> QED BY <3>1, <3>2, <3>3
    <3>5. n \in DOMAIN approvals'[r] /\ \A i \in 1..Len(s) : s[i].status # "PENDING"
      BY <2>3, <3>1, <3>4 DEF NoPending
    <3> QED BY <3>1, <3>2, <3>4, <3>5 DEF AskedOK, NoPending, OnlyNewestPending
  <2> QED BY <2>0, <2>1, <2>2, <2>4, <2>5, <2>6, EndedControl, StepControl
<1>2. ASSUME PauseFails(q) PROVE ControlInv'
  <2>1. EndRequest(q) /\ Release(q) /\ UNCHANGED <<status, approvals>>
    BY <1>2 DEF PauseFails
  <2>2. Touches(q, NoRun)
    BY <1>0, <2>1, EndedControl, ReleaseKeeps DEF Touches
  <2> QED BY <2>1, <2>2, EndedControl, QuietControl
<1>3. ASSUME Finish(q) PROVE ControlInv'
  <2>0. PICK r \in Runs : r = on[q]
    BY <1>3 DEF Finish, TypeOK
  <2>1. pc[q] = "finish" /\ pc[q] \in Driving /\ RowFree(r, q)
    BY <1>3, <2>0 DEF Finish, TypeOK, Driving
  <2>2. EndRequest(q) /\ Release(q) /\ UNCHANGED approvals
    BY <1>3, <2>0 DEF Finish
  <2>3. status' = [status EXCEPT ![r] = work[q].result] /\ work[q].result \in Terminal
    BY <1>0, <1>3, <2>0, <2>1 DEF Finish, DriverOK, Terminal
  <2>4. status'[r] \notin {"none", "AWAITING_APPROVAL"}
    BY <2>0, <2>1, <2>3 DEF TypeOK, Terminal
  <2>5. Touches(q, r)
    BY <2>0, <2>1, <2>2, <2>3, <2>4, EndedControl, ReleaseKeeps DEF Touches, TypeOK
  <2>6. Exclusive(q, r)
    BY <2>0, <2>1, DriverExclusive
  <2>7. AskedOK(r)'
    BY <1>0, <2>0, <2>1, <2>2, <2>4, NotWaiting DEF DriverOK
  <2> QED BY <2>0, <2>1, <2>2, <2>5, <2>6, <2>7, EndedControl, StepControl
<1>4. ASSUME FinishFails(q) PROVE ControlInv'
  <2>1. /\ pc[q] = "finish" /\ pc'[q] = "mark" /\ work'[q].result = "FAILED"
        /\ UNCHANGED <<status, approvals, on>>
    BY <1>4 DEF FinishFails, Goto, TypeOK, Work
  <2>2. Touches(q, NoRun)
    BY <1>0, <1>4, ReleaseKeeps DEF FinishFails, Goto, Touches, TypeOK
  <2>3. LockOK(q)' /\ DriverOK(q)'
    BY <1>0, <2>1 DEF LockOK, DriverOK
  <2> QED BY <2>1, <2>2, <2>3, QuietControl DEF Driving
<1>5. ASSUME CommitThenCancelled(q) PROVE ControlInv'
  <2>0. PICK r \in Runs : r = on[q]
    BY <1>5 DEF CommitThenCancelled, TypeOK
  <2>1. pc[q] = "finish" /\ pc[q] \in Driving /\ RowFree(r, q)
    BY <1>5, <2>0 DEF CommitThenCancelled, TypeOK, Driving
  <2>2. /\ pc'[q] = "mark" /\ on' = on /\ work'[q].result = "CANCELLED"
        /\ UNCHANGED approvals /\ Release(q)
    BY <1>5, <2>0 DEF CommitThenCancelled, Goto, TypeOK, Work
  <2>3. status' = [status EXCEPT ![r] = work[q].result] /\ work[q].result \in Terminal
    BY <1>0, <1>5, <2>0, <2>1 DEF CommitThenCancelled, DriverOK, Terminal
  <2>4. status'[r] \notin {"none", "AWAITING_APPROVAL"}
    BY <2>0, <2>1, <2>3 DEF TypeOK, Terminal
  <2>5. Touches(q, r)
    BY <1>5, <2>0, <2>1, <2>2, <2>3, <2>4, ReleaseKeeps
       DEF CommitThenCancelled, Goto, Touches, TypeOK
  <2>6. Exclusive(q, r)
    BY <2>0, <2>1, DriverExclusive
  <2>7. AskedOK(r)'
    BY <1>0, <2>0, <2>1, <2>2, <2>4, NotWaiting DEF DriverOK
  <2>8. LockOK(q)' /\ DriverOK(q)'
    BY <2>0, <2>2, <2>4 DEF LockOK, DriverOK
  <2>9. \A p \in Requests \ {q} : pc[p] \in Driving => on[p] # on'[q]
    BY <2>0, <2>2, <2>6 DEF Exclusive
  <2> QED BY <2>0, <2>1, <2>5, <2>6, <2>7, <2>8, <2>9, StepControl
<1>6. ASSUME NEW target \in {"FAILED", "CANCELLED"}, Abort(q, target) PROVE ControlInv'
  <2>1. /\ pc[q] \in {"begin", "loop", "finish"} /\ pc'[q] = "mark"
        /\ work'[q].result = target
        /\ UNCHANGED <<status, approvals, on>>
    BY <1>6 DEF Abort, Goto, TypeOK, Work
  <2>2. Touches(q, NoRun)
    BY <1>0, <1>6, ReleaseKeeps DEF Abort, Goto, Touches, TypeOK
  <2>3. LockOK(q)' /\ DriverOK(q)'
    BY <1>0, <2>1 DEF LockOK, DriverOK
  <2> QED BY <2>1, <2>2, <2>3, QuietControl DEF Driving
<1>7. ASSUME MarkTerminal(q) PROVE ControlInv'
  <2>0. PICK r \in Runs : r = on[q]
    BY <1>7 DEF MarkTerminal, TypeOK
  <2>1. pc[q] = "mark" /\ pc[q] \in Driving /\ RowFree(r, q)
    BY <1>7, <2>0 DEF MarkTerminal, TypeOK, Driving
  <2>2. EndRequest(q) /\ UNCHANGED <<approvals, rowLock>>
    BY <1>7, <2>0 DEF MarkTerminal
  <2>3. /\ status[r] \notin {"none", "AWAITING_APPROVAL"}
        /\ work[q].result \in {"FAILED", "CANCELLED"}
    BY <1>0, <2>0, <2>1 DEF DriverOK
  <2>4. /\ status'[r] \notin {"none", "AWAITING_APPROVAL"}
        /\ \A x \in Runs \ {r} : status'[x] = status[x]
    BY <1>7, <2>0, <2>1, <2>3 DEF MarkTerminal, TypeOK
  <2>5. Touches(q, r)
    BY <2>0, <2>1, <2>2, <2>4, EndedControl DEF Touches
  <2>6. Exclusive(q, r)
    BY <2>0, <2>1, DriverExclusive
  <2>7. AskedOK(r)'
    BY <2>0, <2>1, <2>2, <2>3, <2>4, NotWaiting
  <2> QED BY <2>0, <2>1, <2>2, <2>5, <2>6, <2>7, EndedControl, StepControl
<1> QED BY <1>1, <1>2, <1>3, <1>4, <1>5, <1>6, <1>7

\* The verdict on the PENDING approval leaves none of its run.
LEMMA SettledAsked ==
  ASSUME TypeOK, ControlInv, NEW r \in Runs, NEW i \in DOMAIN approvals[r],
         NEW verdict \in ApprovalStatuses \ {"PENDING"},
         NEW target \in Statuses \ {"none", "AWAITING_APPROVAL"},
         approvals[r][i].status = "PENDING", Settle(r, i, verdict, target)
  PROVE  /\ AskedOK(r)'
         /\ status'[r] = target
         /\ \A x \in Runs \ {r} : status'[x] = status[x] /\ approvals'[x] = approvals[x]
<1>1. /\ status'[r] = target
      /\ approvals'[r] = [approvals[r] EXCEPT ![i].status = verdict]
      /\ \A x \in Runs \ {r} : status'[x] = status[x] /\ approvals'[x] = approvals[x]
  BY DEF Settle, TypeOK
<1>2. \A j \in DOMAIN approvals[r] : approvals[r][j].status = "PENDING" => j = i
  BY DEF ControlInv, PendingIffAwaiting, OnlyNewestPending
<1>3. approvals[r][i] \in ApprovalRow
  BY LenProperties, ElementOfSeq DEF TypeOK
<1>4. /\ DOMAIN approvals'[r] = DOMAIN approvals[r]
      /\ approvals'[r][i].status = verdict
      /\ \A j \in DOMAIN approvals[r] \ {i} : approvals'[r][j] = approvals[r][j]
  BY <1>1, <1>3 DEF ApprovalRow
<1>5. \A j \in DOMAIN approvals'[r] : approvals'[r][j].status # "PENDING"
  BY <1>2, <1>4
<1> QED BY <1>1, <1>5 DEF AskedOK, NoPending, OnlyNewestPending

\* A stop leaves no PENDING approval of its run.
LEMMA StoppedAsked ==
  ASSUME TypeOK, NEW r \in Runs, approvals'[r] = StoppedApprovals(r), status'[r] = "CANCELLED"
  PROVE  AskedOK(r)'
<1>1. \A j \in DOMAIN approvals[r] : approvals[r][j] \in ApprovalRow
  BY LenProperties, ElementOfSeq DEF TypeOK
<1>2. \A j \in DOMAIN StoppedApprovals(r) : StoppedApprovals(r)[j].status # "PENDING"
  BY <1>1 DEF StoppedApprovals, ApprovalRow
<1>3. \A j \in DOMAIN approvals'[r] : approvals'[r][j].status # "PENDING"
  BY <1>2
<1> QED BY <1>3 DEF AskedOK, NoPending, OnlyNewestPending

\* Receiving, locking and answering.
LEMMA ResolutionControl ==
  ASSUME TypeOK, ControlInv, NEW q \in Requests
  PROVE  /\ \A kind \in Kinds, r \in Runs, i \in Nat :
              ReceiveResolution(q, kind, r, i) => ControlInv'
         /\ LockOwned(q) \/ Unavailable(q) => ControlInv'
         /\ ApproveFailsClosed(q) \/ ApproveOnce(q) \/ ResumeSetup(q) => ControlInv'
         /\ Reject(q) \/ ChangeRequest(q) \/ Stop(q) => ControlInv'
<1>0. LockOK(q) /\ DriverOK(q) /\ NoRun \notin Runs
  BY ConstantsAssumption DEF ControlInv
<1>1. ASSUME NEW kind \in Kinds, NEW r \in Runs, NEW i \in Nat, ReceiveResolution(q, kind, r, i)
      PROVE  ControlInv'
  <2>1. Touches(q, NoRun) /\ UNCHANGED <<status, approvals>>
    BY <1>0, <1>1 DEF ReceiveResolution, Goto, Touches, TypeOK
  <2>2. pc'[q] = "wait" /\ on'[q] = r /\ status'[r] # "none" /\ work'[q] = NoWork
    BY <1>0, <1>1 DEF ReceiveResolution, Goto, TypeOK, DriverOK
  <2>3. LockOK(q)' /\ DriverOK(q)' /\ pc'[q] \notin Driving
    BY <2>2 DEF LockOK, DriverOK, Driving
  <2> QED BY <2>1, <2>3, QuietControl
<1>2. ASSUME LockOwned(q) PROVE ControlInv'
  <2>1. Touches(q, NoRun) /\ UNCHANGED <<status, approvals, on, job, work>>
    BY <1>0, <1>2 DEF LockOwned, RowFree, Goto, Touches, TypeOK
  <2>2. /\ pc[q] = "wait" /\ pc'[q] = "held" /\ rowLock'[on[q]] = q
        /\ seen'[q].run = status[on[q]]
        /\ job[q].kind # "stop" => seen'[q].item = approvals[on[q]][job[q].item].status
    BY <1>2 DEF LockOwned, Goto, TypeOK
  <2>3. LockOK(q)' /\ DriverOK(q)' /\ pc'[q] \notin Driving
    BY <1>0, <2>1, <2>2 DEF LockOK, DriverOK, Driving
  <2> QED BY <2>1, <2>3, QuietControl
<1>3. ASSUME Unavailable(q) PROVE ControlInv'
  <2>1. EndRequest(q) /\ Release(q) /\ UNCHANGED <<status, approvals>>
    BY <1>3 DEF Unavailable
  <2>2. Touches(q, NoRun)
    BY <1>0, <2>1, EndedControl, ReleaseKeeps DEF Touches
  <2> QED BY <2>1, <2>2, EndedControl, QuietControl
<1>4. ASSUME NEW kind \in Kinds \ {"stop"}, Holds(q, kind)
      PROVE  /\ on[q] \in Runs
             /\ job[q].item \in Nat /\ job[q].item \in DOMAIN approvals[on[q]]
             /\ approvals[on[q]][job[q].item].status = "PENDING"
             /\ Exclusive(q, on[q])
  <2>1. pc[q] = "held" /\ Available(q) /\ job[q].kind = kind
    BY <1>4 DEF Holds
  <2>2. on[q] \in Runs /\ job[q].item \in Nat /\ job[q].item \in DOMAIN approvals[on[q]]
    BY <2>1 DEF TypeOK, Job
  <2> QED BY <2>1, <2>2, HolderExclusive
<1>5. ASSUME ApproveFailsClosed(q) \/ Reject(q) PROVE ControlInv'
  <2>1. PICK r \in Runs, i \in Nat :
          /\ r = on[q] /\ i = job[q].item /\ i \in DOMAIN approvals[r]
          /\ approvals[r][i].status = "PENDING"
          /\ Exclusive(q, r)
    BY <1>4, <1>5 DEF ApproveFailsClosed, Reject, Kinds
  <2>2. PICK verdict \in ApprovalStatuses \ {"PENDING"},
             target \in Statuses \ {"none", "AWAITING_APPROVAL"} : Settle(r, i, verdict, target)
    BY <1>5, <2>1 DEF ApproveFailsClosed, Reject, ApprovalStatuses, Statuses, Terminal
  <2>3. EndRequest(q) /\ Release(q)
    BY <1>5 DEF ApproveFailsClosed, Reject
  <2>4. /\ AskedOK(r)' /\ status'[r] = target
        /\ \A x \in Runs \ {r} : status'[x] = status[x] /\ approvals'[x] = approvals[x]
    BY <2>1, <2>2, SettledAsked
  <2>5. Touches(q, r)
    BY <2>2, <2>3, <2>4, EndedControl, ReleaseKeeps DEF Touches
  <2> QED BY <2>1, <2>3, <2>4, <2>5, EndedControl, StepControl
<1>6. ASSUME ApproveOnce(q) PROVE ControlInv'
  <2>1. PICK r \in Runs, i \in Nat :
          /\ r = on[q] /\ i = job[q].item /\ i \in DOMAIN approvals[r]
          /\ approvals[r][i].status = "PENDING"
          /\ Exclusive(q, r)
    BY <1>4, <1>6 DEF ApproveOnce, Kinds
  <2>2. Settle(r, i, "CONSUMED", "RUNNING")
    BY <1>6, <2>1 DEF ApproveOnce
  <2>3. /\ AskedOK(r)' /\ status'[r] = "RUNNING"
        /\ \A x \in Runs \ {r} : status'[x] = status[x] /\ approvals'[x] = approvals[x]
    BY <2>1, <2>2, SettledAsked DEF ApprovalStatuses, Statuses
  <2>4. Touches(q, r)
    BY <1>6, <2>3, ReleaseKeeps DEF ApproveOnce, Goto, Touches, TypeOK
  <2>5. pc'[q] = "setup" /\ on' = on
    BY <1>6 DEF ApproveOnce, Goto, TypeOK
  <2>6. LockOK(q)' /\ DriverOK(q)'
    BY <2>1, <2>3, <2>5 DEF LockOK, DriverOK
  <2>7. \A p \in Requests \ {q} : pc[p] \in Driving => on[p] # on'[q]
    BY <2>1, <2>5 DEF Exclusive
  <2> QED BY <2>1, <2>3, <2>4, <2>6, <2>7, StepControl
<1>7. ASSUME ResumeSetup(q) PROVE ControlInv'
  <2>1. Touches(q, NoRun) /\ UNCHANGED <<status, approvals, on>>
    BY <1>0, <1>7 DEF ResumeSetup, Goto, Touches, TypeOK
  <2>2. pc[q] = "setup" /\ pc'[q] = "loop"
    BY <1>7 DEF ResumeSetup, Goto, TypeOK
  <2>3. LockOK(q)' /\ DriverOK(q)'
    BY <1>0, <2>1, <2>2 DEF LockOK, DriverOK
  <2> QED BY <2>1, <2>2, <2>3, QuietControl DEF Driving
<1>8. ASSUME ChangeRequest(q) PROVE ControlInv'
  <2>1. PICK r \in Runs, i \in Nat :
          /\ r = on[q] /\ i = job[q].item /\ i \in DOMAIN approvals[r]
          /\ approvals[r][i].status = "PENDING"
          /\ Exclusive(q, r)
    BY <1>4, <1>8 DEF ChangeRequest, Kinds
  <2>2. Settle(r, i, "SUPERSEDED", "CANCELLED")
    BY <1>8, <2>1 DEF ChangeRequest
  <2>3. /\ AskedOK(r)' /\ status'[r] = "CANCELLED"
        /\ \A x \in Runs \ {r} : status'[x] = status[x] /\ approvals'[x] = approvals[x]
    BY <2>1, <2>2, SettledAsked DEF ApprovalStatuses, Statuses, Terminal
  <2>4. Touches(q, r)
    BY <1>8, <2>3, ReleaseKeeps DEF ChangeRequest, Goto, Touches, TypeOK
  <2>5. pc[q] = "held" /\ pc'[q] = "create" /\ work' = work
    BY <1>8 DEF ChangeRequest, Holds, Goto, TypeOK
  <2>6. LockOK(q)' /\ DriverOK(q)' /\ pc'[q] \notin Driving
    BY <1>0, <2>5 DEF LockOK, DriverOK, Driving
  <2> QED BY <2>1, <2>3, <2>4, <2>6, StepControl
<1>9. ASSUME Stop(q) PROVE ControlInv'
  <2>1. PICK r \in Runs : r = on[q]
    BY <1>9 DEF Stop, Holds, TypeOK
  <2>2. Exclusive(q, r)
    BY <1>9, <2>1, HolderExclusive DEF Stop, Holds
  <2>3. /\ approvals'[r] = StoppedApprovals(r) /\ status'[r] = "CANCELLED"
        /\ \A x \in Runs \ {r} : status'[x] = status[x] /\ approvals'[x] = approvals[x]
    BY <1>9, <2>1 DEF Stop, TypeOK
  <2>4. EndRequest(q) /\ Release(q)
    BY <1>9 DEF Stop
  <2>5. Touches(q, r)
    BY <2>3, <2>4, EndedControl, ReleaseKeeps DEF Touches
  <2>6. AskedOK(r)'
    BY <2>3, StoppedAsked
  <2> QED BY <2>2, <2>4, <2>5, <2>6, EndedControl, StepControl
<1> QED BY <1>1, <1>2, <1>3, <1>5, <1>6, <1>7, <1>8, <1>9

\* An expiry changes the expired flag of one PENDING row only.
LEMMA ExpireRows ==
  ASSUME TypeOK, NEW r \in Runs, NEW i \in DOMAIN approvals[r], Expire(r, i)
  PROVE  /\ \A x \in Runs : DOMAIN approvals'[x] = DOMAIN approvals[x]
         /\ \A x \in Runs : Len(approvals'[x]) = Len(approvals[x])
         /\ \A x \in Runs : \A k \in DOMAIN approvals[x] :
              /\ approvals'[x][k].status = approvals[x][k].status
              /\ approvals'[x][k].hash = approvals[x][k].hash
              /\ approvals'[x][k].scope = approvals[x][k].scope
              /\ approvals'[x][k].step = approvals[x][k].step
              /\ approvals'[x][k].pv = approvals[x][k].pv
<1>1. /\ approvals' = [approvals EXCEPT ![r] = [approvals[r] EXCEPT ![i].expired = TRUE]]
      /\ approvals[r] \in Seq(ApprovalRow)
  BY DEF Expire, TypeOK
<1>2. /\ DOMAIN [approvals[r] EXCEPT ![i].expired = TRUE] = DOMAIN approvals[r]
      /\ [approvals[r] EXCEPT ![i].expired = TRUE] \in Seq(ApprovalRow)
  BY <1>1, ApprovalUpdate DEF ApprovalStatuses
<1>3. Len([approvals[r] EXCEPT ![i].expired = TRUE]) = Len(approvals[r])
  BY <1>1, <1>2, LenProperties
<1>4. \A k \in DOMAIN approvals[r] : approvals[r][k] \in ApprovalRow
  BY LenProperties, ElementOfSeq DEF TypeOK
<1>5. \A x \in Runs : \A k \in DOMAIN approvals[x] :
        /\ approvals'[x][k].status = approvals[x][k].status
        /\ approvals'[x][k].hash = approvals[x][k].hash
        /\ approvals'[x][k].scope = approvals[x][k].scope
        /\ approvals'[x][k].step = approvals[x][k].step
        /\ approvals'[x][k].pv = approvals[x][k].pv
  BY <1>4 DEF Expire, TypeOK, ApprovalRow
<1> QED BY <1>1, <1>2, <1>3, <1>5 DEF TypeOK

\* An expiry changes neither statuses nor requests.
LEMMA ExpireControl ==
  ASSUME TypeOK, ControlInv, NEW r \in Runs, NEW i \in DOMAIN approvals[r], Expire(r, i)
  PROVE  ControlInv'
<1>1. /\ UNCHANGED <<status, rowLock, pc, on, job, seen, work>>
      /\ \A x \in Runs : DOMAIN approvals'[x] = DOMAIN approvals[x]
      /\ \A x \in Runs : Len(approvals'[x]) = Len(approvals[x])
  BY ExpireRows DEF Expire
<1>2. \A x \in Runs : \A j \in DOMAIN approvals[x] :
        approvals'[x][j].status = approvals[x][j].status
  BY ExpireRows
<1>3. ASSUME NEW q \in Requests PROVE LockOK(q)' /\ DriverOK(q)'
  <2>1. LockOK(q) /\ DriverOK(q)
    BY DEF ControlInv
  <2>2. pc[q] = "held" /\ job[q].kind # "stop" =>
          on[q] \in Runs /\ job[q].item \in DOMAIN approvals[on[q]]
    BY DEF TypeOK
  <2> QED BY <1>1, <1>2, <2>1, <2>2 DEF LockOK, DriverOK
<1>4. OneDriver'
  BY <1>1 DEF ControlInv, OneDriver
<1>5. PendingIffAwaiting'
  <2> SUFFICES ASSUME NEW x \in Runs PROVE AskedOK(x)'
    BY DEF PendingIffAwaiting, AskedOK
  <2>1. AskedOK(x)
    BY DEF ControlInv, PendingIffAwaiting, AskedOK
  <2> QED BY <1>1, <1>2, <2>1 DEF AskedOK, NoPending, OnlyNewestPending
<1> QED BY <1>3, <1>4, <1>5 DEF ControlInv

\* Time, administrators and faults.
LEMMA EnvironmentControl ==
  ASSUME TypeOK, ControlInv, Environment
  PROVE  ControlInv'
<1>1. ASSUME NEW r \in Runs, NEW i \in DOMAIN approvals[r], Expire(r, i) PROVE ControlInv'
  BY <1>1, ExpireControl
<1>2. ASSUME UNCHANGED <<rowVars, rowLock, requestVars>> PROVE ControlInv'
  BY <1>2 DEF ControlInv, LockOK, DriverOK, OneDriver, PendingIffAwaiting, NoPending, OnlyNewestPending
<1>3. ASSUME NEW s \in Scopes, Regrant(s) PROVE ControlInv'
  BY <1>2, <1>3 DEF Regrant
<1>4. ASSUME NEW c \in Chunks, Deactivate(c) PROVE ControlInv'
  BY <1>2, <1>4 DEF Deactivate
<1>5. ASSUME NEW q \in Requests, Lose(q) PROVE ControlInv'
  <2>1. EndRequest(q) /\ Release(q) /\ UNCHANGED <<status, approvals>>
    BY <1>5 DEF Lose
  <2>2. Touches(q, NoRun)
    BY <2>1, EndedControl, ReleaseKeeps, ConstantsAssumption DEF Touches
  <2> QED BY <2>1, <2>2, EndedControl, QuietControl
<1> QED BY <1>1, <1>3, <1>4, <1>5 DEF Environment

\* Every step preserves the control invariant.
LEMMA NextControl == TypeOK /\ ControlInv /\ [Next]_vars => ControlInv'
<1> SUFFICES ASSUME TypeOK, ControlInv, [Next]_vars PROVE ControlInv'
  OBVIOUS
<1>1. ASSUME NEW q \in Requests, LockSteps(q) PROVE ControlInv'
  BY <1>1, StartControl, EndingControl, ResolutionControl DEF LockSteps
<1>2. ASSUME NEW q \in Requests, LoopSteps(q) PROVE ControlInv'
  BY <1>2, LoopControl
<1>3. ASSUME NEW q \in Requests, OtherSteps(q) PROVE ControlInv'
  BY <1>3, StartControl, EndingControl, ResolutionControl DEF OtherSteps
<1>4. ASSUME NEW q \in Requests, Receive(q) PROVE ControlInv'
  <2>1. \A r \in Runs : {0} \cup DOMAIN approvals[r] \subseteq Nat
    BY LenProperties DEF TypeOK
  <2> QED BY <1>4, <2>1, StartControl, ResolutionControl DEF Receive
<1>5. CASE Environment
  BY <1>5, EnvironmentControl
<1>6. CASE UNCHANGED vars
  BY <1>6 DEF vars, ControlInv, LockOK, DriverOK, OneDriver, PendingIffAwaiting,
              NoPending, OnlyNewestPending
<1> QED BY <1>1, <1>2, <1>3, <1>4, <1>5, <1>6 DEF Next

\* Initially nobody holds, waits for or executes anything.
LEMMA InitControl == Init => ControlInv
BY DEF Init, ControlInv, LockOK, DriverOK, OneDriver, PendingIffAwaiting,
       NoPending, OnlyNewestPending, Driving

\* The types and the control invariant, together, are inductive.
LEMMA ControlHolds == Spec => [](TypeOK /\ ControlInv)
<1>1. Init => TypeOK /\ ControlInv
  BY InitType, InitControl
<1>2. TypeOK /\ ControlInv /\ [Next]_vars => (TypeOK /\ ControlInv)'
  BY NextType, NextControl
<1> QED BY <1>1, <1>2, PTL DEF Spec

\* However many users click Approve, Reject, Stop or Change at once, and
\* whatever crashes in between, at most one request executes a run.
THEOREM OneDriverCorrect == Spec => []OneDriver
<1>1. ControlInv => OneDriver
  BY DEF ControlInv
<1> QED BY <1>1, ControlHolds, PTL

\* A run waits for approval exactly while its newest approval is PENDING.
THEOREM PendingCorrect == Spec => []PendingIffAwaiting
<1>1. ControlInv => PendingIffAwaiting
  BY DEF ControlInv
<1> QED BY <1>1, ControlHolds, PTL

\* Every request writes only statuses that run_state.py allows.
LEMMA StepMoves ==
  ASSUME TypeOK, ControlInv, NEW q \in Requests,
         LockSteps(q) \/ LoopSteps(q) \/ OtherSteps(q) \/ Receive(q)
  PROVE  StatusMovesAllowed
<1> DEFINE r == on[q]
<1>0. DriverOK(q) /\ r \in Runs \cup {NoRun}
  BY DEF ControlInv, TypeOK
<1>1. ASSUME UNCHANGED status PROVE StatusMovesAllowed
  BY <1>1 DEF StatusMovesAllowed
<1>2. ASSUME NEW x \in Runs, NEW s \in AllowedTransitions[status[x]],
             status' = [status EXCEPT ![x] = s]
      PROVE  StatusMovesAllowed
  BY <1>2 DEF StatusMovesAllowed, TypeOK
<1>3. ASSUME LoopSteps(q) \/ Receive(q) PROVE StatusMovesAllowed
  <2>1. UNCHANGED status
    BY <1>3 DEF LoopSteps, Receive, DecideInitial, Replan, ReplayStep, AskApproval,
                ResumeMismatch, ExecuteStep, LoopReturns, ReceiveMessage, ReceiveResolution
  <2> QED BY <1>1, <2>1
<1>4. ASSUME NEW x \in Runs, NEW allowed \in BOOLEAN, CreateRun(q, x, allowed)
      PROVE  StatusMovesAllowed
  <2>1. PICK s \in {"CREATED", "RUNNING"} : status' = [status EXCEPT ![x] = s] /\ status[x] = "none"
    BY <1>4 DEF CreateRun
  <2>2. s \in AllowedTransitions[status[x]]
    BY <2>1 DEF AllowedTransitions, Statuses
  <2> QED BY <1>2, <2>1, <2>2
<1>5. ASSUME Pause(q) PROVE StatusMovesAllowed
  <2>1. r \in Runs /\ status[r] = "RUNNING" /\ status' = [status EXCEPT ![r] = "AWAITING_APPROVAL"]
    BY <1>0, <1>5 DEF Pause, DriverOK, TypeOK
  <2>2. "AWAITING_APPROVAL" \in AllowedTransitions[status[r]]
    BY <2>1 DEF AllowedTransitions, Statuses
  <2> QED BY <1>2, <2>1, <2>2
<1>6. ASSUME Finish(q) \/ CommitThenCancelled(q) PROVE StatusMovesAllowed
  <2>1. /\ r \in Runs /\ status' = [status EXCEPT ![r] = work[q].result]
        /\ \/ status[r] = "RUNNING" /\ work[q].result \in Terminal
           \/ status[r] = "CREATED" /\ work[q].result = "REFUSED"
    BY <1>0, <1>6 DEF Finish, CommitThenCancelled, DriverOK, TypeOK
  <2>2. work[q].result \in AllowedTransitions[status[r]]
    BY <2>1 DEF AllowedTransitions, Statuses, Terminal
  <2> QED BY <1>2, <2>1, <2>2
<1>7. ASSUME MarkTerminal(q) PROVE StatusMovesAllowed
  <2>1. CASE status[r] \notin Markable
    BY <1>1, <1>7, <2>1 DEF MarkTerminal
  <2>2. CASE status[r] \in Markable
    <3>1. /\ r \in Runs /\ status' = [status EXCEPT ![r] = work[q].result]
          /\ work[q].result \in {"FAILED", "CANCELLED"}
      BY <1>0, <1>7, <2>2 DEF MarkTerminal, DriverOK, TypeOK
    <3>2. work[q].result \in AllowedTransitions[status[r]]
      BY <2>2, <3>1 DEF Markable, AllowedTransitions, Statuses, Terminal
    <3> QED BY <1>2, <3>1, <3>2
  <2> QED BY <2>1, <2>2
<1>8. ASSUME ApproveFailsClosed(q) \/ ApproveOnce(q) \/ Reject(q) \/ ChangeRequest(q) \/ Stop(q)
      PROVE  StatusMovesAllowed
  <2>1. pc[q] = "held" /\ Available(q)
    BY <1>8 DEF ApproveFailsClosed, ApproveOnce, Reject, ChangeRequest, Stop, Holds
  <2>2. r \in Runs /\ status[r] = "AWAITING_APPROVAL"
    BY <2>1, HolderExclusive DEF TypeOK
  <2>3. PICK s \in {"RUNNING", "CANCELLED", "FAILED"} : status' = [status EXCEPT ![r] = s]
    BY <1>8 DEF ApproveFailsClosed, ApproveOnce, Reject, ChangeRequest, Stop, Settle
  <2>4. s \in AllowedTransitions[status[r]]
    BY <2>2, <2>3 DEF AllowedTransitions, Statuses, Terminal
  <2> QED BY <1>2, <2>2, <2>3, <2>4
<1>9. ASSUME \/ Begin(q) \/ LockOwned(q) \/ PauseFails(q) \/ FinishFails(q)
             \/ RefuseBeforeRow(q) \/ Unavailable(q) \/ ResumeSetup(q)
             \/ \E target \in {"FAILED", "CANCELLED"} : Abort(q, target)
      PROVE  StatusMovesAllowed
  <2>1. UNCHANGED status
    BY <1>9 DEF Begin, LockOwned, PauseFails, FinishFails, RefuseBeforeRow, Unavailable,
                ResumeSetup, Abort
  <2> QED BY <1>1, <2>1
<1> QED BY <1>3, <1>4, <1>5, <1>6, <1>7, <1>8, <1>9 DEF LockSteps, OtherSteps

\* The status of a run only moves along run_state.py, and a terminal status
\* is final, although a driving request decides from a copy of the row.
THEOREM TransitionsCorrect == Spec => TransitionsAllowed
<1>1. TypeOK /\ ControlInv /\ [Next]_vars => [StatusMovesAllowed]_vars
  <2> SUFFICES ASSUME TypeOK, ControlInv, Next PROVE StatusMovesAllowed
    OBVIOUS
  <2>1. CASE Environment
    BY <2>1 DEF Environment, Expire, Regrant, Deactivate, Lose, StatusMovesAllowed
  <2> QED BY <2>1, StepMoves DEF Next
<1> QED BY <1>1, ControlHolds, PTL DEF Spec, TransitionsAllowed
-----------------------------------------------------------------------------
(***************************************************************************)
(* Consent: the k-th call that needs consent used the k-th approval.       *)
(*                                                                         *)
(* The frame argument again: a step of q that writes at most run r, which  *)
(* no other request is executing, has to re-establish the clauses of q and *)
(* of r only.                                                              *)
(***************************************************************************)
RunConsent(r) ==
  /\ ApprovalsInOrder(r)
  /\ \A k \in DOMAIN gated[r] : ConsentUsedBy(r, k)

ConsentFrame(q, r) ==
  /\ \A p \in Requests \ {q} :
       /\ pc'[p] = pc[p] /\ on'[p] = on[p] /\ job'[p] = job[p] /\ work'[p] = work[p]
       /\ pc[p] \in Driving => on[p] # r
  /\ \A x \in Runs \ {r} : /\ status'[x] = status[x] /\ mode'[x] = mode[x]
                           /\ approvals'[x] = approvals[x] /\ gated'[x] = gated[x]

\* A step within its frame preserves the clauses of everybody else.
LEMMA ConsentStep ==
  ASSUME TypeOK, ConsentInv, NEW q \in Requests, NEW r \in Runs \cup {NoRun},
         ConsentFrame(q, r),
         r \in Runs => RunConsent(r)',
         CarriedConsent(q)'
  PROVE  ConsentInv'
<1>1. ASSUME NEW x \in Runs PROVE RunConsent(x)'
  <2>1. CASE x = r
    BY <2>1
  <2>2. CASE x # r
    <3>1. RunConsent(x)
      BY DEF ConsentInv, GatedCallsApproved, RunConsent
    <3>2. /\ status'[x] = status[x] /\ mode'[x] = mode[x]
          /\ approvals'[x] = approvals[x] /\ gated'[x] = gated[x]
      BY <2>2 DEF ConsentFrame
    <3> QED BY <3>1, <3>2 DEF RunConsent, ApprovalsInOrder, ConsentUsedBy, NeedsConsent
  <2> QED BY <2>1, <2>2
<1>2. ASSUME NEW p \in Requests PROVE CarriedConsent(p)'
  <2>1. CASE p = q
    BY <2>1
  <2>2. CASE p # q
    <3>1. /\ pc'[p] = pc[p] /\ on'[p] = on[p] /\ job'[p] = job[p] /\ work'[p] = work[p]
          /\ pc[p] \in Driving => on[p] # r
      BY <2>2 DEF ConsentFrame
    <3>2. CASE pc[p] \in Driving
      <4>1. on[p] \in Runs \ {r}
        BY <3>1, <3>2 DEF TypeOK, Driving
      <4>2. /\ mode'[on[p]] = mode[on[p]]
            /\ approvals'[on[p]] = approvals[on[p]] /\ gated'[on[p]] = gated[on[p]]
        BY <4>1 DEF ConsentFrame
      <4>3. CarriedConsent(p)
        BY DEF ConsentInv
      <4> QED BY <3>1, <4>2, <4>3 DEF CarriedConsent, NeedsConsent
    <3>3. CASE pc[p] \notin Driving
      BY <3>1, <3>3 DEF CarriedConsent, Driving
    <3> QED BY <3>2, <3>3
  <2> QED BY <2>1, <2>2
<1> QED BY <1>1, <1>2 DEF ConsentInv, GatedCallsApproved, RunConsent

\* A step that writes neither statuses, modes, approvals nor calls.
LEMMA QuietConsent ==
  ASSUME TypeOK, ConsentInv, NEW q \in Requests, Touches(q, NoRun),
         UNCHANGED <<status, mode, approvals, gated>>,
         pc'[q] \in {"begin", "setup", "loop", "pause"} => CarriedConsent(q)'
  PROVE  ConsentInv'
<1>1. NoRun \notin Runs
  BY ConstantsAssumption
<1>2. ConsentFrame(q, NoRun)
  <2>1. ASSUME NEW p \in Requests, pc[p] \in Driving PROVE on[p] # NoRun
    <3>1. pc[p] \notin {"idle", "create"}
      BY <2>1 DEF Driving
    <3> QED BY <1>1, <3>1 DEF TypeOK
  <2> QED BY <2>1 DEF ConsentFrame, Touches
<1>3. CarriedConsent(q)'
  BY DEF CarriedConsent
<1> QED BY <1>1, <1>2, <1>3, ConsentStep

\* The steps before the loop.
LEMMA StartConsent ==
  ASSUME TypeOK, ControlInv, ConsentInv, NEW q \in Requests
  PROVE  /\ \A m \in Modes : ReceiveMessage(q, m) => ConsentInv'
         /\ RefuseBeforeRow(q) => ConsentInv'
         /\ \A r \in Runs, allowed \in BOOLEAN : CreateRun(q, r, allowed) => ConsentInv'
         /\ Begin(q) => ConsentInv'
<1>0. DriverOK(q) /\ CarriedConsent(q) /\ NoRun \notin Runs
  BY ConstantsAssumption DEF ControlInv, ConsentInv
<1>1. ASSUME NEW m \in Modes, ReceiveMessage(q, m) PROVE ConsentInv'
  <2>1. Touches(q, NoRun) /\ UNCHANGED <<status, mode, approvals, gated>> /\ pc'[q] = "create"
    BY <1>0, <1>1 DEF ReceiveMessage, Touches, TypeOK
  <2> QED BY <2>1, QuietConsent
<1>2. ASSUME RefuseBeforeRow(q) PROVE ConsentInv'
  <2>1. EndRequest(q) /\ UNCHANGED <<status, mode, approvals, gated, rowLock>>
    BY <1>2 DEF RefuseBeforeRow
  <2>2. Touches(q, NoRun) /\ pc'[q] \notin Driving
    BY <1>0, <2>1, EndedControl DEF Touches
  <2> QED BY <2>1, <2>2, QuietConsent DEF Driving
<1>3. ASSUME NEW r \in Runs, NEW allowed \in BOOLEAN, CreateRun(q, r, allowed)
      PROVE  ConsentInv'
  <2>1. /\ status[r] = "none" /\ status'[r] \in {"CREATED", "RUNNING"}
        /\ approvals' = approvals /\ gated' = gated
        /\ on'[q] = r /\ work'[q] = NoWork
    BY <1>0, <1>3 DEF CreateRun, Goto, TypeOK, DriverOK
  <2>2. ConsentFrame(q, r)
    <3>1. \A p \in Requests : pc[p] \in Driving => on[p] # r
      BY <2>1 DEF ControlInv, DriverOK, Driving
    <3> QED BY <1>3, <3>1 DEF CreateRun, Goto, ConsentFrame, TypeOK
  <2>3. Len(approvals[r]) = 0 /\ Len(gated[r]) = 0
    <3>1. ApprovalsInOrder(r) /\ Len(approvals[r]) \in Nat /\ Len(gated[r]) \in Nat
      BY LenProperties DEF ConsentInv, TypeOK
    <3> QED BY <2>1, <3>1 DEF ApprovalsInOrder
  <2>4. RunConsent(r)'
    <3>1. DOMAIN gated[r] = {}
      BY <2>3, LenProperties DEF TypeOK
    <3> QED BY <2>1, <2>3, <3>1 DEF RunConsent, ApprovalsInOrder
  <2>5. CarriedConsent(q)'
    BY <1>3, <2>1, <2>3 DEF CarriedConsent, NoWork, CreateRun, Goto, TypeOK
  <2> QED BY <2>2, <2>4, <2>5, ConsentStep
<1>4. ASSUME Begin(q) PROVE ConsentInv'
  <2>1. Touches(q, NoRun) /\ UNCHANGED <<status, mode, approvals, gated, on, job>>
    BY <1>0, <1>4 DEF Begin, Goto, RowFree, Touches, TypeOK
  <2>2. /\ pc[q] = "begin" /\ pc'[q] \in {"finish", "loop"}
        /\ pc'[q] = "loop" => work' = work
    BY <1>4 DEF Begin, Goto, TypeOK
  <2>3. work[q].approved = NoAction
    BY <1>0, <2>2 DEF DriverOK, NoWork
  <2>4. pc'[q] = "loop" => CarriedConsent(q)'
    BY <1>0, <2>1, <2>2, <2>3 DEF CarriedConsent
  <2> QED BY <2>1, <2>2, <2>4, QuietConsent
<1> QED BY <1>1, <1>2, <1>3, <1>4

\* A tool call in the loop: a call that needs consent is the approved one.
LEMMA ExecuteConsent ==
  ASSUME TypeOK, ControlInv, ConsentInv, NEW q \in Requests,
         NEW a \in Actions, NEW ok \in BOOLEAN, NEW found \in SUBSET Chunks,
         ExecuteStep(q, a, ok, found)
  PROVE  ConsentInv'
<1>0. PICK r \in Runs : r = on[q] /\ pc[q] = "loop"
  BY DEF ExecuteStep, Looping, TypeOK
<1> DEFINE n == Len(approvals[r])
           g == gated[r]
           w == work[q]
           call == [hash |-> a, pv |-> Version(w), scope |-> job[q].scope]
<1>1. /\ status[r] = "RUNNING" /\ ApprovalsInOrder(r) /\ CarriedConsent(q)
      /\ n \in Nat /\ Len(g) \in Nat /\ DOMAIN approvals[r] = 1..n /\ DOMAIN g = 1..Len(g)
      /\ g \in Seq(GatedCall)
      /\ NoAction \notin Actions
  BY <1>0, LenProperties, ConstantsAssumption DEF ControlInv, DriverOK, ConsentInv, TypeOK
<1>2. /\ w.approved \in {NoAction, a}
      /\ NeedsConsent(mode[r], a) => w.approved = a
      /\ UNCHANGED <<status, mode, approvals, on, job>>
  BY <1>0 DEF ExecuteStep, MustPause
<1>3. /\ pc'[q] \in {"loop", "finish"}
      /\ work'[q].approved = NoAction
      /\ \A p \in Requests \ {q} : pc'[p] = pc[p] /\ work'[p] = work[p]
  <2>1. PICK result \in ResultsOf(a, ok) :
          /\ work' = [work EXCEPT ![q] = AfterCall(w, a, ok, found, result)]
          /\ Goto(q, IF result = "none" THEN "loop" ELSE "finish")
    BY DEF ExecuteStep
  <2>2. AfterCall(w, a, ok, found, result).approved = NoAction
    BY <1>2 DEF AfterCall
  <2> QED BY <2>1, <2>2 DEF Goto, TypeOK
<1>4. ConsentFrame(q, r)
  <2>1. \A p \in Requests \ {q} : pc[p] \in Driving => on[p] # r
    BY <1>0 DEF ControlInv, OneDriver, Driving
  <2>2. \A x \in Runs \ {r} : gated'[x] = gated[x]
    BY <1>0 DEF ExecuteStep, TypeOK
  <2> QED BY <1>2, <1>3, <2>1, <2>2 DEF ConsentFrame
<1>5. CASE NeedsConsent(mode[r], a)
  <2>1. /\ w.approved = a /\ n > 0 /\ Len(g) = n - 1
        /\ approvals[r][n].hash = a /\ approvals[r][n].scope = job[q].scope
        /\ approvals[r][n].status = "CONSUMED"
    BY <1>0, <1>1, <1>2, <1>5 DEF CarriedConsent, ApprovalsInOrder
  <2>2. gated'[r] = Append(g, call)
    BY <1>0, <1>5 DEF ExecuteStep, TypeOK
  <2>3. /\ Len(gated'[r]) = n /\ DOMAIN gated'[r] = 1..n
        /\ gated'[r][n] = call
        /\ \A k \in 1..(n - 1) : gated'[r][k] = g[k]
    <3>1. call \in GatedCall
      BY LenProperties DEF GatedCall, TypeOK, Work, Job, Version
    <3> HIDE DEF call, n, g
    <3> QED BY <1>1, <2>1, <2>2, <3>1
  <2>4. \A k \in 1..(n - 1) : ConsentUsedBy(r, k)
    BY <1>1, <2>1 DEF ConsentInv, GatedCallsApproved
  <2>5. \A k \in 1..n : ConsentUsedBy(r, k)'
    <3> SUFFICES ASSUME NEW k \in 1..n PROVE ConsentUsedBy(r, k)'
      OBVIOUS
    <3>1. CASE k = n
      BY <1>1, <1>2, <2>1, <2>3, <3>1 DEF ConsentUsedBy
    <3>2. CASE k # n
      <4>1. k \in 1..(n - 1)
        BY <1>1, <3>2
      <4> QED BY <1>2, <2>3, <2>4, <4>1 DEF ConsentUsedBy
    <3> QED BY <3>1, <3>2
  <2>6. RunConsent(r)'
    BY <1>1, <1>2, <2>3, <2>5 DEF RunConsent, ApprovalsInOrder, NeedsConsent
  <2>7. CarriedConsent(q)'
    BY <1>0, <1>2, <1>3, <2>3 DEF CarriedConsent
  <2> QED BY <1>4, <2>6, <2>7, ConsentStep
<1>6. CASE ~NeedsConsent(mode[r], a)
  <2>1. w.approved = NoAction
    <3>1. CASE w.approved = a
      <4>1. n \in 1..n /\ approvals[r][n].hash = a
        BY <1>0, <1>1, <3>1 DEF CarriedConsent
      <4> QED BY <1>1, <1>6, <4>1 DEF ApprovalsInOrder
    <3> QED BY <1>2, <3>1
  <2>2. gated' = gated
    BY <1>0, <1>6 DEF ExecuteStep
  <2>3. RunConsent(r)'
    <3>1. RunConsent(r)
      BY <1>1 DEF RunConsent, ConsentInv, GatedCallsApproved
    <3> QED BY <1>2, <2>2, <3>1 DEF RunConsent, ApprovalsInOrder, ConsentUsedBy, NeedsConsent
  <2>4. CarriedConsent(q)'
    BY <1>0, <1>1, <1>2, <1>3, <2>1, <2>2 DEF CarriedConsent
  <2> QED BY <1>4, <2>3, <2>4, ConsentStep
<1> QED BY <1>5, <1>6

\* The other steps of the loop keep the consent they carry.
LEMMA LoopConsent ==
  ASSUME TypeOK, ControlInv, ConsentInv, NEW q \in Requests, LoopSteps(q)
  PROVE  ConsentInv'
<1>0. CarriedConsent(q) /\ NoRun \notin Runs
  BY ConstantsAssumption DEF ConsentInv
<1>1. ASSUME NEW n \in Shapes, DecideInitial(q, n) \/ Replan(q, n) PROVE ConsentInv'
  <2>1. /\ Touches(q, NoRun) /\ UNCHANGED <<status, mode, approvals, gated, pc, on, job>>
        /\ pc[q] = "loop" /\ work'[q].approved = work[q].approved
    BY <1>0, <1>1 DEF DecideInitial, Replan, Looping, Touches, TypeOK, Work
  <2>2. CarriedConsent(q)'
    BY <1>0, <2>1 DEF CarriedConsent
  <2> QED BY <2>1, <2>2, QuietConsent
<1>2. ASSUME NEW a \in Actions, ReplayStep(q, a) PROVE ConsentInv'
  <2>1. /\ Touches(q, NoRun) /\ UNCHANGED <<status, mode, approvals, gated, pc, on, job>>
        /\ pc[q] = "loop" /\ work'[q].approved = work[q].approved
    BY <1>0, <1>2 DEF ReplayStep, Looping, Touches, TypeOK, Work
  <2>2. CarriedConsent(q)'
    BY <1>0, <2>1 DEF CarriedConsent
  <2> QED BY <2>1, <2>2, QuietConsent
<1>3. ASSUME NEW a \in Actions, AskApproval(q, a) PROVE ConsentInv'
  <2>1. /\ Touches(q, NoRun) /\ UNCHANGED <<status, mode, approvals, gated, on, job>>
        /\ pc[q] = "loop" /\ pc'[q] = "pause"
        /\ work'[q].approved = work[q].approved /\ work'[q].ask = a
    BY <1>0, <1>3 DEF AskApproval, Looping, Goto, Touches, TypeOK, Work
  <2>2. work[q].approved = NoAction /\ NeedsConsent(mode[on[q]], a)
    BY <1>3 DEF AskApproval, MustPause
  <2>3. CarriedConsent(q)'
    BY <1>0, <2>1, <2>2 DEF CarriedConsent, NeedsConsent
  <2> QED BY <2>1, <2>3, QuietConsent
<1>4. ASSUME NEW a \in Actions, ResumeMismatch(q, a) PROVE ConsentInv'
  <2>1. Touches(q, NoRun) /\ UNCHANGED <<status, mode, approvals, gated>> /\ pc'[q] = "mark"
    BY <1>0, <1>4, ReleaseKeeps DEF ResumeMismatch, Looping, Goto, Touches, TypeOK
  <2> QED BY <2>1, QuietConsent
<1>5. ASSUME NEW a \in Actions, NEW ok \in BOOLEAN, NEW found \in SUBSET Chunks,
             ExecuteStep(q, a, ok, found)
      PROVE  ConsentInv'
  BY <1>5, ExecuteConsent
<1>6. ASSUME NEW outcome \in Terminal, LoopReturns(q, outcome) PROVE ConsentInv'
  <2>1. Touches(q, NoRun) /\ UNCHANGED <<status, mode, approvals, gated>> /\ pc'[q] = "finish"
    BY <1>0, <1>6 DEF LoopReturns, Looping, Goto, Touches, TypeOK
  <2> QED BY <2>1, QuietConsent
<1> QED BY <1>1, <1>2, <1>3, <1>4, <1>5, <1>6 DEF LoopSteps

\* A run that ends keeps the verdicts of its approvals.
LEMMA OverConsent ==
  ASSUME TypeOK, ConsentInv, NEW r \in Runs,
         status'[r] \in Terminal, mode' = mode, gated' = gated,
         \A k \in DOMAIN approvals[r] : \/ approvals'[r][k] = approvals[r][k]
                                        \/ /\ approvals[r][k].status = "PENDING"
                                           /\ approvals'[r][k].hash = approvals[r][k].hash,
         approvals'[r] \in Seq(ApprovalRow),
         DOMAIN approvals'[r] = DOMAIN approvals[r]
  PROVE  RunConsent(r)'
<1>1. ApprovalsInOrder(r) /\ \A k \in DOMAIN gated[r] : ConsentUsedBy(r, k)
  BY DEF ConsentInv, GatedCallsApproved
<1>2. /\ Len(approvals[r]) \in Nat /\ DOMAIN approvals[r] = 1..Len(approvals[r])
      /\ Len(approvals'[r]) \in Nat /\ DOMAIN approvals'[r] = 1..Len(approvals'[r])
  BY LenProperties DEF TypeOK
<1>3. Len(approvals'[r]) = Len(approvals[r])
  BY <1>2
<1>4. \A k \in DOMAIN approvals[r] :
        /\ approvals'[r][k].hash = approvals[r][k].hash
        /\ approvals[r][k].status = "CONSUMED" => approvals'[r][k] = approvals[r][k]
  OBVIOUS
<1>5. status'[r] \notin {"none", "CREATED", "RUNNING", "AWAITING_APPROVAL"}
  BY DEF Terminal
<1>6. ApprovalsInOrder(r)'
  BY <1>1, <1>2, <1>3, <1>4, <1>5 DEF ApprovalsInOrder, NeedsConsent
<1>7. \A k \in DOMAIN gated[r] : ConsentUsedBy(r, k)'
  BY <1>1, <1>4 DEF ConsentUsedBy
<1> QED BY <1>6, <1>7 DEF RunConsent

\* A step within the frame of an exclusive request writes one run.
LEMMA FrameFromTouches ==
  ASSUME NEW q \in Requests, NEW r \in Runs, Touches(q, r), Exclusive(q, r),
         mode' = mode, gated' = gated
  PROVE  ConsentFrame(q, r)
BY DEF Touches, Exclusive, ConsentFrame

\* Pausing asks for the next consent when all earlier ones have been used.
LEMMA PauseConsent ==
  ASSUME TypeOK, ControlInv, ConsentInv, NEW q \in Requests, Pause(q)
  PROVE  ConsentInv'
<1>0. PICK r \in Runs : r = on[q] /\ pc[q] = "pause"
  BY DEF Pause, TypeOK
<1> DEFINE s == approvals[r]
           n == Len(s)
<1>1. /\ s \in Seq(ApprovalRow) /\ n \in Nat /\ DOMAIN s = 1..n
      /\ Len(gated[r]) \in Nat /\ DOMAIN gated[r] = 1..Len(gated[r])
  BY LenProperties DEF TypeOK
<1>2. /\ EndRequest(q) /\ Release(q) /\ UNCHANGED <<mode, gated>>
      /\ approvals' = [approvals EXCEPT ![r] = Append(@, PendingApproval(q))]
      /\ status' = [status EXCEPT ![r] = "AWAITING_APPROVAL"]
  BY <1>0 DEF Pause
<1>3. Touches(q, r)
  BY <1>2, EndedControl, ReleaseKeeps DEF Touches, TypeOK
<1>4. Exclusive(q, r)
  BY <1>0, DriverExclusive DEF Pause, Driving
<1>5. status[r] = "RUNNING" /\ ApprovalsInOrder(r) /\ CarriedConsent(q)
  BY <1>0 DEF ControlInv, DriverOK, ConsentInv
<1>6. Len(gated[r]) = n /\ NeedsConsent(mode[r], work[q].ask)
  BY <1>0, <1>5 DEF CarriedConsent
<1>7. PendingApproval(q) = [status |-> "PENDING", pv |-> Version(work[q]),
                            step |-> Len(work[q].done) + 1, hash |-> work[q].ask,
                            scope |-> job[q].scope, expired |-> FALSE]
  BY DEF PendingApproval
<1>8. /\ Len(approvals'[r]) = n + 1 /\ DOMAIN approvals'[r] = 1..(n + 1)
      /\ approvals'[r][n + 1].hash = work[q].ask
      /\ \A k \in 1..n : approvals'[r][k] = s[k]
  <2>1. approvals'[r] = Append(s, PendingApproval(q)) /\ PendingApproval(q).hash = work[q].ask
    BY <1>2, <1>7 DEF TypeOK
  <2> HIDE DEF s
  <2> QED BY <1>1, <2>1
<1>9. ApprovalsInOrder(r)'
  <2> HIDE DEF s, n
  <2>1. status'[r] = "AWAITING_APPROVAL" /\ gated' = gated /\ mode' = mode
    BY <1>2 DEF TypeOK
  <2>2. \A k \in 1..n : s[k].status = "CONSUMED" /\ NeedsConsent(mode[r], s[k].hash)
    BY <1>5 DEF ApprovalsInOrder, n, s
  <2>3. \A k \in 1..(n + 1) : NeedsConsent(mode[r], approvals'[r][k].hash)
    BY <1>1, <1>6, <1>8, <2>2
  <2>4. \A k \in 1..(n + 1) : k < n + 1 => approvals'[r][k].status = "CONSUMED"
    BY <1>1, <1>8, <2>2
  <2> QED BY <1>1, <1>6, <1>8, <2>1, <2>3, <2>4 DEF ApprovalsInOrder, NeedsConsent
<1>10. RunConsent(r)'
  <2>1. \A k \in DOMAIN gated[r] : ConsentUsedBy(r, k)
    BY DEF ConsentInv, GatedCallsApproved
  <2>2. \A k \in DOMAIN gated[r] : ConsentUsedBy(r, k)'
    BY <1>1, <1>2, <1>6, <1>8, <2>1 DEF ConsentUsedBy
  <2> QED BY <1>2, <1>9, <2>2 DEF RunConsent
<1>11. CarriedConsent(q)'
  BY <1>2, EndedControl DEF CarriedConsent, Driving
<1> QED BY <1>2, <1>3, <1>4, <1>10, <1>11, FrameFromTouches, ConsentStep

\* Finishing, failing and cancelling.
LEMMA EndingConsent ==
  ASSUME TypeOK, ControlInv, ConsentInv, NEW q \in Requests
  PROVE  /\ Pause(q) \/ PauseFails(q) => ConsentInv'
         /\ Finish(q) \/ FinishFails(q) \/ CommitThenCancelled(q) => ConsentInv'
         /\ \A target \in {"FAILED", "CANCELLED"} : Abort(q, target) => ConsentInv'
         /\ MarkTerminal(q) => ConsentInv'
<1>0. DriverOK(q) /\ NoRun \notin Runs
  BY ConstantsAssumption DEF ControlInv
<1>1. ASSUME PauseFails(q) PROVE ConsentInv'
  <2>1. EndRequest(q) /\ Release(q) /\ UNCHANGED <<status, mode, approvals, gated>>
    BY <1>1 DEF PauseFails
  <2>2. Touches(q, NoRun) /\ pc'[q] \notin Driving
    BY <1>0, <2>1, EndedControl, ReleaseKeeps DEF Touches
  <2> QED BY <2>1, <2>2, QuietConsent DEF Driving
<1>2. ASSUME FinishFails(q) \/ \E target \in {"FAILED", "CANCELLED"} : Abort(q, target)
      PROVE  ConsentInv'
  <2>1. Touches(q, NoRun) /\ UNCHANGED <<status, mode, approvals, gated>> /\ pc'[q] = "mark"
    BY <1>0, <1>2, ReleaseKeeps DEF FinishFails, Abort, Goto, Touches, TypeOK
  <2> QED BY <2>1, QuietConsent
<1>3. ASSUME Finish(q) \/ CommitThenCancelled(q) PROVE ConsentInv'
  <2>1. PICK r \in Runs : r = on[q] /\ pc[q] \in Driving /\ RowFree(r, q)
    BY <1>3 DEF Finish, CommitThenCancelled, TypeOK, Driving
  <2>2. UNCHANGED <<mode, gated, approvals>> /\ Release(q) /\ pc'[q] \in {"idle", "mark"}
    BY <1>3 DEF Finish, CommitThenCancelled, EndRequest, Goto, TypeOK
  <2>3. status' = [status EXCEPT ![r] = work[q].result] /\ work[q].result \in Terminal
    BY <1>0, <1>3, <2>1 DEF Finish, CommitThenCancelled, DriverOK, Terminal
  <2>4. status'[r] \in Terminal /\ \A x \in Runs \ {r} : status'[x] = status[x]
    BY <2>3 DEF TypeOK
  <2>5. \A p \in Requests \ {q} :
          pc'[p] = pc[p] /\ on'[p] = on[p] /\ job'[p] = job[p] /\ work'[p] = work[p]
    BY <1>3, EndedControl DEF Finish, CommitThenCancelled, Goto, TypeOK
  <2>6. Exclusive(q, r)
    BY <2>1, DriverExclusive
  <2>7. ConsentFrame(q, r)
    BY <2>2, <2>4, <2>5, <2>6 DEF ConsentFrame, Exclusive
  <2>8. RunConsent(r)'
    BY <2>2, <2>4, OverConsent DEF TypeOK
  <2>9. CarriedConsent(q)'
    BY <2>2 DEF CarriedConsent
  <2> QED BY <2>7, <2>8, <2>9, ConsentStep
<1>4. ASSUME MarkTerminal(q) PROVE ConsentInv'
  <2>1. PICK r \in Runs : r = on[q] /\ pc[q] = "mark" /\ RowFree(r, q)
    BY <1>4 DEF MarkTerminal, TypeOK
  <2>2. EndRequest(q) /\ UNCHANGED <<mode, gated, approvals, rowLock>>
    BY <1>4 DEF MarkTerminal
  <2>3. /\ status[r] \notin {"none", "AWAITING_APPROVAL"}
        /\ work[q].result \in {"FAILED", "CANCELLED"}
    BY <1>0, <2>1 DEF DriverOK
  <2>4. /\ status'[r] \in Terminal
        /\ \A x \in Runs \ {r} : status'[x] = status[x]
    <3>1. status[r] \in Markable \cup Terminal
      BY <2>3 DEF TypeOK, Statuses, Markable
    <3> QED BY <1>4, <2>1, <2>3, <3>1 DEF MarkTerminal, TypeOK, Terminal, Markable
  <2>5. Exclusive(q, r)
    BY <2>1, DriverExclusive DEF Driving
  <2>6. ConsentFrame(q, r)
    BY <2>2, <2>4, <2>5, EndedControl DEF ConsentFrame, Exclusive
  <2>7. RunConsent(r)'
    BY <2>2, <2>4, OverConsent DEF TypeOK
  <2>8. CarriedConsent(q)'
    BY <2>2, EndedControl DEF CarriedConsent, Driving
  <2> QED BY <2>6, <2>7, <2>8, ConsentStep
<1> QED BY <1>1, <1>2, <1>3, <1>4, PauseConsent

\* What a verdict on the PENDING approval changes: that row's status only,
\* and it is the newest row.
LEMMA SettleRows ==
  ASSUME TypeOK, ControlInv, NEW r \in Runs, NEW i \in DOMAIN approvals[r],
         NEW verdict \in ApprovalStatuses, NEW target \in Statuses,
         approvals[r][i].status = "PENDING", Settle(r, i, verdict, target)
  PROVE  /\ i = Len(approvals[r])
         /\ approvals'[r] \in Seq(ApprovalRow)
         /\ DOMAIN approvals'[r] = DOMAIN approvals[r]
         /\ approvals'[r][i] = [approvals[r][i] EXCEPT !.status = verdict]
         /\ approvals[r][i] \in ApprovalRow
         /\ \A k \in DOMAIN approvals[r] \ {i} : approvals'[r][k] = approvals[r][k]
         /\ status'[r] = target
         /\ \A x \in Runs \ {r} : status'[x] = status[x] /\ approvals'[x] = approvals[x]
         /\ mode' = mode
<1>1. i = Len(approvals[r])
  BY DEF ControlInv, PendingIffAwaiting, OnlyNewestPending
<1>2. /\ approvals' \in [Runs -> Seq(ApprovalRow)]
      /\ DOMAIN approvals'[r] = DOMAIN approvals[r]
  BY SettleType
<1>3. approvals[r][i] \in ApprovalRow
  BY LenProperties, ElementOfSeq DEF TypeOK
<1>4. /\ approvals'[r] = [approvals[r] EXCEPT ![i].status = verdict]
      /\ status'[r] = target
      /\ \A x \in Runs \ {r} : status'[x] = status[x] /\ approvals'[x] = approvals[x]
      /\ mode' = mode
  BY DEF Settle, TypeOK
<1> QED BY <1>1, <1>2, <1>3, <1>4

\* A negative verdict, or a failed approval, ends the run.
LEMMA NegativeConsent ==
  ASSUME TypeOK, ControlInv, ConsentInv, NEW r \in Runs, NEW i \in DOMAIN approvals[r],
         NEW verdict \in ApprovalStatuses, NEW target \in Terminal,
         approvals[r][i].status = "PENDING", Settle(r, i, verdict, target), gated' = gated
  PROVE  RunConsent(r)'
<1>1. target \in Statuses
  BY DEF Statuses
<1>2. /\ status'[r] \in Terminal /\ mode' = mode
      /\ approvals'[r] \in Seq(ApprovalRow)
      /\ DOMAIN approvals'[r] = DOMAIN approvals[r]
      /\ approvals'[r][i] = [approvals[r][i] EXCEPT !.status = verdict]
      /\ approvals[r][i] \in ApprovalRow
      /\ \A k \in DOMAIN approvals[r] \ {i} : approvals'[r][k] = approvals[r][k]
  BY <1>1, SettleRows
<1>3. approvals'[r][i].hash = approvals[r][i].hash
  BY <1>2 DEF ApprovalRow
<1>4. \A k \in DOMAIN approvals[r] : \/ approvals'[r][k] = approvals[r][k]
                                     \/ /\ approvals[r][k].status = "PENDING"
                                        /\ approvals'[r][k].hash = approvals[r][k].hash
  BY <1>2, <1>3
<1> QED BY <1>2, <1>4, OverConsent

\* The approved run carries exactly the consent just given, for the scope the
\* approving request was authenticated to.
LEMMA ApproveConsent ==
  ASSUME TypeOK, ControlInv, ConsentInv, NEW q \in Requests, ApproveOnce(q)
  PROVE  ConsentInv'
<1>1. /\ pc[q] = "held" /\ Available(q) /\ job[q].kind = "approve"
      /\ on[q] \in Runs /\ job[q].item \in DOMAIN approvals[on[q]] /\ job[q].item \in Nat
  BY DEF ApproveOnce, Holds, TypeOK, Job
<1>2. PICK r \in Runs, i \in Nat : r = on[q] /\ i = job[q].item /\ i \in DOMAIN approvals[r]
  BY <1>1
<1>3. /\ Exclusive(q, r) /\ status[r] = "AWAITING_APPROVAL"
      /\ approvals[r][i].status = "PENDING"
  BY <1>1, <1>2, HolderExclusive
<1>4. Settle(r, i, "CONSUMED", "RUNNING") /\ UNCHANGED <<on, job, gated>> /\ Release(q)
  BY <1>2 DEF ApproveOnce
<1> DEFINE n == Len(approvals[r])
<1>5. /\ i = n
      /\ approvals'[r] \in Seq(ApprovalRow)
      /\ DOMAIN approvals'[r] = DOMAIN approvals[r]
      /\ approvals'[r][i] = [approvals[r][i] EXCEPT !.status = "CONSUMED"]
      /\ approvals[r][i] \in ApprovalRow
      /\ \A k \in DOMAIN approvals[r] \ {i} : approvals'[r][k] = approvals[r][k]
      /\ status'[r] = "RUNNING"
      /\ \A x \in Runs \ {r} : status'[x] = status[x] /\ approvals'[x] = approvals[x]
      /\ mode' = mode
  <2>1. "CONSUMED" \in ApprovalStatuses /\ "RUNNING" \in Statuses
    BY DEF ApprovalStatuses, Statuses
  <2> QED BY <1>2, <1>3, <1>4, <2>1, SettleRows
<1>6. /\ n \in Nat /\ DOMAIN approvals[r] = 1..n /\ Len(approvals'[r]) = n
      /\ Len(gated[r]) \in Nat /\ DOMAIN gated[r] = 1..Len(gated[r])
  BY <1>5, LenProperties DEF TypeOK
<1>7. /\ approvals'[r][n].status = "CONSUMED"
      /\ approvals'[r][n].hash = approvals[r][n].hash
      /\ approvals'[r][n].scope = approvals[r][n].scope
      /\ n > 0
  BY <1>2, <1>5, <1>6 DEF ApprovalRow
<1>8. ApprovalsInOrder(r) /\ Len(gated[r]) = n - 1
      /\ \A k \in DOMAIN gated[r] : ConsentUsedBy(r, k)
  <2>1. ApprovalsInOrder(r) /\ \A k \in DOMAIN gated[r] : ConsentUsedBy(r, k)
    BY DEF ConsentInv, GatedCallsApproved
  <2>2. Len(gated[r]) = n - 1
    BY <1>3, <2>1 DEF ApprovalsInOrder
  <2> QED BY <2>1, <2>2
<1>9. RunConsent(r)'
  <2> HIDE DEF n
  <2>1. \A k \in 1..n : /\ approvals'[r][k].status = "CONSUMED"
                        /\ NeedsConsent(mode[r], approvals'[r][k].hash)
    <3>1. \A k \in 1..n : NeedsConsent(mode[r], approvals[r][k].hash)
      BY <1>8 DEF ApprovalsInOrder, n
    <3>2. \A k \in 1..n : k < n => approvals[r][k].status = "CONSUMED"
      BY <1>8 DEF ApprovalsInOrder, n
    <3>3. ASSUME NEW k \in 1..n, k # n
          PROVE  approvals'[r][k] = approvals[r][k] /\ approvals[r][k].status = "CONSUMED"
      BY <1>5, <1>6, <3>2, <3>3
    <3> QED BY <1>7, <3>1, <3>3
  <2>2. ApprovalsInOrder(r)'
    BY <1>4, <1>5, <1>6, <1>8, <2>1 DEF ApprovalsInOrder, NeedsConsent
  <2>3. ASSUME NEW k \in DOMAIN gated[r] PROVE ConsentUsedBy(r, k)'
    <3>1. k \in 1..n /\ k # n /\ ConsentUsedBy(r, k)
      BY <1>6, <1>8 DEF n
    <3>2. approvals'[r][k] = approvals[r][k] /\ k \in DOMAIN approvals'[r]
      BY <1>5, <1>6, <3>1
    <3> QED BY <1>4, <3>1, <3>2 DEF ConsentUsedBy
  <2> QED BY <1>4, <2>2, <2>3 DEF RunConsent
<1>10. CarriedConsent(q)'
  <2>1. work'[q].approved = approvals[r][n].hash /\ approvals[r][n].scope = job[q].scope
    <3>1. work'[q] = ResumeWork(r, i) /\ Resumable(q)
      BY <1>2 DEF ApproveOnce, TypeOK
    <3>2. ResumeWork(r, i).approved = approvals[r][i].hash
      BY DEF ResumeWork, NoWork
    <3>3. approvals[r][i].scope = job[q].scope
      BY <1>2, <3>1 DEF Resumable
    <3> QED BY <1>5, <3>1, <3>2, <3>3
  <2>2. approvals[r][n].hash # NoAction
    BY <1>5, ConstantsAssumption DEF ApprovalRow
  <2>3. pc'[q] = "setup"
    BY DEF ApproveOnce, Goto, TypeOK
  <2> QED BY <1>2, <1>4, <1>6, <1>7, <1>8, <2>1, <2>2, <2>3 DEF CarriedConsent
<1>11. Touches(q, r)
  BY <1>5, ReleaseKeeps DEF ApproveOnce, Goto, Touches, TypeOK
<1> QED BY <1>3, <1>4, <1>5, <1>9, <1>10, <1>11, FrameFromTouches, ConsentStep

\* Receiving, locking and answering.
LEMMA ResolutionConsent ==
  ASSUME TypeOK, ControlInv, ConsentInv, NEW q \in Requests
  PROVE  /\ \A kind \in Kinds, r \in Runs, i \in Nat :
              ReceiveResolution(q, kind, r, i) => ConsentInv'
         /\ LockOwned(q) \/ Unavailable(q) => ConsentInv'
         /\ ApproveFailsClosed(q) \/ ApproveOnce(q) \/ ResumeSetup(q) => ConsentInv'
         /\ Reject(q) \/ ChangeRequest(q) \/ Stop(q) => ConsentInv'
<1>0. CarriedConsent(q) /\ NoRun \notin Runs
  BY ConstantsAssumption DEF ConsentInv
<1>1. ASSUME NEW kind \in Kinds, NEW r \in Runs, NEW i \in Nat, ReceiveResolution(q, kind, r, i)
      PROVE  ConsentInv'
  <2>1. Touches(q, NoRun) /\ UNCHANGED <<status, mode, approvals, gated>> /\ pc'[q] = "wait"
    BY <1>0, <1>1 DEF ReceiveResolution, Goto, Touches, TypeOK
  <2> QED BY <2>1, QuietConsent
<1>2. ASSUME LockOwned(q) PROVE ConsentInv'
  <2>1. Touches(q, NoRun) /\ UNCHANGED <<status, mode, approvals, gated>> /\ pc'[q] = "held"
    BY <1>0, <1>2 DEF LockOwned, RowFree, Goto, Touches, TypeOK
  <2> QED BY <2>1, QuietConsent
<1>3. ASSUME Unavailable(q) PROVE ConsentInv'
  <2>1. EndRequest(q) /\ Release(q) /\ UNCHANGED <<status, mode, approvals, gated>>
    BY <1>3 DEF Unavailable
  <2>2. Touches(q, NoRun) /\ pc'[q] \notin Driving
    BY <1>0, <2>1, EndedControl, ReleaseKeeps DEF Touches
  <2> QED BY <2>1, <2>2, QuietConsent DEF Driving
<1>4. ASSUME ApproveFailsClosed(q) \/ Reject(q) \/ ChangeRequest(q) PROVE ConsentInv'
  <2>1. /\ pc[q] = "held" /\ Available(q) /\ job[q].kind # "stop"
        /\ on[q] \in Runs /\ job[q].item \in DOMAIN approvals[on[q]] /\ job[q].item \in Nat
    BY <1>4 DEF ApproveFailsClosed, Reject, ChangeRequest, Holds, TypeOK, Job
  <2>2. PICK r \in Runs, i \in Nat : r = on[q] /\ i = job[q].item /\ i \in DOMAIN approvals[r]
    BY <2>1
  <2>3. Exclusive(q, r) /\ approvals[r][i].status = "PENDING"
    BY <2>1, <2>2, HolderExclusive
  <2>4. PICK verdict \in ApprovalStatuses, target \in Terminal : Settle(r, i, verdict, target)
    <3>1. {"EXPIRED", "CANCELLED", "REJECTED", "SUPERSEDED"} \subseteq ApprovalStatuses
      BY DEF ApprovalStatuses
    <3>2. {"FAILED", "CANCELLED"} \subseteq Terminal
      BY DEF Terminal
    <3>3. \E verdict \in {"EXPIRED", "CANCELLED", "REJECTED", "SUPERSEDED"},
             target \in {"FAILED", "CANCELLED"} : Settle(r, i, verdict, target)
      BY <1>4, <2>2 DEF ApproveFailsClosed, Reject, ChangeRequest
    <3> QED BY <3>1, <3>2, <3>3
  <2>5. target \in Statuses /\ target # "none"
    BY DEF Statuses, Terminal
  <2>6. /\ status'[r] = target /\ mode' = mode /\ gated' = gated
        /\ \A x \in Runs \ {r} : status'[x] = status[x] /\ approvals'[x] = approvals[x]
    <3>1. gated' = gated
      BY <1>4 DEF ApproveFailsClosed, Reject, ChangeRequest
    <3>2. /\ status' = [status EXCEPT ![r] = target] /\ mode' = mode
          /\ approvals' = [approvals EXCEPT ![r][i].status = verdict]
      BY <2>4 DEF Settle
    <3> QED BY <3>1, <3>2 DEF TypeOK
  <2>7. Release(q) /\ pc'[q] \in {"idle", "create"}
    BY <1>4 DEF ApproveFailsClosed, Reject, ChangeRequest, EndRequest, Goto, TypeOK
  <2>8. \A p \in Requests \ {q} :
          pc'[p] = pc[p] /\ on'[p] = on[p] /\ job'[p] = job[p] /\ work'[p] = work[p]
    BY <1>4, EndedControl DEF ApproveFailsClosed, Reject, ChangeRequest, Goto, TypeOK
  <2>9. ConsentFrame(q, r)
    BY <2>3, <2>6, <2>8 DEF ConsentFrame, Exclusive
  <2>10. RunConsent(r)'
    BY <2>2, <2>3, <2>4, <2>6, NegativeConsent
  <2>11. CarriedConsent(q)'
    BY <2>7 DEF CarriedConsent
  <2> QED BY <2>9, <2>10, <2>11, ConsentStep
<1>5. ASSUME ResumeSetup(q) PROVE ConsentInv'
  <2>1. /\ Touches(q, NoRun)
        /\ UNCHANGED <<status, mode, approvals, gated, on, job, work>>
        /\ pc[q] = "setup" /\ pc'[q] = "loop"
    BY <1>0, <1>5 DEF ResumeSetup, Goto, Touches, TypeOK
  <2>2. CarriedConsent(q)'
    BY <1>0, <2>1 DEF CarriedConsent
  <2> QED BY <2>1, <2>2, QuietConsent
<1>6. ASSUME Stop(q) PROVE ConsentInv'
  <2>1. PICK r \in Runs : r = on[q]
    BY <1>6 DEF Stop, Holds, TypeOK
  <2>2. Exclusive(q, r)
    BY <1>6, <2>1, HolderExclusive DEF Stop, Holds
  <2>3. /\ approvals'[r] = StoppedApprovals(r) /\ status'[r] = "CANCELLED"
        /\ \A x \in Runs \ {r} : status'[x] = status[x] /\ approvals'[x] = approvals[x]
        /\ mode' = mode /\ gated' = gated /\ EndRequest(q)
    BY <1>6, <2>1 DEF Stop, TypeOK
  <2>4. approvals'[r] \in Seq(ApprovalRow) /\ DOMAIN approvals'[r] = DOMAIN approvals[r]
    BY <2>3, StoppedType
  <2>5. \A k \in DOMAIN approvals[r] : \/ approvals'[r][k] = approvals[r][k]
                                       \/ /\ approvals[r][k].status = "PENDING"
                                          /\ approvals'[r][k].hash = approvals[r][k].hash
    <3>1. \A k \in DOMAIN approvals[r] : approvals[r][k] \in ApprovalRow
      BY LenProperties, ElementOfSeq DEF TypeOK
    <3> QED BY <2>3, <3>1 DEF StoppedApprovals, ApprovalRow
  <2>6. RunConsent(r)'
    BY <2>3, <2>4, <2>5, OverConsent DEF Terminal
  <2>7. ConsentFrame(q, r)
    BY <2>2, <2>3, EndedControl DEF ConsentFrame, Exclusive
  <2>8. CarriedConsent(q)'
    BY <2>3, EndedControl DEF CarriedConsent, Driving
  <2> QED BY <2>6, <2>7, <2>8, ConsentStep
<1> QED BY <1>1, <1>2, <1>3, <1>4, <1>5, <1>6, ApproveConsent

\* Time, administrators and faults touch no consent.
LEMMA EnvironmentConsent ==
  ASSUME TypeOK, ControlInv, ConsentInv, Environment
  PROVE  ConsentInv'
<1>1. ASSUME UNCHANGED <<status, mode, approvals, gated, pc, on, job, work>>
      PROVE  ConsentInv'
  BY <1>1 DEF ConsentInv, ApprovalsInOrder, CarriedConsent, GatedCallsApproved,
              ConsentUsedBy, NeedsConsent
<1>2. ASSUME NEW s \in Scopes, Regrant(s) PROVE ConsentInv'
  BY <1>1, <1>2 DEF Regrant
<1>3. ASSUME NEW c \in Chunks, Deactivate(c) PROVE ConsentInv'
  BY <1>1, <1>3 DEF Deactivate
<1>4. ASSUME NEW q \in Requests, Lose(q) PROVE ConsentInv'
  <2>1. EndRequest(q) /\ Release(q) /\ UNCHANGED <<status, mode, approvals, gated>>
    BY <1>4 DEF Lose
  <2>2. Touches(q, NoRun) /\ pc'[q] \notin Driving
    BY <2>1, EndedControl, ReleaseKeeps, ConstantsAssumption DEF Touches
  <2> QED BY <2>1, <2>2, QuietConsent DEF Driving
<1>5. ASSUME NEW r \in Runs, NEW i \in DOMAIN approvals[r], Expire(r, i) PROVE ConsentInv'
  <2>1. UNCHANGED <<status, mode, gated, pc, on, job, work>>
    BY <1>5 DEF Expire
  <2>2. /\ \A x \in Runs : DOMAIN approvals'[x] = DOMAIN approvals[x]
        /\ \A x \in Runs : Len(approvals'[x]) = Len(approvals[x])
    BY <1>5, ExpireRows
  <2>3. \A x \in Runs : \A k \in DOMAIN approvals[x] :
          /\ approvals'[x][k].status = approvals[x][k].status
          /\ approvals'[x][k].hash = approvals[x][k].hash
          /\ approvals'[x][k].scope = approvals[x][k].scope
    BY <1>5, ExpireRows
  <2>4. \A x \in Runs : Len(approvals[x]) \in Nat /\ DOMAIN approvals[x] = 1..Len(approvals[x])
    BY LenProperties DEF TypeOK
  <2>5. ASSUME NEW x \in Runs PROVE ApprovalsInOrder(x)'
    <3>1. ApprovalsInOrder(x)
      BY DEF ConsentInv
    <3> QED BY <2>1, <2>2, <2>3, <2>4, <3>1 DEF ApprovalsInOrder, NeedsConsent
  <2>6. ASSUME NEW p \in Requests PROVE CarriedConsent(p)'
    <3>1. CarriedConsent(p)
      BY DEF ConsentInv
    <3>2. CASE pc[p] \in Driving
      <4>1. on[p] \in Runs
        BY <3>2 DEF TypeOK, Driving
      <4>2. Len(approvals[on[p]]) > 0 => Len(approvals[on[p]]) \in DOMAIN approvals[on[p]]
        BY <2>4, <4>1
      <4> QED BY <2>1, <2>2, <2>3, <3>1, <4>1, <4>2 DEF CarriedConsent, NeedsConsent
    <3>3. CASE pc[p] \notin Driving
      BY <2>1, <3>3 DEF CarriedConsent, Driving
    <3> QED BY <3>2, <3>3
  <2>7. GatedCallsApproved'
    BY <2>1, <2>2, <2>3 DEF ConsentInv, GatedCallsApproved, ConsentUsedBy
  <2> QED BY <2>5, <2>6, <2>7 DEF ConsentInv
<1> QED BY <1>2, <1>3, <1>4, <1>5 DEF Environment

\* Every step preserves the consent invariant.
LEMMA NextConsent == TypeOK /\ ControlInv /\ ConsentInv /\ [Next]_vars => ConsentInv'
<1> SUFFICES ASSUME TypeOK, ControlInv, ConsentInv, [Next]_vars PROVE ConsentInv'
  OBVIOUS
<1>1. ASSUME NEW q \in Requests, LockSteps(q) PROVE ConsentInv'
  BY <1>1, StartConsent, EndingConsent, ResolutionConsent DEF LockSteps
<1>2. ASSUME NEW q \in Requests, LoopSteps(q) PROVE ConsentInv'
  BY <1>2, LoopConsent
<1>3. ASSUME NEW q \in Requests, OtherSteps(q) PROVE ConsentInv'
  BY <1>3, StartConsent, EndingConsent, ResolutionConsent DEF OtherSteps
<1>4. ASSUME NEW q \in Requests, Receive(q) PROVE ConsentInv'
  <2>1. \A r \in Runs : {0} \cup DOMAIN approvals[r] \subseteq Nat
    BY LenProperties DEF TypeOK
  <2> QED BY <1>4, <2>1, StartConsent, ResolutionConsent DEF Receive
<1>5. CASE Environment
  BY <1>5, EnvironmentConsent
<1>6. CASE UNCHANGED vars
  BY <1>6 DEF vars, ConsentInv, ApprovalsInOrder, CarriedConsent, GatedCallsApproved,
              ConsentUsedBy, NeedsConsent
<1> QED BY <1>1, <1>2, <1>3, <1>4, <1>5, <1>6 DEF Next

\* The consent invariant holds.
LEMMA ConsentHolds == Spec => []ConsentInv
<1>1. Init => ConsentInv
  BY DEF Init, ConsentInv, ApprovalsInOrder, CarriedConsent, GatedCallsApproved
<1>2. TypeOK /\ ControlInv /\ ConsentInv /\ [Next]_vars => ConsentInv'
  BY NextConsent
<1> QED BY <1>1, <1>2, ControlHolds, PTL DEF Spec

\* Human consent, for any number of runs, requests, clicks and crashes: every
\* tool call that the control mode or its risk class subjects to approval used
\* up an approval of its own, for the same action and authorization scope.
THEOREM ConsentCorrect == Spec => []GatedCallsApproved
<1>1. ConsentInv => GatedCallsApproved
  BY DEF ConsentInv
<1> QED BY <1>1, ConsentHolds, PTL
=============================================================================
