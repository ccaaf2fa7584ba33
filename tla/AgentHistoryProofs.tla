------------------------- MODULE AgentHistoryProofs -------------------------
(***************************************************************************)
(* Machine-checked proofs about the history of agent runs: which tool      *)
(* calls happened, which of them are stored, and what a paused run needs   *)
(* to be resumed; and that AgentRuns implements ApprovalGate.  They build  *)
(* on the control and consent invariants of AgentRunsProofs.               *)
(***************************************************************************)
EXTENDS AgentRunsProofs

USE DEF rowVars, requestVars, worldVars, historyVars
-----------------------------------------------------------------------------
(***************************************************************************)
(* The history of one run, and the frame of a step.                        *)
(*                                                                         *)
(* A step of request q re-establishes LoopFollows(q) and the history of    *)
(* the run it writes; a loop of another request keeps its clause because   *)
(* nobody else stores steps or makes calls for the run it executes.        *)
(***************************************************************************)
CallsOnce(r) ==
  /\ Len(calls[r]) <= MaxSteps
  /\ \A i, j \in DOMAIN calls[r] : calls[r][i].hash = calls[r][j].hash => i = j

StepsFaithful(r) ==
  /\ Len(stepRows[r]) <= Len(calls[r])
  /\ \A i \in DOMAIN stepRows[r] : /\ stepRows[r][i].hash = calls[r][i].hash
                                   /\ stepRows[r][i].pv = calls[r][i].pv
  /\ status[r] = "AWAITING_APPROVAL" => Len(stepRows[r]) = Len(calls[r])

PauseWhole(r) ==
  status[r] = "AWAITING_APPROVAL" =>
    /\ message[r]
    /\ approvals[r][Len(approvals[r])].step = Len(stepRows[r]) + 1
    /\ \A i \in DOMAIN stepRows[r] : stepRows[r][i].ok /\ stepRows[r][i].hash \notin Calculators

RunHistory(r) ==
  /\ status[r] = "none" => stepRows[r] = <<>> /\ calls[r] = <<>>
  /\ CallsOnce(r)
  /\ StepsFaithful(r)
  /\ PauseWhole(r)

\* The history invariant, run by run and request by request.
LEMMA HistoryParts ==
  HistoryInv <=> (\A r \in Runs : RunHistory(r)) /\ (\A q \in Requests : LoopFollows(q))
BY DEF HistoryInv, RunHistory, CallsOnce, StepsFaithful, PauseWhole, ToolCallsOnce,
       HistoryFaithful, PausedHistoryComplete

OthersSame(q) ==
  \A p \in Requests \ {q} : pc'[p] = pc[p] /\ on'[p] = on[p] /\ work'[p] = work[p]

\* The calls and stored steps of the runs other requests execute are kept.
OtherRunsSame(q) ==
  \A p \in Requests \ {q} :
    pc[p] \in Driving => /\ stepRows'[on[p]] = stepRows[on[p]]
                         /\ calls'[on[p]] = calls[on[p]]

\* The frame rule described above.
LEMMA HistoryStep ==
  ASSUME TypeOK, HistoryInv, NEW q \in Requests, OthersSame(q), OtherRunsSame(q),
         \A r \in Runs : RunHistory(r)', LoopFollows(q)'
  PROVE  HistoryInv'
<1>1. ASSUME NEW p \in Requests PROVE LoopFollows(p)'
  <2>1. CASE p = q
    BY <2>1
  <2>2. CASE p # q
    <3>1. LoopFollows(p)
      BY DEF HistoryInv
    <3>2. pc'[p] = pc[p] /\ on'[p] = on[p] /\ work'[p] = work[p]
      BY <2>2 DEF OthersSame
    <3>3. CASE pc[p] \in Driving
      <4>1. stepRows'[on[p]] = stepRows[on[p]] /\ calls'[on[p]] = calls[on[p]]
        BY <2>2, <3>3 DEF OtherRunsSame
      <4> QED BY <3>1, <3>2, <4>1 DEF LoopFollows
    <3>4. CASE pc[p] \notin Driving
      BY <3>2, <3>4 DEF LoopFollows, Driving
    <3> QED BY <3>3, <3>4
  <2> QED BY <2>1, <2>2
<1> QED BY <1>1 DEF HistoryInv, RunHistory, CallsOnce, StepsFaithful, PauseWhole,
                    ToolCallsOnce, HistoryFaithful, PausedHistoryComplete

\* A run whose rows a step leaves alone keeps its history.
LEMMA RunKept ==
  ASSUME NEW r \in Runs, RunHistory(r),
         status'[r] = status[r], approvals'[r] = approvals[r], message'[r] = message[r],
         stepRows'[r] = stepRows[r], calls'[r] = calls[r]
  PROVE  RunHistory(r)'
BY DEF RunHistory, CallsOnce, StepsFaithful, PauseWhole

\* A run that does not wait owes nothing to the one who would resume it.
LEMMA NotWaitingHistory ==
  ASSUME NEW r \in Runs, RunHistory(r), status'[r] \notin {"none", "AWAITING_APPROVAL"},
         stepRows'[r] = stepRows[r], calls'[r] = calls[r]
  PROVE  RunHistory(r)'
BY DEF RunHistory, CallsOnce, StepsFaithful, PauseWhole

\* A step of q that writes no row of a run and makes no call.
LEMMA QuietHistory ==
  ASSUME TypeOK, HistoryInv, NEW q \in Requests, OthersSame(q),
         UNCHANGED <<status, message, stepRows, approvals, calls>>,
         LoopFollows(q)'
  PROVE  HistoryInv'
<1>1. \A r \in Runs : RunHistory(r)
  BY HistoryParts
<1>2. \A r \in Runs : RunHistory(r)'
  BY <1>1, RunKept
<1>3. OtherRunsSame(q)
  BY DEF OtherRunsSame
<1> QED BY <1>2, <1>3, HistoryStep

\* A step of q that moves run r to a status other than waiting, stores no
\* step and makes no call.
LEMMA MoveHistory ==
  ASSUME TypeOK, HistoryInv, NEW q \in Requests, NEW r \in Runs, OthersSame(q),
         UNCHANGED <<message, stepRows, calls>>,
         status'[r] \notin {"none", "AWAITING_APPROVAL"},
         \A x \in Runs \ {r} : status'[x] = status[x] /\ approvals'[x] = approvals[x],
         LoopFollows(q)'
  PROVE  HistoryInv'
<1>1. \A x \in Runs : RunHistory(x)
  BY HistoryParts
<1>2. \A x \in Runs : RunHistory(x)'
  BY <1>1, RunKept, NotWaitingHistory
<1>3. OtherRunsSame(q)
  BY DEF OtherRunsSame
<1> QED BY <1>2, <1>3, HistoryStep

\* A request outside the loop owes nothing.
LEMMA OutsideLoop ==
  ASSUME NEW q \in Requests, pc'[q] \in {"idle", "create", "wait", "held", "mark"}
  PROVE  LoopFollows(q)'
BY DEF LoopFollows

\* The end of a request changes nothing of the others.
LEMMA EndedOthers ==
  ASSUME TypeOK, NEW q \in Requests, EndRequest(q)
  PROVE  OthersSame(q) /\ LoopFollows(q)'
<1>1. OthersSame(q) /\ pc'[q] = "idle"
  BY DEF EndRequest, OthersSame, TypeOK
<1> QED BY <1>1, OutsideLoop

\* The steps of a request before its loop: a new run has no history.
LEMMA StartHistory ==
  ASSUME TypeOK, ControlInv, HistoryInv, NEW q \in Requests
  PROVE  /\ \A m \in Modes : ReceiveMessage(q, m) => HistoryInv'
         /\ RefuseBeforeRow(q) => HistoryInv'
         /\ \A r \in Runs, allowed \in BOOLEAN : CreateRun(q, r, allowed) => HistoryInv'
         /\ Begin(q) => HistoryInv'
<1>0. DriverOK(q) /\ LoopFollows(q)
  BY DEF ControlInv, HistoryInv
<1>1. ASSUME NEW m \in Modes, ReceiveMessage(q, m) PROVE HistoryInv'
  <2>1. /\ OthersSame(q) /\ pc'[q] = "create"
        /\ UNCHANGED <<status, message, stepRows, approvals, calls>>
    BY <1>1 DEF ReceiveMessage, OthersSame, TypeOK
  <2> QED BY <2>1, OutsideLoop, QuietHistory
<1>2. ASSUME RefuseBeforeRow(q) PROVE HistoryInv'
  BY <1>2, EndedOthers, QuietHistory DEF RefuseBeforeRow
<1>3. ASSUME NEW r \in Runs, NEW allowed \in BOOLEAN, CreateRun(q, r, allowed)
      PROVE  HistoryInv'
  <2>1. /\ OthersSame(q) /\ UNCHANGED <<message, stepRows, approvals, calls>>
        /\ status[r] = "none" /\ status'[r] \notin {"none", "AWAITING_APPROVAL"}
        /\ \A x \in Runs \ {r} : status'[x] = status[x]
        /\ pc'[q] = "begin" /\ on'[q] = r
    BY <1>3 DEF CreateRun, Goto, OthersSame, TypeOK
  <2>2. stepRows[r] = <<>> /\ calls[r] = <<>>
    BY <2>1 DEF HistoryInv
  <2>3. LoopFollows(q)'
    BY <2>1, <2>2 DEF LoopFollows
  <2> QED BY <2>1, <2>3, MoveHistory
<1>4. ASSUME Begin(q) PROVE HistoryInv'
  <2>1. /\ OthersSame(q) /\ UNCHANGED <<status, message, stepRows, approvals, calls, on>>
        /\ pc[q] = "begin" /\ pc'[q] \in {"loop", "finish"}
    BY <1>4 DEF Begin, Goto, OthersSame, TypeOK
  <2>2. work[q] = NoWork /\ stepRows[on[q]] = <<>> /\ calls[on[q]] = <<>>
    BY <1>0, <2>1 DEF DriverOK, LoopFollows
  <2>3. work'[q].recon = <<>> /\ work'[q].done = <<>>
    BY <1>4, <2>2 DEF Begin, NoWork, TypeOK
  <2>4. LoopFollows(q)'
    BY <2>1, <2>2, <2>3 DEF LoopFollows
  <2> QED BY <2>1, <2>4, QuietHistory
<1> QED BY <1>1, <1>2, <1>3, <1>4

\* A replayed step: it repeats the stored step, and no call is made.
LEMMA ReplayHistory ==
  ASSUME TypeOK, ControlInv, HistoryInv, NEW q \in Requests, NEW a \in Actions, ReplayStep(q, a)
  PROVE  HistoryInv'
<1>0. PICK r \in Runs : r = on[q] /\ pc[q] = "loop" /\ LoopFollows(q)
  BY DEF ReplayStep, Looping, TypeOK, HistoryInv
<1>1. PICK d \in Seq(StepRow), c \in Seq(StepRow), v \in Nat :
        /\ d = work[q].done /\ c = work[q].recon /\ v = Version(work[q])
  BY LenProperties DEF TypeOK, Work, Version
<1>2. PICK e : /\ e = [hash |-> a, pv |-> v, ok |-> TRUE, chunks |-> c[Len(d) + 1].chunks]
               /\ work' = [work EXCEPT ![q].done = Append(d, e)]
  BY <1>1 DEF ReplayStep, TypeOK, Work
<1>3. Len(d) \in Nat /\ Len(c) \in Nat /\ DOMAIN d = 1..Len(d) /\ DOMAIN c = 1..Len(c)
  BY <1>1, LenProperties
<1>4. /\ OthersSame(q) /\ UNCHANGED <<status, message, stepRows, approvals, calls, on, pc>>
      /\ Len(d) + 1 <= Len(c) /\ c[Len(d) + 1].hash = a
  BY <1>1 DEF ReplayStep, OthersSame, TypeOK
<1>5. work'[q].recon = c /\ work'[q].done = Append(d, e)
  BY <1>1, <1>2 DEF TypeOK, Work
<1>6. /\ c = stepRows[r] /\ Len(calls[r]) = Len(c)
      /\ \A i \in 1..Len(d) : d[i].hash = calls[r][i].hash
      /\ \A i \in 1..Len(c) : c[i].hash \notin Calculators
      /\ \A i \in 1..Len(d) : d[i].ok /\ d[i].hash \notin Calculators
  BY <1>0, <1>1, <1>3, <1>4 DEF LoopFollows
<1>7. c[Len(d) + 1].hash = calls[r][Len(d) + 1].hash /\ Len(d) + 1 \in 1..Len(c)
  BY <1>3, <1>4, <1>6 DEF HistoryInv, HistoryFaithful
<1>8. /\ Len(Append(d, e)) = Len(d) + 1 /\ DOMAIN Append(d, e) = 1..(Len(d) + 1)
      /\ Append(d, e)[Len(d) + 1] = e
      /\ \A i \in 1..Len(d) : Append(d, e)[i] = d[i]
  BY <1>1, <1>3
<1>9. /\ \A i \in 1..(Len(d) + 1) : Append(d, e)[i].hash = calls[r][i].hash
      /\ \A i \in 1..(Len(d) + 1) : Append(d, e)[i].ok /\ Append(d, e)[i].hash \notin Calculators
  <2> SUFFICES ASSUME NEW i \in 1..(Len(d) + 1)
               PROVE  /\ Append(d, e)[i].hash = calls[r][i].hash
                      /\ Append(d, e)[i].ok /\ Append(d, e)[i].hash \notin Calculators
    OBVIOUS
  <2>1. CASE i = Len(d) + 1
    BY <1>2, <1>4, <1>6, <1>7, <1>8, <2>1
  <2>2. CASE i # Len(d) + 1
    BY <1>3, <1>6, <1>8, <2>2
  <2> QED BY <2>1, <2>2
<1>10. LoopFollows(q)'
  BY <1>0, <1>3, <1>4, <1>5, <1>6, <1>8, <1>9 DEF LoopFollows
<1> QED BY <1>4, <1>10, QuietHistory

\* A sequence one element longer.
LEMMA AppendFacts ==
  ASSUME NEW S, NEW s \in Seq(S), NEW e \in S
  PROVE  /\ Len(s) \in Nat /\ DOMAIN s = 1..Len(s)
         /\ Append(s, e) \in Seq(S)
         /\ Len(Append(s, e)) = Len(s) + 1 /\ DOMAIN Append(s, e) = 1..(Len(s) + 1)
         /\ Append(s, e)[Len(s) + 1] = e
         /\ \A i \in 1..Len(s) : Append(s, e)[i] = s[i]
BY LenProperties, AppendProperties

\* A tool call: the loop has replayed everything, so what it has done is what
\* was called, and the action it excludes as executed was never called.
LEMMA ExecuteHistory ==
  ASSUME TypeOK, ControlInv, HistoryInv, NEW q \in Requests,
         NEW a \in Actions, NEW ok \in BOOLEAN, NEW found \in SUBSET Chunks,
         ExecuteStep(q, a, ok, found)
  PROVE  HistoryInv'
<1>0. PICK r \in Runs : r = on[q] /\ pc[q] = "loop" /\ LoopFollows(q) /\ RunHistory(r)
  BY HistoryParts DEF ExecuteStep, Looping, TypeOK, HistoryInv
<1>1. PICK d \in Seq(StepRow), c \in Seq(StepRow), v \in Nat, k \in Seq(Call) :
        /\ d = work[q].done /\ c = work[q].recon /\ v = Version(work[q]) /\ k = calls[r]
  BY LenProperties DEF TypeOK, Work, Version
<1>2. PICK result \in ResultsOf(a, ok) :
        /\ work' = [work EXCEPT ![q] = AfterCall(work[q], a, ok, found, result)]
        /\ Goto(q, IF result = "none" THEN "loop" ELSE "finish")
  BY DEF ExecuteStep
<1>3. PICK e \in StepRow : e = [hash |-> a, pv |-> v, ok |-> ok, chunks |-> found]
  BY DEF StepRow
<1>4. PICK f \in Call : f = [hash |-> a, pv |-> v]
  BY DEF Call
<1>5. /\ work'[q].recon = c /\ work'[q].done = Append(d, e)
      /\ pc'[q] = IF result = "none" THEN "loop" ELSE "finish"
      /\ OthersSame(q)
  BY <1>1, <1>2, <1>3 DEF AfterCall, Goto, OthersSame, ExecuteStep, TypeOK
<1>6. result = "none" => ok /\ a \notin Calculators
  BY <1>2, ConstantsAssumption DEF ResultsOf
<1>7. /\ calls' = [calls EXCEPT ![r] = Append(k, f)]
      /\ UNCHANGED <<status, stepRows, approvals, on>>
      /\ \A x \in Runs \ {r} : message'[x] = message[x]
      /\ Len(d) >= Len(c) /\ Len(d) < MaxSteps /\ \A i \in DOMAIN d : d[i].hash # a
  BY <1>0, <1>1, <1>4 DEF ExecuteStep, Executable, Executed, TypeOK
<1>8. /\ Len(d) \in Nat /\ DOMAIN d = 1..Len(d) /\ Len(c) \in Nat /\ Len(k) \in Nat
      /\ MaxSteps \in Nat
      /\ DOMAIN k = 1..Len(k)
      /\ Len(Append(d, e)) = Len(d) + 1 /\ DOMAIN Append(d, e) = 1..(Len(d) + 1)
      /\ Append(d, e)[Len(d) + 1] = e
      /\ \A i \in 1..Len(d) : Append(d, e)[i] = d[i]
      /\ Len(Append(k, f)) = Len(k) + 1 /\ DOMAIN Append(k, f) = 1..(Len(k) + 1)
      /\ Append(k, f)[Len(k) + 1] = f
      /\ \A i \in 1..Len(k) : Append(k, f)[i] = k[i]
  BY AppendFacts, LenProperties, ConstantsAssumption
<1>9. /\ c = stepRows[r] /\ Len(k) = Len(d)
      /\ \A i \in 1..Len(d) : /\ d[i].hash = k[i].hash
                              /\ i > Len(c) => d[i].pv = k[i].pv
      /\ \A i \in DOMAIN c : c[i].hash \notin Calculators
      /\ \A i \in 1..Len(d) : d[i].ok /\ d[i].hash \notin Calculators
  <2>1. /\ c = stepRows[r]
        /\ Len(k) = IF Len(d) < Len(c) THEN Len(c) ELSE Len(d)
        /\ \A i \in DOMAIN d : /\ d[i].hash = k[i].hash
                               /\ i > Len(c) => d[i].pv = k[i].pv
        /\ \A i \in DOMAIN c : c[i].hash \notin Calculators
        /\ \A i \in DOMAIN d : d[i].ok /\ d[i].hash \notin Calculators
    BY <1>0, <1>1 DEF LoopFollows
  <2>2. Len(d) >= Len(c) /\ Len(d) \in Nat /\ Len(c) \in Nat /\ DOMAIN d = 1..Len(d)
    BY <1>7, <1>8
  <2>3. Len(k) = Len(d)
    BY <2>1, <2>2
  <2> QED BY <2>1, <2>2, <2>3
<1>10. status[r] = "RUNNING"
  BY <1>0 DEF ControlInv, DriverOK
<1>11. CallsOnce(r)'
  <2>1. calls'[r] = Append(k, f)
    BY <1>7 DEF TypeOK
  <2>2. \A i \in 1..Len(k) : k[i].hash # a
    BY <1>7, <1>8, <1>9
  <2>3. \A i, j \in 1..Len(k) : k[i].hash = k[j].hash => i = j
    BY <1>0, <1>1, <1>8 DEF RunHistory, CallsOnce
  <2>4. f.hash = a
    BY <1>4
  <2>5. \A i, j \in 1..(Len(k) + 1) : Append(k, f)[i].hash = Append(k, f)[j].hash => i = j
    <3> SUFFICES ASSUME NEW i \in 1..(Len(k) + 1), NEW j \in 1..(Len(k) + 1),
                        Append(k, f)[i].hash = Append(k, f)[j].hash
                 PROVE  i = j
      OBVIOUS
    <3>1. CASE i \in 1..Len(k) /\ j \in 1..Len(k)
      BY <1>8, <2>3, <3>1
    <3>2. CASE i = Len(k) + 1
      BY <1>8, <2>2, <2>4, <3>2
    <3>3. CASE j = Len(k) + 1
      BY <1>8, <2>2, <2>4, <3>3
    <3> QED BY <1>8, <3>1, <3>2, <3>3
  <2>6. Len(Append(k, f)) <= MaxSteps
    BY <1>7, <1>8, <1>9
  <2> QED BY <1>8, <2>1, <2>5, <2>6 DEF CallsOnce
<1>12. StepsFaithful(r)'
  <2>1. Len(c) <= Len(k) /\ \A i \in DOMAIN c : c[i].hash = k[i].hash /\ c[i].pv = k[i].pv
    BY <1>0, <1>1, <1>9 DEF RunHistory, StepsFaithful
  <2>2. DOMAIN c = 1..Len(c) /\ calls'[r] = Append(k, f) /\ stepRows'[r] = c /\ status'[r] = "RUNNING"
    BY <1>7, <1>9, <1>10, LenProperties DEF TypeOK
  <2> QED BY <1>8, <2>1, <2>2 DEF StepsFaithful
<1>13. RunHistory(r)'
  BY <1>7, <1>10, <1>11, <1>12 DEF RunHistory, PauseWhole
<1>14. \A x \in Runs : RunHistory(x)'
  <2> SUFFICES ASSUME NEW x \in Runs, x # r PROVE RunHistory(x)'
    BY <1>13
  <2>1. RunHistory(x) /\ calls'[x] = calls[x]
    BY <1>7, HistoryParts DEF TypeOK
  <2> QED BY <1>7, <2>1, RunKept
<1>15. OtherRunsSame(q)
  <2> SUFFICES ASSUME NEW p \in Requests \ {q}, pc[p] \in Driving
               PROVE  stepRows'[on[p]] = stepRows[on[p]] /\ calls'[on[p]] = calls[on[p]]
    BY DEF OtherRunsSame
  <2>1. on[p] \in Runs \ {r}
    BY <1>0 DEF ControlInv, OneDriver, Driving, TypeOK
  <2> QED BY <1>7, <2>1 DEF TypeOK
<1>16. /\ \A i \in 1..(Len(d) + 1) : /\ Append(d, e)[i].hash = Append(k, f)[i].hash
                                     /\ i > Len(c) => Append(d, e)[i].pv = Append(k, f)[i].pv
       /\ result = "none" => \A i \in 1..(Len(d) + 1) :
                               Append(d, e)[i].ok /\ Append(d, e)[i].hash \notin Calculators
  <2> SUFFICES ASSUME NEW i \in 1..(Len(d) + 1)
               PROVE  /\ Append(d, e)[i].hash = Append(k, f)[i].hash
                      /\ i > Len(c) => Append(d, e)[i].pv = Append(k, f)[i].pv
                      /\ result = "none" =>
                           Append(d, e)[i].ok /\ Append(d, e)[i].hash \notin Calculators
    OBVIOUS
  <2>1. CASE i = Len(d) + 1
    BY <1>3, <1>4, <1>6, <1>8, <1>9, <2>1
  <2>2. CASE i \in 1..Len(d)
    BY <1>8, <1>9, <2>2
  <2>3. Len(d) \in Nat
    BY <1>8
  <2>4. i = Len(d) + 1 \/ i \in 1..Len(d)
    BY <2>3
  <2> QED BY <2>1, <2>2, <2>4
<1>17. LoopFollows(q)'
  <2>1. on'[q] = r /\ calls'[r] = Append(k, f) /\ stepRows'[r] = c
    BY <1>0, <1>7, <1>9 DEF TypeOK
  <2> QED BY <1>5, <1>7, <1>8, <1>9, <1>16, <2>1 DEF LoopFollows
<1> QED BY <1>5, <1>14, <1>15, <1>17, HistoryStep

\* The other steps of the loop.
LEMMA LoopHistory ==
  ASSUME TypeOK, ControlInv, HistoryInv, NEW q \in Requests, LoopSteps(q)
  PROVE  HistoryInv'
<1>0. LoopFollows(q)
  BY DEF HistoryInv
<1>1. ASSUME NEW n \in Shapes, DecideInitial(q, n) \/ Replan(q, n) PROVE HistoryInv'
  <2>1. /\ OthersSame(q) /\ UNCHANGED <<status, message, stepRows, approvals, calls, on, pc>>
        /\ pc[q] = "loop"
        /\ work'[q].recon = work[q].recon /\ work'[q].done = work[q].done
    BY <1>1 DEF DecideInitial, Replan, Looping, OthersSame, TypeOK, Work
  <2>2. LoopFollows(q)'
    BY <1>0, <2>1 DEF LoopFollows
  <2> QED BY <2>1, <2>2, QuietHistory
<1>2. ASSUME NEW a \in Actions, AskApproval(q, a) PROVE HistoryInv'
  <2>1. /\ OthersSame(q) /\ UNCHANGED <<status, message, stepRows, approvals, calls, on>>
        /\ pc[q] = "loop" /\ pc'[q] = "pause" /\ Len(work[q].done) >= Len(work[q].recon)
        /\ work'[q].recon = work[q].recon /\ work'[q].done = work[q].done
    BY <1>2 DEF AskApproval, Looping, Goto, OthersSame, TypeOK, Work
  <2>2. Len(work[q].done) \in Nat /\ Len(work[q].recon) \in Nat
    BY LenProperties DEF TypeOK, Work
  <2>3. LoopFollows(q)'
    BY <1>0, <2>1, <2>2 DEF LoopFollows
  <2> QED BY <2>1, <2>3, QuietHistory
<1>3. ASSUME NEW a \in Actions, ResumeMismatch(q, a) PROVE HistoryInv'
  <2>1. /\ OthersSame(q) /\ UNCHANGED <<status, message, stepRows, approvals, calls>>
        /\ pc'[q] = "mark"
    BY <1>3 DEF ResumeMismatch, Looping, Goto, OthersSame, TypeOK
  <2> QED BY <2>1, OutsideLoop, QuietHistory
<1>4. ASSUME NEW outcome \in Terminal, LoopReturns(q, outcome) PROVE HistoryInv'
  <2>1. /\ OthersSame(q) /\ UNCHANGED <<status, message, stepRows, approvals, calls, on>>
        /\ pc[q] = "loop" /\ pc'[q] = "finish"
        /\ work'[q].recon = work[q].recon /\ work'[q].done = work[q].done
    BY <1>4 DEF LoopReturns, Looping, Goto, OthersSame, TypeOK, Work
  <2>2. LoopFollows(q)'
    BY <1>0, <2>1 DEF LoopFollows
  <2> QED BY <2>1, <2>2, QuietHistory
<1> QED BY <1>1, <1>2, <1>3, <1>4, ReplayHistory, ExecuteHistory DEF LoopSteps

\* What the stored history is after persist_outcome_history: the steps of the
\* loop, which are calls of the run, under the plan version they were made in.
LEMMA WrittenSteps ==
  ASSUME TypeOK, ControlInv, HistoryInv, NEW q \in Requests, NEW r \in Runs, r = on[q],
         pc[q] \in {"pause", "finish"}, HistoryMatches(q), WriteHistory(q), UNCHANGED calls
  PROVE  /\ stepRows'[r] = work[q].done /\ message'[r] = TRUE
         /\ Len(stepRows'[r]) <= Len(calls'[r])
         /\ \A i \in DOMAIN stepRows'[r] : /\ stepRows'[r][i].hash = calls'[r][i].hash
                                           /\ stepRows'[r][i].pv = calls'[r][i].pv
         /\ pc[q] = "pause" =>
              /\ Len(stepRows'[r]) = Len(calls'[r])
              /\ \A i \in DOMAIN stepRows'[r] :
                   stepRows'[r][i].ok /\ stepRows'[r][i].hash \notin Calculators
         /\ CallsOnce(r)'
         /\ \A x \in Runs \ {r} : stepRows'[x] = stepRows[x] /\ message'[x] = message[x]
<1>1. PICK d \in Seq(StepRow), c \in Seq(StepRow), k \in Seq(Call) :
        d = work[q].done /\ c = stepRows[r] /\ k = calls[r]
  BY DEF TypeOK, Work
<1>2. /\ Len(d) \in Nat /\ DOMAIN d = 1..Len(d) /\ Len(c) \in Nat /\ DOMAIN c = 1..Len(c)
      /\ Len(k) \in Nat
  BY LenProperties
<1>3. /\ stepRows'[r] = d /\ message'[r] = TRUE
      /\ \A x \in Runs \ {r} : stepRows'[x] = stepRows[x] /\ message'[x] = message[x]
  BY <1>1 DEF WriteHistory, TypeOK
<1>4. Len(c) <= Len(d) /\ \A i \in DOMAIN c : c[i] = d[i]
  BY <1>1 DEF HistoryMatches
<1>5. LoopFollows(q) /\ RunHistory(r)
  BY HistoryParts
<1>6. /\ Len(k) = IF Len(d) < Len(c) THEN Len(c) ELSE Len(d)
      /\ \A i \in DOMAIN d : /\ d[i].hash = k[i].hash
                             /\ i > Len(c) => d[i].pv = k[i].pv
      /\ pc[q] = "pause" => \A i \in DOMAIN d : d[i].ok /\ d[i].hash \notin Calculators
  BY <1>1, <1>5 DEF LoopFollows
<1>7. Len(k) = Len(d)
  <2>1. Len(k) = IF Len(d) < Len(c) THEN Len(c) ELSE Len(d)
    BY <1>6
  <2>2. Len(d) \in Nat /\ Len(c) \in Nat /\ Len(c) <= Len(d)
    BY <1>2, <1>4
  <2> QED BY <2>1, <2>2
<1>8. \A i \in DOMAIN c : c[i].pv = k[i].pv
  BY <1>1, <1>5 DEF RunHistory, StepsFaithful
<1>9. \A i \in DOMAIN d : d[i].pv = k[i].pv
  <2> SUFFICES ASSUME NEW i \in DOMAIN d PROVE d[i].pv = k[i].pv
    OBVIOUS
  <2>1. CASE i > Len(c)
    BY <1>6, <2>1
  <2>2. CASE ~(i > Len(c))
    <3>1. i \in DOMAIN c
      BY <1>2, <2>2
    <3> QED BY <1>4, <1>8, <3>1
  <2> QED BY <2>1, <2>2
<1>10. CallsOnce(r)'
  BY <1>5 DEF RunHistory, CallsOnce
<1> QED BY <1>1, <1>2, <1>3, <1>6, <1>7, <1>9, <1>10

\* Writing one's run does not disturb the loops of others.
LEMMA WriteKeepsOthers ==
  ASSUME TypeOK, ControlInv, NEW q \in Requests, NEW r \in Runs, r = on[q], pc[q] \in Driving,
         \A x \in Runs \ {r} : stepRows'[x] = stepRows[x], UNCHANGED calls
  PROVE  OtherRunsSame(q)
<1> SUFFICES ASSUME NEW p \in Requests \ {q}, pc[p] \in Driving
             PROVE  stepRows'[on[p]] = stepRows[on[p]] /\ calls'[on[p]] = calls[on[p]]
  BY DEF OtherRunsSame
<1>1. on[p] \in Runs \ {r}
  BY DEF ControlInv, OneDriver, Driving, TypeOK
<1> QED BY <1>1

\* Pausing, finishing, failing and cancelling.
LEMMA EndingHistory ==
  ASSUME TypeOK, ControlInv, HistoryInv, NEW q \in Requests
  PROVE  /\ Pause(q) \/ PauseFails(q) => HistoryInv'
         /\ Finish(q) \/ FinishFails(q) \/ CommitThenCancelled(q) => HistoryInv'
         /\ \A target \in {"FAILED", "CANCELLED"} : Abort(q, target) => HistoryInv'
         /\ MarkTerminal(q) => HistoryInv'
<1>0. DriverOK(q)
  BY DEF ControlInv
<1>1. ASSUME Pause(q) PROVE HistoryInv'
  <2>1. PICK r \in Runs : r = on[q]
    BY <1>1 DEF Pause, TypeOK
  <2>2. /\ pc[q] = "pause" /\ HistoryMatches(q) /\ WriteHistory(q) /\ EndRequest(q)
        /\ approvals' = [approvals EXCEPT ![r] = Append(@, PendingApproval(q))]
        /\ status' = [status EXCEPT ![r] = "AWAITING_APPROVAL"]
        /\ UNCHANGED calls
    BY <1>1, <2>1 DEF Pause
  <2>3. /\ stepRows'[r] = work[q].done /\ message'[r] = TRUE
        /\ Len(stepRows'[r]) = Len(calls'[r])
        /\ Len(stepRows'[r]) <= Len(calls'[r])
        /\ \A i \in DOMAIN stepRows'[r] : /\ stepRows'[r][i].hash = calls'[r][i].hash
                                          /\ stepRows'[r][i].pv = calls'[r][i].pv
        /\ \A i \in DOMAIN stepRows'[r] :
             stepRows'[r][i].ok /\ stepRows'[r][i].hash \notin Calculators
        /\ CallsOnce(r)'
        /\ \A x \in Runs \ {r} : stepRows'[x] = stepRows[x] /\ message'[x] = message[x]
    BY <2>1, <2>2, WrittenSteps
  <2>4. approvals'[r][Len(approvals'[r])].step = Len(work[q].done) + 1
    <3>1. /\ approvals[r] \in Seq(ApprovalRow) /\ Len(approvals[r]) \in Nat
          /\ approvals'[r] = Append(approvals[r], PendingApproval(q))
      BY <2>2, LenProperties DEF TypeOK
    <3>2. approvals'[r][Len(approvals'[r])] = PendingApproval(q)
      BY <3>1
    <3> QED BY <3>2 DEF PendingApproval
  <2>5. RunHistory(r)'
    <3>1. status'[r] = "AWAITING_APPROVAL"
      BY <2>2 DEF TypeOK
    <3> QED BY <2>3, <2>4, <3>1 DEF RunHistory, StepsFaithful, PauseWhole
  <2>6. ASSUME NEW x \in Runs \ {r} PROVE RunHistory(x)'
    <3>1. status'[x] = status[x] /\ approvals'[x] = approvals[x] /\ RunHistory(x)
      BY <2>2, HistoryParts DEF TypeOK
    <3> QED BY <2>2, <2>3, <3>1, RunKept
  <2>7. OtherRunsSame(q)
    BY <2>1, <2>2, <2>3, WriteKeepsOthers DEF Driving
  <2> QED BY <2>2, <2>5, <2>6, <2>7, EndedOthers, HistoryStep
<1>2. ASSUME PauseFails(q) PROVE HistoryInv'
  BY <1>2, EndedOthers, QuietHistory DEF PauseFails
<1>3. ASSUME Finish(q) \/ CommitThenCancelled(q) PROVE HistoryInv'
  <2>1. PICK r \in Runs : r = on[q]
    BY <1>3 DEF Finish, CommitThenCancelled, TypeOK
  <2>2. /\ pc[q] = "finish" /\ HistoryMatches(q) /\ WriteHistory(q)
        /\ status' = [status EXCEPT ![r] = work[q].result]
        /\ UNCHANGED <<approvals, calls>>
    BY <1>3, <2>1 DEF Finish, CommitThenCancelled
  <2>3. status'[r] \notin {"none", "AWAITING_APPROVAL"}
    BY <1>0, <2>2 DEF DriverOK, Terminal, TypeOK
  <2>4. /\ Len(stepRows'[r]) <= Len(calls'[r])
        /\ \A i \in DOMAIN stepRows'[r] : /\ stepRows'[r][i].hash = calls'[r][i].hash
                                          /\ stepRows'[r][i].pv = calls'[r][i].pv
        /\ CallsOnce(r)'
        /\ \A x \in Runs \ {r} : stepRows'[x] = stepRows[x] /\ message'[x] = message[x]
    BY <2>1, <2>2, WrittenSteps
  <2>5. RunHistory(r)'
    BY <2>3, <2>4 DEF RunHistory, StepsFaithful, PauseWhole
  <2>6. ASSUME NEW x \in Runs \ {r} PROVE RunHistory(x)'
    <3>1. status'[x] = status[x] /\ RunHistory(x)
      BY <2>2, HistoryParts DEF TypeOK
    <3> QED BY <2>2, <2>4, <3>1, RunKept
  <2>7. OtherRunsSame(q)
    BY <2>1, <2>2, <2>4, WriteKeepsOthers DEF Driving
  <2>8. OthersSame(q) /\ pc'[q] \in {"idle", "mark"}
    BY <1>3 DEF Finish, CommitThenCancelled, EndRequest, Goto, OthersSame, TypeOK
  <2> QED BY <2>5, <2>6, <2>7, <2>8, OutsideLoop, HistoryStep
<1>4. ASSUME FinishFails(q) \/ \E target \in {"FAILED", "CANCELLED"} : Abort(q, target)
      PROVE  HistoryInv'
  <2>1. /\ OthersSame(q) /\ UNCHANGED <<status, message, stepRows, approvals, calls>>
        /\ pc'[q] = "mark"
    BY <1>4 DEF FinishFails, Abort, Goto, OthersSame, TypeOK
  <2> QED BY <2>1, OutsideLoop, QuietHistory
<1>5. ASSUME MarkTerminal(q) PROVE HistoryInv'
  <2>1. PICK r \in Runs : r = on[q] /\ pc[q] = "mark"
    BY <1>5 DEF MarkTerminal, TypeOK
  <2>2. EndRequest(q) /\ UNCHANGED <<message, stepRows, approvals, calls>>
    BY <1>5 DEF MarkTerminal
  <2>3. /\ status'[r] \notin {"none", "AWAITING_APPROVAL"}
        /\ \A x \in Runs \ {r} : status'[x] = status[x]
    BY <1>0, <1>5, <2>1 DEF MarkTerminal, DriverOK, TypeOK
  <2> QED BY <2>2, <2>3, EndedOthers, MoveHistory
<1> QED BY <1>1, <1>2, <1>3, <1>4, <1>5

\* Approving: the resumed loop is given the stored steps, which are all the
\* calls of the run, none of them a calculation.
LEMMA ApproveHistory ==
  ASSUME TypeOK, ControlInv, HistoryInv, NEW q \in Requests, ApproveOnce(q)
  PROVE  HistoryInv'
<1>1. /\ pc[q] = "held" /\ Available(q) /\ job[q].kind = "approve"
      /\ on[q] \in Runs /\ job[q].item \in Nat
  BY DEF ApproveOnce, Holds, TypeOK, Job
<1>2. PICK r \in Runs, i \in Nat : r = on[q] /\ i = job[q].item
  BY <1>1
<1>3. status[r] = "AWAITING_APPROVAL" /\ RunHistory(r)
  BY <1>1, <1>2, HolderExclusive, HistoryParts
<1>4. /\ OthersSame(q) /\ UNCHANGED <<message, stepRows, calls, on>>
      /\ status' = [status EXCEPT ![r] = "RUNNING"]
      /\ approvals' = [approvals EXCEPT ![r][i].status = "CONSUMED"]
      /\ pc'[q] = "setup" /\ work'[q] = ResumeWork(r, i)
  BY <1>2 DEF ApproveOnce, Settle, Goto, OthersSame, TypeOK
<1>5. /\ status'[r] = "RUNNING"
      /\ \A x \in Runs \ {r} : status'[x] = status[x] /\ approvals'[x] = approvals[x]
  BY <1>4 DEF TypeOK
<1>6. work'[q].recon = stepRows[r] /\ work'[q].done = <<>>
  BY <1>4 DEF ResumeWork, NoWork
<1>7. /\ Len(stepRows[r]) = Len(calls[r])
      /\ \A k \in DOMAIN stepRows[r] : stepRows[r][k].hash \notin Calculators
  BY <1>3 DEF RunHistory, StepsFaithful, PauseWhole
<1>8. Len(stepRows[r]) \in Nat
  BY LenProperties DEF TypeOK
<1>9. Len(calls[r]) = IF Len(<<>>) < Len(stepRows[r]) THEN Len(stepRows[r]) ELSE Len(<<>>)
  BY <1>7, <1>8
<1>10. LoopFollows(q)'
  BY <1>2, <1>4, <1>6, <1>7, <1>9 DEF LoopFollows
<1> QED BY <1>4, <1>5, <1>10, MoveHistory

\* Receiving, locking and answering.
LEMMA ResolutionHistory ==
  ASSUME TypeOK, ControlInv, HistoryInv, NEW q \in Requests
  PROVE  /\ \A kind \in Kinds, r \in Runs, i \in Nat :
              ReceiveResolution(q, kind, r, i) => HistoryInv'
         /\ LockOwned(q) \/ Unavailable(q) => HistoryInv'
         /\ ApproveFailsClosed(q) \/ ApproveOnce(q) \/ ResumeSetup(q) => HistoryInv'
         /\ Reject(q) \/ ChangeRequest(q) \/ Stop(q) => HistoryInv'
<1>1. ASSUME NEW kind \in Kinds, NEW r \in Runs, NEW i \in Nat, ReceiveResolution(q, kind, r, i)
      PROVE  HistoryInv'
  <2>1. /\ OthersSame(q) /\ UNCHANGED <<status, message, stepRows, approvals, calls>>
        /\ pc'[q] = "wait"
    BY <1>1 DEF ReceiveResolution, Goto, OthersSame, TypeOK
  <2> QED BY <2>1, OutsideLoop, QuietHistory
<1>2. ASSUME LockOwned(q) PROVE HistoryInv'
  <2>1. /\ OthersSame(q) /\ UNCHANGED <<status, message, stepRows, approvals, calls>>
        /\ pc'[q] = "held"
    BY <1>2 DEF LockOwned, Goto, OthersSame, TypeOK
  <2> QED BY <2>1, OutsideLoop, QuietHistory
<1>3. ASSUME Unavailable(q) PROVE HistoryInv'
  BY <1>3, EndedOthers, QuietHistory DEF Unavailable
<1>4. ASSUME ApproveFailsClosed(q) \/ Reject(q) \/ ChangeRequest(q) PROVE HistoryInv'
  <2>1. PICK r \in Runs, i \in Nat : r = on[q] /\ i = job[q].item
    BY <1>4 DEF ApproveFailsClosed, Reject, ChangeRequest, Holds, TypeOK, Job
  <2>2. PICK verdict \in {"EXPIRED", "CANCELLED", "REJECTED", "SUPERSEDED"},
             target \in {"FAILED", "CANCELLED"} : Settle(r, i, verdict, target)
    BY <1>4, <2>1 DEF ApproveFailsClosed, Reject, ChangeRequest
  <2>3. /\ status'[r] \notin {"none", "AWAITING_APPROVAL"} /\ UNCHANGED <<message, stepRows>>
        /\ \A x \in Runs \ {r} : status'[x] = status[x] /\ approvals'[x] = approvals[x]
    BY <2>2 DEF Settle, TypeOK
  <2>4. /\ OthersSame(q) /\ UNCHANGED calls /\ pc'[q] \in {"idle", "create"}
    BY <1>4 DEF ApproveFailsClosed, Reject, ChangeRequest, EndRequest, Goto, OthersSame, TypeOK
  <2> QED BY <2>3, <2>4, OutsideLoop, MoveHistory
<1>5. ASSUME ResumeSetup(q) PROVE HistoryInv'
  <2>1. /\ OthersSame(q) /\ UNCHANGED <<status, message, stepRows, approvals, calls, on, work>>
        /\ pc[q] = "setup" /\ pc'[q] = "loop"
    BY <1>5 DEF ResumeSetup, Goto, OthersSame, TypeOK
  <2>2. LoopFollows(q)
    BY DEF HistoryInv
  <2>3. LoopFollows(q)'
    BY <2>1, <2>2 DEF LoopFollows
  <2> QED BY <2>1, <2>3, QuietHistory
<1>6. ASSUME Stop(q) PROVE HistoryInv'
  <2>1. PICK r \in Runs : r = on[q]
    BY <1>6 DEF Stop, Holds, TypeOK
  <2>2. /\ EndRequest(q) /\ UNCHANGED <<message, stepRows, calls>>
        /\ status'[r] \notin {"none", "AWAITING_APPROVAL"}
        /\ \A x \in Runs \ {r} : status'[x] = status[x] /\ approvals'[x] = approvals[x]
    BY <1>6, <2>1 DEF Stop, TypeOK
  <2> QED BY <2>2, EndedOthers, MoveHistory
<1> QED BY <1>1, <1>2, <1>3, <1>4, <1>5, <1>6, ApproveHistory

\* Time, administrators and faults.
LEMMA EnvironmentHistory ==
  ASSUME TypeOK, ControlInv, HistoryInv, Environment
  PROVE  HistoryInv'
<1>1. ASSUME UNCHANGED <<status, message, stepRows, approvals, calls, pc, on, work>>
      PROVE  HistoryInv'
  BY <1>1 DEF HistoryInv, LoopFollows, ToolCallsOnce, HistoryFaithful, PausedHistoryComplete
<1>2. ASSUME NEW s \in Scopes, Regrant(s) PROVE HistoryInv'
  BY <1>1, <1>2 DEF Regrant
<1>3. ASSUME NEW c \in Chunks, Deactivate(c) PROVE HistoryInv'
  BY <1>1, <1>3 DEF Deactivate
<1>4. ASSUME NEW q \in Requests, Lose(q) PROVE HistoryInv'
  BY <1>4, EndedOthers, QuietHistory DEF Lose
<1>5. ASSUME NEW r \in Runs, NEW i \in DOMAIN approvals[r], Expire(r, i) PROVE HistoryInv'
  <2>1. UNCHANGED <<status, message, stepRows, calls, pc, on, work>>
    BY <1>5 DEF Expire
  <2>2. /\ \A x \in Runs : Len(approvals'[x]) = Len(approvals[x])
        /\ \A x \in Runs : \A k \in DOMAIN approvals[x] :
             approvals'[x][k].step = approvals[x][k].step
    BY <1>5, ExpireRows
  <2>3. PausedHistoryComplete'
    <3> SUFFICES ASSUME NEW x \in Runs, status[x] = "AWAITING_APPROVAL"
                 PROVE  approvals'[x][Len(approvals'[x])].step
                          = approvals[x][Len(approvals[x])].step
      BY <2>1 DEF HistoryInv, PausedHistoryComplete
    <3>1. PICK k \in DOMAIN approvals[x] : approvals[x][k].status = "PENDING"
      BY DEF ControlInv, PendingIffAwaiting, NoPending
    <3>2. k = Len(approvals[x])
      BY <3>1 DEF ControlInv, PendingIffAwaiting, OnlyNewestPending
    <3> QED BY <2>2, <3>1, <3>2
  <2> QED BY <2>1, <2>3 DEF HistoryInv, LoopFollows, ToolCallsOnce, HistoryFaithful
<1> QED BY <1>2, <1>3, <1>4, <1>5 DEF Environment

\* Every step preserves the history invariant.
LEMMA NextHistory == TypeOK /\ ControlInv /\ HistoryInv /\ [Next]_vars => HistoryInv'
<1> SUFFICES ASSUME TypeOK, ControlInv, HistoryInv, [Next]_vars PROVE HistoryInv'
  OBVIOUS
<1>1. ASSUME NEW q \in Requests, LockSteps(q) PROVE HistoryInv'
  BY <1>1, StartHistory, EndingHistory, ResolutionHistory DEF LockSteps
<1>2. ASSUME NEW q \in Requests, LoopSteps(q) PROVE HistoryInv'
  BY <1>2, LoopHistory
<1>3. ASSUME NEW q \in Requests, OtherSteps(q) PROVE HistoryInv'
  BY <1>3, StartHistory, EndingHistory, ResolutionHistory DEF OtherSteps
<1>4. ASSUME NEW q \in Requests, Receive(q) PROVE HistoryInv'
  <2>1. \A r \in Runs : {0} \cup DOMAIN approvals[r] \subseteq Nat
    BY LenProperties DEF TypeOK
  <2> QED BY <1>4, <2>1, StartHistory, ResolutionHistory DEF Receive
<1>5. CASE Environment
  BY <1>5, EnvironmentHistory
<1>6. CASE UNCHANGED vars
  BY <1>6 DEF vars, HistoryInv, LoopFollows, ToolCallsOnce, HistoryFaithful, PausedHistoryComplete
<1> QED BY <1>1, <1>2, <1>3, <1>4, <1>5, <1>6 DEF Next

\* Initially there is no history.
LEMMA InitHistory == Init => HistoryInv
<1> SUFFICES ASSUME Init PROVE HistoryInv
  OBVIOUS
<1>1. /\ \A r \in Runs : stepRows[r] = <<>> /\ calls[r] = <<>> /\ status[r] = "none"
      /\ \A q \in Requests : pc[q] = "idle"
      /\ MaxSteps \in Nat
  BY ConstantsAssumption DEF Init
<1> QED BY <1>1 DEF HistoryInv, LoopFollows, ToolCallsOnce, HistoryFaithful, PausedHistoryComplete

\* The history invariant holds.
LEMMA HistoryHolds == Spec => [](TypeOK /\ ControlInv /\ HistoryInv)
<1>1. TypeOK /\ ControlInv /\ HistoryInv /\ [Next]_vars => HistoryInv'
  BY NextHistory
<1> QED BY <1>1, InitHistory, ControlHolds, PTL DEF Spec

\* No pause, resume, replay or crash makes a run call a tool twice with the
\* same action or more often than the step budget of agent/loop.py allows.
THEOREM CallsAreOnce == Spec => []ToolCallsOnce
<1>1. HistoryInv => ToolCallsOnce
  BY DEF HistoryInv
<1> QED BY <1>1, HistoryHolds, PTL

\* The rows of agent_steps are the tool calls that happened, in their order and
\* under their plan version; while a run is paused they are all of them.
THEOREM HistoryIsFaithful == Spec => []HistoryFaithful
<1>1. HistoryInv => HistoryFaithful
  BY DEF HistoryInv
<1> QED BY <1>1, HistoryHolds, PTL

-----------------------------------------------------------------------------
(***************************************************************************)
(* Why an approval is refused.                                             *)
(***************************************************************************)
PlanBound(r) ==
  /\ planCount[r] <= Len(planRows[r])
  /\ status[r] = "AWAITING_APPROVAL" => approvals[r][Len(approvals[r])].pv = planCount[r]

\* A run whose plans are left alone and that waits, if at all, with the
\* question it had.
LEMMA PlanKept ==
  ASSUME NEW r \in Runs, PlanBound(r), planCount'[r] = planCount[r], planRows'[r] = planRows[r],
         \/ status'[r] # "AWAITING_APPROVAL"
         \/ status'[r] = status[r] /\ approvals'[r] = approvals[r]
  PROVE  PlanBound(r)'
BY DEF PlanBound

\* A step that leaves plans alone and asks nothing.
LEMMA PlansQuiet ==
  ASSUME PlanInv, UNCHANGED <<planCount, planRows>>,
         \A r \in Runs : \/ status'[r] # "AWAITING_APPROVAL"
                         \/ status'[r] = status[r] /\ approvals'[r] = approvals[r]
  PROVE  PlanInv'
<1>1. \A r \in Runs : PlanBound(r)
  BY DEF PlanInv, PlanBound
<1>2. \A r \in Runs : PlanBound(r)'
  BY <1>1, PlanKept
<1> QED BY <1>2 DEF PlanInv, PlanBound

\* persist_outcome_history counts the versions of the loop it stores, and the
\* rows of the run are at least as many.
LEMMA WrittenPlans ==
  ASSUME TypeOK, PlanInv, NEW q \in Requests, NEW r \in Runs, r = on[q], WriteHistory(q)
  PROVE  /\ planCount'[r] = Version(work[q])
         /\ planCount'[r] <= Len(planRows'[r])
         /\ \A x \in Runs \ {r} : planCount'[x] = planCount[x] /\ planRows'[x] = planRows[x]
<1>1. PICK p \in Seq(Nat), o \in Seq(Nat) : p = work[q].plans /\ o = planRows[r]
  BY DEF TypeOK, Work
<1>2. Len(p) \in Nat /\ Len(o) \in Nat
  BY <1>1, LenProperties
<1>3. planCount' = [planCount EXCEPT ![r] = Len(p)]
  BY <1>1 DEF WriteHistory
<1>4. planRows' = IF Len(o) < Len(p) THEN [planRows EXCEPT ![r] = p] ELSE planRows
  BY <1>1 DEF WriteHistory
<1> QED BY <1>1, <1>2, <1>3, <1>4 DEF Version, TypeOK

\* Pausing asks under the version that is stored with it.
LEMMA PausePlans ==
  ASSUME TypeOK, PlanInv, NEW q \in Requests, Pause(q)
  PROVE  PlanInv'
<1>1. PICK r \in Runs : r = on[q]
  BY DEF Pause, TypeOK
<1>2. /\ WriteHistory(q)
      /\ approvals' = [approvals EXCEPT ![r] = Append(@, PendingApproval(q))]
      /\ status' = [status EXCEPT ![r] = "AWAITING_APPROVAL"]
  BY <1>1 DEF Pause
<1>3. /\ planCount'[r] = Version(work[q])
      /\ planCount'[r] <= Len(planRows'[r])
      /\ \A x \in Runs \ {r} : planCount'[x] = planCount[x] /\ planRows'[x] = planRows[x]
  BY <1>1, <1>2, WrittenPlans
<1>4. approvals'[r][Len(approvals'[r])] = PendingApproval(q)
  <2>1. /\ approvals[r] \in Seq(ApprovalRow) /\ Len(approvals[r]) \in Nat
        /\ approvals'[r] = Append(approvals[r], PendingApproval(q))
    BY <1>2, LenProperties DEF TypeOK
  <2> QED BY <2>1
<1>5. PlanBound(r)'
  BY <1>3, <1>4 DEF PlanBound, PendingApproval
<1>6. ASSUME NEW x \in Runs \ {r} PROVE PlanBound(x)'
  <2>1. PlanBound(x) /\ status'[x] = status[x] /\ approvals'[x] = approvals[x]
    BY <1>2 DEF PlanInv, PlanBound, TypeOK
  <2> QED BY <1>3, <2>1, PlanKept
<1> QED BY <1>5, <1>6 DEF PlanInv, PlanBound

\* Ending a run stores its plans and asks nothing.
LEMMA FinishPlans ==
  ASSUME TypeOK, ControlInv, PlanInv, NEW q \in Requests, Finish(q) \/ CommitThenCancelled(q)
  PROVE  PlanInv'
<1>1. PICK r \in Runs : r = on[q]
  BY DEF Finish, CommitThenCancelled, TypeOK
<1>2. /\ WriteHistory(q) /\ UNCHANGED approvals /\ pc[q] = "finish"
      /\ status' = [status EXCEPT ![r] = work[q].result]
  BY <1>1 DEF Finish, CommitThenCancelled
<1>3. status'[r] # "AWAITING_APPROVAL"
  BY <1>2 DEF ControlInv, DriverOK, Terminal, TypeOK
<1>4. /\ planCount'[r] <= Len(planRows'[r])
      /\ \A x \in Runs \ {r} : planCount'[x] = planCount[x] /\ planRows'[x] = planRows[x]
  BY <1>1, <1>2, WrittenPlans
<1>5. ASSUME NEW x \in Runs \ {r} PROVE PlanBound(x)'
  <2>1. PlanBound(x) /\ status'[x] = status[x] /\ approvals'[x] = approvals[x]
    BY <1>2 DEF PlanInv, PlanBound, TypeOK
  <2> QED BY <1>4, <2>1, PlanKept
<1> QED BY <1>3, <1>4, <1>5 DEF PlanInv, PlanBound

\* An answer settles the run it is about.
LEMMA AnswerPlans ==
  ASSUME TypeOK, PlanInv, NEW q \in Requests,
         \/ ApproveFailsClosed(q) \/ ApproveOnce(q) \/ Reject(q) \/ ChangeRequest(q)
         \/ Stop(q)
  PROVE  PlanInv'
<1>1. PICK r \in Runs : r = on[q]
  BY DEF ApproveFailsClosed, ApproveOnce, Reject, ChangeRequest, Stop, Holds, TypeOK
<1>2. CASE Stop(q)
  <2>1. /\ UNCHANGED <<planCount, planRows>> /\ status' = [status EXCEPT ![r] = "CANCELLED"]
        /\ approvals' = [approvals EXCEPT ![r] = StoppedApprovals(r)]
    BY <1>1, <1>2 DEF Stop
  <2> QED BY <2>1, PlansQuiet DEF TypeOK
<1>3. CASE ~Stop(q)
  <2>1. PICK i \in Nat,
             verdict \in {"EXPIRED", "CANCELLED", "CONSUMED", "REJECTED", "SUPERSEDED"},
             target \in {"FAILED", "RUNNING", "CANCELLED"} : Settle(r, i, verdict, target)
    <3>1. job[q].item \in Nat
      BY DEF TypeOK, Job
    <3> QED BY <1>1, <1>3, <3>1 DEF ApproveFailsClosed, ApproveOnce, Reject, ChangeRequest
  <2>2. /\ UNCHANGED <<planCount, planRows>> /\ status' = [status EXCEPT ![r] = target]
        /\ \A x \in Runs \ {r} : approvals'[x] = approvals[x]
    BY <2>1 DEF Settle, TypeOK
  <2> QED BY <2>2, PlansQuiet DEF TypeOK
<1> QED BY <1>2, <1>3

\* Every step of a request keeps the plan bound.
LEMMA RequestPlans ==
  ASSUME TypeOK, ControlInv, PlanInv, NEW q \in Requests,
         LockSteps(q) \/ LoopSteps(q) \/ OtherSteps(q) \/ Receive(q)
  PROVE  PlanInv'
<1>1. CASE UNCHANGED <<status, approvals, planCount, planRows>>
  BY <1>1, PlansQuiet
<1>2. CASE LockSteps(q)
  <2>1. CASE MarkTerminal(q)
    <3>1. /\ UNCHANGED <<approvals, planCount, planRows>> /\ pc[q] = "mark"
          /\ \A r \in Runs : status'[r] = status[r] \/ status'[r] = work[q].result
      BY <2>1 DEF MarkTerminal, TypeOK
    <3>2. work[q].result # "AWAITING_APPROVAL"
      BY <3>1 DEF ControlInv, DriverOK
    <3> QED BY <3>1, <3>2, PlansQuiet
  <2>2. CASE Begin(q) \/ LockOwned(q) \/ PauseFails(q) \/ FinishFails(q)
    BY <1>1, <2>2 DEF Begin, LockOwned, PauseFails, FinishFails
  <2> QED BY <1>2, <2>1, <2>2, PausePlans, FinishPlans DEF LockSteps
<1>3. CASE LoopSteps(q)
  BY <1>1, <1>3 DEF LoopSteps, DecideInitial, Replan, ReplayStep, AskApproval,
     ResumeMismatch, ExecuteStep, LoopReturns
<1>4. CASE OtherSteps(q)
  <2>1. ASSUME NEW r \in Runs, NEW allowed \in BOOLEAN, CreateRun(q, r, allowed)
        PROVE  PlanInv'
    <3>1. /\ UNCHANGED <<approvals, planCount, planRows>>
          /\ status' = [status EXCEPT ![r] = IF allowed THEN "RUNNING" ELSE "CREATED"]
      BY <2>1 DEF CreateRun
    <3> QED BY <3>1, PlansQuiet DEF TypeOK
  <2>2. CASE \/ RefuseBeforeRow(q) \/ Unavailable(q) \/ ResumeSetup(q)
             \/ \E target \in {"FAILED", "CANCELLED"} : Abort(q, target)
    BY <1>1, <2>2 DEF RefuseBeforeRow, Unavailable, ResumeSetup, Abort
  <2> QED BY <1>4, <2>1, <2>2, AnswerPlans DEF OtherSteps
<1>5. CASE Receive(q)
  BY <1>1, <1>5 DEF Receive, ReceiveMessage, ReceiveResolution
<1> QED BY <1>2, <1>3, <1>4, <1>5

\* Time, administrators and faults keep it; an expired question is the same one.
LEMMA EnvironmentPlans ==
  ASSUME TypeOK, ControlInv, PlanInv, Environment
  PROVE  PlanInv'
<1>1. CASE UNCHANGED <<status, approvals, planCount, planRows>>
  BY <1>1, PlansQuiet
<1>2. ASSUME NEW r \in Runs, NEW i \in DOMAIN approvals[r], Expire(r, i) PROVE PlanInv'
  <2>1. UNCHANGED <<status, planCount, planRows>>
    BY <1>2 DEF Expire
  <2>2. /\ \A x \in Runs : Len(approvals'[x]) = Len(approvals[x])
        /\ \A x \in Runs : \A k \in DOMAIN approvals[x] :
             approvals'[x][k].pv = approvals[x][k].pv
    BY <1>2, ExpireRows
  <2>3. ASSUME NEW x \in Runs PROVE PlanBound(x)'
    <3>1. PlanBound(x)
      BY DEF PlanInv, PlanBound
    <3>2. CASE status[x] = "AWAITING_APPROVAL"
      <4>1. PICK k \in DOMAIN approvals[x] : approvals[x][k].status = "PENDING"
        BY <3>2 DEF ControlInv, PendingIffAwaiting, NoPending
      <4>2. k = Len(approvals[x])
        BY <4>1 DEF ControlInv, PendingIffAwaiting, OnlyNewestPending
      <4> QED BY <2>1, <2>2, <3>1, <4>1, <4>2 DEF PlanBound
    <3>3. CASE status[x] # "AWAITING_APPROVAL"
      BY <2>1, <3>1, <3>3 DEF PlanBound
    <3> QED BY <3>2, <3>3
  <2> QED BY <2>3 DEF PlanInv, PlanBound
<1> QED BY <1>1, <1>2 DEF Environment, Regrant, Deactivate, Lose

\* The version a question was asked under is the last its own loop stored.
LEMMA PlansHold == Spec => []PlanInv
<1>1. Init => PlanInv
  BY DEF Init, PlanInv
<1>2. TypeOK /\ ControlInv /\ PlanInv /\ [Next]_vars => PlanInv'
  <2> SUFFICES ASSUME TypeOK, ControlInv, PlanInv, [Next]_vars PROVE PlanInv'
    OBVIOUS
  <2>1. CASE UNCHANGED vars
    BY <2>1, PlansQuiet DEF vars
  <2> QED BY <2>1, RequestPlans, EnvironmentPlans DEF Next
<1> QED BY <1>1, <1>2, HistoryHolds, PTL DEF Spec

\* An open question is refused for its age, for authority, for evidence that
\* cannot be read any more, or because a stored replan was not replayed before
\* it was asked, and for nothing else that approve_once checks
\* (approval_service.py:137-237).
THEOREM RefusalsHaveCause == Spec => []ApproveRefusedForCause
<1>1. ASSUME TypeOK, ControlInv, HistoryInv, PlanInv
      PROVE  ApproveRefusedForCause
  <2> SUFFICES ASSUME NEW q \in Requests, Holds(q, "approve"), ~Resumable(q),
                      ~approvals[on[q]][job[q].item].expired,
                      approvals[on[q]][job[q].item].scope = job[q].scope,
                      \A k \in DOMAIN stepRows[on[q]] :
                        stepRows[on[q]][k].chunks \subseteq Authorized(q)
               PROVE  ReplanNotReplayed(on[q])
    BY DEF ApproveRefusedForCause
  <2>1. PICK r \in Runs, i \in Nat : r = on[q] /\ i = job[q].item
    BY <1>1 DEF Holds, TypeOK, Job
  <2>2. /\ status[r] = "AWAITING_APPROVAL" /\ approvals[r][i].status = "PENDING"
        /\ i \in DOMAIN approvals[r]
    BY <1>1, <2>1 DEF Holds, Available, ControlInv, LockOK, TypeOK
  <2>3. i = Len(approvals[r])
    BY <1>1, <2>2 DEF ControlInv, PendingIffAwaiting, OnlyNewestPending
  <2>4. message[r] /\ approvals[r][i].step = Len(stepRows[r]) + 1 /\ Reconstructible(q)
    BY <1>1, <2>1, <2>2, <2>3 DEF HistoryInv, PausedHistoryComplete, Reconstructible
  <2>5. ~BindingIsCurrent(r, i)
    BY <2>1, <2>4 DEF Resumable
  <2>6. approvals[r][i].pv = planCount[r] /\ planCount[r] <= Len(planRows[r])
    BY <1>1, <2>2, <2>3 DEF PlanInv
  <2>7. planCount[r] \in Nat /\ Len(planRows[r]) \in Nat
    BY <1>1, LenProperties DEF TypeOK
  <2> QED BY <2>1, <2>4, <2>5, <2>6, <2>7 DEF BindingIsCurrent, ReplanNotReplayed
<1> QED BY <1>1, HistoryHolds, PlansHold, PTL
-----------------------------------------------------------------------------
(***************************************************************************)
(* Stored history is append-only.  A request that finishes writes its own  *)
(* copy of all steps and plans; the comparison of HistoryMatches is what   *)
(* keeps the rows, and the row lock what keeps the answers.                *)
(***************************************************************************)
StepsKept(r) ==
  \A i \in DOMAIN stepRows[r] : i \in DOMAIN stepRows'[r] /\ stepRows'[r][i] = stepRows[r][i]

PlansKept(r) ==
  \A v \in DOMAIN planRows[r] : v \in DOMAIN planRows'[r] /\ planRows'[r][v] = planRows[r][v]

AnswersKept(r) ==
  \A i \in DOMAIN approvals[r] :
    /\ i \in DOMAIN approvals'[r]
    /\ approvals[r][i].status # "PENDING" => approvals'[r][i] = approvals[r][i]

\* persist_outcome_history keeps what is stored.
LEMMA WriteKeeps ==
  ASSUME TypeOK, NEW q \in Requests, on[q] \in Runs, HistoryMatches(q), WriteHistory(q)
  PROVE  \A r \in Runs : StepsKept(r) /\ PlansKept(r)
<1>1. PICK x \in Runs : x = on[q]
  OBVIOUS
<1>2. PICK d \in Seq(StepRow), p \in Seq(Nat) : d = work[q].done /\ p = work[q].plans
  BY DEF TypeOK, Work
<1>3. PICK s \in Seq(StepRow), t \in Seq(Nat) : s = stepRows[x] /\ t = planRows[x]
  BY DEF TypeOK
<1>4. /\ Len(d) \in Nat /\ DOMAIN d = 1..Len(d) /\ Len(p) \in Nat /\ DOMAIN p = 1..Len(p)
      /\ Len(s) \in Nat /\ DOMAIN s = 1..Len(s) /\ Len(t) \in Nat /\ DOMAIN t = 1..Len(t)
  BY LenProperties
<1>5. /\ Len(s) <= Len(d) /\ \A i \in DOMAIN s : s[i] = d[i]
      /\ \A v \in DOMAIN t : v \in DOMAIN p => t[v] = p[v]
  BY <1>1, <1>2, <1>3 DEF HistoryMatches
<1>6. /\ stepRows' = [stepRows EXCEPT ![x] = d]
      /\ planRows' = IF Len(t) < Len(p) THEN [planRows EXCEPT ![x] = p] ELSE planRows
  BY <1>1, <1>2, <1>3 DEF WriteHistory
<1>7. StepsKept(x)
  <2>1. stepRows'[x] = d /\ stepRows[x] = s
    BY <1>3, <1>6 DEF TypeOK
  <2> QED BY <1>4, <1>5, <2>1 DEF StepsKept
<1>8. PlansKept(x)
  <2>1. CASE Len(t) < Len(p)
    <3>1. planRows'[x] = p /\ planRows[x] = t
      BY <1>3, <1>6, <2>1 DEF TypeOK
    <3> QED BY <1>4, <1>5, <2>1, <3>1 DEF PlansKept
  <2>2. CASE ~(Len(t) < Len(p))
    BY <1>6, <2>2 DEF PlansKept
  <2> QED BY <2>1, <2>2
<1>9. ASSUME NEW r \in Runs, r # x PROVE StepsKept(r) /\ PlansKept(r)
  <2>1. stepRows'[r] = stepRows[r] /\ planRows'[r] = planRows[r]
    BY <1>6, <1>9 DEF TypeOK
  <2> QED BY <2>1 DEF StepsKept, PlansKept
<1> QED BY <1>7, <1>8, <1>9

\* A verdict is written on the PENDING approval only.
LEMMA SettleKeeps ==
  ASSUME TypeOK, NEW x \in Runs, NEW i \in DOMAIN approvals[x],
         NEW verdict \in ApprovalStatuses, NEW target \in Statuses,
         approvals[x][i].status = "PENDING", Settle(x, i, verdict, target)
  PROVE  \A r \in Runs : AnswersKept(r)
<1>1. approvals' = [approvals EXCEPT ![x][i].status = verdict]
  BY DEF Settle
<1>2. DOMAIN approvals'[x] = DOMAIN approvals[x]
  BY SettleType
<1>3. AnswersKept(x)
  BY <1>1, <1>2 DEF AnswersKept, TypeOK
<1>4. ASSUME NEW r \in Runs, r # x PROVE AnswersKept(r)
  BY <1>1, <1>4 DEF AnswersKept, TypeOK
<1> QED BY <1>3, <1>4

\* The steps of a request.
LEMMA StepAppends ==
  ASSUME TypeOK, ControlInv, NEW q \in Requests,
         LockSteps(q) \/ LoopSteps(q) \/ OtherSteps(q) \/ Receive(q)
  PROVE  RowsAppendOnly
<1>0. ASSUME \A r \in Runs : StepsKept(r) /\ PlansKept(r) /\ AnswersKept(r)
      PROVE  RowsAppendOnly
  BY <1>0 DEF RowsAppendOnly, StepsKept, PlansKept, AnswersKept
<1>1. ASSUME UNCHANGED <<stepRows, planRows, approvals>> PROVE RowsAppendOnly
  BY <1>1 DEF RowsAppendOnly
<1>2. ASSUME LoopSteps(q) \/ Receive(q) PROVE RowsAppendOnly
  <2>1. UNCHANGED <<stepRows, planRows, approvals>>
    BY <1>2 DEF LoopSteps, Receive, DecideInitial, Replan, ReplayStep, AskApproval,
                ResumeMismatch, ExecuteStep, LoopReturns, ReceiveMessage, ReceiveResolution
  <2> QED BY <1>1, <2>1
<1>3. ASSUME \/ Begin(q) \/ LockOwned(q) \/ PauseFails(q) \/ FinishFails(q) \/ MarkTerminal(q)
             \/ RefuseBeforeRow(q) \/ Unavailable(q) \/ ResumeSetup(q)
             \/ \E r \in Runs, allowed \in BOOLEAN : CreateRun(q, r, allowed)
             \/ \E target \in {"FAILED", "CANCELLED"} : Abort(q, target)
      PROVE  RowsAppendOnly
  <2>1. UNCHANGED <<stepRows, planRows, approvals>>
    BY <1>3 DEF Begin, LockOwned, PauseFails, FinishFails, MarkTerminal, RefuseBeforeRow,
                Unavailable, ResumeSetup, CreateRun, Abort
  <2> QED BY <1>1, <2>1
<1>4. ASSUME Finish(q) \/ CommitThenCancelled(q) PROVE RowsAppendOnly
  <2>1. on[q] \in Runs /\ HistoryMatches(q) /\ WriteHistory(q) /\ UNCHANGED approvals
    BY <1>4 DEF Finish, CommitThenCancelled, TypeOK
  <2>2. \A r \in Runs : AnswersKept(r)
    BY <2>1 DEF AnswersKept
  <2> QED BY <1>0, <2>1, <2>2, WriteKeeps
<1>5. ASSUME Pause(q) PROVE RowsAppendOnly
  <2>1. PICK x \in Runs : x = on[q]
    BY <1>5 DEF Pause, TypeOK
  <2>2. /\ HistoryMatches(q) /\ WriteHistory(q)
        /\ approvals' = [approvals EXCEPT ![x] = Append(@, PendingApproval(q))]
    BY <1>5, <2>1 DEF Pause
  <2>3. \A r \in Runs \ {x} : AnswersKept(r)
    BY <2>2 DEF AnswersKept, TypeOK
  <2>4. AnswersKept(x)
    <3> DEFINE e == PendingApproval(q)
    <3>1. PICK s \in Seq(ApprovalRow) : s = approvals[x]
      BY DEF TypeOK
    <3>2. /\ Len(s) \in Nat /\ DOMAIN s = 1..Len(s) /\ DOMAIN Append(s, e) = 1..(Len(s) + 1)
          /\ \A i \in 1..Len(s) : Append(s, e)[i] = s[i]
      <4> HIDE DEF e
      <4> QED BY LenProperties
    <3>3. approvals'[x] = Append(s, e) /\ approvals[x] = s
      BY <2>2, <3>1 DEF TypeOK
    <3> QED BY <3>2, <3>3 DEF AnswersKept
  <2> QED BY <1>0, <2>1, <2>2, <2>3, <2>4, WriteKeeps
<1>6. ASSUME ApproveFailsClosed(q) \/ ApproveOnce(q) \/ Reject(q) \/ ChangeRequest(q)
      PROVE  RowsAppendOnly
  <2>1. /\ pc[q] = "held" /\ Available(q) /\ job[q].kind # "stop"
        /\ on[q] \in Runs /\ job[q].item \in DOMAIN approvals[on[q]]
    BY <1>6 DEF ApproveFailsClosed, ApproveOnce, Reject, ChangeRequest, Holds, TypeOK
  <2>2. PICK x \in Runs : x = on[q]
    BY <2>1
  <2>3. PICK i \in DOMAIN approvals[x] : i = job[q].item
    BY <2>1, <2>2
  <2>4. approvals[x][i].status = "PENDING"
    BY <2>1, <2>2, <2>3, HolderExclusive
  <2>5. PICK verdict \in ApprovalStatuses, target \in Statuses : Settle(x, i, verdict, target)
    <3>1. {"CONSUMED", "EXPIRED", "CANCELLED", "REJECTED", "SUPERSEDED"} \subseteq ApprovalStatuses
      BY DEF ApprovalStatuses
    <3>2. {"RUNNING", "FAILED", "CANCELLED"} \subseteq Statuses
      BY DEF Statuses, Terminal
    <3>3. \E verdict \in {"CONSUMED", "EXPIRED", "CANCELLED", "REJECTED", "SUPERSEDED"},
             target \in {"RUNNING", "FAILED", "CANCELLED"} : Settle(x, i, verdict, target)
      BY <1>6, <2>2, <2>3 DEF ApproveFailsClosed, ApproveOnce, Reject, ChangeRequest
    <3> QED BY <3>1, <3>2, <3>3
  <2>6. \A r \in Runs : AnswersKept(r)
    BY <2>4, <2>5, SettleKeeps
  <2>7. \A r \in Runs : StepsKept(r) /\ PlansKept(r)
    BY <2>5 DEF Settle, StepsKept, PlansKept
  <2> QED BY <1>0, <2>6, <2>7
<1>7. ASSUME Stop(q) PROVE RowsAppendOnly
  <2>1. PICK x \in Runs : x = on[q]
    BY <1>7 DEF Stop, Holds, TypeOK
  <2>2. /\ approvals' = [approvals EXCEPT ![x] = StoppedApprovals(x)]
        /\ UNCHANGED <<stepRows, planRows>>
    BY <1>7, <2>1 DEF Stop
  <2>3. \A r \in Runs : AnswersKept(r)
    BY <2>2 DEF AnswersKept, StoppedApprovals, TypeOK
  <2>4. \A r \in Runs : StepsKept(r) /\ PlansKept(r)
    BY <2>2 DEF StepsKept, PlansKept
  <2> QED BY <1>0, <2>3, <2>4
<1> QED BY <1>2, <1>3, <1>4, <1>5, <1>6, <1>7 DEF LockSteps, OtherSteps

\* Stored steps and plan versions are never rewritten or dropped, and an
\* answered approval keeps its answer, whichever requests race.
THEOREM HistoryOnlyGrows == Spec => HistoryAppendOnly
<1>1. TypeOK /\ ControlInv /\ [Next]_vars => [RowsAppendOnly]_vars
  <2> SUFFICES ASSUME TypeOK, ControlInv, Next PROVE RowsAppendOnly
    OBVIOUS
  <2>1. ASSUME NEW x \in Runs, NEW i \in DOMAIN approvals[x], Expire(x, i)
        PROVE  RowsAppendOnly
    <3>1. /\ approvals[x][i].status = "PENDING"
          /\ approvals' = [approvals EXCEPT ![x][i].expired = TRUE]
          /\ UNCHANGED <<stepRows, planRows>>
      BY <2>1 DEF Expire
    <3>2. \A r \in Runs : DOMAIN approvals'[r] = DOMAIN approvals[r]
      BY <2>1, ExpireRows
    <3>3. ASSUME NEW r \in Runs PROVE AnswersKept(r)
      BY <3>1, <3>2 DEF AnswersKept, TypeOK
    <3> QED BY <3>1, <3>3 DEF RowsAppendOnly, AnswersKept
  <2>2. CASE UNCHANGED <<stepRows, planRows, approvals>>
    BY <2>2 DEF RowsAppendOnly
  <2>3. CASE Environment
    BY <2>1, <2>2, <2>3 DEF Environment, Regrant, Deactivate, Lose
  <2> QED BY <2>3, StepAppends DEF Next
<1> QED BY <1>1, ControlHolds, PTL DEF Spec, HistoryAppendOnly
-----------------------------------------------------------------------------
(***************************************************************************)
(* AgentRuns implements ApprovalGate.                                      *)
(*                                                                         *)
(* A step that writes status, approvals and consented calls of one run     *)
(* moves the gate of that run only, so the gate's steps can be shown value *)
(* by value at that run.                                                   *)
(***************************************************************************)
\* Which phase a status stands for, before and after a step.
LEMMA PhaseOf ==
  ASSUME NEW r \in Runs
  PROVE  /\ status[r] = "none" => gatePhase[r] = "none"
         /\ status[r] \in {"CREATED", "RUNNING"} => gatePhase[r] = "working"
         /\ status[r] = "AWAITING_APPROVAL" => gatePhase[r] = "waiting"
         /\ status[r] # "AWAITING_APPROVAL" => gateAsked[r] = NoAction
         /\ status'[r] \in {"CREATED", "RUNNING"} => gatePhase'[r] = "working"
         /\ status'[r] = "AWAITING_APPROVAL" => gatePhase'[r] = "waiting"
         /\ status'[r] \in Terminal => gatePhase'[r] = "over"
         /\ status'[r] # "AWAITING_APPROVAL" => gateAsked'[r] = NoAction
BY DEF gatePhase, gateAsked, Terminal

RunSame(r) == status'[r] = status[r] /\ approvals'[r] = approvals[r] /\ gated'[r] = gated[r]

\* The gate of a run whose rows and calls stay the same stays the same.
LEMMA GateSame ==
  ASSUME NEW r \in Runs, RunSame(r)
  PROVE  /\ gatePhase'[r] = gatePhase[r] /\ gateAsked'[r] = gateAsked[r]
         /\ gateConsent'[r] = gateConsent[r] /\ gatePerformed'[r] = gatePerformed[r]
BY DEF RunSame, gatePhase, gateAsked, gateConsent, gatePerformed

\* Functions on the runs that differ at most at r.
LEMMA ChangedAt ==
  ASSUME NEW S, NEW f, NEW g, f = [x \in S |-> f[x]], g = [x \in S |-> g[x]],
         NEW r \in S, \A x \in S \ {r} : g[x] = f[x]
  PROVE  /\ g = [f EXCEPT ![r] = g[r]]
         /\ g[r] = f[r] => g = f
OBVIOUS

\* A step on one run changes the gate at that run.
LEMMA GateFrame ==
  ASSUME NEW r \in Runs, \A x \in Runs \ {r} : RunSame(x)
  PROVE  /\ gatePhase' = [gatePhase EXCEPT ![r] = gatePhase'[r]]
         /\ gateAsked' = [gateAsked EXCEPT ![r] = gateAsked'[r]]
         /\ gateConsent' = [gateConsent EXCEPT ![r] = gateConsent'[r]]
         /\ gatePerformed' = [gatePerformed EXCEPT ![r] = gatePerformed'[r]]
         /\ gateAsked'[r] = gateAsked[r] => UNCHANGED gateAsked
         /\ gateConsent'[r] = gateConsent[r] => UNCHANGED gateConsent
         /\ gatePerformed'[r] = gatePerformed[r] => UNCHANGED gatePerformed
         /\ gatePhase'[r] = gatePhase[r] => UNCHANGED gatePhase
<1>1. \A x \in Runs \ {r} :
        /\ gatePhase'[x] = gatePhase[x] /\ gateAsked'[x] = gateAsked[x]
        /\ gateConsent'[x] = gateConsent[x] /\ gatePerformed'[x] = gatePerformed[x]
  BY GateSame
<1>2. /\ gatePhase = [x \in Runs |-> gatePhase[x]] /\ gatePhase' = [x \in Runs |-> gatePhase'[x]]
      /\ gateAsked = [x \in Runs |-> gateAsked[x]] /\ gateAsked' = [x \in Runs |-> gateAsked'[x]]
      /\ gateConsent = [x \in Runs |-> gateConsent[x]]
      /\ gateConsent' = [x \in Runs |-> gateConsent'[x]]
      /\ gatePerformed = [x \in Runs |-> gatePerformed[x]]
      /\ gatePerformed' = [x \in Runs |-> gatePerformed'[x]]
  BY DEF gatePhase, gateAsked, gateConsent, gatePerformed
<1>3. /\ gatePhase' = [gatePhase EXCEPT ![r] = gatePhase'[r]]
      /\ gatePhase'[r] = gatePhase[r] => UNCHANGED gatePhase
  BY <1>1, <1>2, ChangedAt
<1>4. /\ gateAsked' = [gateAsked EXCEPT ![r] = gateAsked'[r]]
      /\ gateAsked'[r] = gateAsked[r] => UNCHANGED gateAsked
  BY <1>1, <1>2, ChangedAt
<1>5. /\ gateConsent' = [gateConsent EXCEPT ![r] = gateConsent'[r]]
      /\ gateConsent'[r] = gateConsent[r] => UNCHANGED gateConsent
  BY <1>1, <1>2, ChangedAt
<1>6. /\ gatePerformed' = [gatePerformed EXCEPT ![r] = gatePerformed'[r]]
      /\ gatePerformed'[r] = gatePerformed[r] => UNCHANGED gatePerformed
  BY <1>1, <1>2, ChangedAt
<1> QED BY <1>3, <1>4, <1>5, <1>6

\* The end of a run that was not waiting: the rows of its approvals stay.
LEMMA GateOver ==
  ASSUME NEW r \in Runs, \A x \in Runs \ {r} : RunSame(x),
         status[r] \in {"CREATED", "RUNNING", "AWAITING_APPROVAL"}, status'[r] \in Terminal,
         gateConsent'[r] = gateConsent[r], gated'[r] = gated[r]
  PROVE  Gate!Next
<1>1. gatePhase[r] \in {"working", "waiting"} /\ gatePhase'[r] = "over" /\ gateAsked'[r] = NoAction
  BY PhaseOf DEF Terminal
<1>2. gatePerformed'[r] = gatePerformed[r]
  BY DEF gatePerformed
<1>3. Gate!Over(r)
  BY <1>1, <1>2, GateFrame DEF Gate!Over
<1> QED BY <1>3 DEF Gate!Next

\* Creating a run starts it.
LEMMA GateCreate ==
  ASSUME TypeOK, NEW q \in Requests, NEW r \in Runs, NEW allowed \in BOOLEAN,
         CreateRun(q, r, allowed)
  PROVE  Gate!Next
<1>1. /\ status[r] = "none" /\ status'[r] \in {"CREATED", "RUNNING"}
      /\ UNCHANGED <<approvals, gated>>
      /\ \A x \in Runs \ {r} : RunSame(x)
  BY DEF CreateRun, RunSame, TypeOK
<1>2. /\ gatePhase[r] = "none" /\ gatePhase'[r] = "working"
      /\ gateAsked'[r] = gateAsked[r]
  BY <1>1, PhaseOf
<1>3. gateConsent'[r] = gateConsent[r] /\ gatePerformed'[r] = gatePerformed[r]
  BY <1>1 DEF gateConsent, gatePerformed
<1>4. Gate!Start(r)
  BY <1>1, <1>2, <1>3, GateFrame DEF Gate!Start
<1> QED BY <1>4 DEF Gate!Next

\* A call that needs consent performs the consented action; any other call
\* leaves the gate alone.
LEMMA GateExecute ==
  ASSUME TypeOK, ControlInv, ConsentInv, NEW q \in Requests,
         NEW a \in Actions, NEW ok \in BOOLEAN, NEW found \in SUBSET Chunks,
         ExecuteStep(q, a, ok, found)
  PROVE  Gate!Next \/ UNCHANGED <<status, approvals, gated>>
<1>0. PICK r \in Runs : r = on[q] /\ pc[q] = "loop"
  BY DEF ExecuteStep, Looping, TypeOK
<1>1. PICK g \in Seq(GatedCall), s \in Seq(ApprovalRow) : g = gated[r] /\ s = approvals[r]
  BY DEF TypeOK
<1>2. /\ status[r] = "RUNNING" /\ ApprovalsInOrder(r) /\ CarriedConsent(q)
      /\ Len(s) \in Nat /\ Len(g) \in Nat /\ DOMAIN s = 1..Len(s) /\ DOMAIN g = 1..Len(g)
      /\ NoAction \notin Actions
  BY <1>0, LenProperties, ConstantsAssumption DEF ControlInv, DriverOK, ConsentInv
<1>3. /\ NeedsConsent(mode[r], a) => work[q].approved = a
      /\ ~NeedsConsent(mode[r], a) => gated' = gated
      /\ UNCHANGED <<status, approvals>>
  BY <1>0 DEF ExecuteStep, MustPause
<1>4. CASE NeedsConsent(mode[r], a)
  <2>1. /\ Len(s) > 0 /\ Len(g) = Len(s) - 1
        /\ s[Len(s)].hash = a /\ s[Len(s)].status = "CONSUMED"
    BY <1>0, <1>1, <1>2, <1>3, <1>4 DEF CarriedConsent, ApprovalsInOrder
  <2>2. PICK e \in GatedCall : e = [hash |-> a, pv |-> Version(work[q]), scope |-> job[q].scope]
    BY LenProperties DEF GatedCall, TypeOK, Work, Job, Version
  <2>3. /\ gated' = [gated EXCEPT ![r] = Append(g, e)]
        /\ e.hash = a
    BY <1>0, <1>1, <1>4, <2>2 DEF ExecuteStep
  <2>4. gated'[r] = Append(g, e) /\ \A x \in Runs \ {r} : RunSame(x)
    BY <1>3, <2>3 DEF RunSame, TypeOK
  <2>5. /\ Len(Append(g, e)) = Len(g) + 1 /\ DOMAIN Append(g, e) = 1..(Len(g) + 1)
        /\ Append(g, e)[Len(g) + 1] = e
        /\ \A i \in 1..Len(g) : Append(g, e)[i] = g[i]
    BY AppendFacts
  <2>6. gatePhase[r] = "working" /\ gatePhase'[r] = "working" /\ gateAsked'[r] = gateAsked[r]
    BY <1>2, <1>3, PhaseOf
  <2>7. gateConsent[r] = a
    <3>1. Len(g) + 1 = Len(s) /\ Len(s) \in DOMAIN s
      BY <1>2, <2>1
    <3> QED BY <1>1, <2>1, <3>1 DEF gateConsent
  <2>8. gateConsent'[r] = NoAction
    <3>1. Len(gated'[r]) + 1 \notin DOMAIN approvals'[r]
      BY <1>1, <1>2, <1>3, <2>1, <2>4, <2>5
    <3> QED BY <3>1 DEF gateConsent
  <2>9. gatePerformed'[r] = Append(gatePerformed[r], a)
    <3>1. PICK h \in [1..Len(g) -> Actions] : h = [k \in 1..Len(g) |-> g[k].hash]
      <4>1. \A k \in 1..Len(g) : g[k] \in GatedCall
        BY <1>2, ElementOfSeq
      <4> QED BY <4>1 DEF GatedCall
    <3>2. h \in Seq(Actions) /\ Len(h) = Len(g)
      BY <1>2, <3>1
    <3>3. /\ DOMAIN Append(h, a) = 1..(Len(g) + 1) /\ Append(h, a)[Len(g) + 1] = a
          /\ \A i \in 1..Len(g) : Append(h, a)[i] = h[i]
          /\ Append(h, a) \in [1..(Len(g) + 1) -> Actions]
      <4>1. Append(h, a) \in Seq(Actions) /\ Len(Append(h, a)) = Len(h) + 1
        BY <3>2, AppendFacts
      <4>2. Append(h, a) \in [1..(Len(h) + 1) -> Actions]
        BY <4>1, LenProperties
      <4>3. Append(h, a)[Len(h) + 1] = a /\ \A i \in 1..Len(h) : Append(h, a)[i] = h[i]
        BY <3>2, AppendFacts
      <4> QED BY <3>2, <4>2, <4>3
    <3>4. gatePerformed[r] = h
      BY <1>1, <1>2, <3>1 DEF gatePerformed
    <3>5. gatePerformed'[r] = [k \in 1..(Len(g) + 1) |-> Append(g, e)[k].hash]
      BY <2>4, <2>5 DEF gatePerformed
    <3>6. \A k \in 1..(Len(g) + 1) : Append(g, e)[k].hash = Append(h, a)[k]
      <4> SUFFICES ASSUME NEW k \in 1..(Len(g) + 1)
                   PROVE  Append(g, e)[k].hash = Append(h, a)[k]
        OBVIOUS
      <4>1. k = Len(g) + 1 \/ k \in 1..Len(g)
        BY <1>2
      <4> QED BY <2>3, <2>5, <3>1, <3>3, <4>1
    <3> QED BY <3>3, <3>4, <3>5, <3>6
  <2>10. Gate!Perform(r)
    <3>1. UNCHANGED <<gatePhase, gateAsked>>
      BY <2>4, <2>6, GateFrame
    <3>2. gateConsent' = [gateConsent EXCEPT ![r] = NoAction]
      BY <2>4, <2>8, GateFrame
    <3>3. gatePerformed' = [gatePerformed EXCEPT ![r] = Append(@, gateConsent[r])]
      BY <2>4, <2>7, <2>9, GateFrame DEF gatePerformed
    <3> QED BY <1>2, <2>6, <2>7, <3>1, <3>2, <3>3 DEF Gate!Perform
  <2> QED BY <2>10 DEF Gate!Next
<1>5. CASE ~NeedsConsent(mode[r], a)
  BY <1>3, <1>5
<1> QED BY <1>4, <1>5

\* Pausing asks, when no consent is left over.
LEMMA GatePause ==
  ASSUME TypeOK, ControlInv, ConsentInv, NEW q \in Requests, Pause(q)
  PROVE  Gate!Next
<1>0. PICK r \in Runs : r = on[q] /\ pc[q] = "pause"
  BY DEF Pause, TypeOK
<1>1. PICK s \in Seq(ApprovalRow), a \in Actions : s = approvals[r] /\ a = work[q].ask
  BY <1>0 DEF TypeOK
<1>2. /\ status[r] = "RUNNING" /\ CarriedConsent(q) /\ Len(s) \in Nat /\ DOMAIN s = 1..Len(s)
  BY <1>0, LenProperties DEF ControlInv, DriverOK, ConsentInv
<1>3. Len(gated[r]) = Len(s)
  BY <1>0, <1>1, <1>2 DEF CarriedConsent
<1>4. /\ approvals' = [approvals EXCEPT ![r] = Append(@, PendingApproval(q))]
      /\ status' = [status EXCEPT ![r] = "AWAITING_APPROVAL"]
      /\ UNCHANGED gated
  BY <1>0 DEF Pause
<1>5. /\ approvals'[r] = Append(s, PendingApproval(q)) /\ status'[r] = "AWAITING_APPROVAL"
      /\ \A x \in Runs \ {r} : RunSame(x)
  BY <1>1, <1>4 DEF RunSame, TypeOK
<1>6. PendingApproval(q).hash = a /\ PendingApproval(q).status = "PENDING"
  BY <1>1 DEF PendingApproval
<1>7. /\ Len(approvals'[r]) = Len(s) + 1
      /\ approvals'[r][Len(s) + 1] = PendingApproval(q)
  BY <1>2, <1>5
<1>8. gatePhase[r] = "working" /\ gatePhase'[r] = "waiting"
  BY <1>2, <1>5, PhaseOf
<1>9. gateAsked'[r] = a
  BY <1>5, <1>6, <1>7 DEF gateAsked
<1>10. gateConsent[r] = NoAction
  <2>1. Len(gated[r]) + 1 \notin DOMAIN approvals[r]
    BY <1>1, <1>2, <1>3
  <2> QED BY <2>1 DEF gateConsent
<1>11. gateConsent'[r] = NoAction
  <2>1. Len(gated'[r]) + 1 = Len(s) + 1
    BY <1>3, <1>4
  <2>2. approvals'[r][Len(gated'[r]) + 1].status # "CONSUMED"
    BY <1>6, <1>7, <2>1
  <2> QED BY <2>2 DEF gateConsent
<1>12. gatePerformed'[r] = gatePerformed[r]
  BY <1>4 DEF gatePerformed
<1>13. Gate!Ask(r, a)
  BY <1>5, <1>8, <1>9, <1>10, <1>11, <1>12, GateFrame DEF Gate!Ask
<1> QED BY <1>13 DEF Gate!Next

\* Approving grants the consent that was asked for.
LEMMA GateApprove ==
  ASSUME TypeOK, ControlInv, ConsentInv, NEW q \in Requests, ApproveOnce(q)
  PROVE  Gate!Next
<1>1. /\ pc[q] = "held" /\ Available(q) /\ job[q].kind # "stop"
      /\ on[q] \in Runs /\ job[q].item \in DOMAIN approvals[on[q]]
  BY DEF ApproveOnce, Holds, TypeOK
<1>2. PICK r \in Runs : r = on[q]
  BY <1>1
<1>3. PICK i \in DOMAIN approvals[r] : i = job[q].item
  BY <1>1, <1>2
<1>4. status[r] = "AWAITING_APPROVAL" /\ approvals[r][i].status = "PENDING"
  BY <1>1, <1>2, <1>3, HolderExclusive
<1>5. Settle(r, i, "CONSUMED", "RUNNING") /\ UNCHANGED gated
  BY <1>2, <1>3 DEF ApproveOnce
<1>6. /\ i = Len(approvals[r])
      /\ DOMAIN approvals'[r] = DOMAIN approvals[r]
      /\ approvals'[r][i] = [approvals[r][i] EXCEPT !.status = "CONSUMED"]
      /\ approvals[r][i] \in ApprovalRow
      /\ status'[r] = "RUNNING"
      /\ \A x \in Runs \ {r} : status'[x] = status[x] /\ approvals'[x] = approvals[x]
  <2>1. "CONSUMED" \in ApprovalStatuses /\ "RUNNING" \in Statuses
    BY DEF ApprovalStatuses, Statuses
  <2> QED BY <1>4, <1>5, <2>1, SettleRows
<1>7. Len(gated[r]) + 1 = i
  <2>1. ApprovalsInOrder(r) /\ Len(approvals[r]) \in Nat /\ Len(gated[r]) \in Nat
    BY LenProperties DEF ConsentInv, TypeOK
  <2> QED BY <1>4, <1>6, <2>1 DEF ApprovalsInOrder
<1>8. \A x \in Runs \ {r} : RunSame(x)
  BY <1>5, <1>6 DEF RunSame
<1>9. gatePhase[r] = "waiting" /\ gatePhase'[r] = "working" /\ gateAsked'[r] = NoAction
  BY <1>4, <1>6, PhaseOf
<1>10. gateAsked[r] = approvals[r][i].hash
  BY <1>4, <1>6 DEF gateAsked
<1>11. gateConsent'[r] = approvals[r][i].hash
  <2>1. approvals'[r][i].status = "CONSUMED" /\ approvals'[r][i].hash = approvals[r][i].hash
    BY <1>6 DEF ApprovalRow
  <2> QED BY <1>5, <1>6, <1>7, <2>1 DEF gateConsent
<1>12. gatePerformed'[r] = gatePerformed[r]
  BY <1>5 DEF gatePerformed
<1>13. Gate!Grant(r)
  BY <1>8, <1>9, <1>10, <1>11, <1>12, GateFrame DEF Gate!Grant
<1> QED BY <1>13 DEF Gate!Next

\* A question that is refused, superseded, withdrawn or found stale ends the
\* run without a consent.
LEMMA GateRefuse ==
  ASSUME TypeOK, ControlInv, ConsentInv, NEW q \in Requests,
         ApproveFailsClosed(q) \/ Reject(q) \/ ChangeRequest(q) \/ Stop(q)
  PROVE  Gate!Next
<1>1. pc[q] = "held" /\ Available(q)
  BY DEF ApproveFailsClosed, Reject, ChangeRequest, Stop, Holds
<1>2. PICK r \in Runs : r = on[q] /\ status[r] = "AWAITING_APPROVAL"
  <2>1. on[q] \in Runs
    BY <1>1 DEF TypeOK
  <2>2. status[on[q]] = "AWAITING_APPROVAL"
    BY <1>1, HolderExclusive
  <2> QED BY <2>1, <2>2
<1>3. PICK n \in Nat : /\ n = Len(approvals[r]) /\ n = Len(gated[r]) + 1
                       /\ DOMAIN approvals[r] = 1..n
                       /\ n \in DOMAIN approvals[r] /\ approvals[r][n].status = "PENDING"
  <2>1. ApprovalsInOrder(r) /\ Len(approvals[r]) \in Nat /\ Len(gated[r]) \in Nat
    BY LenProperties DEF ConsentInv, TypeOK
  <2>2. Len(gated[r]) + 1 = Len(approvals[r])
    BY <1>2, <2>1 DEF ApprovalsInOrder
  <2>3. PICK k \in DOMAIN approvals[r] : approvals[r][k].status = "PENDING"
    BY <1>2 DEF ControlInv, PendingIffAwaiting, NoPending
  <2>4. k = Len(approvals[r])
    BY <2>3 DEF ControlInv, PendingIffAwaiting, OnlyNewestPending
  <2>5. DOMAIN approvals[r] = 1..Len(approvals[r])
    BY LenProperties DEF TypeOK
  <2> QED BY <2>1, <2>2, <2>3, <2>4, <2>5
<1>4. /\ status'[r] \in Terminal /\ UNCHANGED gated
      /\ \A x \in Runs \ {r} : RunSame(x)
      /\ approvals'[r][n].status # "CONSUMED"
  <2>1. CASE ApproveFailsClosed(q) \/ Reject(q) \/ ChangeRequest(q)
    <3>1. job[q].kind # "stop" /\ job[q].item \in DOMAIN approvals[r]
      BY <1>1, <1>2, <2>1 DEF ApproveFailsClosed, Reject, ChangeRequest, Holds, TypeOK
    <3>2. PICK i \in DOMAIN approvals[r] : i = job[q].item
      BY <3>1
    <3>3. approvals[r][i].status = "PENDING"
      BY <1>1, <1>2, <3>1, <3>2, HolderExclusive
    <3>4. PICK verdict \in {"EXPIRED", "CANCELLED", "REJECTED", "SUPERSEDED"},
               target \in {"FAILED", "CANCELLED"} : Settle(r, i, verdict, target)
      BY <1>2, <2>1, <3>2 DEF ApproveFailsClosed, Reject, ChangeRequest
    <3>5. /\ verdict \in ApprovalStatuses /\ target \in Statuses /\ target \in Terminal
          /\ verdict # "CONSUMED"
      BY DEF ApprovalStatuses, Statuses, Terminal
    <3>6. /\ i = n
          /\ approvals'[r][i] = [approvals[r][i] EXCEPT !.status = verdict]
          /\ approvals[r][i] \in ApprovalRow
          /\ status'[r] = target
          /\ \A x \in Runs \ {r} : status'[x] = status[x] /\ approvals'[x] = approvals[x]
      BY <1>3, <3>3, <3>4, <3>5, SettleRows
    <3>7. approvals'[r][n].status = verdict
      BY <3>6 DEF ApprovalRow
    <3>8. UNCHANGED gated
      BY <2>1 DEF ApproveFailsClosed, Reject, ChangeRequest
    <3> QED BY <3>5, <3>6, <3>7, <3>8 DEF RunSame
  <2>2. CASE Stop(q)
    <3>1. /\ approvals' = [approvals EXCEPT ![r] = StoppedApprovals(r)]
          /\ status' = [status EXCEPT ![r] = "CANCELLED"] /\ UNCHANGED gated
      BY <1>2, <2>2 DEF Stop
    <3>2. /\ approvals'[r] = StoppedApprovals(r) /\ status'[r] = "CANCELLED"
          /\ \A x \in Runs \ {r} : RunSame(x)
      BY <3>1 DEF RunSame, TypeOK
    <3>3. approvals[r][n] \in ApprovalRow
      BY <1>3, LenProperties, ElementOfSeq DEF TypeOK
    <3>4. approvals'[r][n].status = "CANCELLED"
      BY <1>3, <3>2, <3>3 DEF StoppedApprovals, ApprovalRow
    <3> QED BY <3>1, <3>2, <3>4 DEF Terminal
  <2> QED BY <2>1, <2>2
<1>5. gateConsent[r] = NoAction
  BY <1>3 DEF gateConsent
<1>6. gateConsent'[r] = NoAction
  BY <1>3, <1>4 DEF gateConsent
<1> QED BY <1>2, <1>4, <1>5, <1>6, GateOver

\* A run that ends after its loop.
LEMMA GateEnd ==
  ASSUME TypeOK, ControlInv, NEW q \in Requests,
         Finish(q) \/ CommitThenCancelled(q) \/ MarkTerminal(q)
  PROVE  Gate!Next \/ UNCHANGED <<status, approvals, gated>>
<1>1. PICK r \in Runs : r = on[q]
  BY DEF Finish, CommitThenCancelled, MarkTerminal, TypeOK
<1>2. DriverOK(q) /\ UNCHANGED <<approvals, gated>>
  BY DEF ControlInv, Finish, CommitThenCancelled, MarkTerminal
<1>3. \/ UNCHANGED status
      \/ /\ status' = [status EXCEPT ![r] = work[q].result]
         /\ status[r] \in {"CREATED", "RUNNING"} /\ work[q].result \in Terminal
  BY <1>1, <1>2 DEF DriverOK, Finish, CommitThenCancelled, MarkTerminal, Markable, Terminal
<1>4. CASE UNCHANGED status
  BY <1>2, <1>4
<1>5. CASE /\ status' = [status EXCEPT ![r] = work[q].result]
           /\ status[r] \in {"CREATED", "RUNNING"} /\ work[q].result \in Terminal
  <2>1. status'[r] \in Terminal /\ \A x \in Runs \ {r} : RunSame(x)
    BY <1>2, <1>5 DEF RunSame, TypeOK
  <2>2. gateConsent'[r] = gateConsent[r]
    BY <1>2 DEF gateConsent
  <2> QED BY <1>2, <1>5, <2>1, <2>2, GateOver
<1> QED BY <1>3, <1>4, <1>5

\* An expiry is not a step of the gate.
LEMMA GateExpire ==
  ASSUME TypeOK, ControlInv, NEW r \in Runs, NEW i \in DOMAIN approvals[r], Expire(r, i)
  PROVE  UNCHANGED Gate!gateVars
<1>1. UNCHANGED <<status, gated>>
  BY DEF Expire
<1>2. /\ \A x \in Runs : DOMAIN approvals'[x] = DOMAIN approvals[x]
      /\ \A x \in Runs : Len(approvals'[x]) = Len(approvals[x])
      /\ \A x \in Runs : \A k \in DOMAIN approvals[x] :
           /\ approvals'[x][k].status = approvals[x][k].status
           /\ approvals'[x][k].hash = approvals[x][k].hash
  BY ExpireRows
<1>3. \A x \in Runs : gateConsent'[x] = gateConsent[x]
  BY <1>1, <1>2 DEF gateConsent
<1>4. ASSUME NEW x \in Runs PROVE gateAsked'[x] = gateAsked[x]
  <2>1. CASE status[x] = "AWAITING_APPROVAL"
    <3>1. PICK k \in DOMAIN approvals[x] : approvals[x][k].status = "PENDING"
      BY <2>1 DEF ControlInv, PendingIffAwaiting, NoPending
    <3>2. k = Len(approvals[x])
      BY <3>1 DEF ControlInv, PendingIffAwaiting, OnlyNewestPending
    <3> QED BY <1>1, <1>2, <3>1, <3>2 DEF gateAsked
  <2>2. CASE status[x] # "AWAITING_APPROVAL"
    BY <1>1, <2>2 DEF gateAsked
  <2> QED BY <2>1, <2>2
<1>5. UNCHANGED gateConsent
  BY <1>3 DEF gateConsent
<1>6. UNCHANGED gateAsked
  BY <1>4 DEF gateAsked
<1>7. UNCHANGED <<gatePhase, gatePerformed>>
  BY <1>1 DEF gatePhase, gatePerformed
<1> QED BY <1>5, <1>6, <1>7 DEF Gate!gateVars

\* Every step of a request is a step of the gate or none.
LEMMA GateNext ==
  TypeOK /\ ControlInv /\ ConsentInv /\ [Next]_vars => [Gate!Next]_(Gate!gateVars)
<1> SUFFICES ASSUME TypeOK, ControlInv, ConsentInv, [Next]_vars
             PROVE  Gate!Next \/ UNCHANGED Gate!gateVars
  OBVIOUS
<1>0. ASSUME UNCHANGED <<status, approvals, gated>> PROVE UNCHANGED Gate!gateVars
  BY <1>0 DEF Gate!gateVars, gatePhase, gateAsked, gateConsent, gatePerformed
<1>1. ASSUME NEW q \in Requests, LoopSteps(q) \/ Receive(q)
      PROVE  Gate!Next \/ UNCHANGED Gate!gateVars
  <2>1. ASSUME NEW a \in Actions, NEW ok \in BOOLEAN, NEW found \in SUBSET Chunks,
               ExecuteStep(q, a, ok, found)
        PROVE  Gate!Next \/ UNCHANGED Gate!gateVars
    BY <1>0, <2>1, GateExecute
  <2>2. \/ UNCHANGED <<status, approvals, gated>>
        \/ \E a \in Actions, ok \in BOOLEAN, found \in SUBSET Chunks :
             ExecuteStep(q, a, ok, found)
    BY <1>1 DEF LoopSteps, Receive, DecideInitial, Replan, ReplayStep, AskApproval,
                ResumeMismatch, LoopReturns, ReceiveMessage, ReceiveResolution
  <2> QED BY <1>0, <2>1, <2>2
<1>2. ASSUME NEW q \in Requests,
             \/ Begin(q) \/ LockOwned(q) \/ PauseFails(q) \/ FinishFails(q)
             \/ RefuseBeforeRow(q) \/ Unavailable(q) \/ ResumeSetup(q)
             \/ \E target \in {"FAILED", "CANCELLED"} : Abort(q, target)
      PROVE  UNCHANGED Gate!gateVars
  <2>1. UNCHANGED <<status, approvals, gated>>
    BY <1>2 DEF Begin, LockOwned, PauseFails, FinishFails, RefuseBeforeRow, Unavailable,
                ResumeSetup, Abort
  <2> QED BY <1>0, <2>1
<1>3. ASSUME NEW q \in Requests, LockSteps(q) \/ OtherSteps(q)
      PROVE  Gate!Next \/ UNCHANGED Gate!gateVars
  BY <1>0, <1>2, <1>3, GateCreate, GatePause, GateApprove, GateRefuse, GateEnd
     DEF LockSteps, OtherSteps
<1>4. CASE Environment
  <2>1. ASSUME UNCHANGED <<status, approvals, gated>> PROVE UNCHANGED Gate!gateVars
    BY <1>0, <2>1
  <2> QED BY <1>4, <2>1, GateExpire DEF Environment, Regrant, Deactivate, Lose
<1>5. CASE UNCHANGED vars
  BY <1>0, <1>5 DEF vars
<1> QED BY <1>1, <1>3, <1>4, <1>5 DEF Next

\* The requests, row locks, crashes, replays and resumes of agent runs implement
\* the promise of human approval: nothing that needs consent happens without
\* one, a consent is used at most once and for the action it was asked for.
THEOREM RunsRefineGate == Spec => GateRefined
<1>1. Init => Gate!Init
  <2> SUFFICES ASSUME Init PROVE Gate!Init
    OBVIOUS
  <2>1. \A r \in Runs : status[r] = "none" /\ approvals[r] = <<>> /\ gated[r] = <<>>
    BY DEF Init
  <2>2. gatePhase = [r \in Runs |-> "none"] /\ gateAsked = [r \in Runs |-> NoAction]
    BY <2>1 DEF gatePhase, gateAsked
  <2>3. gateConsent = [r \in Runs |-> NoAction]
    BY <2>1 DEF gateConsent
  <2>4. gatePerformed = [r \in Runs |-> <<>>]
    BY <2>1 DEF gatePerformed
  <2> QED BY <2>2, <2>3, <2>4 DEF Gate!Init
<1>2. TypeOK /\ ControlInv /\ ConsentInv /\ [Next]_vars => [Gate!Next]_(Gate!gateVars)
  BY GateNext
<1> QED BY <1>1, <1>2, ControlHolds, ConsentHolds, PTL DEF Spec, GateRefined, Gate!Spec
=============================================================================
