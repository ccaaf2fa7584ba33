---------------------------- MODULE ToolGateway ----------------------------
(***************************************************************************)
(* The tool calls of one agent run: what the loop asks for, what the       *)
(* gateway lets through to the adapters, how an attempt ends and is        *)
(* retried, how the evidence of a call is numbered, and how a run that     *)
(* paused for an approval is rebuilt from its stored observations          *)
(* (mcp_gateway/gateway.py, mcp_gateway/adapters.py,                       *)
(* agent/gateway_adapter.py, agent/loop.py, agent/approval_service.py).    *)
(*                                                                         *)
(* The plan the model follows, the rows of the run and the rest of the     *)
(* approval protocol are AgentRuns; here the model may ask for any action  *)
(* at any time, which includes every plan.                                 *)
(***************************************************************************)
EXTENDS Integers, FiniteSets, Sequences

CONSTANTS
  Chunks,       \* document chunks an excerpt can be taken from
  Scopes,       \* scopes a memory relevant to the query may have
  TopK,         \* numbers of results the model asks a search for
  MaxInputs,    \* cells the widest calculator reads
  MaxCites,     \* identifiers a stored observation has room for
  MaxSequence,  \* highest evidence sequence a run may be rebuilt at
  MaxSteps,     \* tool calls of a run (AgentLoopLimits.max_steps)
  MaxRewrites,  \* searches after the first (max_retrieval_rewrites)
  MaxRetries,   \* transient retries of a call (max_transient_retries)
  NoChunk

\* A paused run has at most MaxSteps - 1 stored observations, each of at
\* most MaxCites identifiers.
ASSUME LimitsAssumption ==
  /\ {MaxInputs, MaxCites, MaxSteps} \cup TopK \subseteq Nat \ {0}
  /\ {MaxSequence, MaxRewrites, MaxRetries} \subseteq Nat
  /\ MaxSequence >= (MaxSteps - 1) * MaxCites
  /\ MaxInputs <= MaxCites

-----------------------------------------------------------------------------
\* The tools, by what their adapters do; "other" is any name not approved.
TOOL_MANIFEST ==
  {"search", "excerpt", "calculate", "search_memory", "propose_memory"}

\* Every tool requires the capability the run itself requires, so the
\* catalog of a run that started is the whole manifest.
permitted_catalog == TOOL_MANIFEST

\* The in-process server of a request offers the catalog and hands every
\* call to the gateway under the request's own scope.
Registered == permitted_catalog

\* An action is a tool with the arguments of that tool, or a name nobody
\* approved; two actions are equal when their canonical hashes are.
SearchInput == {[tool |-> "search", k |-> k, chunk |-> NoChunk] : k \in TopK}
ExcerptInput == {[tool |-> "excerpt", k |-> 0, chunk |-> c] : c \in Chunks}
OtherInput ==
  {[tool |-> t, k |-> 0, chunk |-> NoChunk] :
     t \in {"calculate", "search_memory", "propose_memory", "other"}}
Actions == SearchInput \cup ExcerptInput \cup OtherInput
NoAction == [tool |-> "none", k |-> 0, chunk |-> NoChunk]

\* Scopes the result contract of search_memory admits.
MemoryToolScopes == {"PRIVATE_USER", "DEPARTMENT", "COMPANY"}

Outcomes ==
  {"none", "COMPLETED", "REFUSED", "LIMIT_REACHED", "TOOL_TIMEOUT", "TOOL_ERROR",
   "UNANSWERED", "EXECUTION_FAILED", "MISMATCH", "RESUME_FAILED", "CANCELLED"}

VARIABLES
  visible,    \* chunks that are published and authorized
  guided,     \* the run asks before every tool (GUIDED)
  phase,      \* "deciding", "invoking", "paused" or "ended"
  outcome,    \* how the run ended, "none" before that
  action,     \* the action being invoked, or waiting for its approval
  approved,   \* the action whose approval this request consumed
  attempt,    \* retry_count of the call being invoked
  sequence,   \* _evidence_sequence of the request's adapter
  obs,        \* observations of this request, the replayed ones included
  evidence,   \* evidence_by_id
  steps,      \* step_count
  searches,   \* retrieval_count
  hist,       \* observations stored when the run last paused
  invoked,    \* history: adapter invocations of the run, per tool
  denials     \* history: authorization errors the adapters raised

loopVars == <<approved, obs, evidence, steps, searches>>
history == <<invoked, denials>>
vars == <<visible, guided, phase, outcome, action, approved, attempt, sequence,
          obs, evidence, steps, searches, hist, invoked, denials>>

\* The identifiers of a sequence of observations and the chunks they name.
Numbered(s) == UNION {DOMAIN s[i].cites : i \in DOMAIN s}
Cites(s) ==
  [n \in Numbered(s) |->
     s[CHOOSE i \in DOMAIN s : n \in DOMAIN s[i].cites].cites[n]]
Replaying == Len(obs) < Len(hist)

Init ==
  /\ visible = Chunks
  /\ guided \in BOOLEAN
  /\ phase = "deciding" /\ outcome = "none"
  /\ action = NoAction /\ approved = NoAction /\ attempt = 0
  /\ sequence = 0 /\ obs = <<>> /\ evidence = <<>>
  /\ steps = 0 /\ searches = 0
  /\ hist = <<>>
  /\ invoked = [t \in TOOL_MANIFEST |-> 0] /\ denials = 0

\* The counter of invocations stops one past what a run may need.
CountInvocation(t) ==
  invoked' = [invoked EXCEPT ![t] = IF @ > MaxSteps * (1 + MaxRetries) THEN @ ELSE @ + 1]

\* The run returns, or raises out of the loop.
End(o) == phase' = "ended" /\ outcome' = o

-----------------------------------------------------------------------------
(* The loop.                                                               *)

\* The model asks for a tool the run may not call any more, or at all.
RefuseAction(a) ==
  /\ phase = "deciding"
  /\ \/ steps >= MaxSteps /\ End("LIMIT_REACHED")
     \/ /\ steps < MaxSteps /\ a.tool = "search" /\ searches > MaxRewrites
        /\ End("LIMIT_REACHED")
     \/ /\ steps < MaxSteps /\ a.tool \notin permitted_catalog
        /\ End("REFUSED")
  /\ UNCHANGED <<visible, guided, action, attempt, sequence, hist>>
  /\ UNCHANGED <<loopVars, history>>

MayCall(a) ==
  /\ phase = "deciding"
  /\ steps < MaxSteps
  /\ a.tool = "search" => searches <= MaxRewrites
  /\ a.tool \in permitted_catalog

\* Some tools pause every run, all tools pause a guided one.
MustPause(a) == a # approved /\ (guided \/ a.tool = "propose_memory")

\* Mutant: the snapshot takes whatever the search may return.
AnyFits(cites) == \E k \in TopK : Cardinality(DOMAIN cites) <= k

\* SafeObservationSnapshot has room for so many identifiers.
SnapshotFits(cites) == Cardinality(DOMAIN cites) <= MaxCites

\* The result of a calculator is the answer: it cites one identifier for
\* each input, and a calculation cites at least one.
FinalizeCalculation(cites) ==
  End(IF DOMAIN cites # {} THEN "COMPLETED" ELSE "TOOL_ERROR")

\* An observation that succeeded, live or replayed: the loop counts it,
\* makes its safe snapshot, files its evidence and goes on, unless the tool
\* is one whose result is the answer.
Observe(a, cites) ==
  /\ steps' = steps + 1
  /\ searches' = IF a.tool = "search" THEN searches + 1 ELSE searches
  /\ IF SnapshotFits(cites)
       THEN /\ obs' = Append(obs, [act |-> a, cites |-> cites])
            /\ evidence' = [n \in DOMAIN evidence \cup DOMAIN cites |->
                              IF n \in DOMAIN cites THEN cites[n] ELSE evidence[n]]
            /\ CASE a.tool \in {"search", "excerpt"} ->
                      phase' = "deciding" /\ UNCHANGED outcome
                 [] a.tool = "calculate" -> FinalizeCalculation(cites)
                 [] OTHER -> End("COMPLETED")
       ELSE End("EXECUTION_FAILED") /\ UNCHANGED <<obs, evidence>>

\* Mutant: a replayed step is not counted, as it calls no tool.
ReplayUncounted(a) ==
  LET o == hist[Len(obs) + 1]
  IN /\ MayCall(a) /\ Replaying
     /\ o.act = a
     /\ obs' = Append(obs, o)
     /\ evidence' = [n \in DOMAIN evidence \cup DOMAIN o.cites |->
                       IF n \in DOMAIN o.cites THEN o.cites[n] ELSE evidence[n]]
     /\ UNCHANGED <<visible, guided, phase, outcome, action, approved, attempt>>
     /\ UNCHANGED <<sequence, steps, searches, hist, history>>

\* A rebuilt run takes its stored observations in order while the model
\* asks for the same actions.
Replay(a) ==
  LET o == hist[Len(obs) + 1]
  IN /\ MayCall(a) /\ Replaying
     /\ IF o.act = a
          THEN Observe(a, o.cites)
          ELSE End("MISMATCH") /\ UNCHANGED <<obs, evidence, steps, searches>>
     /\ UNCHANGED <<visible, guided, action, approved, attempt, sequence, hist>>
     /\ UNCHANGED history

\* After the replay the model must ask for the approved action first.
Diverge(a) ==
  /\ MayCall(a) /\ ~Replaying
  /\ approved # NoAction /\ approved # a
  /\ End("MISMATCH")
  /\ UNCHANGED <<visible, guided, action, attempt, sequence, hist>>
  /\ UNCHANGED <<loopVars, history>>

\* The run stores its observations and waits for an approval of the action.
Pause(a) ==
  /\ MayCall(a) /\ ~Replaying
  /\ approved = NoAction /\ MustPause(a)
  /\ phase' = "paused" /\ action' = a /\ hist' = obs
  /\ UNCHANGED <<visible, guided, outcome, attempt, sequence>>
  /\ UNCHANGED <<loopVars, history>>

\* The gateway's own checks (name, shortlist, capability, input schema)
\* repeat the loop's, so the first attempt starts; an approval is spent.
Call(a) ==
  /\ MayCall(a) /\ ~Replaying /\ a.tool \in Registered
  /\ approved \in {NoAction, a} /\ ~MustPause(a)
  /\ phase' = "invoking" /\ action' = a /\ attempt' = 0 /\ approved' = NoAction
  /\ CountInvocation(a.tool)
  /\ UNCHANGED <<visible, guided, outcome, sequence, obs, evidence, steps, searches>>
  /\ UNCHANGED <<hist, denials>>

\* The model clarifies, refuses, breaks its plan or is unreachable, or the
\* run's time is up (all "UNANSWERED" here), or the finalizer answers from
\* the evidence.
Stop ==
  /\ phase = "deciding"
  /\ \/ End("UNANSWERED")
     \/ DOMAIN evidence # {} /\ End("COMPLETED")
  /\ UNCHANGED <<visible, guided, action, attempt, sequence, hist>>
  /\ UNCHANGED <<loopVars, history>>

-----------------------------------------------------------------------------
(* One attempt of the gateway, and what the loop makes of its observation. *)

\* AgentGatewayAdapter numbers the chunks of a result from its sequence.
Number(found) ==
  [n \in sequence + 1..sequence + Len(found) |-> found[n - sequence]]

\* A search ranks distinct chunks it can see.
SearchFound(k) ==
  {r \in UNION {[1..n -> visible] : n \in 0..k} :
     \A i, j \in DOMAIN r : r[i] = r[j] => i = j}
\* An excerpt is the chunk that was asked for.
ExcerptFound(c) == {<<v>> : v \in visible \cap {c}}
\* A calculator cites a chunk for each of its inputs; a chunk can hold several.
CalculationFound == UNION {[1..n -> visible] : n \in 1..MaxInputs}
\* The memory tools cite nothing; a proposal is not stored by its tool.
MemoryFound == {<<>>}

Found(a) ==
  CASE a.tool = "search" -> SearchFound(a.k)
    [] a.tool = "excerpt" -> ExcerptFound(a.chunk)
    [] a.tool = "calculate" -> CalculationFound
    [] OTHER -> MemoryFound

\* The relevant memories do not all have a scope of the result contract, so
\* building the result raises.
ContractFails(a, scopes) ==
  a.tool = "search_memory" /\ ~(scopes \subseteq MemoryToolScopes)

\* An attempt that does not succeed is the last one: its observation has no
\* evidence and ends the run.
Conclude(o) ==
  /\ End(o)
  /\ steps' = steps + 1
  /\ searches' = IF action.tool = "search" THEN searches + 1 ELSE searches
  /\ UNCHANGED <<visible, guided, action, approved, attempt, sequence, hist>>
  /\ UNCHANGED <<obs, evidence>>

\* The adapter returns; memories of any authorized scope may be relevant.
AttemptReturns ==
  /\ phase = "invoking"
  /\ \E scopes \in SUBSET Scopes, found \in Found(action) :
       /\ action.tool # "search_memory" => scopes = {}
       /\ \/ /\ ~ContractFails(action, scopes)
             /\ Observe(action, Number(found))
             /\ sequence' = sequence + Len(found)
             /\ UNCHANGED <<visible, guided, action, approved, attempt, hist>>
          \/ ContractFails(action, scopes) /\ Conclude("TOOL_ERROR")
  /\ UNCHANGED history

\* Mutant: a denial is retried like a timeout.
DenialRetried ==
  /\ phase = "invoking"
  /\ action.tool = "excerpt" /\ action.chunk \notin visible
  /\ attempt < MaxRetries
  /\ attempt' = attempt + 1 /\ denials' = denials + 1
  /\ CountInvocation(action.tool)
  /\ UNCHANGED <<visible, guided, phase, outcome, action, sequence, hist, loopVars>>

\* The chunk or the company is not there or not authorized: the two are not
\* told apart, and the answer is never asked for again.
AttemptDenied ==
  /\ phase = "invoking"
  /\ \/ action.tool = "excerpt" /\ action.chunk \notin visible
     \/ action.tool = "calculate"
  /\ denials' = denials + 1
  /\ Conclude("REFUSED")
  /\ UNCHANGED invoked

\* Mutant: the number of attempts is not bounded.
RetryUnbounded ==
  /\ attempt' = attempt + 1
  /\ CountInvocation(action.tool)
  /\ UNCHANGED <<visible, guided, phase, outcome, action, sequence, hist>>
  /\ UNCHANGED <<loopVars, denials>>

\* Mutant: the counter of attempts starts over instead of stopping.
RetryForever ==
  /\ attempt' = (attempt + 1) % (MaxRetries + 1)
  /\ CountInvocation(action.tool)
  /\ UNCHANGED <<visible, guided, phase, outcome, action, sequence, hist>>
  /\ UNCHANGED <<loopVars, denials>>

\* The attempt runs out of its time, or the embedding provider is down: one
\* more attempt, or the failure is final.
Retry ==
  /\ attempt < MaxRetries
  /\ attempt' = attempt + 1
  /\ CountInvocation(action.tool)
  /\ UNCHANGED <<visible, guided, phase, outcome, action, sequence, hist>>
  /\ UNCHANGED <<loopVars, denials>>

AttemptTransient ==
  /\ phase = "invoking"
  /\ \/ Retry
     \/ /\ attempt >= MaxRetries
        /\ \/ Conclude("TOOL_TIMEOUT")
           \/ action.tool = "search" /\ Conclude("TOOL_ERROR")
        /\ UNCHANGED history

\* A calculation that has no inputs, invalid ones or a zero denominator, a
\* result that breaks its contract, a database error: not transient.
AttemptFails ==
  /\ phase = "invoking"
  /\ Conclude("TOOL_ERROR")
  /\ UNCHANGED history

\* The run's own time is up, or the client is gone, while an adapter works:
\* the call is cancelled and no observation exists.
Abandon ==
  /\ phase = "invoking"
  /\ End("TOOL_TIMEOUT") \/ End("CANCELLED")
  /\ UNCHANGED <<visible, guided, action, attempt, sequence, hist>>
  /\ UNCHANGED <<loopVars, history>>

-----------------------------------------------------------------------------
(* The approval, and the documents meanwhile.                              *)

\* Every stored identifier is read again; a chunk that is gone ends the run.
Rebuildable == \A i \in DOMAIN hist : \A n \in DOMAIN hist[i].cites :
                 hist[i].cites[n] \in visible

\* The identifiers the stored observations hold.
StoredEvidence(s) == Cardinality(Numbered(s))

\* Mutant: the new adapter numbers evidence from the start.
ApproveFresh ==
  /\ phase = "paused" /\ Rebuildable
  /\ phase' = "deciding" /\ sequence' = 0 /\ approved' = action
  /\ obs' = <<>> /\ evidence' = <<>> /\ steps' = 0 /\ searches' = 0
  /\ UNCHANGED <<visible, guided, outcome, action, attempt, hist, invoked, denials>>

\* The approved run starts over: a new loop and a new adapter, whose
\* sequence is set past the stored identifiers.
Approve ==
  /\ phase = "paused"
  /\ IF ~Rebuildable
       THEN End("RESUME_FAILED") /\ UNCHANGED <<sequence, loopVars>>
       ELSE IF StoredEvidence(hist) > MaxSequence
         THEN End("EXECUTION_FAILED") /\ UNCHANGED <<sequence, loopVars>>
         ELSE /\ phase' = "deciding" /\ outcome' = outcome
              /\ sequence' = StoredEvidence(hist)
              /\ approved' = action
              /\ obs' = <<>> /\ evidence' = <<>> /\ steps' = 0 /\ searches' = 0
  /\ UNCHANGED <<visible, guided, action, attempt, hist, invoked, denials>>

\* Rejected, stopped, expired or changed: AgentRuns has the details.
Decline ==
  /\ phase = "paused" /\ End("CANCELLED")
  /\ UNCHANGED <<visible, guided, action, attempt, sequence, hist>>
  /\ UNCHANGED <<loopVars, history>>

\* A document is published, replaced or deleted (DocumentLifecycle).
Publish(c) ==
  /\ phase # "ended"
  /\ visible' = IF c \in visible THEN visible \ {c} ELSE visible \cup {c}
  /\ UNCHANGED <<guided, phase, outcome, action, attempt, sequence, hist>>
  /\ UNCHANGED <<loopVars, history>>

LoopStep ==
  \/ \E a \in Actions :
       RefuseAction(a) \/ Replay(a) \/ Diverge(a) \/ Pause(a) \/ Call(a)
  \/ Stop \/ AttemptReturns \/ AttemptDenied \/ AttemptTransient
  \/ AttemptFails \/ Abandon

Next ==
  \/ LoopStep
  \/ Approve
  \/ Decline
  \/ \E c \in Chunks : Publish(c)

Spec == Init /\ [][Next]_vars

\* A request keeps running: every attempt has a timeout (agent_tool_timeout_seconds)
\* and the whole loop has one (agent_max_duration_seconds).
FairSpec == Spec /\ WF_vars(LoopStep)

-----------------------------------------------------------------------------
(* Properties.                                                             *)

\* Every variable has its type, and only a run that ended has an outcome.
TypeOK ==
  /\ visible \subseteq Chunks /\ guided \in BOOLEAN
  /\ phase \in {"deciding", "invoking", "paused", "ended"}
  /\ outcome \in Outcomes /\ (outcome = "none" <=> phase # "ended")
  /\ {action, approved} \subseteq Actions \cup {NoAction}
  /\ attempt \in 0..MaxRetries /\ sequence \in Nat
  /\ DOMAIN evidence \subseteq Nat
  /\ \A n \in DOMAIN evidence : evidence[n] \in Chunks
  /\ \A s \in {obs, hist} : \A i \in DOMAIN s :
       /\ s[i].act \in Actions
       /\ DOMAIN s[i].cites \subseteq Nat
       /\ \A n \in DOMAIN s[i].cites : s[i].cites[n] \in Chunks
  /\ steps \in 0..MaxSteps /\ searches \in 0..MaxRewrites + 1
  /\ invoked \in [TOOL_MANIFEST -> Nat] /\ denials \in Nat

Total(f) == f["search"] + f["excerpt"] + f["calculate"]
              + f["search_memory"] + f["propose_memory"]

\* The adapters are invoked at most four times plus one retry each in a run,
\* and search at most twice plus its retries, however often the run was
\* paused and rebuilt: the rebuilt loop counts the steps it replays.
BudgetsKept ==
  /\ Total(invoked) <= MaxSteps * (1 + MaxRetries)
  /\ invoked["search"] <= (1 + MaxRewrites) * (1 + MaxRetries)

\* An adapter that raised an authorization error is the last one the run
\* invoked: the run is refused, whatever attempts were left.
DenialIsFinal == denials > 0 => denials = 1 /\ phase = "ended" /\ outcome = "REFUSED"

\* A run that waits for an approval can be rebuilt: the limits of a stored
\* observation, of the steps and of the evidence sequence, which three files
\* set, fit together, and the identifiers it stored are the first ones.
PausedFits ==
  phase = "paused" =>
    /\ StoredEvidence(hist) <= MaxSequence
    /\ Numbered(hist) = 1..StoredEvidence(hist)

\* The evidence the loop cites from is what the stored and the new
\* observations say: a replayed identifier is never taken by a later call.
Book == INSTANCE EvidenceBook WITH
  book <- IF Replaying THEN Cites(hist) ELSE evidence,
  open <- phase # "ended"
BookRefined == Book!Spec

\* A request always comes to an end: whatever its tools do, the run is paused
\* or over.
RunSettles == phase \in {"deciding", "invoking"} ~> phase \in {"paused", "ended"}

\* A search within the limits its schema offers is an observation the model
\* reads, as docs/architecture.md says of every call: it is never what breaks
\* the run.
SearchObserved ==
  ~(phase = "ended" /\ action.tool = "search" /\ outcome = "EXECUTION_FAILED")

\* A memory search whose memories were read answers with them, as docs/PRD.md
\* says: memories of an authorized department included.
MemorySearchAnswers ==
  [][phase = "invoking" /\ action.tool = "search_memory" /\ AttemptReturns
       => outcome' = "COMPLETED"]_vars
=============================================================================
