--------------------------- MODULE EvaluationRuns ---------------------------
(***************************************************************************)
(* The release evaluation: administrators start runs of the checked-in     *)
(* case manifest, at most one at a time, every case result is stored as    *)
(* soon as it is known, and the scores of the stored results decide        *)
(* whether the release is blocked (evaluations/service.py,                 *)
(* evaluations/repository.py, evaluations/runner.py,                       *)
(* evaluations/scorers.py, evaluations/judge.py).                          *)
(*                                                                         *)
(* The boundaries a case exercises (policy, search, memory, calculation,   *)
(* chat) are under test here, so they may answer anything, a forbidden     *)
(* document included.                                                      *)
(***************************************************************************)
EXTENDS Integers, FiniteSets, Sequences, SequencesExt, FiniteSetsExt

CONSTANTS
  Requests,      \* POST /api/admin/evaluations/run, one run each at most
  Documents,     \* identifiers of the synthetic documents
  Manifest,      \* the cases, a sequence of Case
  JudgeLimits,   \* values of max_judged_cases in requests; 0 is no judge
  MaxCitations,  \* citations of an answer
  Nobody

Operations ==
  {"retrieval", "grounded_chat", "denial", "memory", "calculation", "abstention"}
Case ==
  [operation : Operations, expected : SUBSET Documents,
   forbidden : SUBSET Documents, citation_required : BOOLEAN]

ASSUME ManifestAssumption ==
  /\ IsFiniteSet(Documents)
  /\ Manifest \in Seq(Case) /\ Manifest # <<>>
  /\ JudgeLimits \subseteq {0, 1, 2}
  /\ MaxCitations \in Nat
  /\ Nobody \notin Requests

Active == {"PENDING", "RUNNING"}
RunStatus == Active \cup {"PASSED", "FAILED", "SECURITY_FAILED", "ERROR"}

\* A stored case result. "leak" is metrics.authorization_leak; "met" and
\* "judged" are history: the case's own expectation was met, the judge was
\* asked.
SafeCaseResult ==
  [status : {"PASS", "FAIL", "ERROR"}, actual : SUBSET Documents,
   citation_count : Nat, supported_citations : Nat,
   leak : BOOLEAN, met : BOOLEAN, judged : BOOLEAN]

Blank ==
  [status |-> "ERROR", actual |-> {}, citation_count |-> 0,
   supported_citations |-> 0, leak |-> FALSE, met |-> FALSE, judged |-> FALSE]
NoRow == [status |-> "none", results |-> <<>>]

VARIABLES
  rows,     \* evaluation_runs with their results, by the request that made them
  phase,    \* where each request is
  lock,     \* holder of the advisory lock, Nobody when free
  judge,    \* max_judged_cases of each request
  left,     \* calls the judge of each request has left
  current   \* the case result each request is about to store

vars == <<rows, phase, lock, judge, left, current>>

Phases ==
  {"idle", "waiting", "checking", "creating", "created", "running", "storing",
   "done", "lost"}

\* The session of a request and, inside a transaction, its locks are alive.
Live(r) == phase[r] \notin {"idle", "done", "lost"}

Init ==
  /\ rows = [r \in Requests |-> NoRow]
  /\ phase = [r \in Requests |-> "idle"]
  /\ lock = Nobody
  /\ judge \in [Requests -> JudgeLimits]
  /\ left = [r \in Requests |-> 0]
  /\ current = [r \in Requests |-> Blank]

Goto(r, p) == phase' = [phase EXCEPT ![r] = p]
Release(r) == lock' = IF lock = r THEN Nobody ELSE lock

-----------------------------------------------------------------------------
(* Starting a run: the check and the insert are one transaction under the  *)
(* advisory lock, which the commit, or the end of the session, releases.   *)

run_evaluation(r) ==
  /\ phase[r] = "idle"
  /\ Goto(r, "waiting")
  /\ UNCHANGED <<rows, lock, judge, left, current>>

AcquireUnlocked(r) ==
  /\ phase[r] = "waiting"
  /\ Goto(r, "checking")
  /\ UNCHANGED <<rows, lock, judge, left, current>>

AcquireLock(r) ==
  /\ phase[r] = "waiting"
  /\ lock = Nobody
  /\ lock' = r
  /\ Goto(r, "checking")
  /\ UNCHANGED <<rows, judge, left, current>>

ActiveRuns == {q \in Requests : rows[q].status \in Active}

\* 409 evaluation_running
AlreadyRunning(r) ==
  /\ phase[r] = "checking"
  /\ ActiveRuns # {}
  /\ Release(r)
  /\ Goto(r, "done")
  /\ UNCHANGED <<rows, judge, left, current>>

NoneActive(r) ==
  /\ phase[r] = "checking"
  /\ ActiveRuns = {}
  /\ Goto(r, "creating")
  /\ UNCHANGED <<rows, lock, judge, left, current>>

create_run_guarded(r) ==
  /\ phase[r] = "creating"
  /\ rows' = [rows EXCEPT ![r].status = "RUNNING"]
  /\ Release(r)
  /\ Goto(r, "created")
  /\ UNCHANGED <<judge, left, current>>

mark_run_error_in_memory(r) ==
  /\ Goto(r, "done")
  /\ UNCHANGED rows

mark_run_error(r) ==
  /\ rows' = [rows EXCEPT ![r].status = "ERROR"]
  /\ Goto(r, "done")

\* 503 judge_unavailable: no key is configured.
JudgeUnavailable(r) ==
  /\ phase[r] = "created"
  /\ judge[r] > 0
  /\ mark_run_error(r)
  /\ UNCHANGED <<lock, judge, left, current>>

create_optional_judge(r) ==
  /\ phase[r] = "created"
  /\ left' = [left EXCEPT ![r] = judge[r]]
  /\ Goto(r, "running")
  /\ UNCHANGED <<rows, lock, judge, current>>

-----------------------------------------------------------------------------
(* The results a case can have. An APIError or a RuntimeError of the       *)
(* boundary makes the case an ERROR; what was already assigned stays.      *)

Verdict(ok) == IF ok THEN "PASS" ELSE "FAIL"

\* Denials, memory isolation and abstention report no document.
Decided(ok) == [Blank EXCEPT !.status = Verdict(ok), !.met = ok]
PlainResults == {Decided(ok) : ok \in BOOLEAN}

\* A refused calculation passes where a refusal is expected; a computed one
\* is exact or not, and names the documents of its inputs.
Computed(documents, exact) ==
  [Blank EXCEPT !.status = Verdict(exact), !.met = exact, !.actual = documents,
     !.citation_count = Cardinality(documents),
     !.supported_citations = Cardinality(documents)]

\* A case that expects a refusal has no value to compare with.
RefusalExpected(c) == c.expected = {}

CalculationResults(c) ==
  {Decided(RefusalExpected(c))}
  \cup {Computed(documents, FALSE) : documents \in SUBSET Documents}
  \cup {Computed(documents, ~RefusalExpected(c)) : documents \in SUBSET Documents}

\* Not authorized for what the case expects to find.
Unauthorized == [Blank EXCEPT !.status = "FAIL"]

Passed(c, found, cited) ==
  c.expected \subseteq found /\ (found \cup cited) \cap c.forbidden = {}

Searched(c, found) ==
  [status |-> Verdict(Passed(c, found, {})), met |-> Passed(c, found, {}),
   actual |-> found, citation_count |-> Cardinality(found),
   supported_citations |-> Cardinality(found),
   leak |-> found \cap c.forbidden # {}, judged |-> FALSE]

RetrievalResults(c) ==
  {Unauthorized} \cup {Searched(c, found) : found \in SUBSET Documents}

\* Search for the recall score, then a whole chat turn. An answer is
\* grounded when it has citations, one per chunk; the citations it is
\* credited with are counted as documents.
Answered(c, found, citations) ==
  LET cited == ToSet(citations)
      ok == citations # <<>> /\ Passed(c, found, cited)
  IN [status |-> Verdict(ok), met |-> ok, actual |-> found,
      citation_count |-> Len(citations),
      supported_citations |-> Cardinality(cited),
      leak |-> (found \cup cited) \cap c.forbidden # {}, judged |-> FALSE]

\* The judge is asked about a case that passed while it has calls left; a
\* failing judge is a RuntimeError of the case.
Judged(result) ==
  {[result EXCEPT !.judged = TRUE],
   [result EXCEPT !.judged = TRUE, !.status = "ERROR"]}

GroundedResults(c, capacity) ==
  LET answers == {Answered(c, found, citations) :
                    found \in SUBSET Documents,
                    citations \in BoundedSeq(Documents, MaxCitations)}
      asked == {a \in answers : a.status = "PASS" /\ capacity}
  IN {Unauthorized} \cup (answers \ asked)
     \cup (UNION {Judged(a) : a \in asked})
     \cup {[Blank EXCEPT !.actual = found] : found \in SUBSET Documents}

CaseResults(c, capacity) ==
  {Blank} \cup
  CASE c.operation = "retrieval" -> RetrievalResults(c)
    [] c.operation = "grounded_chat" -> GroundedResults(c, capacity)
    [] c.operation = "calculation" -> CalculationResults(c)
    [] OTHER -> PlainResults

-----------------------------------------------------------------------------
NextCase(r) == Len(rows[r].results) + 1
CasesLeft(r) == NextCase(r) <= Len(Manifest)

JudgeCallUncounted(r, result) == left[r]
JudgeCallAlways(r, result) == left[r] - 1
JudgeCall(r, result) == left[r] - (IF result.judged THEN 1 ELSE 0)

run_case(r) ==
  /\ phase[r] = "running"
  /\ CasesLeft(r)
  /\ \E result \in CaseResults(Manifest[NextCase(r)], left[r] > 0) :
       /\ current' = [current EXCEPT ![r] = result]
       /\ left' = [left EXCEPT ![r] = JudgeCall(r, result)]
  /\ Goto(r, "storing")
  /\ UNCHANGED <<rows, lock, judge>>

persist_case_result(r) ==
  /\ phase[r] = "storing"
  /\ rows' = [rows EXCEPT ![r].results = Append(@, current[r])]
  /\ current' = [current EXCEPT ![r] = Blank]
  /\ Goto(r, "running")
  /\ UNCHANGED <<lock, judge, left>>

\* Any other exception of a case: RUNNER_FAILED_SAFELY.
RunnerFails(r) ==
  /\ phase[r] = "running"
  /\ CasesLeft(r)
  /\ mark_run_error(r)
  /\ UNCHANGED <<lock, judge, left, current>>

\* A failed statement or flush leaves the session without a usable
\* transaction, and nothing rolls it back: marking the run fails with it.
DatabaseFails(r) ==
  /\ phase[r] \in {"running", "storing"}
  /\ Goto(r, "lost")
  /\ current' = [current EXCEPT ![r] = Blank]
  /\ UNCHANGED <<rows, lock, judge, left>>

\* The worker of the request stops; the database ends its transaction.
Crash(r) ==
  /\ Live(r)
  /\ Goto(r, "lost")
  /\ Release(r)
  /\ current' = [current EXCEPT ![r] = Blank]
  /\ UNCHANGED <<rows, judge, left>>

-----------------------------------------------------------------------------
(* Scores, over the results of a complete run.                             *)

\* ratio(n, total) >= pct / 100, where a rate of nothing is 1.0
AtLeastOfSome(pct, n, total) == total # 0 /\ 100 * n >= pct * total
AtLeast(pct, n, total) == total = 0 \/ 100 * n >= pct * total

Factual == {i \in DOMAIN Manifest : Manifest[i].citation_required}
PassRate(pct, operation, results) ==
  LET selected == {i \in DOMAIN Manifest : Manifest[i].operation = operation}
  IN AtLeast(pct, Cardinality({i \in selected : results[i].status = "PASS"}),
             Cardinality(selected))

CitationPresence(results) ==
  \A i \in Factual : results[i].citation_count > 0

\* What the recall and the citation support are ratios of.
Wanted ==
  MapThenSumSet(LAMBDA i : Cardinality(Manifest[i].expected), DOMAIN Manifest)
Retrieved(results) ==
  MapThenSumSet(LAMBDA i : Cardinality(Manifest[i].expected \cap results[i].actual),
                DOMAIN Manifest)
Emitted(results) ==
  MapThenSumSet(LAMBDA i : results[i].citation_count, Factual)
Supported(results) ==
  MapThenSumSet(LAMBDA i : results[i].supported_citations, Factual)

Recall(results) == AtLeast(90, Retrieved(results), Wanted)
CitationSupport(results) == AtLeast(90, Supported(results), Emitted(results))

\* The two denial gates are taken together.
release_gates(results) ==
  /\ \A o \in {"denial", "memory", "calculation"} : PassRate(100, o, results)
  /\ PassRate(90, "abstention", results)
  /\ CitationPresence(results)
  /\ Recall(results)
  /\ CitationSupport(results)

has_authorization_leak(results) ==
  \E i \in DOMAIN results : results[i].actual \cap Manifest[i].forbidden # {}

CaseError(results) == \E i \in DOMAIN results : results[i].status = "ERROR"
Released(results) ==
  release_gates(results) /\ \A i \in DOMAIN results : results[i].status = "PASS"

\* A leak overrides an error, and both override the scores.
Outcome(results) ==
  CASE has_authorization_leak(results) -> "SECURITY_FAILED"
    [] ~has_authorization_leak(results) /\ CaseError(results) -> "ERROR"
    [] OTHER -> IF Released(results) THEN "PASSED" ELSE "FAILED"

finish_run(r) ==
  /\ phase[r] = "running"
  /\ ~CasesLeft(r)
  /\ rows' = [rows EXCEPT ![r].status = Outcome(rows[r].results)]
  /\ Goto(r, "done")
  /\ UNCHANGED <<lock, judge, left, current>>

-----------------------------------------------------------------------------
\* The steps of a request that its coroutine takes by itself.
execute(r) ==
  \/ AcquireLock(r) \/ AlreadyRunning(r) \/ NoneActive(r)
  \/ create_run_guarded(r) \/ JudgeUnavailable(r) \/ create_optional_judge(r)
  \/ run_case(r) \/ persist_case_result(r) \/ RunnerFails(r) \/ finish_run(r)

Next ==
  \E r \in Requests :
    run_evaluation(r) \/ execute(r) \/ DatabaseFails(r) \/ Crash(r)

Spec == Init /\ [][Next]_vars

\* Every await of a request returns: searches, the provider and the judge
\* have timeouts, and the lock is held for one short transaction.
FairSpec == Spec /\ \A r \in Requests : WF_vars(execute(r))
-----------------------------------------------------------------------------
(* Properties.                                                             *)

TypeOK ==
  /\ rows \in [Requests -> [status : RunStatus \cup {"none"},
                            results : Seq(SafeCaseResult)]]
  /\ \A r \in Requests : Len(rows[r].results) <= Len(Manifest)
  /\ phase \in [Requests -> Phases]
  /\ lock \in Requests \cup {Nobody}
  /\ judge \in [Requests -> JudgeLimits]
  /\ left \in [Requests -> {0, 1, 2}]
  /\ current \in [Requests -> SafeCaseResult]

\* However starts, checks and crashes interleave, at most one stored run is
\* active: the lock covers the check and the insert up to the commit.
OneActive == Cardinality(ActiveRuns) <= 1

Complete(r) == Len(rows[r].results) = Len(Manifest)
Settled(r) == rows[r].status \notin Active \cup {"none"}

\* The rates of a run in which every case passed, counted out: 100% of the
\* factual answers are cited, 90% of the wanted documents retrieved and 90%
\* of the citations supported. A rate of nothing blocks nothing.
RatesReached(results) ==
  /\ \A i \in Factual : results[i].citation_count > 0
  /\ Wanted # 0 => 100 * Retrieved(results) >= 90 * Wanted
  /\ Emitted(results) # 0 => 100 * Supported(results) >= 90 * Emitted(results)

\* A search of some case found a document the case forbids.
ForbiddenFound(results) ==
  \E i \in DOMAIN results : results[i].actual \cap Manifest[i].forbidden # {}

AllPass(results) == \A i \in DOMAIN results : results[i].status = "PASS"

\* A run is reported PASSED only with a result for every case, each of them
\* PASS, no forbidden document found or cited and every rate reached. Found
\* forbidden, a document makes a complete run SECURITY_FAILED whatever else
\* happened, an error of the same case included; a forbidden citation that no
\* search found need not (LeakFailsRun). And what has every case PASS,
\* nothing forbidden and every rate reached is not blocked: a rate exactly at
\* its threshold, or with nothing to count, passes its gate.
VerdictSound ==
  \A r \in Requests :
    LET results == rows[r].results IN
    /\ rows[r].status = "PASSED" =>
         /\ Complete(r)
         /\ AllPass(results)
         /\ \A i \in DOMAIN results : ~results[i].leak
         /\ ~ForbiddenFound(results)
         /\ RatesReached(results)
    /\ Settled(r) /\ Complete(r) /\ ForbiddenFound(results) =>
         rows[r].status = "SECURITY_FAILED"
    /\ Settled(r) /\ Complete(r) /\ AllPass(results)
         /\ ~ForbiddenFound(results) /\ RatesReached(results) =>
         rows[r].status = "PASSED"

Asked(results) == {i \in DOMAIN results : results[i].judged}

\* The judge sees only answers that met their case and leak nothing, and
\* a run asks it no more often than its request allows, failed calls and
\* the call of a case that is not stored yet included.
JudgeBounded ==
  \A r \in Requests :
    LET results == Append(rows[r].results, current[r])
    IN /\ Cardinality(Asked(results)) <= judge[r]
       /\ \A i \in Asked(results) : results[i].met /\ ~results[i].leak

\* Every started evaluation is answered with its run out of the active
\* states, unless its worker or its database session is lost.
EvaluationEnds ==
  \A r \in Requests :
    phase[r] = "waiting" ~>
      phase[r] = "lost" \/ (phase[r] = "done" /\ rows[r].status \notin Active)

-----------------------------------------------------------------------------
(* Statements of the documentation that the code does not keep.            *)

\* "the durable active row rejects duplicates for the rest of execution":
\* an active row belongs to a request that is executing it.
ActiveIsExecuting ==
  \A r \in Requests : rows[r].status \in Active => Live(r)

\* "A forbidden identifier in any result marks the complete run
\* SECURITY_FAILED": so does a case that recorded an authorization leak.
LeakFailsRun ==
  \A r \in Requests :
    Settled(r) /\ Complete(r)
      /\ (\E i \in DOMAIN rows[r].results : rows[r].results[i].leak)
      => rows[r].status = "SECURITY_FAILED"

\* The judge "never influences authorization or deterministic release
\* policy": a complete run that met every case and every gate passes.
JudgeAdvisory ==
  \A r \in Requests :
    LET results == rows[r].results IN
    Settled(r) /\ Complete(r) /\ release_gates(results)
      /\ (\A i \in DOMAIN results : results[i].met)
      => rows[r].status \in {"PASSED", "SECURITY_FAILED"}

\* "Citation support precision is validator-confirmed citations divided by
\* all emitted citations": chat emits only confirmed citations, so a
\* complete run in which every case passed has the full precision.
ConfirmedCitationsCount ==
  \A r \in Requests :
    LET results == rows[r].results IN
    Complete(r) /\ (\A i \in DOMAIN results : results[i].status = "PASS")
      => CitationSupport(results)
=============================================================================
