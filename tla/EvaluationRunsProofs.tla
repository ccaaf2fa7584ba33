------------------------ MODULE EvaluationRunsProofs ------------------------
(***************************************************************************)
(* Machine-checked proofs about EvaluationRuns, for any manifest, any      *)
(* documents, any number of competing requests and any crashes.            *)
(***************************************************************************)
EXTENDS EvaluationRuns, FiniteSetTheorems, SequenceTheorems, TLAPS

-----------------------------------------------------------------------------
(***************************************************************************)
(* What a case can report.                                                 *)
(***************************************************************************)

\* The facts about a case result that outlive the case: it has the stored
\* shape, and a case that passed or was judged has met its expectation and
\* leaked nothing (runner.py:274, 305).
Honest(result) ==
  /\ result \in SafeCaseResult
  /\ result.status = "PASS" \/ result.judged => result.met /\ ~result.leak

\* Verdicts are case statuses.
LEMMA VerdictType ==
  ASSUME NEW ok \in BOOLEAN
  PROVE  /\ Verdict(ok) \in {"PASS", "FAIL"}
         /\ Verdict(ok) = "PASS" => ok
BY DEF Verdict

\* The result every case starts from is honest.
LEMMA BlankHonest == Honest(Blank) /\ ~Blank.judged
BY DEF Honest, Blank, SafeCaseResult

\* A result put together from its fields.
LEMMA RecordHonest ==
  ASSUME NEW st \in {"PASS", "FAIL", "ERROR"}, NEW docs \in SUBSET Documents,
         NEW n \in Nat, NEW k \in Nat, NEW leaked \in BOOLEAN,
         NEW ok \in BOOLEAN, st = "PASS" => ok /\ ~leaked
  PROVE  LET x == [status |-> st, met |-> ok, actual |-> docs,
                   citation_count |-> n, supported_citations |-> k,
                   leak |-> leaked, judged |-> FALSE]
         IN Honest(x) /\ ~x.judged
<1> DEFINE x == [status |-> st, met |-> ok, actual |-> docs,
                 citation_count |-> n, supported_citations |-> k,
                 leak |-> leaked, judged |-> FALSE]
<1>1. x \in SafeCaseResult
  BY DEF SafeCaseResult
<1>2. x.status = st /\ x.leak = leaked /\ x.met = ok /\ ~x.judged
  OBVIOUS
<1> QED
  BY <1>1, <1>2, Zenon DEF Honest

\* Sets of documents can be counted.
LEMMA DocumentCount ==
  ASSUME NEW docs \in SUBSET Documents
  PROVE  Cardinality(docs) \in Nat
<1>1. IsFiniteSet(docs)
  BY ManifestAssumption, FS_Subset
<1> QED
  BY <1>1, FS_CardinalityType

\* Citations are a sequence of documents.
LEMMA CitationsType ==
  ASSUME NEW citations \in BoundedSeq(Documents, MaxCitations)
  PROVE  ToSet(citations) \in SUBSET Documents /\ Len(citations) \in Nat
<1>1. PICK m \in 0..MaxCitations : citations \in [1..m -> Documents]
  BY DEF BoundedSeq, SeqOf
<1>2. citations \in Seq(Documents) /\ Len(citations) = m
  BY <1>1, ManifestAssumption
<1> QED
  BY <1>1, <1>2 DEF ToSet

\* Denials, memory and abstention cases, and refused calculations.
LEMMA DecidedHonest ==
  ASSUME NEW ok \in BOOLEAN
  PROVE  Honest(Decided(ok)) /\ ~Decided(ok).judged
BY VerdictType DEF Decided, Honest, Blank, SafeCaseResult

\* Calculations never record a leak of their own.
LEMMA CalculationHonest ==
  ASSUME NEW c \in Case, NEW x \in CalculationResults(c)
  PROVE  Honest(x) /\ ~x.judged
<1> DEFINE refusal == RefusalExpected(c)
           computable == ~refusal
<1>0. refusal \in BOOLEAN /\ computable \in BOOLEAN
  BY DEF RefusalExpected
<1>1. \/ x = Decided(refusal)
      \/ \E docs \in SUBSET Documents :
           x = Computed(docs, FALSE) \/ x = Computed(docs, computable)
  BY Zenon DEF CalculationResults
<1> HIDE DEF refusal, computable
<1>2. CASE x = Decided(refusal)
  BY <1>0, <1>2, DecidedHonest
<1>3. ASSUME NEW docs \in SUBSET Documents, NEW exact \in BOOLEAN,
             x = Computed(docs, exact)
      PROVE  Honest(x) /\ ~x.judged
  <2>1. Cardinality(docs) \in Nat
    BY DocumentCount
  <2> QED
    BY <1>3, <2>1, VerdictType DEF Computed, Honest, Blank, SafeCaseResult
<1> QED
  BY <1>0, <1>1, <1>2, <1>3, Zenon

\* A retrieval that found a forbidden document did not pass.
LEMMA RetrievalHonest ==
  ASSUME NEW c \in Case, NEW x \in RetrievalResults(c)
  PROVE  Honest(x) /\ ~x.judged
<1>1. x = Unauthorized \/ \E found \in SUBSET Documents : x = Searched(c, found)
  BY DEF RetrievalResults
<1>2. CASE x = Unauthorized
  BY <1>2 DEF Unauthorized, Honest, Blank, SafeCaseResult
<1>3. ASSUME NEW found \in SUBSET Documents, x = Searched(c, found)
      PROVE  Honest(x) /\ ~x.judged
  <2>1. Cardinality(found) \in Nat
    BY DocumentCount
  <2> DEFINE ok == Passed(c, found, {})
             leaked == found \cap c.forbidden # {}
  <2>2. ok \in BOOLEAN /\ leaked \in BOOLEAN /\ (ok => ~leaked)
    BY DEF Passed
  <2>3. x = [status |-> Verdict(ok), met |-> ok, actual |-> found,
             citation_count |-> Cardinality(found),
             supported_citations |-> Cardinality(found),
             leak |-> leaked, judged |-> FALSE]
    BY <1>3 DEF Searched
  <2> HIDE DEF ok, leaked
  <2>4. Verdict(ok) \in {"PASS", "FAIL", "ERROR"} /\ (Verdict(ok) = "PASS" => ok /\ ~leaked)
    BY <2>2, VerdictType
  <2> QED
    BY <2>1, <2>2, <2>3, <2>4, RecordHonest, Zenon
<1> QED
  BY <1>1, <1>2, <1>3

\* An answer that cites, or a search that found, a forbidden document did
\* not pass.
LEMMA AnsweredHonest ==
  ASSUME NEW c \in Case, NEW found \in SUBSET Documents,
         NEW citations \in BoundedSeq(Documents, MaxCitations)
  PROVE  Honest(Answered(c, found, citations))
         /\ ~Answered(c, found, citations).judged
<1> DEFINE cited == ToSet(citations)
           ok == citations # <<>> /\ Passed(c, found, cited)
<1>1. cited \in SUBSET Documents /\ Len(citations) \in Nat
  BY CitationsType
<1>2. Cardinality(cited) \in Nat
  BY <1>1, DocumentCount
<1> DEFINE leaked == (found \cup cited) \cap c.forbidden # {}
<1>3. ok \in BOOLEAN /\ leaked \in BOOLEAN /\ (ok => ~leaked)
  BY DEF Passed
<1> DEFINE x == Answered(c, found, citations)
<1>4. x = [status |-> Verdict(ok), met |-> ok, actual |-> found,
           citation_count |-> Len(citations),
           supported_citations |-> Cardinality(cited),
           leak |-> leaked, judged |-> FALSE]
  BY DEF Answered
<1> HIDE DEF cited, ok, leaked, x
<1>5. Verdict(ok) \in {"PASS", "FAIL", "ERROR"} /\ (Verdict(ok) = "PASS" => ok /\ ~leaked)
  BY <1>3, VerdictType
<1>6. Honest(x) /\ ~x.judged
  BY <1>1, <1>2, <1>3, <1>4, <1>5, RecordHonest, Zenon
<1> QED
  BY <1>6 DEF x

\* The judge is asked only while it has calls left.
LEMMA GroundedHonest ==
  ASSUME NEW c \in Case, NEW capacity \in BOOLEAN,
         NEW x \in GroundedResults(c, capacity)
  PROVE  Honest(x) /\ (x.judged => capacity)
<1> DEFINE answers == {Answered(c, found, citations) :
                         found \in SUBSET Documents,
                         citations \in BoundedSeq(Documents, MaxCitations)}
           asked == {a \in answers : a.status = "PASS" /\ capacity}
<1>1. \/ x = Unauthorized
      \/ x \in answers
      \/ \E a \in asked : x \in Judged(a)
      \/ \E found \in SUBSET Documents : x = [Blank EXCEPT !.actual = found]
  BY DEF GroundedResults
<1>2. ASSUME NEW a \in answers PROVE Honest(a) /\ ~a.judged
  BY AnsweredHonest
<1> HIDE DEF answers
<1>3. CASE x = Unauthorized
  BY <1>3 DEF Unauthorized, Honest, Blank, SafeCaseResult
<1>4. ASSUME NEW a \in asked, x \in Judged(a)
      PROVE  Honest(x) /\ (x.judged => capacity)
  BY <1>2, <1>4 DEF Judged, Honest, SafeCaseResult
<1>5. ASSUME NEW found \in SUBSET Documents, x = [Blank EXCEPT !.actual = found]
      PROVE  Honest(x) /\ (x.judged => capacity)
  BY <1>5 DEF Honest, Blank, SafeCaseResult
<1> QED
  BY <1>1, <1>2, <1>3, <1>4, <1>5

\* Every result a case can have.
LEMMA CaseHonest ==
  ASSUME NEW c \in Case, NEW capacity \in BOOLEAN,
         NEW x \in CaseResults(c, capacity)
  PROVE  Honest(x) /\ (x.judged => capacity)
<1>1. \/ x = Blank
      \/ c.operation = "retrieval" /\ x \in RetrievalResults(c)
      \/ c.operation = "grounded_chat" /\ x \in GroundedResults(c, capacity)
      \/ c.operation = "calculation" /\ x \in CalculationResults(c)
      \/ x \in PlainResults
  BY Zenon DEF CaseResults
<1> QED
  BY <1>1, BlankHonest, RetrievalHonest, GroundedHonest, CalculationHonest,
     DecidedHonest DEF PlainResults

-----------------------------------------------------------------------------
(***************************************************************************)
(* At most one active run.                                                 *)
(***************************************************************************)

\* What OneActive rests on: a request between the check and the commit
\* holds the lock, and none is active while it inserts.
Guarded ==
  /\ \A r \in Requests : phase[r] \in {"checking", "creating"} => lock = r
  /\ \A r \in Requests : phase[r] = "creating" => ActiveRuns = {}
  /\ \A q, r \in ActiveRuns : q = r

\* Where a request is determines what its row can be.
Lifecycle ==
  \A r \in Requests :
    /\ phase[r] \in {"idle", "waiting", "checking", "creating"} => rows[r] = NoRow
    /\ phase[r] = "created" => rows[r].results = <<>>
    /\ phase[r] \in {"created", "running", "storing"} => rows[r].status = "RUNNING"
    /\ phase[r] = "storing" => CasesLeft(r)

\* Results are honest from the case to the row.
ResultsHonest ==
  \A r \in Requests :
    /\ Honest(current[r])
    /\ \A i \in DOMAIN rows[r].results : Honest(rows[r].results[i])

\* The verdict of one row.
RowSound(row) ==
  LET complete == Len(row.results) = Len(Manifest)
      settled == row.status \notin Active \cup {"none"}
  IN
  /\ row.status = "PASSED" =>
       /\ complete
       /\ AllPass(row.results)
       /\ \A i \in DOMAIN row.results : ~row.results[i].leak
       /\ ~ForbiddenFound(row.results)
       /\ RatesReached(row.results)
  /\ settled /\ complete /\ ForbiddenFound(row.results) =>
       row.status = "SECURITY_FAILED"
  /\ settled /\ complete /\ AllPass(row.results)
       /\ ~ForbiddenFound(row.results) /\ RatesReached(row.results) =>
       row.status = "PASSED"

\* The results of a run and the one it is about to store.
Seen(r) == Append(rows[r].results, current[r])

\* Every call of the judge was taken from the calls the request allows, and
\* a result is held only until it is stored.
JudgeKept ==
  \A r \in Requests :
    /\ phase[r] # "storing" => current[r] = Blank
    /\ Cardinality(Asked(Seen(r))) + left[r] <= judge[r]

IInv ==
  /\ TypeOK
  /\ Guarded
  /\ Lifecycle
  /\ ResultsHonest
  /\ JudgeKept
  /\ \A r \in Requests : RowSound(rows[r])

Row == [status : RunStatus \cup {"none"}, results : Seq(SafeCaseResult)]

\* The verdict of a row is what VerdictSound says of it.
LEMMA SoundRows == (\A r \in Requests : RowSound(rows[r])) => VerdictSound
BY Zenon DEF RowSound, VerdictSound, Complete, Settled

\* A finished run is in one of the four final states.
LEMMA OutcomeType ==
  ASSUME NEW results
  PROVE  Outcome(results) \in {"PASSED", "FAILED", "SECURITY_FAILED", "ERROR"}
BY DEF Outcome

\* When every case passed, every pass rate is 100%, of no case included.
LEMMA AllPassRates ==
  ASSUME NEW results, DOMAIN results = DOMAIN Manifest, AllPass(results),
         NEW pct \in {90, 100}, NEW operation
  PROVE  PassRate(pct, operation, results)
<1> DEFINE selected == {i \in DOMAIN Manifest : Manifest[i].operation = operation}
           passed == {i \in selected : results[i].status = "PASS"}
<1>1. passed = selected
  BY DEF AllPass
<1>2. IsFiniteSet(DOMAIN Manifest)
  BY ManifestAssumption, FS_Interval
<1>3. Cardinality(selected) \in Nat
  BY <1>2, FS_Subset, FS_CardinalityType
<1>4. ASSUME NEW n \in Nat
      PROVE  100 * n >= pct * n
  OBVIOUS
<1>5. 100 * Cardinality(passed) >= pct * Cardinality(selected)
  BY <1>1, <1>3, <1>4
<1> QED
  BY <1>5 DEF PassRate, AtLeast

\* The scores and the counts of RatesReached say the same.
LEMMA GatesAreRates ==
  ASSUME NEW results
  PROVE  /\ release_gates(results) => RatesReached(results)
         /\ RatesReached(results) =>
              CitationPresence(results) /\ Recall(results) /\ CitationSupport(results)
BY DEF release_gates, RatesReached, CitationPresence, Recall, CitationSupport, AtLeast

\* The verdict of a complete run of honest results is sound.
LEMMA OutcomeSound ==
  ASSUME NEW row \in Row, Len(row.results) = Len(Manifest),
         \A i \in DOMAIN row.results : Honest(row.results[i]),
         row.status = Outcome(row.results)
  PROVE  RowSound(row)
<1> DEFINE leaks == has_authorization_leak(row.results)
           fails == CaseError(row.results)
<1>1. leaks \in BOOLEAN /\ fails \in BOOLEAN
  BY DEF has_authorization_leak, CaseError
<1>2. ForbiddenFound(row.results) <=> leaks
  BY DEF ForbiddenFound, has_authorization_leak
<1>3. leaks => row.status = "SECURITY_FAILED"
  BY DEF Outcome
<1>4. row.status = "PASSED" => ~leaks /\ Released(row.results)
  BY DEF Outcome
<1>5. row.status = "PASSED" =>
        /\ AllPass(row.results)
        /\ \A i \in DOMAIN row.results : ~row.results[i].leak
        /\ RatesReached(row.results)
  BY <1>4, GatesAreRates DEF Released, AllPass, Honest
<1>6. ASSUME AllPass(row.results), ~leaks, RatesReached(row.results)
      PROVE  row.status = "PASSED"
  <2>1. ~fails
    BY <1>6 DEF CaseError, AllPass
  <2>2. DOMAIN row.results = DOMAIN Manifest
    BY ManifestAssumption DEF Row
  <2>3. /\ \A o \in {"denial", "memory", "calculation"} :
             PassRate(100, o, row.results)
        /\ PassRate(90, "abstention", row.results)
    BY <1>6, <2>2, AllPassRates
  <2>4. release_gates(row.results)
    BY <1>6, <2>3, GatesAreRates DEF release_gates
  <2>5. Released(row.results)
    BY <1>6, <2>4 DEF Released, AllPass
  <2> QED
    BY <1>6, <2>1, <2>5 DEF Outcome
<1> QED
  BY <1>2, <1>3, <1>4, <1>5, <1>6 DEF RowSound

\* A completed request leaves only one result that its row can lack.
LEMMA RunCaseResult ==
  ASSUME TypeOK, NEW r \in Requests, run_case(r)
  PROVE  /\ Honest(current'[r])
         /\ current' = [current EXCEPT ![r] = current'[r]]
         /\ left' = [left EXCEPT ![r] = left'[r]]
         /\ left'[r] \in {0, 1, 2}
         /\ left'[r] = left[r] - (IF current'[r].judged THEN 1 ELSE 0)
<1> DEFINE c == Manifest[NextCase(r)]
           capacity == left[r] > 0
<1>1. NextCase(r) \in 1..Len(Manifest)
  BY DEF run_case, CasesLeft, NextCase, TypeOK
<1>2. c \in Case /\ capacity \in BOOLEAN
  BY <1>1, ManifestAssumption
<1>3. PICK x \in CaseResults(c, capacity) :
        /\ current' = [current EXCEPT ![r] = x]
        /\ left' = [left EXCEPT ![r] = JudgeCall(r, x)]
  BY DEF run_case
<1>4. Honest(x) /\ (x.judged => capacity)
  <2> HIDE DEF c, capacity
  <2> QED
    BY <1>2, <1>3, CaseHonest
<1>5. left[r] \in {0, 1, 2}
  BY DEF TypeOK
<1>6. JudgeCall(r, x) \in {0, 1, 2}
  <2>1. CASE x.judged
    BY <1>4, <1>5, <2>1 DEF JudgeCall
  <2>2. CASE ~x.judged
    BY <1>5, <2>2 DEF JudgeCall
  <2> QED
    BY <2>1, <2>2
<1>7. current'[r] = x /\ left'[r] = JudgeCall(r, x)
  BY <1>3 DEF TypeOK
<1> QED
  BY <1>3, <1>4, <1>6, <1>7 DEF JudgeCall

\* Storing a result appends it and leaves the status alone.
LEMMA PersistRow ==
  ASSUME IInv, NEW r \in Requests, persist_case_result(r)
  PROVE  /\ rows' \in [Requests -> Row]
         /\ rows'[r].status = "RUNNING"
         /\ rows[r].status = "RUNNING"
         /\ rows'[r].results = Append(rows[r].results, current[r])
         /\ \A q \in Requests \ {r} : rows'[q] = rows[q]
         /\ \A q \in Requests : Len(rows'[q].results) <= Len(Manifest)
<1> USE DEF IInv, TypeOK, Row
<1>1. rows[r].status = "RUNNING" /\ CasesLeft(r)
  BY DEF persist_case_result, Lifecycle
<1>2. Append(rows[r].results, current[r]) \in Seq(SafeCaseResult)
  BY AppendProperties
<1>3. Len(Append(rows[r].results, current[r])) = Len(rows[r].results) + 1
  BY AppendProperties
<1>4. /\ rows' \in [Requests -> Row]
      /\ rows'[r].status = rows[r].status
      /\ rows'[r].results = Append(rows[r].results, current[r])
      /\ \A q \in Requests \ {r} : rows'[q] = rows[q]
  BY <1>2 DEF persist_case_result
<1> QED
  BY <1>1, <1>3, <1>4 DEF CasesLeft, NextCase

\* Ending a run changes its status only.
LEMMA EndRow ==
  ASSUME TypeOK, NEW r \in Requests,
         NEW st \in {"PASSED", "FAILED", "SECURITY_FAILED", "ERROR"},
         rows' = [rows EXCEPT ![r].status = st]
  PROVE  /\ rows'[r] \in Row
         /\ rows'[r].status = st /\ rows'[r].results = rows[r].results
         /\ \A q \in Requests \ {r} : rows'[q] = rows[q]
         /\ ActiveRuns' = ActiveRuns \ {r}
<1>1. /\ rows'[r] \in Row
      /\ rows'[r].status = st /\ rows'[r].results = rows[r].results
      /\ \A q \in Requests \ {r} : rows'[q] = rows[q]
  BY DEF TypeOK, RunStatus, Row
<1>2. st \notin Active
  BY DEF Active
<1> QED
  BY <1>1, <1>2 DEF ActiveRuns

\* One more result: the calls of the judge grow by its own.
LEMMA AskedAppend ==
  ASSUME NEW s \in Seq(SafeCaseResult), NEW x \in SafeCaseResult
  PROVE  /\ Asked(Append(s, x)) = IF x.judged THEN Asked(s) \cup {Len(s) + 1} ELSE Asked(s)
         /\ IsFiniteSet(Asked(s)) /\ Cardinality(Asked(s)) \in Nat
         /\ Cardinality(Asked(Append(s, x))) =
              Cardinality(Asked(s)) + (IF x.judged THEN 1 ELSE 0)
<1>1. /\ Len(s) \in Nat /\ DOMAIN s = 1..Len(s)
      /\ DOMAIN Append(s, x) = 1..(Len(s) + 1)
      /\ \A i \in 1..Len(s) : Append(s, x)[i] = s[i]
      /\ Append(s, x)[Len(s) + 1] = x
  BY AppendProperties
<1>2. Asked(Append(s, x)) = IF x.judged THEN Asked(s) \cup {Len(s) + 1} ELSE Asked(s)
  <2>1. CASE x.judged
    BY <1>1, <2>1 DEF Asked
  <2>2. CASE ~x.judged
    BY <1>1, <2>2 DEF Asked
  <2> QED
    BY <2>1, <2>2
<1>3. IsFiniteSet(Asked(s)) /\ Len(s) + 1 \notin Asked(s)
  <2>1. IsFiniteSet(1..Len(s)) /\ Asked(s) \in SUBSET (1..Len(s))
    BY <1>1, FS_Interval DEF Asked
  <2>2. IsFiniteSet(Asked(s))
    BY <2>1, FS_Subset
  <2> QED
    BY <1>1, <2>1, <2>2
<1>4. Cardinality(Asked(s)) \in Nat
  BY <1>3, FS_CardinalityType
<1>5. Cardinality(Asked(s) \cup {Len(s) + 1}) = Cardinality(Asked(s)) + 1
  BY <1>3, FS_AddElement
<1> QED
  BY <1>2, <1>3, <1>4, <1>5

\* The invariant holds initially.
LEMMA InitInv == Init => IInv
<1> SUFFICES ASSUME Init PROVE IInv
  OBVIOUS
<1>1. NoRow \in Row /\ NoRow.results = <<>> /\ NoRow.status = "none"
  BY DEF NoRow, Row
<1>2. TypeOK
  <2>1. current \in [Requests -> SafeCaseResult]
    BY BlankHonest DEF Init, Honest
  <2>2. Len(<<>>) <= Len(Manifest)
    BY ManifestAssumption
  <2> QED
    BY <1>1, <2>1, <2>2 DEF Init, TypeOK, Phases, Row
<1>3. Guarded
  BY <1>1 DEF Init, Guarded, ActiveRuns, Active
<1>4. Lifecycle
  BY DEF Init, Lifecycle
<1>5. ResultsHonest
  BY <1>1, BlankHonest DEF Init, ResultsHonest
<1>6. \A r \in Requests : RowSound(rows[r])
  BY <1>1 DEF Init, RowSound
<1>7. JudgeKept
  <2> SUFFICES ASSUME NEW r \in Requests
               PROVE  current[r] = Blank /\ Cardinality(Asked(Seen(r))) + left[r] <= judge[r]
    BY DEF JudgeKept
  <2>1. /\ rows[r].results = <<>> /\ current[r] = Blank /\ left[r] = 0
        /\ judge[r] \in {0, 1, 2}
    BY <1>1, ManifestAssumption DEF Init
  <2>2. Asked(<<>>) = {} /\ <<>> \in Seq(SafeCaseResult)
    BY DEF Asked
  <2>3. Cardinality(Asked(Append(<<>>, Blank))) = 0
    BY <2>2, BlankHonest, AskedAppend, FS_EmptySet DEF Honest
  <2> QED
    BY <2>1, <2>3 DEF Seen
<1> QED
  BY <1>2, <1>3, <1>4, <1>5, <1>6, <1>7 DEF IInv

\* Types are preserved.
LEMMA TypeStep ==
  ASSUME IInv, NEW r \in Requests,
         run_evaluation(r) \/ execute(r) \/ DatabaseFails(r) \/ Crash(r)
  PROVE  TypeOK'
<1> USE DEF IInv, TypeOK, Phases, Goto, Release
<1>1. Blank \in SafeCaseResult
  BY BlankHonest DEF Honest
<1>2. CASE run_evaluation(r)
  BY <1>2 DEF run_evaluation
<1>3. CASE AcquireLock(r)
  BY <1>3 DEF AcquireLock
<1>4. CASE AlreadyRunning(r)
  BY <1>4 DEF AlreadyRunning
<1>5. CASE NoneActive(r)
  BY <1>5 DEF NoneActive
<1>6. CASE create_run_guarded(r)
  BY <1>6 DEF create_run_guarded, RunStatus, Active
<1>7. CASE JudgeUnavailable(r)
  BY <1>7 DEF JudgeUnavailable, mark_run_error, RunStatus
<1>8. CASE create_optional_judge(r)
  BY <1>8, ManifestAssumption DEF create_optional_judge
<1>9. CASE run_case(r)
  BY <1>9, RunCaseResult DEF run_case, Honest
<1>10. CASE persist_case_result(r)
  BY <1>10, <1>1, PersistRow DEF persist_case_result, Row
<1>11. CASE RunnerFails(r)
  BY <1>11 DEF RunnerFails, mark_run_error, RunStatus
<1>12. CASE finish_run(r)
  BY <1>12, OutcomeType DEF finish_run, RunStatus
<1>13. CASE DatabaseFails(r)
  BY <1>13, <1>1 DEF DatabaseFails
<1>14. CASE Crash(r)
  BY <1>14, <1>1 DEF Crash
<1> QED
  BY <1>2, <1>3, <1>4, <1>5, <1>6, <1>7, <1>8, <1>9, <1>10, <1>11, <1>12,
     <1>13, <1>14 DEF execute

\* The lock covers the check and the insert.
LEMMA GuardedStep ==
  ASSUME IInv, NEW r \in Requests,
         run_evaluation(r) \/ execute(r) \/ DatabaseFails(r) \/ Crash(r)
  PROVE  Guarded'
<1> USE DEF IInv, TypeOK, Guarded, Goto, Release
<1>1. Nobody \notin Requests
  BY ManifestAssumption
<1>2. CASE run_evaluation(r)
  BY <1>2, <1>1 DEF run_evaluation, ActiveRuns
<1>3. CASE AcquireLock(r)
  BY <1>3, <1>1 DEF AcquireLock, ActiveRuns
<1>4. CASE AlreadyRunning(r)
  BY <1>4, <1>1 DEF AlreadyRunning, ActiveRuns
<1>5. CASE NoneActive(r)
  BY <1>5, <1>1 DEF NoneActive, ActiveRuns
<1>6. CASE create_run_guarded(r)
  <2>1. ActiveRuns = {} /\ lock = r
    BY <1>6 DEF create_run_guarded
  <2>2. \A q \in Requests : q # r => rows'[q] = rows[q]
    BY <1>6 DEF create_run_guarded
  <2>3. ActiveRuns' \subseteq {r}
    BY <2>1, <2>2 DEF ActiveRuns
  <2>4. \A q \in Requests : phase'[q] \notin {"checking", "creating"}
    BY <1>6, <2>1 DEF create_run_guarded
  <2> QED
    BY <2>3, <2>4
<1>7. CASE JudgeUnavailable(r)
  <2>1. ActiveRuns' = ActiveRuns \ {r}
    BY <1>7, EndRow DEF JudgeUnavailable, mark_run_error
  <2> QED
    BY <1>7, <2>1 DEF JudgeUnavailable, mark_run_error
<1>8. CASE create_optional_judge(r)
  BY <1>8, <1>1 DEF create_optional_judge, ActiveRuns
<1>9. CASE run_case(r)
  BY <1>9, <1>1 DEF run_case, ActiveRuns
<1>10. CASE persist_case_result(r)
  <2>1. ActiveRuns' = ActiveRuns
    BY <1>10, PersistRow DEF ActiveRuns
  <2> QED
    BY <1>10, <2>1 DEF persist_case_result
<1>11. CASE RunnerFails(r)
  <2>1. ActiveRuns' = ActiveRuns \ {r}
    BY <1>11, EndRow DEF RunnerFails, mark_run_error
  <2> QED
    BY <1>11, <2>1 DEF RunnerFails, mark_run_error
<1>12. CASE finish_run(r)
  <2>1. ActiveRuns' = ActiveRuns \ {r}
    BY <1>12, EndRow, OutcomeType DEF finish_run
  <2> QED
    BY <1>12, <2>1 DEF finish_run
<1>13. CASE DatabaseFails(r)
  BY <1>13, <1>1 DEF DatabaseFails, ActiveRuns
<1>14. CASE Crash(r)
  BY <1>14, <1>1 DEF Crash, ActiveRuns
<1> QED
  BY <1>2, <1>3, <1>4, <1>5, <1>6, <1>7, <1>8, <1>9, <1>10, <1>11, <1>12,
     <1>13, <1>14 DEF execute

\* Rows follow the phases of their requests.
LEMMA LifecycleStep ==
  ASSUME IInv, NEW r \in Requests,
         run_evaluation(r) \/ execute(r) \/ DatabaseFails(r) \/ Crash(r)
  PROVE  Lifecycle'
<1> USE DEF IInv, TypeOK, Lifecycle, Goto
<1>1. NoRow.results = <<>>
  BY DEF NoRow
<1>2. CASE run_evaluation(r)
  BY <1>2 DEF run_evaluation, CasesLeft, NextCase
<1>3. CASE AcquireLock(r)
  BY <1>3 DEF AcquireLock, CasesLeft, NextCase
<1>4. CASE AlreadyRunning(r)
  BY <1>4 DEF AlreadyRunning, CasesLeft, NextCase
<1>5. CASE NoneActive(r)
  BY <1>5 DEF NoneActive, CasesLeft, NextCase
<1>6. CASE create_run_guarded(r)
  <2>1. /\ rows'[r].status = "RUNNING" /\ rows'[r].results = <<>>
        /\ \A q \in Requests \ {r} : rows'[q] = rows[q]
    BY <1>6, <1>1 DEF create_run_guarded
  <2> QED
    BY <1>6, <2>1 DEF create_run_guarded, CasesLeft, NextCase
<1>7. CASE JudgeUnavailable(r)
  BY <1>7, EndRow DEF JudgeUnavailable, mark_run_error, CasesLeft, NextCase
<1>8. CASE create_optional_judge(r)
  BY <1>8 DEF create_optional_judge, CasesLeft, NextCase
<1>9. CASE run_case(r)
  BY <1>9 DEF run_case, CasesLeft, NextCase
<1>10. CASE persist_case_result(r)
  BY <1>10, PersistRow DEF persist_case_result, CasesLeft, NextCase
<1>11. CASE RunnerFails(r)
  BY <1>11, EndRow DEF RunnerFails, mark_run_error, CasesLeft, NextCase
<1>12. CASE finish_run(r)
  BY <1>12, EndRow, OutcomeType DEF finish_run, CasesLeft, NextCase
<1>13. CASE DatabaseFails(r)
  BY <1>13 DEF DatabaseFails, CasesLeft, NextCase
<1>14. CASE Crash(r)
  BY <1>14 DEF Crash, CasesLeft, NextCase
<1> QED
  BY <1>2, <1>3, <1>4, <1>5, <1>6, <1>7, <1>8, <1>9, <1>10, <1>11, <1>12,
     <1>13, <1>14 DEF execute

\* No result changes on its way to the row.
LEMMA HonestStep ==
  ASSUME IInv, NEW r \in Requests,
         run_evaluation(r) \/ execute(r) \/ DatabaseFails(r) \/ Crash(r)
  PROVE  ResultsHonest'
<1> USE DEF IInv, TypeOK, ResultsHonest
<1>1. Honest(Blank)
  BY BlankHonest
<1>2. CASE run_evaluation(r)
  BY <1>2, <1>1 DEF run_evaluation
<1>3. CASE AcquireLock(r)
  BY <1>3, <1>1 DEF AcquireLock
<1>4. CASE AlreadyRunning(r)
  BY <1>4, <1>1 DEF AlreadyRunning
<1>5. CASE NoneActive(r)
  BY <1>5, <1>1 DEF NoneActive
<1>6. CASE create_run_guarded(r)
  <2>1. \A q \in Requests : rows'[q].results = rows[q].results
    BY <1>6 DEF create_run_guarded
  <2> QED
    BY <1>6, <2>1 DEF create_run_guarded
<1>7. CASE JudgeUnavailable(r)
  <2>1. \A q \in Requests : rows'[q].results = rows[q].results
    BY <1>7, EndRow DEF JudgeUnavailable, mark_run_error
  <2> QED
    BY <1>7, <2>1 DEF JudgeUnavailable
<1>8. CASE create_optional_judge(r)
  BY <1>8, <1>1 DEF create_optional_judge
<1>9. CASE run_case(r)
  <2>1. \A q \in Requests : Honest(current'[q])
    BY <1>9, RunCaseResult
  <2> QED
    BY <1>9, <2>1 DEF run_case
<1>10. CASE persist_case_result(r)
  <2> DEFINE old == rows[r].results
  <2>1. /\ rows'[r].results = Append(old, current[r])
        /\ \A q \in Requests \ {r} : rows'[q] = rows[q]
    BY <1>10, PersistRow
  <2>2. old \in Seq(SafeCaseResult) /\ current[r] \in SafeCaseResult
    OBVIOUS
  <2>3. \A i \in DOMAIN Append(old, current[r]) :
          Append(old, current[r])[i] = IF i \in DOMAIN old THEN old[i] ELSE current[r]
    BY <2>2, AppendProperties
  <2>4. \A i \in DOMAIN rows'[r].results : Honest(rows'[r].results[i])
    BY <2>1, <2>3
  <2>5. \A q \in Requests : Honest(current'[q])
    BY <1>10, <1>1 DEF persist_case_result
  <2> QED
    BY <2>1, <2>4, <2>5
<1>11. CASE RunnerFails(r)
  <2>1. \A q \in Requests : rows'[q].results = rows[q].results
    BY <1>11, EndRow DEF RunnerFails, mark_run_error
  <2> QED
    BY <1>11, <2>1 DEF RunnerFails
<1>12. CASE finish_run(r)
  <2>1. \A q \in Requests : rows'[q].results = rows[q].results
    BY <1>12, EndRow, OutcomeType DEF finish_run
  <2> QED
    BY <1>12, <2>1 DEF finish_run
<1>13. CASE DatabaseFails(r)
  BY <1>13, <1>1 DEF DatabaseFails
<1>14. CASE Crash(r)
  BY <1>14, <1>1 DEF Crash
<1> QED
  BY <1>2, <1>3, <1>4, <1>5, <1>6, <1>7, <1>8, <1>9, <1>10, <1>11, <1>12,
     <1>13, <1>14 DEF execute

\* Only a verdict over all results ends a complete run.
LEMMA SoundStep ==
  ASSUME IInv, NEW r \in Requests,
         run_evaluation(r) \/ execute(r) \/ DatabaseFails(r) \/ Crash(r)
  PROVE  \A q \in Requests : RowSound(rows'[q])
<1> USE DEF IInv, TypeOK
<1>1. ASSUME NEW q \in Requests, rows'[q] = rows[q]
      PROVE  RowSound(rows'[q])
  BY <1>1
<1>2. CASE run_evaluation(r)
  BY <1>2, <1>1 DEF run_evaluation
<1>3. CASE AcquireLock(r)
  BY <1>3, <1>1 DEF AcquireLock
<1>4. CASE AlreadyRunning(r)
  BY <1>4, <1>1 DEF AlreadyRunning
<1>5. CASE NoneActive(r)
  BY <1>5, <1>1 DEF NoneActive
<1>6. CASE create_run_guarded(r)
  <2>1. rows'[r].status = "RUNNING" /\ \A q \in Requests \ {r} : rows'[q] = rows[q]
    BY <1>6 DEF create_run_guarded
  <2>2. RowSound(rows'[r])
    BY <2>1 DEF RowSound, Active
  <2> QED
    BY <1>1, <2>1, <2>2
<1>7. CASE JudgeUnavailable(r)
  <2>1. /\ rows'[r].status = "ERROR" /\ rows'[r].results = rows[r].results
        /\ \A q \in Requests \ {r} : rows'[q] = rows[q]
    BY <1>7, EndRow DEF JudgeUnavailable, mark_run_error
  <2>2. rows[r].results = <<>> /\ Len(Manifest) # 0
    BY <1>7, ManifestAssumption, EmptySeq DEF JudgeUnavailable, Lifecycle
  <2>3. RowSound(rows'[r])
    BY <2>1, <2>2 DEF RowSound
  <2> QED
    BY <1>1, <2>1, <2>3
<1>8. CASE create_optional_judge(r)
  BY <1>8, <1>1 DEF create_optional_judge
<1>9. CASE run_case(r)
  BY <1>9, <1>1 DEF run_case
<1>10. CASE persist_case_result(r)
  <2>1. rows'[r].status = "RUNNING" /\ \A q \in Requests \ {r} : rows'[q] = rows[q]
    BY <1>10, PersistRow
  <2>2. RowSound(rows'[r])
    BY <2>1 DEF RowSound, Active
  <2> QED
    BY <1>1, <2>1, <2>2
<1>11. CASE RunnerFails(r)
  <2>1. /\ rows'[r].status = "ERROR" /\ rows'[r].results = rows[r].results
        /\ \A q \in Requests \ {r} : rows'[q] = rows[q]
    BY <1>11, EndRow DEF RunnerFails, mark_run_error
  <2>2. Len(rows[r].results) # Len(Manifest)
    BY <1>11, ManifestAssumption DEF RunnerFails, CasesLeft, NextCase
  <2>3. RowSound(rows'[r])
    BY <2>1, <2>2 DEF RowSound
  <2> QED
    BY <1>1, <2>1, <2>3
<1>12. CASE finish_run(r)
  <2>1. /\ rows'[r] \in Row
        /\ rows'[r].status = Outcome(rows[r].results)
        /\ rows'[r].results = rows[r].results
        /\ \A q \in Requests \ {r} : rows'[q] = rows[q]
    <3> DEFINE st == Outcome(rows[r].results)
    <3>1. st \in {"PASSED", "FAILED", "SECURITY_FAILED", "ERROR"}
      BY OutcomeType
    <3>2. rows' = [rows EXCEPT ![r].status = st]
      BY <1>12 DEF finish_run
    <3> HIDE DEF st
    <3>3. /\ rows'[r] \in Row
          /\ rows'[r].status = st /\ rows'[r].results = rows[r].results
          /\ \A q \in Requests \ {r} : rows'[q] = rows[q]
      BY <3>1, <3>2, EndRow
    <3> QED
      BY <3>3 DEF st
  <2>2. Len(rows[r].results) = Len(Manifest)
    BY <1>12, ManifestAssumption DEF finish_run, CasesLeft, NextCase
  <2>3. RowSound(rows'[r])
    BY <2>1, <2>2, OutcomeSound DEF ResultsHonest
  <2> QED
    BY <1>1, <2>1, <2>3
<1>13. CASE DatabaseFails(r)
  BY <1>13, <1>1 DEF DatabaseFails
<1>14. CASE Crash(r)
  BY <1>14, <1>1 DEF Crash
<1> QED
  BY <1>2, <1>3, <1>4, <1>5, <1>6, <1>7, <1>8, <1>9, <1>10, <1>11, <1>12,
     <1>13, <1>14 DEF execute

\* A call of the judge is taken from what the request has left.
LEMMA JudgeStep ==
  ASSUME IInv, NEW r \in Requests,
         run_evaluation(r) \/ execute(r) \/ DatabaseFails(r) \/ Crash(r)
  PROVE  JudgeKept'
<1>1. TypeOK /\ Lifecycle /\ JudgeKept
  BY DEF IInv
<1>2. /\ phase \in [Requests -> Phases] /\ current \in [Requests -> SafeCaseResult]
      /\ judge \in [Requests -> {0, 1, 2}] /\ left \in [Requests -> {0, 1, 2}]
      /\ \A q \in Requests : rows[q].results \in Seq(SafeCaseResult)
      /\ rows \in [Requests -> Row]
  BY <1>1, ManifestAssumption DEF TypeOK, Row
<1>3. Blank \in SafeCaseResult /\ ~Blank.judged
  BY BlankHonest DEF Honest
<1>4. ASSUME NEW q \in Requests, rows'[q].results = rows[q].results, current'[q] = current[q],
             left'[q] = left[q], judge'[q] = judge[q],
             phase'[q] # "storing" => phase[q] # "storing"
      PROVE  /\ phase'[q] # "storing" => current'[q] = Blank
             /\ Cardinality(Asked(Seen(q)'))  + left'[q] <= judge'[q]
  BY <1>1, <1>4 DEF JudgeKept, Seen
<1> DEFINE Kept(q) == /\ phase'[q] # "storing" => current'[q] = Blank
                      /\ Cardinality(Asked(Seen(q)'))  + left'[q] <= judge'[q]
<1>5. SUFFICES \A q \in Requests : Kept(q)
  BY DEF JudgeKept
<1>6. \A q \in Requests \ {r} :
        /\ rows'[q] = rows[q] /\ current'[q] = current[q] /\ left'[q] = left[q]
        /\ judge'[q] = judge[q] /\ phase'[q] = phase[q]
  BY <1>2 DEF execute, run_evaluation, AcquireLock, AlreadyRunning, NoneActive,
     create_run_guarded, JudgeUnavailable, create_optional_judge, run_case,
     persist_case_result, RunnerFails, finish_run, DatabaseFails, Crash, mark_run_error, Goto
<1>7. \A q \in Requests \ {r} : Kept(q)
  BY <1>4, <1>6
<1>8. SUFFICES Kept(r)
  BY <1>7
<1>9. CASE run_evaluation(r) \/ AcquireLock(r) \/ AlreadyRunning(r) \/ NoneActive(r)
  BY <1>2, <1>4, <1>9 DEF run_evaluation, AcquireLock, AlreadyRunning, NoneActive, Goto
<1>10. CASE create_run_guarded(r) \/ JudgeUnavailable(r) \/ RunnerFails(r) \/ finish_run(r)
  <2>1. /\ rows'[r].results = rows[r].results /\ phase[r] # "storing"
        /\ UNCHANGED <<current, left, judge>>
    BY <1>2, <1>10 DEF create_run_guarded, JudgeUnavailable, RunnerFails, finish_run,
                       mark_run_error, Row
  <2> QED
    BY <1>4, <2>1
<1>11. CASE create_optional_judge(r)
  <2>1. /\ rows'[r].results = <<>> /\ current'[r] = Blank /\ judge'[r] = judge[r]
        /\ left'[r] = judge[r]
    BY <1>1, <1>2, <1>11 DEF create_optional_judge, Lifecycle, JudgeKept
  <2>2. Asked(<<>>) = {} /\ <<>> \in Seq(SafeCaseResult)
    BY DEF Asked
  <2>3. Cardinality(Asked(Append(<<>>, Blank))) = 0
    BY <1>3, <2>2, AskedAppend, FS_EmptySet
  <2> QED
    BY <1>2, <2>1, <2>3 DEF Seen
<1>12. CASE run_case(r)
  <2>1. /\ phase[r] = "running" /\ phase'[r] = "storing" /\ rows' = rows /\ judge' = judge
    BY <1>2, <1>12 DEF run_case, Goto
  <2>2. /\ current'[r] \in SafeCaseResult
        /\ left'[r] = left[r] - (IF current'[r].judged THEN 1 ELSE 0)
    BY <1>1, <1>12, RunCaseResult DEF Honest
  <2>3. current[r] = Blank /\ Cardinality(Asked(Seen(r))) + left[r] <= judge[r]
    BY <1>1, <2>1 DEF JudgeKept
  <2> DEFINE s == rows[r].results
  <2>4. Cardinality(Asked(Append(s, Blank))) = Cardinality(Asked(s)) /\ Cardinality(Asked(s)) \in Nat
    BY <1>2, <1>3, AskedAppend
  <2>5. Cardinality(Asked(Append(s, current'[r]))) =
          Cardinality(Asked(s)) + (IF current'[r].judged THEN 1 ELSE 0)
    BY <1>2, <2>2, AskedAppend
  <2>6. left[r] \in Int /\ judge[r] \in Int
    BY <1>2
  <2> QED
    BY <2>1, <2>2, <2>3, <2>4, <2>5, <2>6 DEF Seen
<1>13. CASE persist_case_result(r)
  <2>1. /\ rows'[r].results = Seen(r) /\ current'[r] = Blank
        /\ UNCHANGED <<judge, left>>
    BY <1>2, <1>13, PersistRow DEF persist_case_result, Seen
  <2>2. Seen(r) \in Seq(SafeCaseResult)
    BY <1>2, AppendProperties DEF Seen
  <2>3. Cardinality(Asked(Append(Seen(r), Blank))) = Cardinality(Asked(Seen(r)))
        /\ Cardinality(Asked(Seen(r))) \in Nat
    BY <1>3, <2>2, AskedAppend
  <2>4. Seen(r)' = Append(Seen(r), Blank)
    BY <2>1 DEF Seen
  <2> QED
    BY <1>1, <2>1, <2>3, <2>4 DEF JudgeKept
<1>14. CASE DatabaseFails(r) \/ Crash(r)
  <2>1. current'[r] = Blank /\ UNCHANGED <<rows, judge, left>>
    BY <1>2, <1>14 DEF DatabaseFails, Crash
  <2> DEFINE s == rows[r].results
  <2>2. /\ Cardinality(Asked(Append(s, Blank))) = Cardinality(Asked(s))
        /\ Cardinality(Asked(s)) \in Nat
        /\ Cardinality(Asked(Append(s, current[r]))) =
              Cardinality(Asked(s)) + (IF current[r].judged THEN 1 ELSE 0)
    BY <1>2, <1>3, AskedAppend
  <2>3. Cardinality(Asked(Append(s, current[r]))) + left[r] <= judge[r]
        /\ left[r] \in Int /\ judge[r] \in Int
    BY <1>1, <1>2 DEF JudgeKept, Seen
  <2> QED
    BY <2>1, <2>2, <2>3 DEF Seen
<1> QED
  BY <1>9, <1>10, <1>11, <1>12, <1>13, <1>14 DEF execute

-----------------------------------------------------------------------------
(***************************************************************************)
(* Theorems.                                                               *)
(***************************************************************************)

\* The conjunction above is an invariant: a type invariant, the lock and
\* the check, the phases, and the honesty of results and verdicts.
THEOREM EvaluationInvariant == Spec => []IInv
<1>1. Init => IInv
  BY InitInv
<1>2. IInv /\ [Next]_vars => IInv'
  <2> SUFFICES ASSUME IInv, [Next]_vars PROVE IInv'
    OBVIOUS
  <2>1. CASE Next
    <3>1. PICK r \in Requests :
            run_evaluation(r) \/ execute(r) \/ DatabaseFails(r) \/ Crash(r)
      BY <2>1 DEF Next
    <3>2. TypeOK'
      BY <3>1, TypeStep
    <3>3. Guarded'
      BY <3>1, GuardedStep
    <3>4. Lifecycle'
      BY <3>1, LifecycleStep
    <3>5. ResultsHonest'
      BY <3>1, HonestStep
    <3>6. \A q \in Requests : RowSound(rows'[q])
      BY <3>1, SoundStep
    <3>7. JudgeKept'
      BY <3>1, JudgeStep
    <3> QED
      BY <3>2, <3>3, <3>4, <3>5, <3>6, <3>7 DEF IInv
  <2>2. CASE UNCHANGED vars
    BY <2>2 DEF vars, IInv, TypeOK, Guarded, ActiveRuns, Lifecycle, CasesLeft,
                NextCase, ResultsHonest, JudgeKept, Seen
  <2> QED
    BY <2>1, <2>2
<1> QED
  BY <1>1, <1>2, PTL DEF Spec

\* However many administrators start evaluations, and whichever workers
\* crash, at most one stored run is active (repository.py:38-63).
THEOREM AtMostOneActive == Spec => []OneActive
<1>1. IInv => OneActive
  <2> SUFFICES ASSUME IInv PROVE OneActive
    OBVIOUS
  <2>1. CASE ActiveRuns = {}
    BY <2>1, FS_EmptySet DEF OneActive
  <2>2. CASE ActiveRuns # {}
    <3>1. PICK q \in ActiveRuns : ActiveRuns = {q}
      BY <2>2 DEF IInv, Guarded
    <3>2. Cardinality({q}) = 1
      BY FS_Singleton
    <3> QED
      BY <3>1, <3>2 DEF OneActive
  <2> QED
    BY <2>1, <2>2
<1> QED
  BY <1>1, EvaluationInvariant, PTL

\* For every manifest, PASSED is earned by every case and every rate, what
\* earned it is not blocked by a rate at its threshold or with nothing to
\* count, and a forbidden document that a completed run's searches found
\* makes it SECURITY_FAILED (service.py:99-115, scorers.py:27-177).
THEOREM VerdictIsSound == Spec => []VerdictSound
<1>1. IInv => VerdictSound
  BY SoundRows DEF IInv
<1> QED
  BY <1>1, EvaluationInvariant, PTL

\* Every stored value keeps its type, and the judge's remaining calls never
\* become negative (judge.py:72-75).
THEOREM EvaluationTypes == Spec => []TypeOK
<1>1. IInv => TypeOK
  BY DEF IInv
<1> QED
  BY <1>1, EvaluationInvariant, PTL

\* For every manifest, a run asks the judge at most as often as its request
\* allows, and only about answers that met their case and leaked nothing
\* (judge.py:72-75, runner.py:305, 322).
THEOREM JudgeIsBounded == Spec => []JudgeBounded
<1>1. IInv => JudgeBounded
  <2> SUFFICES ASSUME IInv, NEW r \in Requests
               PROVE  /\ Cardinality(Asked(Seen(r))) <= judge[r]
                      /\ \A i \in Asked(Seen(r)) : Seen(r)[i].met /\ ~Seen(r)[i].leak
    BY DEF JudgeBounded, Seen
  <2> DEFINE s == rows[r].results
             x == current[r]
  <2>1. /\ s \in Seq(SafeCaseResult) /\ x \in SafeCaseResult
        /\ left[r] \in {0, 1, 2} /\ judge[r] \in {0, 1, 2}
    BY ManifestAssumption DEF IInv, TypeOK
  <2>2. Honest(x) /\ \A i \in DOMAIN s : Honest(s[i])
    BY DEF IInv, ResultsHonest
  <2>3. Cardinality(Asked(Append(s, x))) + left[r] <= judge[r]
    BY DEF IInv, JudgeKept, Seen
  <2>4. Cardinality(Asked(Append(s, x))) \in Nat
    <3>1. Append(s, x) \in Seq(SafeCaseResult)
      BY <2>1, AppendProperties
    <3> QED
      BY <2>1, <3>1, AskedAppend
  <2> HIDE DEF s, x
  <2>5. \A i \in DOMAIN Append(s, x) :
          Append(s, x)[i] = IF i \in DOMAIN s THEN s[i] ELSE x
    BY <2>1, AppendProperties
  <2>6. \A i \in Asked(Append(s, x)) : Append(s, x)[i].met /\ ~Append(s, x)[i].leak
    BY <2>2, <2>5 DEF Asked, Honest
  <2>7. Seen(r) = Append(s, x)
    BY DEF Seen, s, x
  <2>8. Cardinality(Asked(Append(s, x))) <= judge[r]
    BY <2>1, <2>3, <2>4
  <2> QED
    BY <2>6, <2>7, <2>8, Zenon
<1> QED
  BY <1>1, EvaluationInvariant, PTL
=============================================================================
