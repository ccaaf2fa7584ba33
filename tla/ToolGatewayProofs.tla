------------------------- MODULE ToolGatewayProofs -------------------------
(***************************************************************************)
(* Machine-checked proofs about ToolGateway, for any chunks, limits and    *)
(* scopes, any number of pauses and any way the tools answer.              *)
(***************************************************************************)
EXTENDS ToolGateway, FiniteSetTheorems, SequenceTheorems, TLAPS

-----------------------------------------------------------------------------
(***************************************************************************)
(* The inductive invariant.                                                *)
(***************************************************************************)

\* What a stored observation can be: an action, and chunks under the
\* identifiers of at most MaxCites of them.
Bindings == UNION {[D -> Chunks] : D \in SUBSET Nat}
Observation ==
  {o \in [act : Actions, cites : Bindings] : Cardinality(DOMAIN o.cites) <= MaxCites}

\* The observations of the run so far: the stored ones until the rebuilt
\* loop has replayed them all, then its own.
Account == IF Replaying THEN hist ELSE obs
Live == phase # "ended"

Searched(s) == {i \in DOMAIN s : s[i].act.tool = "search"}
SearchCount(s) == Cardinality(Searched(s))

\* No identifier belongs to two observations.
Disjoint(s) ==
  \A i, j \in DOMAIN s : \A n \in DOMAIN s[i].cites :
    n \in DOMAIN s[j].cites => i = j

\* Everything an observation says is in the evidence.
Filed(s, e) ==
  \A i \in DOMAIN s : \A n \in DOMAIN s[i].cites : e[n] = s[i].cites[n]

\* The counters of a loop that runs are those of its observations, a loop
\* that replays is inside the stored ones, and what it may still do fits.
LoopInv ==
  /\ obs \in Seq(Observation) /\ hist \in Seq(Observation)
  /\ Live =>
       /\ denials = 0
       /\ steps = Len(obs) /\ searches = SearchCount(obs)
       /\ Len(hist) < MaxSteps /\ SearchCount(hist) <= MaxRewrites + 1
       /\ Replaying => \A i \in DOMAIN obs : obs[i] = hist[i]
  /\ phase = "invoking" =>
       /\ ~Replaying /\ steps < MaxSteps
       /\ action \in Actions /\ action.tool \in TOOL_MANIFEST
       /\ action.tool = "search" => searches <= MaxRewrites
  /\ phase = "paused" => action \in Actions /\ hist = obs

\* The identifiers of the run are 1 to the sequence of the adapter, each
\* with one owner, and the evidence is what the loop observed.
Numbers ==
  /\ Numbered(Account) = 1..sequence
  /\ Disjoint(Account)
  /\ sequence <= Len(Account) * MaxCites
  /\ DOMAIN evidence = Numbered(obs)
  /\ Filed(obs, evidence)
NumberInv == Live => Numbers

\* Invocations are paid for by observations, live or stored; the call being
\* made has used one more for each attempt.
Spending == IF phase = "invoking" THEN attempt + 1 ELSE 0
SpendingOnSearch ==
  IF phase = "invoking" /\ action.tool = "search" THEN attempt + 1 ELSE 0
BudgetInv ==
  Live =>
    /\ Total(invoked) <= Len(Account) * (1 + MaxRetries) + Spending
    /\ invoked["search"] <= SearchCount(Account) * (1 + MaxRetries) + SpendingOnSearch

\* The counters are settled first: the identifiers and the budget rest on
\* them.
Base == TypeOK /\ LoopInv /\ DenialIsFinal
Inv == Base /\ NumberInv /\ BudgetInv /\ BudgetsKept

-----------------------------------------------------------------------------
(***************************************************************************)
(* Limits and products.                                                    *)
(***************************************************************************)

\* The limits are numbers, and a run may make a call.
LEMMA LimitTypes ==
  /\ MaxInputs \in Nat \ {0} /\ MaxCites \in Nat \ {0} /\ MaxSteps \in Nat \ {0}
  /\ MaxSequence \in Nat /\ MaxRewrites \in Nat /\ MaxRetries \in Nat
  /\ TopK \subseteq Nat \ {0} /\ MaxInputs <= MaxCites
  /\ MaxSequence >= (MaxSteps - 1) * MaxCites
BY LimitsAssumption

\* One more call costs one more time what a call may cost.
LEMMA OneMore ==
  ASSUME NEW n \in Nat, NEW m \in Nat
  PROVE  n * m \in Nat /\ (n + 1) * m = n * m + m
OBVIOUS

\* Fewer calls cost less.
LEMMA Fewer ==
  ASSUME NEW n \in Nat, NEW k \in Nat, NEW m \in Nat, n <= k
  PROVE  n * m <= k * m
<1>1. PICK d \in Nat : k = n + d
  <2> WITNESS k - n \in Nat
  <2> QED
    OBVIOUS
<1>2. k * m = n * m + d * m /\ d * m \in Nat /\ n * m \in Nat
  BY <1>1
<1> QED
  BY <1>2

-----------------------------------------------------------------------------
(***************************************************************************)
(* Observations and sequences of them.                                     *)
(***************************************************************************)

\* The fields of an observation.
LEMMA ObservationFields ==
  ASSUME NEW o \in Observation
  PROVE  /\ o.act \in Actions
         /\ o.cites \in Bindings
         /\ DOMAIN o.cites \subseteq Nat
         /\ \A n \in DOMAIN o.cites : o.cites[n] \in Chunks
         /\ SnapshotFits(o.cites)
BY DEF Observation, Bindings, SnapshotFits

\* What the loop appends is an observation.
LEMMA ObservationMade ==
  ASSUME NEW a \in Actions, NEW cites \in Bindings, SnapshotFits(cites)
  PROVE  /\ [act |-> a, cites |-> cites] \in Observation
         /\ [act |-> a, cites |-> cites].act = a
         /\ [act |-> a, cites |-> cites].cites = cites
BY DEF Observation, SnapshotFits

\* A replayed observation is the one that was stored.
LEMMA ObservationWhole ==
  ASSUME NEW o \in Observation
  PROVE  [act |-> o.act, cites |-> o.cites] = o
BY DEF Observation

\* No observations: nothing is numbered and nothing was searched.
LEMMA EmptyAccount ==
  /\ <<>> \in Seq(Observation) /\ Len(<<>>) = 0
  /\ DOMAIN <<>> = {} /\ Numbered(<<>>) = {} /\ SearchCount(<<>>) = 0
  /\ Disjoint(<<>>) /\ \A e : Filed(<<>>, e)
<1>1. DOMAIN <<>> = {} /\ <<>> \in Seq(Observation) /\ Len(<<>>) = 0
  OBVIOUS
<1>2. Searched(<<>>) = {} /\ Numbered(<<>>) = {}
  BY <1>1 DEF Searched, Numbered
<1> QED
  BY <1>1, <1>2, FS_EmptySet DEF SearchCount, Disjoint, Filed

\* The searches of a sequence can be counted.
LEMMA SearchCountType ==
  ASSUME NEW s \in Seq(Observation)
  PROVE  /\ IsFiniteSet(Searched(s))
         /\ SearchCount(s) \in Nat /\ SearchCount(s) <= Len(s)
<1>1. Len(s) \in Nat /\ DOMAIN s = 1..Len(s)
  BY LenProperties
<1>2. IsFiniteSet(1..Len(s)) /\ Cardinality(1..Len(s)) = Len(s)
  BY <1>1, FS_Interval
<1>3. Searched(s) \in SUBSET (1..Len(s))
  BY <1>1 DEF Searched
<1>4. IsFiniteSet(Searched(s)) /\ Cardinality(Searched(s)) <= Len(s)
  BY <1>2, <1>3, FS_Subset
<1> QED
  BY <1>4, FS_CardinalityType DEF SearchCount

\* What appending an observation does to the searches.
LEMMA SearchCountAppend ==
  ASSUME NEW s \in Seq(Observation), NEW o \in Observation
  PROVE  SearchCount(Append(s, o)) =
           IF o.act.tool = "search" THEN SearchCount(s) + 1 ELSE SearchCount(s)
<1> DEFINE t == Append(s, o)
           k == Len(s) + 1
<1>1. /\ t \in Seq(Observation) /\ Len(s) \in Nat
      /\ DOMAIN s = 1..Len(s) /\ DOMAIN t = (1..Len(s)) \cup {k}
      /\ \A i \in 1..Len(s) : t[i] = s[i]
      /\ t[k] = o
  BY AppendProperties, LenProperties
<1>2. k \notin Searched(s)
  BY <1>1 DEF Searched
<1> HIDE DEF k
<1>5. IsFiniteSet(Searched(s))
  BY SearchCountType
<1> HIDE DEF t
<1>3. CASE o.act.tool = "search"
  <2>1. Searched(t) = Searched(s) \cup {k}
    BY <1>1, <1>3 DEF Searched
  <2> QED
    BY <1>2, <1>3, <1>5, <2>1, FS_AddElement DEF SearchCount, t
<1>4. CASE o.act.tool # "search"
  <2>1. Searched(t) = Searched(s)
    BY <1>1, <1>4 DEF Searched
  <2> QED
    BY <1>4, <2>1 DEF SearchCount, t
<1> QED
  BY <1>3, <1>4

\* What appending an observation does to the identifiers.
LEMMA NumberedAppend ==
  ASSUME NEW s \in Seq(Observation), NEW o \in Observation
  PROVE  Numbered(Append(s, o)) = Numbered(s) \cup DOMAIN o.cites
<1> DEFINE t == Append(s, o)
           k == Len(s) + 1
<1>1. /\ t \in Seq(Observation) /\ Len(s) \in Nat
      /\ DOMAIN s = 1..Len(s) /\ DOMAIN t = (1..Len(s)) \cup {k}
      /\ \A i \in 1..Len(s) : t[i] = s[i]
      /\ t[k] = o
  BY AppendProperties, LenProperties
<1> HIDE DEF t, k
<1>2. ASSUME NEW n
      PROVE  n \in Numbered(t) <=> n \in Numbered(s) \cup DOMAIN o.cites
  <2>1. n \in Numbered(t) <=> \E i \in DOMAIN t : n \in DOMAIN t[i].cites
    BY DEF Numbered
  <2>2. n \in Numbered(s) <=> \E i \in DOMAIN s : n \in DOMAIN s[i].cites
    BY DEF Numbered
  <2> QED
    BY <1>1, <2>1, <2>2
<1> QED
  BY <1>2 DEF t

\* Observations whose identifiers are new keep one owner per identifier.
LEMMA DisjointAppend ==
  ASSUME NEW s \in Seq(Observation), NEW o \in Observation, Disjoint(s),
         Numbered(s) \cap DOMAIN o.cites = {}
  PROVE  Disjoint(Append(s, o))
<1> DEFINE t == Append(s, o)
           k == Len(s) + 1
<1>1. /\ t \in Seq(Observation) /\ Len(s) \in Nat
      /\ DOMAIN s = 1..Len(s) /\ DOMAIN t = (1..Len(s)) \cup {k}
      /\ \A i \in 1..Len(s) : t[i] = s[i]
      /\ t[k] = o
  BY AppendProperties, LenProperties
<1>2. \A i \in DOMAIN s : \A n \in DOMAIN s[i].cites : n \notin DOMAIN o.cites
  BY DEF Numbered
<1> HIDE DEF t, k
<1> SUFFICES ASSUME NEW i \in DOMAIN t, NEW j \in DOMAIN t,
                    NEW n \in DOMAIN t[i].cites, n \in DOMAIN t[j].cites
             PROVE  i = j
  BY DEF Disjoint, t
<1>3. CASE i \in 1..Len(s) /\ j \in 1..Len(s)
  BY <1>1, <1>3 DEF Disjoint
<1>4. CASE i = k \/ j = k
  BY <1>1, <1>2, <1>4
<1> QED
  BY <1>1, <1>3, <1>4

\* Evidence that has an observation's chunks too has the longer sequence.
LEMMA FiledAppend ==
  ASSUME NEW s \in Seq(Observation), NEW o \in Observation, NEW e, Filed(s, e),
         \A n \in DOMAIN o.cites : e[n] = o.cites[n]
  PROVE  Filed(Append(s, o), e)
<1> DEFINE t == Append(s, o)
           k == Len(s) + 1
<1>1. /\ t \in Seq(Observation) /\ Len(s) \in Nat
      /\ DOMAIN s = 1..Len(s) /\ DOMAIN t = (1..Len(s)) \cup {k}
      /\ \A i \in 1..Len(s) : t[i] = s[i]
      /\ t[k] = o
  BY AppendProperties, LenProperties
<1> HIDE DEF t, k
<1> QED
  BY <1>1 DEF Filed, t

\* The chunk an identifier names in a sequence without shared identifiers.
LEMMA CitesOwner ==
  ASSUME NEW s \in Seq(Observation), Disjoint(s)
  PROVE  /\ DOMAIN Cites(s) = Numbered(s)
         /\ \A i \in DOMAIN s : \A n \in DOMAIN s[i].cites :
              n \in Numbered(s) /\ Cites(s)[n] = s[i].cites[n]
         /\ \A n \in Numbered(s) : Cites(s)[n] \in Chunks
<1>1. DOMAIN Cites(s) = Numbered(s)
  BY DEF Cites
<1>2. ASSUME NEW i \in DOMAIN s, NEW n \in DOMAIN s[i].cites
      PROVE  n \in Numbered(s) /\ Cites(s)[n] = s[i].cites[n]
  <2>1. n \in Numbered(s)
    BY DEF Numbered
  <2> DEFINE j == CHOOSE x \in DOMAIN s : n \in DOMAIN s[x].cites
  <2>2. j \in DOMAIN s /\ n \in DOMAIN s[j].cites
    OBVIOUS
  <2>3. Cites(s)[n] = s[j].cites[n]
    BY <2>1 DEF Cites
  <2> HIDE DEF j
  <2>4. i = j
    BY <2>2 DEF Disjoint
  <2> QED
    BY <2>1, <2>3, <2>4
<1>3. ASSUME NEW n \in Numbered(s)
      PROVE  Cites(s)[n] \in Chunks
  <2>1. PICK i \in DOMAIN s : n \in DOMAIN s[i].cites
    BY DEF Numbered
  <2>2. s[i] \in Observation
    BY ElementOfSeq, LenProperties
  <2> QED
    BY <1>2, <2>1, <2>2, ObservationFields
<1> QED
  BY <1>1, <1>2, <1>3

-----------------------------------------------------------------------------
(***************************************************************************)
(* What an attempt returns.                                                *)
(***************************************************************************)

\* The result of any tool is a list of visible chunks.
LEMMA FoundType ==
  ASSUME NEW a \in Actions, NEW found \in Found(a)
  PROVE  \E n \in Nat : found \in [1..n -> visible]
<1>1. CASE a.tool = "search"
  <2>1. a.k \in TopK
    BY <1>1 DEF Actions, SearchInput, ExcerptInput, OtherInput
  <2>2. found \in SearchFound(a.k)
    BY <1>1 DEF Found
  <2> QED
    BY <2>1, <2>2, LimitTypes DEF SearchFound
<1>2. CASE a.tool = "excerpt"
  <2>1. found \in ExcerptFound(a.chunk)
    BY <1>2 DEF Found
  <2>2. PICK v \in visible : found = <<v>>
    BY <2>1 DEF ExcerptFound
  <2>3. found \in [1..1 -> visible]
    BY <2>2
  <2> QED
    BY <2>3
<1>3. CASE a.tool = "calculate"
  BY <1>3, LimitTypes DEF Found, CalculationFound
<1>4. CASE a.tool \notin {"search", "excerpt", "calculate"}
  <2>1. found = <<>>
    BY <1>4 DEF Found, MemoryFound
  <2>2. found \in [1..0 -> visible]
    BY <2>1
  <2> QED
    BY <2>2
<1> QED
  BY <1>1, <1>2, <1>3, <1>4

\* The chunks of a result get the next identifiers, one each.
LEMMA NumberType ==
  ASSUME TypeOK, NEW a \in Actions, NEW found \in Found(a)
  PROVE  /\ Len(found) \in Nat
         /\ Number(found) \in Bindings
         /\ DOMAIN Number(found) = sequence + 1..sequence + Len(found)
         /\ Cardinality(DOMAIN Number(found)) = Len(found)
<1>1. PICK n \in Nat : found \in [1..n -> visible]
  BY FoundType
<1>2. Len(found) = n /\ \A i \in 1..n : found[i] \in Chunks
  BY <1>1 DEF TypeOK
<1>3. sequence \in Nat
  BY DEF TypeOK
<1> DEFINE D == sequence + 1..sequence + n
<1>4. DOMAIN Number(found) = D
  BY <1>2 DEF Number
<1>5. Number(found) \in [D -> Chunks]
  <2>1. \A m \in D : m - sequence \in 1..n
    BY <1>1, <1>3
  <2> QED
    BY <1>2, <2>1 DEF Number
<1>6. D \in SUBSET Nat
  BY <1>1, <1>3
<1>7. Cardinality(D) = n
  BY <1>1, <1>3, FS_Interval
<1> QED
  BY <1>1, <1>2, <1>4, <1>5, <1>6, <1>7 DEF Bindings

-----------------------------------------------------------------------------
(***************************************************************************)
(* The counters of the loop.                                               *)
(***************************************************************************)

\* Facts about a state of the loop that the steps below all use.
LEMMA BaseFacts ==
  ASSUME Base
  PROVE  /\ Len(obs) \in Nat /\ DOMAIN obs = 1..Len(obs)
         /\ Len(hist) \in Nat /\ DOMAIN hist = 1..Len(hist)
         /\ SearchCount(obs) \in Nat /\ SearchCount(hist) \in Nat
         /\ steps \in Nat /\ searches \in Nat /\ attempt \in Nat /\ sequence \in Nat
BY LimitTypes, LenProperties, SearchCountType DEF Base, LoopInv, TypeOK

\* The run ends and keeps its observations, whatever it counted last.
LEMMA BaseEnds ==
  ASSUME Base, Live, NEW o \in Outcomes \ {"none"}, End(o),
         UNCHANGED <<visible, guided, action, obs, evidence, hist, invoked>>,
         attempt' = attempt, approved' = approved,
         sequence' \in Nat, steps' \in 0..MaxSteps, searches' \in 0..MaxRewrites + 1,
         denials' = 0 \/ (denials' = 1 /\ o = "REFUSED")
  PROVE  Base'
<1>1. TypeOK'
  BY DEF Base, TypeOK, End
<1>2. LoopInv'
  BY DEF Base, LoopInv, End, Live, Replaying
<1>3. DenialIsFinal'
  BY DEF End, DenialIsFinal
<1> QED
  BY <1>1, <1>2, <1>3 DEF Base

\* What filing an observation leaves behind.
LEMMA ObserveEffect ==
  ASSUME NEW a \in Actions, NEW cites, Observe(a, cites), TypeOK, Live
  PROVE  /\ steps' = steps + 1
         /\ searches' = IF a.tool = "search" THEN searches + 1 ELSE searches
         /\ phase' \in {"deciding", "ended"}
         /\ outcome' \in Outcomes /\ (outcome' = "none" <=> phase' # "ended")
         /\ ~SnapshotFits(cites) => obs' = obs /\ evidence' = evidence /\ phase' = "ended"
         /\ SnapshotFits(cites) =>
              /\ obs' = Append(obs, [act |-> a, cites |-> cites])
              /\ evidence' = [n \in DOMAIN evidence \cup DOMAIN cites |->
                                IF n \in DOMAIN cites THEN cites[n] ELSE evidence[n]]
<1>1. outcome = "none"
  BY DEF TypeOK, Live
<1>2. phase' \in {"deciding", "ended"} /\ outcome' \in Outcomes
      /\ (outcome' = "none" <=> phase' # "ended")
  BY <1>1 DEF Observe, End, FinalizeCalculation, Outcomes
<1>3. ~SnapshotFits(cites) => obs' = obs /\ evidence' = evidence /\ phase' = "ended"
  BY DEF Observe, End
<1> QED
  BY <1>2, <1>3 DEF Observe

\* An observation the loop counts, its own or a replayed one.
LEMMA BaseObserves ==
  ASSUME Base, Live, steps < MaxSteps, NEW a \in Actions, NEW cites \in Bindings,
         a.tool = "search" => searches <= MaxRewrites,
         Replaying => hist[Len(obs) + 1] = [act |-> a, cites |-> cites],
         Observe(a, cites), sequence' \in Nat,
         UNCHANGED <<visible, guided, action, approved, attempt, hist, invoked, denials>>
  PROVE  Base'
<1> USE LimitTypes, BaseFacts
<1> DEFINE o == [act |-> a, cites |-> cites]
<1>1. TypeOK
  BY DEF Base
<1>2. /\ steps' = steps + 1
      /\ searches' = IF a.tool = "search" THEN searches + 1 ELSE searches
      /\ phase' \in {"deciding", "ended"}
      /\ outcome' \in Outcomes /\ (outcome' = "none" <=> phase' # "ended")
  BY <1>1, ObserveEffect, Zenon
<1>3. steps' \in 0..MaxSteps /\ searches' \in 0..MaxRewrites + 1
  BY <1>1, <1>2 DEF TypeOK
<1>4. denials' = 0
  BY DEF Base, LoopInv
<1>5. CASE ~SnapshotFits(cites)
  <2>1. obs' = obs /\ evidence' = evidence /\ phase' = "ended"
    BY <1>1, <1>5, ObserveEffect, Zenon
  <2>2. TypeOK'
    BY <1>1, <1>2, <1>3, <2>1 DEF TypeOK
  <2>3. LoopInv'
    BY <2>1 DEF Base, LoopInv, Live
  <2> QED
    BY <1>4, <2>2, <2>3 DEF Base, DenialIsFinal
<1>6. CASE SnapshotFits(cites)
  <2>1. /\ obs' = Append(obs, o)
        /\ evidence' = [n \in DOMAIN evidence \cup DOMAIN cites |->
                          IF n \in DOMAIN cites THEN cites[n] ELSE evidence[n]]
    BY <1>1, <1>6, ObserveEffect, Zenon
  <2>2. o \in Observation /\ o.act = a /\ o.cites = cites
    BY <1>6, ObservationMade
  <2>3. obs \in Seq(Observation) /\ hist \in Seq(Observation)
    BY DEF Base, LoopInv
  <2>4. /\ obs' \in Seq(Observation) /\ Len(obs') = Len(obs) + 1
        /\ DOMAIN obs' = (1..Len(obs)) \cup {Len(obs) + 1}
        /\ \A i \in 1..Len(obs) : obs'[i] = obs[i]
        /\ obs'[Len(obs) + 1] = o
    BY <2>1, <2>2, <2>3, AppendProperties, LenProperties
  <2>5. SearchCount(obs') = IF a.tool = "search" THEN SearchCount(obs) + 1
                                                 ELSE SearchCount(obs)
    BY <2>1, <2>2, <2>3, SearchCountAppend
  <2>6. /\ DOMAIN cites \subseteq Nat
        /\ \A n \in DOMAIN cites : cites[n] \in Chunks
    BY DEF Bindings
  <2>7. /\ DOMAIN evidence' \subseteq Nat
        /\ \A n \in DOMAIN evidence' : evidence'[n] \in Chunks
    BY <1>1, <2>1, <2>6 DEF TypeOK
  <2>8. ASSUME NEW i \in DOMAIN obs'
        PROVE  /\ obs'[i].act \in Actions
               /\ DOMAIN obs'[i].cites \subseteq Nat
               /\ \A n \in DOMAIN obs'[i].cites : obs'[i].cites[n] \in Chunks
    <3>1. obs'[i] \in Observation
      BY <2>2, <2>3, <2>4, ElementOfSeq
    <3> QED
      BY <3>1, ObservationFields
  <2>9. TypeOK'
    BY <1>1, <1>2, <1>3, <2>7, <2>8 DEF TypeOK
  <2>10. LoopInv'
    <3>1. (Replaying => \A i \in DOMAIN obs : obs[i] = hist[i])'
      <4> SUFFICES ASSUME Replaying', NEW i \in DOMAIN obs'
                   PROVE  obs'[i] = hist[i]
        OBVIOUS
      <4>1. Replaying
        BY <2>4 DEF Replaying
      <4>2. \A j \in 1..Len(obs) : obs[j] = hist[j]
        BY <4>1 DEF Base, LoopInv
      <4> QED
        BY <2>4, <4>1, <4>2
    <3> QED
      BY <1>2, <1>4, <2>3, <2>4, <2>5, <3>1 DEF Base, LoopInv, Live
  <2> QED
    BY <1>4, <2>9, <2>10 DEF Base, DenialIsFinal
<1> QED
  BY <1>5, <1>6

\* The actions after which only the outcome of the run is new.
Quits ==
  \/ \E a \in Actions : RefuseAction(a) \/ Diverge(a)
  \/ Stop \/ Abandon \/ Decline

\* A run that quits leaves everything else as it was.
LEMMA QuitsEffect ==
  ASSUME Quits
  PROVE  /\ Live /\ phase' = "ended"
         /\ \E o \in Outcomes \ {"none"} : End(o)
         /\ UNCHANGED <<visible, guided, action, approved, attempt, sequence, obs,
                        evidence, steps, searches, hist, invoked, denials>>
<1>1. CASE \E a \in Actions : RefuseAction(a)
  BY <1>1 DEF RefuseAction, Live, End, Outcomes, loopVars, history
<1>2. CASE \E a \in Actions : Diverge(a)
  BY <1>2 DEF Diverge, MayCall, Live, End, Outcomes, loopVars, history
<1>3. CASE Stop
  BY <1>3 DEF Stop, Live, End, Outcomes, loopVars, history
<1>4. CASE Abandon
  BY <1>4 DEF Abandon, Live, End, Outcomes, loopVars, history
<1>5. CASE Decline
  BY <1>5 DEF Decline, Live, End, Outcomes, loopVars, history
<1> QED
  BY <1>1, <1>2, <1>3, <1>4, <1>5 DEF Quits

\* The counters of a run that quits.
LEMMA BaseQuits ==
  ASSUME Base, Quits
  PROVE  Base'
<1>1. PICK o \in Outcomes \ {"none"} : End(o)
  BY QuitsEffect
<1>2. /\ Live /\ denials = 0
      /\ sequence \in Nat /\ steps \in 0..MaxSteps /\ searches \in 0..MaxRewrites + 1
  BY QuitsEffect DEF Base, LoopInv, TypeOK
<1> QED
  BY <1>1, <1>2, QuitsEffect, BaseEnds

\* An attempt that is the last one and did not succeed.
LEMMA BaseConcludes ==
  ASSUME Base, phase = "invoking", NEW o \in Outcomes \ {"none"}, Conclude(o),
         invoked' = invoked,
         denials' = denials \/ (denials' = denials + 1 /\ o = "REFUSED")
  PROVE  Base'
<1> USE LimitTypes, BaseFacts
<1>1. Live /\ denials = 0 /\ steps < MaxSteps
      /\ (action.tool = "search" => searches <= MaxRewrites)
  BY DEF Base, LoopInv, Live
<1>2. /\ End(o) /\ steps' = steps + 1
      /\ searches' = IF action.tool = "search" THEN searches + 1 ELSE searches
      /\ UNCHANGED <<visible, guided, action, approved, attempt, sequence, hist>>
      /\ UNCHANGED <<obs, evidence>>
  BY DEF Conclude
<1>3. steps' \in 0..MaxSteps /\ searches' \in 0..MaxRewrites + 1
  BY <1>1, <1>2 DEF Base, TypeOK
<1>4. denials' = 0 \/ (denials' = 1 /\ o = "REFUSED")
  BY <1>1
<1> QED
  BY <1>1, <1>2, <1>3, <1>4, BaseEnds

\* A replayed observation, or a plan that differs from the stored one.
LEMMA BaseReplays ==
  ASSUME Base, NEW a \in Actions, Replay(a)
  PROVE  Base'
<1> USE LimitTypes, BaseFacts
<1> DEFINE o == hist[Len(obs) + 1]
<1>1. /\ Live /\ Replaying /\ steps < MaxSteps
      /\ (a.tool = "search" => searches <= MaxRewrites)
      /\ UNCHANGED <<visible, guided, action, approved, attempt, sequence, hist, invoked, denials>>
  BY DEF Replay, MayCall, Live, history
<1>2. o \in Observation
  <2>1. hist \in Seq(Observation) /\ Len(obs) + 1 \in 1..Len(hist)
    BY <1>1 DEF Base, LoopInv, Replaying
  <2> QED
    BY <2>1, ElementOfSeq
<1>3. CASE o.act = a
  <2>1. Observe(a, o.cites)
    BY <1>3 DEF Replay
  <2>2. o.cites \in Bindings /\ o = [act |-> a, cites |-> o.cites]
    BY <1>2, <1>3, ObservationFields, ObservationWhole
  <2>3. sequence' \in Nat
    BY <1>1
  <2> HIDE DEF o
  <2>4. Replaying => hist[Len(obs) + 1] = [act |-> a, cites |-> o.cites]
    BY <2>2 DEF o
  <2> QED
    BY <1>1, <2>1, <2>2, <2>3, <2>4, BaseObserves
<1>4. CASE o.act # a
  <2>1. End("MISMATCH") /\ UNCHANGED <<obs, evidence, steps, searches>>
    BY <1>4 DEF Replay
  <2>2. denials = 0 /\ steps \in 0..MaxSteps /\ searches \in 0..MaxRewrites + 1
    BY <1>1 DEF Base, LoopInv, TypeOK
  <2>3. "MISMATCH" \in Outcomes \ {"none"}
    BY DEF Outcomes
  <2> HIDE DEF o
  <2> QED
    BY <1>1, <2>1, <2>2, <2>3, BaseEnds
<1> QED
  BY <1>3, <1>4

\* The run waits for an approval.
LEMMA BasePauses ==
  ASSUME Base, NEW a \in Actions, Pause(a)
  PROVE  Base'
<1> USE LimitTypes, BaseFacts
<1>1. /\ phase = "deciding" /\ phase' = "paused" /\ action' = a /\ hist' = obs
      /\ steps < MaxSteps
      /\ UNCHANGED <<visible, guided, outcome, approved, attempt, sequence, obs,
                     evidence, steps, searches, invoked, denials>>
  BY DEF Pause, MayCall, loopVars, history
<1>2. TypeOK'
  BY <1>1 DEF Base, TypeOK
<1>3. LoopInv'
  BY <1>1 DEF Base, LoopInv, TypeOK, Live, Replaying
<1>4. DenialIsFinal'
  BY <1>1 DEF Base, LoopInv, Live, DenialIsFinal
<1> QED
  BY <1>2, <1>3, <1>4 DEF Base

\* Counting an invocation keeps the counters numbers.
LEMMA CountType ==
  ASSUME TypeOK, NEW t \in TOOL_MANIFEST, CountInvocation(t)
  PROVE  /\ invoked' \in [TOOL_MANIFEST -> Nat]
         /\ invoked'[t] <= invoked[t] + 1
         /\ \A u \in TOOL_MANIFEST \ {t} : invoked'[u] = invoked[u]
<1>1. invoked \in [TOOL_MANIFEST -> Nat] /\ invoked[t] \in Nat
  BY DEF TypeOK
<1> DEFINE m == IF invoked[t] > MaxSteps * (1 + MaxRetries) THEN invoked[t] ELSE invoked[t] + 1
<1>2. invoked' = [invoked EXCEPT ![t] = m]
  BY DEF CountInvocation
<1>3. m \in Nat /\ m <= invoked[t] + 1
  BY <1>1
<1> HIDE DEF m
<1> QED
  BY <1>1, <1>2, <1>3

\* The first attempt of a call.
LEMMA BaseCalls ==
  ASSUME Base, NEW a \in Actions, Call(a)
  PROVE  Base'
<1> USE LimitTypes, BaseFacts
<1>1. /\ phase = "deciding" /\ phase' = "invoking" /\ action' = a /\ attempt' = 0
      /\ approved' = NoAction /\ steps < MaxSteps /\ ~Replaying
      /\ (a.tool = "search" => searches <= MaxRewrites)
      /\ a.tool \in TOOL_MANIFEST /\ CountInvocation(a.tool)
      /\ UNCHANGED <<visible, guided, outcome, sequence, obs, evidence, steps,
                     searches, hist, denials>>
  BY DEF Call, MayCall, permitted_catalog
<1>2. invoked' \in [TOOL_MANIFEST -> Nat]
  BY <1>1, CountType DEF Base
<1>3. TypeOK'
  BY <1>1, <1>2 DEF Base, TypeOK
<1>4. LoopInv'
  BY <1>1 DEF Base, LoopInv, Live, Replaying
<1>5. DenialIsFinal'
  BY <1>1 DEF Base, LoopInv, Live, DenialIsFinal
<1> QED
  BY <1>3, <1>4, <1>5 DEF Base

\* An attempt after a transient failure.
LEMMA BaseRetries ==
  ASSUME Base, phase = "invoking", Retry
  PROVE  Base'
<1> USE LimitTypes, BaseFacts
<1>1. /\ attempt < MaxRetries /\ attempt' = attempt + 1 /\ CountInvocation(action.tool)
      /\ UNCHANGED <<visible, guided, phase, outcome, action, approved, sequence, obs,
                     evidence, steps, searches, hist, denials>>
  BY DEF Retry, loopVars
<1>2. action.tool \in TOOL_MANIFEST
  BY DEF Base, LoopInv
<1>3. invoked' \in [TOOL_MANIFEST -> Nat]
  BY <1>1, <1>2, CountType DEF Base
<1>4. TypeOK'
  BY <1>1, <1>3 DEF Base, TypeOK
<1>5. LoopInv'
  BY <1>1 DEF Base, LoopInv, Live, Replaying
<1>6. DenialIsFinal'
  BY <1>1 DEF Base, DenialIsFinal
<1> QED
  BY <1>4, <1>5, <1>6 DEF Base

\* An adapter that returned.
LEMMA BaseReturns ==
  ASSUME Base, AttemptReturns
  PROVE  Base'
<1> USE LimitTypes, BaseFacts
<1>1. PICK scopes \in SUBSET Scopes, found \in Found(action) :
        \/ /\ Observe(action, Number(found))
           /\ sequence' = sequence + Len(found)
           /\ UNCHANGED <<visible, guided, action, approved, attempt, hist>>
        \/ Conclude("TOOL_ERROR")
  BY DEF AttemptReturns
<1>2. /\ phase = "invoking" /\ Live /\ UNCHANGED <<invoked, denials>>
      /\ action \in Actions /\ steps < MaxSteps /\ ~Replaying
      /\ (action.tool = "search" => searches <= MaxRewrites)
  BY DEF AttemptReturns, Base, LoopInv, Live, history
<1>3. ASSUME Observe(action, Number(found)), sequence' = sequence + Len(found),
             UNCHANGED <<visible, guided, action, approved, attempt, hist>>
      PROVE  Base'
  <2>1. Number(found) \in Bindings /\ sequence' \in Nat
    BY <1>2, <1>3, NumberType DEF Base
  <2> QED
    BY <1>2, <1>3, <2>1, BaseObserves
<1>4. CASE Conclude("TOOL_ERROR")
  BY <1>2, <1>4, BaseConcludes DEF Outcomes
<1> QED
  BY <1>1, <1>3, <1>4

\* An adapter that failed, for good or once more.
LEMMA BaseFails ==
  ASSUME Base, AttemptDenied \/ AttemptTransient \/ AttemptFails
  PROVE  Base'
<1>1. CASE AttemptDenied
  BY <1>1, BaseConcludes DEF AttemptDenied, Outcomes
<1>2. CASE AttemptTransient
  <2>1. CASE Retry
    BY <1>2, <2>1, BaseRetries DEF AttemptTransient
  <2>2. CASE ~Retry
    BY <1>2, <2>2, BaseConcludes DEF AttemptTransient, Outcomes, history
  <2> QED
    BY <2>1, <2>2
<1>3. CASE AttemptFails
  BY <1>3, BaseConcludes DEF AttemptFails, Outcomes, history
<1> QED
  BY <1>1, <1>2, <1>3

\* What an approval leaves behind: a fresh loop, or a run that ended.
LEMMA ApproveEffect ==
  ASSUME Approve
  PROVE  /\ phase = "paused"
         /\ UNCHANGED <<visible, guided, action, attempt, hist, invoked, denials>>
         /\ \/ /\ \E o \in Outcomes \ {"none"} : End(o)
               /\ UNCHANGED <<sequence, approved, obs, evidence, steps, searches>>
            \/ /\ phase' = "deciding" /\ outcome' = outcome
               /\ sequence' = StoredEvidence(hist) /\ approved' = action
               /\ obs' = <<>> /\ evidence' = <<>> /\ steps' = 0 /\ searches' = 0
BY DEF Approve, End, Outcomes, loopVars

\* Identifiers numbered without a gap are counted by the last one.
LEMMA StoredCount ==
  ASSUME NEW s, NEW n \in Nat, Numbered(s) = 1..n
  PROVE  StoredEvidence(s) = n
<1>1. Cardinality(1..n) = n
  BY FS_Interval
<1> QED
  BY <1>1 DEF StoredEvidence

\* An approved run starts over with nothing observed.
LEMMA BaseApproves ==
  ASSUME Base, Approve, Numbered(hist) = 1..sequence
  PROVE  Base'
<1> USE LimitTypes, BaseFacts
<1>1. /\ phase = "paused" /\ Live /\ denials = 0 /\ action \in Actions
      /\ UNCHANGED <<visible, guided, action, attempt, hist, invoked, denials>>
  BY ApproveEffect DEF Base, LoopInv, Live
<1>2. ASSUME NEW o \in Outcomes \ {"none"}, End(o),
             UNCHANGED <<sequence, approved, obs, evidence, steps, searches>>
      PROVE  Base'
  <2>1. sequence \in Nat /\ steps \in 0..MaxSteps /\ searches \in 0..MaxRewrites + 1
    BY DEF Base, TypeOK
  <2> QED
    BY <1>1, <1>2, <2>1, BaseEnds
<1>3. ASSUME phase' = "deciding", outcome' = outcome,
             sequence' = StoredEvidence(hist), approved' = action,
             obs' = <<>>, evidence' = <<>>, steps' = 0, searches' = 0
      PROVE  Base'
  <2>1. sequence' \in Nat
    BY <1>3, StoredCount
  <2>2. TypeOK'
    BY <1>1, <1>3, <2>1 DEF Base, TypeOK
  <2>3. LoopInv'
    BY <1>1, <1>3, EmptyAccount DEF Base, LoopInv, Live
  <2>4. DenialIsFinal'
    BY <1>1 DEF DenialIsFinal
  <2> QED
    BY <2>2, <2>3, <2>4 DEF Base
<1> QED
  BY <1>2, <1>3, ApproveEffect

\* A document that comes or goes.
LEMMA BasePublishes ==
  ASSUME Base, NEW c \in Chunks, Publish(c)
  PROVE  Base'
<1>1. /\ visible' \subseteq Chunks
      /\ UNCHANGED <<guided, phase, outcome, action, approved, attempt, sequence, obs,
                     evidence, steps, searches, hist, invoked, denials>>
  BY DEF Publish, loopVars, history, Base, TypeOK
<1>2. TypeOK'
  BY <1>1 DEF Base, TypeOK
<1>3. LoopInv' /\ DenialIsFinal'
  BY <1>1 DEF Base, LoopInv, Live, Replaying, DenialIsFinal
<1> QED
  BY <1>2, <1>3 DEF Base

\* Every step keeps the counters.
LEMMA BaseNext ==
  ASSUME Base, NumberInv, [Next]_vars
  PROVE  Base'
<1>1. CASE \E a \in Actions : Replay(a)
  BY <1>1, BaseReplays
<1>2. CASE \E a \in Actions : Pause(a)
  BY <1>2, BasePauses
<1>3. CASE \E a \in Actions : Call(a)
  BY <1>3, BaseCalls
<1>4. CASE Quits
  BY <1>4, BaseQuits
<1>5. CASE AttemptReturns
  BY <1>5, BaseReturns
<1>6. CASE AttemptDenied \/ AttemptTransient \/ AttemptFails
  BY <1>6, BaseFails
<1>7. CASE Approve
  <2>1. phase = "paused" /\ Account = hist
    BY <1>7 DEF Approve, Account, Base, LoopInv
  <2>2. Numbered(hist) = 1..sequence
    BY <2>1 DEF NumberInv, Numbers, Live
  <2> QED
    BY <1>7, <2>2, BaseApproves
<1>8. CASE \E c \in Chunks : Publish(c)
  BY <1>8, BasePublishes
<1>9. CASE UNCHANGED vars
  <2>1. TypeOK'
    BY <1>9 DEF Base, TypeOK, vars
  <2>2. LoopInv' /\ DenialIsFinal'
    BY <1>9 DEF Base, LoopInv, Live, Replaying, DenialIsFinal, vars
  <2> QED
    BY <2>1, <2>2 DEF Base
<1> QED
  BY <1>1, <1>2, <1>3, <1>4, <1>5, <1>6, <1>7, <1>8, <1>9
  DEF Next, LoopStep, Quits

\* A run starts with nothing counted.
LEMMA BaseInit ==
  ASSUME Init
  PROVE  Base
<1> USE LimitTypes
<1>1. TypeOK
  BY DEF Init, TypeOK, Outcomes
<1>2. LoopInv
  BY EmptyAccount DEF Init, LoopInv, Live, Replaying
<1>3. DenialIsFinal
  BY DEF Init, DenialIsFinal
<1> QED
  BY <1>1, <1>2, <1>3 DEF Base

-----------------------------------------------------------------------------
(***************************************************************************)
(* The identifiers.                                                        *)
(***************************************************************************)

\* Steps that leave the account, the loop's observations and its evidence
\* alone keep the identifiers.
LEMMA NumberSame ==
  ASSUME NumberInv, Live' => Live, Account' = Account,
         UNCHANGED <<sequence, obs, evidence>>
  PROVE  NumberInv'
BY DEF NumberInv, Numbers

\* An observation of the loop's own takes the next identifiers.
LEMMA NumberGrows ==
  ASSUME Base, Live, ~Replaying, NumberInv, NEW a \in Actions, NEW found \in Found(a),
         SnapshotFits(Number(found)),
         obs' = Append(obs, [act |-> a, cites |-> Number(found)]),
         evidence' = [n \in DOMAIN evidence \cup DOMAIN Number(found) |->
                        IF n \in DOMAIN Number(found) THEN Number(found)[n] ELSE evidence[n]],
         sequence' = sequence + Len(found), hist' = hist
  PROVE  Numbers'
         /\ Len(obs') = Len(obs) + 1 /\ Account = obs /\ Account' = obs'
         /\ \A i \in DOMAIN obs : obs'[i] = obs[i]
         /\ Len(found) \in Nat
<1>0. /\ Len(obs) \in Nat /\ DOMAIN obs = 1..Len(obs)
      /\ Len(hist) \in Nat /\ DOMAIN hist = 1..Len(hist)
      /\ sequence \in Nat /\ MaxCites \in Nat
  BY LimitTypes, BaseFacts
<1> DEFINE cites == Number(found)
           o == [act |-> a, cites |-> cites]
           k == Len(found)
<1>1. /\ k \in Nat /\ cites \in Bindings
      /\ DOMAIN cites = sequence + 1..sequence + k /\ Cardinality(DOMAIN cites) = k
  BY NumberType DEF Base
<1>2. o \in Observation /\ o.cites = cites
  BY <1>1, ObservationMade
<1>3. /\ obs \in Seq(Observation) /\ Account = obs
      /\ Numbered(obs) = 1..sequence /\ Disjoint(obs)
      /\ sequence <= Len(obs) * MaxCites
      /\ DOMAIN evidence = Numbered(obs) /\ Filed(obs, evidence)
  BY DEF Base, LoopInv, NumberInv, Numbers, Account
<1>4. k <= MaxCites
  BY <1>1 DEF SnapshotFits
<1> HIDE DEF cites, o, k
<1>5. obs' = Append(obs, o) /\ Len(obs') = Len(obs) + 1
  BY <1>2, <1>3, AppendProperties DEF o, cites
<1>6. ~Replaying' /\ Account' = obs'
  BY <1>0, <1>5 DEF Account, Replaying
<1>7. Numbered(obs') = Numbered(obs) \cup DOMAIN cites
  BY <1>2, <1>3, <1>5, NumberedAppend
<1>8. Numbered(obs') = 1..sequence'
  <2>1. sequence' = sequence + k
    BY DEF k
  <2>2. (1..sequence) \cup (sequence + 1..sequence + k) = 1..sequence + k
    BY <1>0, <1>1
  <2> QED
    BY <1>1, <1>3, <1>7, <2>1, <2>2
<1>9. Disjoint(obs')
  <2>1. Numbered(obs) \cap DOMAIN cites = {}
    BY <1>0, <1>1, <1>3
  <2> QED
    BY <1>2, <1>3, <1>5, <2>1, DisjointAppend
<1>10. sequence' <= Len(obs') * MaxCites
  <2>1. (Len(obs) + 1) * MaxCites = Len(obs) * MaxCites + MaxCites
    BY <1>0, OneMore
  <2>2. Len(obs) * MaxCites \in Nat
    BY <1>0, OneMore
  <2>3. sequence' = sequence + k
    BY DEF k
  <2> QED
    BY <1>0, <1>1, <1>3, <1>4, <1>5, <2>1, <2>2, <2>3
<1>11. evidence' = [n \in DOMAIN evidence \cup DOMAIN cites |->
                      IF n \in DOMAIN cites THEN cites[n] ELSE evidence[n]]
  BY DEF cites
<1>12. DOMAIN evidence' = Numbered(obs')
  BY <1>3, <1>7, <1>11
<1>13. Filed(obs', evidence')
  <2>1. \A n \in DOMAIN o.cites : evidence'[n] = o.cites[n]
    BY <1>2, <1>11
  <2>2. \A i \in DOMAIN obs : \A n \in DOMAIN obs[i].cites : evidence'[n] = evidence[n]
    <3> SUFFICES ASSUME NEW i \in DOMAIN obs, NEW n \in DOMAIN obs[i].cites
                 PROVE  evidence'[n] = evidence[n]
      OBVIOUS
    <3>1. n \in Numbered(obs)
      BY DEF Numbered
    <3> QED
      BY <1>0, <1>1, <1>3, <1>11, <3>1
  <2>3. Filed(obs, evidence')
    BY <1>3, <2>2 DEF Filed
  <2>4. Filed(Append(obs, o), evidence')
    BY <1>2, <1>3, <2>1, <2>3, FiledAppend
  <2> QED
    BY <1>5, <2>4, Zenon
<1>14. Numbers'
  BY <1>6, <1>8, <1>9, <1>10, <1>12, <1>13 DEF Numbers
<1>15. \A i \in DOMAIN obs : obs'[i] = obs[i]
  BY <1>0, <1>2, <1>3, <1>5, AppendProperties
<1>16. Len(found) \in Nat
  BY <1>1 DEF k
<1> QED
  BY <1>3, <1>5, <1>6, <1>14, <1>15, <1>16

\* The observations of a loop that replays are stored ones, and at the end
\* of the replay they are all of them.
LEMMA ReplayedWhole ==
  ASSUME NEW s \in Seq(Observation), NEW h \in Seq(Observation),
         Len(s) = Len(h), \A i \in DOMAIN s : s[i] = h[i]
  PROVE  s = h
<1>1. DOMAIN s = 1..Len(s)
  BY LenProperties
<1> QED
  BY <1>1, SeqEqual

\* Replaying an observation: the account of the run stays the stored one.
LEMMA ReplayEffect ==
  ASSUME Base, NumberInv, NEW a \in Actions, Replay(a), Base',
         hist[Len(obs) + 1].act = a
  PROVE  /\ phase = "deciding" /\ phase' \in {"deciding", "ended"} /\ Live /\ Replaying
         /\ UNCHANGED <<sequence, hist, invoked>>
         /\ Account = hist /\ Account' = hist /\ Len(obs) + 1 \in DOMAIN hist
         /\ hist[Len(obs) + 1] \in Observation
         /\ obs' = Append(obs, hist[Len(obs) + 1])
         /\ evidence' = [n \in DOMAIN evidence \cup DOMAIN hist[Len(obs) + 1].cites |->
                           IF n \in DOMAIN hist[Len(obs) + 1].cites
                             THEN hist[Len(obs) + 1].cites[n] ELSE evidence[n]]
<1>0. /\ Len(obs) \in Nat /\ DOMAIN obs = 1..Len(obs)
      /\ Len(hist) \in Nat /\ DOMAIN hist = 1..Len(hist)
      /\ sequence \in Nat /\ MaxCites \in Nat
  BY LimitTypes, BaseFacts
<1> DEFINE o == hist[Len(obs) + 1]
<1>1. phase = "deciding" /\ Live /\ Replaying /\ UNCHANGED <<sequence, hist, invoked>>
  BY DEF Replay, MayCall, Live, history
<1>2. Len(obs) + 1 \in DOMAIN hist /\ o \in Observation
  BY <1>0, <1>1, ElementOfSeq DEF Base, LoopInv, Replaying
<1>3. o.act = a /\ Observe(a, o.cites)
  BY DEF Replay
<1> HIDE DEF o
<1>4. SnapshotFits(o.cites) /\ [act |-> a, cites |-> o.cites] = o
  BY <1>2, <1>3, ObservationFields, ObservationWhole
<1>5. /\ obs' = Append(obs, o)
      /\ evidence' = [n \in DOMAIN evidence \cup DOMAIN o.cites |->
                        IF n \in DOMAIN o.cites THEN o.cites[n] ELSE evidence[n]]
  BY <1>1, <1>3, <1>4, ObserveEffect DEF Base
<1>6. /\ obs \in Seq(Observation) /\ hist \in Seq(Observation)
      /\ obs' \in Seq(Observation) /\ Account = hist
      /\ \A i \in DOMAIN obs : obs[i] = hist[i]
      /\ Numbered(hist) = 1..sequence /\ Disjoint(hist)
      /\ DOMAIN evidence = Numbered(obs) /\ Filed(obs, evidence)
  BY <1>1 DEF Base, LoopInv, NumberInv, Numbers, Account
<1>7. Len(obs') = Len(obs) + 1 /\ DOMAIN obs' = 1..Len(obs) + 1
  BY <1>0, <1>2, <1>5, <1>6, AppendProperties, LenProperties
<1>8. Account' = hist
  <2>1. CASE Replaying'
    BY <1>1, <2>1 DEF Account
  <2>2. CASE ~Replaying'
    <3>1. Len(obs') = Len(hist)
      <4>1. Len(obs) < Len(hist)
        BY <1>1 DEF Replaying
      <4>2. ~(Len(obs') < Len(hist))
        BY <1>1, <2>2 DEF Replaying
      <4>3. \A m, n \in Nat : m < n /\ ~(m + 1 < n) => m + 1 = n
        OBVIOUS
      <4>4. Len(obs) \in Nat /\ Len(hist) \in Nat /\ Len(obs') = Len(obs) + 1
        BY <1>0, <1>7
      <4> QED
        BY <4>1, <4>2, <4>3, <4>4, Zenon
    <3>2. \A i \in DOMAIN obs' : obs'[i] = hist[i]
      <4>1. \A i \in 1..Len(obs) : obs'[i] = obs[i]
        BY <1>2, <1>5, <1>6, AppendProperties
      <4>2. obs'[Len(obs) + 1] = o
        BY <1>2, <1>5, <1>6, AppendProperties
      <4> QED
        BY <1>0, <1>6, <1>7, <4>1, <4>2 DEF o
    <3> QED
      BY <1>6, <2>2, <3>1, <3>2, ReplayedWhole DEF Account
  <2> QED
    BY <2>1, <2>2
<1>9. phase' \in {"deciding", "ended"}
  BY <1>1, <1>3, ObserveEffect DEF Base, Live
<1> QED
  BY <1>1, <1>2, <1>5, <1>6, <1>8, <1>9 DEF o

\* Replaying an observation moves no identifier.
LEMMA NumberReplays ==
  ASSUME Base, NumberInv, NEW a \in Actions, Replay(a), Base',
         hist[Len(obs) + 1].act = a
  PROVE  Numbers'
<1>0. /\ Len(obs) \in Nat /\ DOMAIN obs = 1..Len(obs)
      /\ Len(hist) \in Nat /\ DOMAIN hist = 1..Len(hist)
  BY BaseFacts
<1> DEFINE o == hist[Len(obs) + 1]
<1>1. Live /\ Replaying /\ UNCHANGED <<sequence, hist>>
  BY ReplayEffect
<1>2. Len(obs) + 1 \in DOMAIN hist /\ o \in Observation
  BY ReplayEffect
<1>5. /\ obs' = Append(obs, o)
      /\ evidence' = [n \in DOMAIN evidence \cup DOMAIN o.cites |->
                        IF n \in DOMAIN o.cites THEN o.cites[n] ELSE evidence[n]]
  BY ReplayEffect
<1>8. Account = hist /\ Account' = hist
  BY ReplayEffect
<1> HIDE DEF o
<1>6. /\ obs \in Seq(Observation) /\ hist \in Seq(Observation)
      /\ obs' \in Seq(Observation)
      /\ \A i \in DOMAIN obs : obs[i] = hist[i]
      /\ Numbered(hist) = 1..sequence /\ Disjoint(hist)
      /\ DOMAIN evidence = Numbered(obs) /\ Filed(obs, evidence)
  BY <1>1, <1>8 DEF Base, LoopInv, NumberInv, Numbers
<1>9. Numbered(obs') = Numbered(obs) \cup DOMAIN o.cites
  BY <1>2, <1>5, <1>6, NumberedAppend
<1>10. DOMAIN evidence' = Numbered(obs')
  BY <1>5, <1>6, <1>9
<1>11. Filed(obs', evidence')
  <2>1. \A n \in DOMAIN o.cites : evidence'[n] = o.cites[n]
    BY <1>5
  <2>2. \A i \in DOMAIN obs : \A n \in DOMAIN obs[i].cites : evidence'[n] = evidence[n]
    <3> SUFFICES ASSUME NEW i \in DOMAIN obs, NEW n \in DOMAIN obs[i].cites
                 PROVE  evidence'[n] = evidence[n]
      OBVIOUS
    <3>1. n \in Numbered(obs)
      BY DEF Numbered
    <3>2. obs[i] = hist[i] /\ i \in DOMAIN hist /\ i # Len(obs) + 1
      BY <1>0, <1>1, <1>6 DEF Replaying
    <3>3. n \notin DOMAIN o.cites
      BY <1>2, <1>6, <3>2 DEF Disjoint, o
    <3> QED
      BY <1>5, <1>6, <3>1, <3>3
  <2>3. Filed(obs, evidence')
    BY <1>6, <2>2 DEF Filed
  <2>4. Filed(Append(obs, o), evidence')
    BY <1>2, <1>6, <2>1, <2>3, FiledAppend
  <2> QED
    BY <1>5, <2>4, Zenon
<1> QED
  BY <1>1, <1>6, <1>8, <1>10, <1>11 DEF NumberInv, Numbers

\* A step that replays and lets the run go on asked for the stored action.
LEMMA ReplayMatches ==
  ASSUME NEW a \in Actions, Replay(a), Live'
  PROVE  hist[Len(obs) + 1].act = a
BY DEF Replay, Live, End

\* What an adapter that returned leaves behind: nothing new and a run that
\* ended, or one observation more.
LEMMA ReturnsEffect ==
  ASSUME Base, AttemptReturns
  PROVE  /\ phase = "invoking" /\ ~Replaying /\ action \in Actions
         /\ UNCHANGED <<action, attempt, hist, invoked>>
         /\ \/ ~Live' /\ UNCHANGED <<obs, evidence>>
            \/ /\ phase' \in {"deciding", "ended"}
               /\ \E found \in Found(action) :
                    /\ SnapshotFits(Number(found))
                    /\ sequence' = sequence + Len(found)
                    /\ obs' = Append(obs, [act |-> action, cites |-> Number(found)])
                    /\ evidence' = [n \in DOMAIN evidence \cup DOMAIN Number(found) |->
                                      IF n \in DOMAIN Number(found)
                                        THEN Number(found)[n] ELSE evidence[n]]
<1>1. phase = "invoking" /\ Live /\ ~Replaying /\ action \in Actions /\ invoked' = invoked
  BY DEF AttemptReturns, Base, LoopInv, Live, history
<1>2. PICK scopes \in SUBSET Scopes, found \in Found(action) :
        \/ /\ Observe(action, Number(found))
           /\ sequence' = sequence + Len(found)
           /\ UNCHANGED <<visible, guided, action, approved, attempt, hist>>
        \/ Conclude("TOOL_ERROR")
  BY DEF AttemptReturns
<1>3. CASE Conclude("TOOL_ERROR")
  BY <1>1, <1>3 DEF Conclude, End, Live
<1>4. CASE ~Conclude("TOOL_ERROR")
  <2>1. /\ Observe(action, Number(found)) /\ sequence' = sequence + Len(found)
        /\ UNCHANGED <<action, attempt, hist>>
    BY <1>2, <1>4
  <2>2. CASE ~SnapshotFits(Number(found))
    <3>1. obs' = obs /\ evidence' = evidence /\ phase' = "ended"
      BY <1>1, <2>1, <2>2, ObserveEffect, Zenon DEF Base
    <3> QED
      BY <1>1, <2>1, <3>1 DEF Live
  <2>3. CASE SnapshotFits(Number(found))
    <3>1. phase' \in {"deciding", "ended"}
      BY <1>1, <2>1, ObserveEffect, Zenon DEF Base
    <3>2. /\ obs' = Append(obs, [act |-> action, cites |-> Number(found)])
          /\ evidence' = [n \in DOMAIN evidence \cup DOMAIN Number(found) |->
                            IF n \in DOMAIN Number(found)
                              THEN Number(found)[n] ELSE evidence[n]]
      BY <1>1, <2>1, <2>3, ObserveEffect, Zenon DEF Base
    <3> QED
      BY <1>1, <2>1, <2>3, <3>1, <3>2
  <2> QED
    BY <2>2, <2>3
<1> QED
  BY <1>3, <1>4

\* What the other steps of a run that goes on leave alone.
LEMMA QuietEffect ==
  ASSUME Base, Live',
         \/ \E a \in Actions : Pause(a) \/ Call(a)
         \/ AttemptDenied \/ AttemptTransient \/ AttemptFails
         \/ \E c \in Chunks : Publish(c)
         \/ UNCHANGED vars
  PROVE  Live /\ Account' = Account /\ UNCHANGED <<sequence, obs, evidence>>
<1>1. CASE \E a \in Actions : Pause(a)
  BY <1>1 DEF Pause, MayCall, Live, Account, Replaying, loopVars
<1>2. CASE \E a \in Actions : Call(a)
  BY <1>2 DEF Call, MayCall, Live, Account, Replaying
<1>3. CASE AttemptDenied \/ AttemptTransient \/ AttemptFails
  <2>1. phase = "invoking" /\ Retry
    BY <1>3 DEF AttemptDenied, AttemptTransient, AttemptFails, Conclude, End, Live
  <2> QED
    BY <2>1 DEF Retry, Live, Account, Replaying, loopVars
<1>4. CASE \E c \in Chunks : Publish(c)
  BY <1>4 DEF Publish, Live, Account, Replaying, loopVars
<1>5. CASE UNCHANGED vars
  BY <1>5 DEF vars, Live, Account, Replaying
<1> QED
  BY <1>1, <1>2, <1>3, <1>4, <1>5

\* A rebuilt run has the stored account.
LEMMA ApprovedAccount ==
  ASSUME Base, NumberInv, Approve, Live'
  PROVE  /\ Account' = Account /\ Account = hist /\ hist = obs /\ Live
         /\ sequence' = sequence /\ obs' = <<>> /\ evidence' = <<>>
         /\ phase = "paused" /\ phase' = "deciding" /\ UNCHANGED <<hist, invoked>>
<1>1. /\ phase = "paused" /\ UNCHANGED <<hist, invoked>>
      /\ phase' = "deciding" /\ sequence' = StoredEvidence(hist)
      /\ obs' = <<>> /\ evidence' = <<>>
  BY ApproveEffect DEF Live, End
<1>2. hist = obs /\ Live /\ Account = hist /\ hist \in Seq(Observation)
  BY <1>1 DEF Base, LoopInv, Live, Account
<1>3. sequence' = sequence
  <2>1. sequence \in Nat /\ Numbered(hist) = 1..sequence
    BY <1>2 DEF NumberInv, Numbers, Base, TypeOK
  <2> QED
    BY <1>1, <2>1, StoredCount
<1>4. Account' = hist
  <2>1. CASE Replaying'
    BY <1>1, <2>1 DEF Account
  <2>2. CASE ~Replaying'
    <3>1. Len(hist) = 0
      BY <1>1, <1>2, <2>2, LenProperties, EmptyAccount DEF Replaying
    <3>2. hist = <<>>
      BY <1>2, <3>1
    <3> QED
      BY <1>1, <2>2, <3>2 DEF Account
  <2> QED
    BY <2>1, <2>2
<1> QED
  BY <1>1, <1>2, <1>3, <1>4

\* Every step keeps the identifiers.
LEMMA NumberNext ==
  ASSUME Base, Base', NumberInv, [Next]_vars
  PROVE  NumberInv'
<1> SUFFICES ASSUME Live'
             PROVE  NumberInv'
  BY DEF NumberInv
<1>1. CASE \E a \in Actions : Replay(a)
  BY <1>1, ReplayMatches, NumberReplays DEF NumberInv
<1>2. CASE Quits
  BY <1>2, QuitsEffect DEF Live
<1>3. CASE AttemptReturns
  <2>1. PICK found \in Found(action) :
          /\ SnapshotFits(Number(found))
          /\ sequence' = sequence + Len(found)
          /\ obs' = Append(obs, [act |-> action, cites |-> Number(found)])
          /\ evidence' = [n \in DOMAIN evidence \cup DOMAIN Number(found) |->
                            IF n \in DOMAIN Number(found)
                              THEN Number(found)[n] ELSE evidence[n]]
    BY <1>3, ReturnsEffect
  <2>2. Live /\ ~Replaying /\ action \in Actions /\ hist' = hist
    BY <1>3, ReturnsEffect DEF Live
  <2> QED
    BY <2>1, <2>2, NumberGrows DEF NumberInv
<1>4. CASE Approve
  <2>1. /\ Account' = Account /\ Live /\ sequence' = sequence
        /\ obs' = <<>> /\ evidence' = <<>>
    BY <1>4, ApprovedAccount
  <2>2. DOMAIN evidence' = {} /\ Numbered(obs') = {} /\ Filed(obs', evidence')
    BY <2>1, EmptyAccount
  <2> QED
    BY <2>1, <2>2 DEF NumberInv, Numbers
<1>5. CASE \/ \E a \in Actions : Pause(a) \/ Call(a)
           \/ AttemptDenied \/ AttemptTransient \/ AttemptFails
           \/ \E c \in Chunks : Publish(c)
           \/ UNCHANGED vars
  BY <1>5, QuietEffect, NumberSame
<1> QED
  BY <1>1, <1>2, <1>3, <1>4, <1>5 DEF Next, LoopStep, Quits

\* A run starts with nothing numbered.
LEMMA NumberInit ==
  ASSUME Init
  PROVE  NumberInv
<1>1. Account = <<>> /\ obs = <<>> /\ evidence = <<>> /\ sequence = 0
  BY DEF Init, Account
<1>2. DOMAIN evidence = {} /\ Filed(obs, evidence)
  BY <1>1, EmptyAccount
<1>3. 0 <= 0 * MaxCites
  BY LimitTypes
<1> QED
  BY <1>1, <1>2, <1>3, EmptyAccount DEF NumberInv, Numbers

-----------------------------------------------------------------------------
(***************************************************************************)
(* The budget.                                                             *)
(***************************************************************************)

\* One invocation more makes the total one more at most.
LEMMA TotalGrows ==
  ASSUME TypeOK, NEW t \in TOOL_MANIFEST, CountInvocation(t)
  PROVE  /\ Total(invoked) \in Nat /\ Total(invoked') \in Nat
         /\ Total(invoked') <= Total(invoked) + 1
         /\ invoked["search"] \in Nat /\ invoked'["search"] \in Nat
         /\ invoked'["search"] <= invoked["search"] + (IF t = "search" THEN 1 ELSE 0)
<1>1. invoked \in [TOOL_MANIFEST -> Nat] /\ invoked' \in [TOOL_MANIFEST -> Nat]
  BY CountType DEF TypeOK
<1>2. \A u \in TOOL_MANIFEST : invoked[u] \in Nat /\ invoked'[u] \in Nat
                               /\ invoked'[u] <= invoked[u] + (IF t = u THEN 1 ELSE 0)
  BY <1>1, CountType
<1>3. t \in {"search", "excerpt", "calculate", "search_memory", "propose_memory"}
  BY DEF TOOL_MANIFEST
<1> QED
  BY <1>2, <1>3 DEF TOOL_MANIFEST, Total

\* What the budget is made of.
LEMMA BudgetTypes ==
  ASSUME Base
  PROVE  /\ Account \in Seq(Observation)
         /\ Len(Account) \in Nat /\ SearchCount(Account) \in Nat
         /\ Len(Account) * (1 + MaxRetries) \in Nat
         /\ SearchCount(Account) * (1 + MaxRetries) \in Nat
         /\ Total(invoked) \in Nat /\ invoked["search"] \in Nat
         /\ attempt \in Nat /\ attempt <= MaxRetries
<1>1. Account \in Seq(Observation)
  BY DEF Base, LoopInv, Account
<1>2. Len(Account) \in Nat /\ SearchCount(Account) \in Nat
  BY <1>1, LenProperties, SearchCountType
<1>3. 1 + MaxRetries \in Nat
  BY LimitTypes
<1>4. /\ Len(Account) * (1 + MaxRetries) \in Nat
      /\ SearchCount(Account) * (1 + MaxRetries) \in Nat
  BY <1>2, <1>3, OneMore
<1>5. \A t \in TOOL_MANIFEST : invoked[t] \in Nat
  BY DEF Base, TypeOK
<1>6. Total(invoked) \in Nat /\ invoked["search"] \in Nat
  BY <1>5 DEF TOOL_MANIFEST, Total
<1>7. attempt \in Nat /\ attempt <= MaxRetries
  BY LimitTypes DEF Base, TypeOK
<1> QED
  BY <1>1, <1>2, <1>4, <1>6, <1>7

\* Invocations within the observations are within the limits of the run.
LEMMA BudgetImplies ==
  ASSUME Base, Live, BudgetInv
  PROVE  BudgetsKept
<1> DEFINE R == 1 + MaxRetries
           calls == Len(Account)
           found == SearchCount(Account)
<1>1. R \in Nat /\ MaxSteps \in Nat /\ 1 + MaxRewrites \in Nat
  BY LimitTypes
<1>2. /\ calls \in Nat /\ found \in Nat /\ calls * R \in Nat /\ found * R \in Nat
      /\ Total(invoked) \in Nat /\ invoked["search"] \in Nat
      /\ attempt \in Nat /\ attempt + 1 <= R
  BY BudgetTypes, LimitTypes
<1>3. Total(invoked) <= calls * R + Spending
  BY DEF BudgetInv
<1>4. invoked["search"] <= found * R + SpendingOnSearch
  BY DEF BudgetInv
<1>5. /\ calls <= MaxSteps /\ found <= 1 + MaxRewrites
      /\ phase = "invoking" =>
           /\ calls < MaxSteps
           /\ action.tool = "search" => found < 1 + MaxRewrites
  BY LimitTypes, BaseFacts DEF Base, LoopInv, TypeOK, Account, Live
<1> HIDE DEF R, calls, found
<1>6. Total(invoked) <= MaxSteps * R
  <2>1. CASE phase = "invoking"
    <3>1. calls + 1 <= MaxSteps /\ calls + 1 \in Nat
      BY <1>1, <1>2, <1>5, <2>1
    <3>2. (calls + 1) * R <= MaxSteps * R
      BY <1>1, <3>1, Fewer
    <3>3. (calls + 1) * R = calls * R + R
      BY <1>1, <1>2, OneMore
    <3>4. MaxSteps * R \in Nat
      BY <1>1, OneMore
    <3>5. Spending = attempt + 1
      BY <2>1 DEF Spending
    <3> QED
      BY <1>1, <1>2, <1>3, <3>2, <3>3, <3>4, <3>5
  <2>2. CASE phase # "invoking"
    <3>1. calls * R <= MaxSteps * R
      BY <1>1, <1>2, <1>5, Fewer
    <3>2. MaxSteps * R \in Nat
      BY <1>1, OneMore
    <3>3. Spending = 0
      BY <2>2 DEF Spending
    <3> QED
      BY <1>2, <1>3, <3>1, <3>2, <3>3
  <2> QED
    BY <2>1, <2>2
<1>7. invoked["search"] <= (1 + MaxRewrites) * R
  <2>0. (1 + MaxRewrites) * R \in Nat
    BY <1>1, OneMore
  <2>1. CASE phase = "invoking" /\ action.tool = "search"
    <3>1. found + 1 <= 1 + MaxRewrites /\ found + 1 \in Nat
      BY <1>1, <1>2, <1>5, <2>1
    <3>2. (found + 1) * R <= (1 + MaxRewrites) * R
      BY <1>1, <3>1, Fewer
    <3>3. (found + 1) * R = found * R + R
      BY <1>1, <1>2, OneMore
    <3>4. SpendingOnSearch = attempt + 1
      BY <2>1 DEF SpendingOnSearch
    <3> QED
      BY <1>1, <1>2, <1>4, <2>0, <3>2, <3>3, <3>4
  <2>2. CASE ~(phase = "invoking" /\ action.tool = "search")
    <3>1. found * R <= (1 + MaxRewrites) * R
      BY <1>1, <1>2, <1>5, Fewer
    <3>2. SpendingOnSearch = 0
      BY <2>2 DEF SpendingOnSearch
    <3> QED
      BY <1>2, <1>4, <2>0, <3>1, <3>2
  <2> QED
    BY <2>1, <2>2
<1> QED
  BY <1>6, <1>7 DEF BudgetsKept, R

\* A step that invokes nothing and spends nothing.
LEMMA BudgetSame ==
  ASSUME Base, BudgetInv, Live, Account' = Account, invoked' = invoked,
         Spending' = Spending, SpendingOnSearch' = SpendingOnSearch
  PROVE  BudgetInv'
BY DEF BudgetInv

\* An attempt spends one invocation of its tool.
LEMMA BudgetSpends ==
  ASSUME Base, BudgetInv, Live, Account' = Account, NEW t \in TOOL_MANIFEST,
         CountInvocation(t), Spending \in Nat, SpendingOnSearch \in Nat,
         Spending' = Spending + 1,
         SpendingOnSearch' = SpendingOnSearch + (IF t = "search" THEN 1 ELSE 0)
  PROVE  BudgetInv'
<1> DEFINE calls == Len(Account) * (1 + MaxRetries)
           found == SearchCount(Account) * (1 + MaxRetries)
<1>1. calls \in Nat /\ found \in Nat
  BY BudgetTypes
<1>2. /\ Total(invoked) <= calls + Spending
      /\ invoked["search"] <= found + SpendingOnSearch
  BY DEF BudgetInv
<1>3. /\ Total(invoked) \in Nat /\ Total(invoked') \in Nat
      /\ Total(invoked') <= Total(invoked) + 1
      /\ invoked["search"] \in Nat /\ invoked'["search"] \in Nat
      /\ invoked'["search"] <= invoked["search"] + (IF t = "search" THEN 1 ELSE 0)
  BY TotalGrows DEF Base
<1>4. calls' = calls /\ found' = found
  OBVIOUS
<1> HIDE DEF calls, found
<1>5. Total(invoked') <= calls + Spending'
  BY <1>1, <1>2, <1>3
<1>6. invoked'["search"] <= found + SpendingOnSearch'
  BY <1>1, <1>2, <1>3
<1> QED
  BY <1>4, <1>5, <1>6 DEF BudgetInv, calls, found

\* An observation pays for the attempts of its call.
LEMMA BudgetReturns ==
  ASSUME Base, BudgetInv, AttemptReturns, Live'
  PROVE  BudgetInv'
<1> DEFINE R == 1 + MaxRetries
           calls == Len(obs)
           count == SearchCount(obs)
<1>1. /\ phase = "invoking" /\ phase' = "deciding" /\ ~Replaying /\ action \in Actions
      /\ UNCHANGED <<action, attempt, hist, invoked>>
  BY ReturnsEffect DEF Live
<1>2. PICK found \in Found(action) :
        /\ SnapshotFits(Number(found))
        /\ obs' = Append(obs, [act |-> action, cites |-> Number(found)])
  BY ReturnsEffect
<1> DEFINE o == [act |-> action, cites |-> Number(found)]
<1>3. o \in Observation /\ o.act = action
  BY <1>1, <1>2, NumberType, ObservationMade DEF Base
<1>4. obs \in Seq(Observation) /\ Account = obs
  BY <1>1 DEF Base, LoopInv, Account
<1> HIDE DEF o
<1>5. Len(obs') = calls + 1
  BY <1>2, <1>3, <1>4, AppendProperties DEF o
<1>6. SearchCount(obs') = IF action.tool = "search" THEN count + 1 ELSE count
  BY <1>2, <1>3, <1>4, SearchCountAppend DEF o
<1>7. Account' = obs'
  <2>1. Len(obs) \in Nat /\ Len(hist) \in Nat
    BY BaseFacts
  <2> QED
    BY <1>1, <1>5, <2>1 DEF Account, Replaying
<1>8. /\ calls \in Nat /\ count \in Nat /\ calls * R \in Nat /\ count * R \in Nat
      /\ Total(invoked) \in Nat /\ invoked["search"] \in Nat
      /\ attempt \in Nat /\ attempt + 1 <= R /\ R \in Nat
  BY <1>4, BudgetTypes, LimitTypes
<1>9. /\ Total(invoked) <= calls * R + attempt + 1
      /\ invoked["search"] <= count * R + (IF action.tool = "search" THEN attempt + 1 ELSE 0)
  BY <1>1, <1>4, <1>8 DEF BudgetInv, Live, Spending, SpendingOnSearch
<1>10. Spending' = 0 /\ SpendingOnSearch' = 0
  BY <1>1 DEF Spending, SpendingOnSearch
<1> HIDE DEF R, calls, count
<1>11. (calls + 1) * R = calls * R + R /\ (count + 1) * R = count * R + R
  BY <1>8, OneMore
<1>12. Total(invoked) <= Len(obs') * R
  BY <1>5, <1>8, <1>9, <1>11
<1>13. invoked["search"] <= SearchCount(obs') * R
  BY <1>6, <1>8, <1>9, <1>11
<1>14. Len(obs') * R \in Nat /\ SearchCount(obs') * R \in Nat
  BY <1>5, <1>6, <1>8, <1>11
<1> QED
  BY <1>1, <1>7, <1>10, <1>12, <1>13, <1>14 DEF BudgetInv, R

\* Every step keeps the budget.
LEMMA BudgetNext ==
  ASSUME Base, Base', NumberInv, BudgetInv, [Next]_vars
  PROVE  BudgetInv'
<1> SUFFICES ASSUME Live'
             PROVE  BudgetInv'
  BY DEF BudgetInv
<1>1. CASE \E a \in Actions : Replay(a)
  <2>1. /\ phase = "deciding" /\ phase' = "deciding" /\ Live
        /\ Account' = Account /\ invoked' = invoked
    BY <1>1, ReplayMatches, ReplayEffect DEF Live
  <2>2. Spending' = Spending /\ SpendingOnSearch' = SpendingOnSearch
    BY <2>1 DEF Spending, SpendingOnSearch
  <2> QED
    BY <2>1, <2>2, BudgetSame
<1>2. CASE Quits
  BY <1>2, QuitsEffect DEF Live
<1>3. CASE AttemptReturns
  BY <1>3, BudgetReturns
<1>4. CASE Approve
  <2>1. /\ phase = "paused" /\ phase' = "deciding" /\ Live
        /\ Account' = Account /\ invoked' = invoked
    BY <1>4, ApprovedAccount
  <2>2. Spending' = Spending /\ SpendingOnSearch' = SpendingOnSearch
    BY <2>1 DEF Spending, SpendingOnSearch
  <2> QED
    BY <2>1, <2>2, BudgetSame
<1>5. CASE \E a \in Actions : Pause(a)
  <2>1. Live /\ Account' = Account
    BY <1>5, QuietEffect
  <2>2. phase = "deciding" /\ phase' = "paused" /\ invoked' = invoked
    BY <1>5 DEF Pause, MayCall, history
  <2>3. Spending' = Spending /\ SpendingOnSearch' = SpendingOnSearch
    BY <2>2 DEF Spending, SpendingOnSearch
  <2> QED
    BY <2>1, <2>2, <2>3, BudgetSame
<1>6. ASSUME NEW a \in Actions, Call(a)
      PROVE  BudgetInv'
  <2>1. Live /\ Account' = Account
    BY <1>6, QuietEffect
  <2>2. /\ phase = "deciding" /\ phase' = "invoking" /\ action' = a /\ attempt' = 0
        /\ a.tool \in TOOL_MANIFEST /\ CountInvocation(a.tool)
    BY <1>6 DEF Call, MayCall, permitted_catalog
  <2>3. /\ Spending = 0 /\ Spending' = Spending + 1 /\ SpendingOnSearch = 0
        /\ SpendingOnSearch' = SpendingOnSearch + (IF a.tool = "search" THEN 1 ELSE 0)
    BY <2>2 DEF Spending, SpendingOnSearch
  <2> QED
    BY <2>1, <2>2, <2>3, BudgetSpends
<1>7. CASE AttemptDenied \/ AttemptTransient \/ AttemptFails
  <2>1. phase = "invoking" /\ Retry
    BY <1>7 DEF AttemptDenied, AttemptTransient, AttemptFails, Conclude, End, Live
  <2>2. Live /\ Account' = Account
    BY <1>7, QuietEffect
  <2>3. /\ attempt' = attempt + 1 /\ CountInvocation(action.tool)
        /\ UNCHANGED <<phase, action>>
    BY <2>1 DEF Retry
  <2>4. action.tool \in TOOL_MANIFEST /\ attempt \in Nat
    BY <2>1, BaseFacts DEF Base, LoopInv
  <2>5. /\ Spending = attempt + 1 /\ Spending' = Spending + 1 /\ SpendingOnSearch \in Nat
        /\ SpendingOnSearch' = SpendingOnSearch + (IF action.tool = "search" THEN 1 ELSE 0)
    BY <2>1, <2>3, <2>4 DEF Spending, SpendingOnSearch
  <2> QED
    BY <2>2, <2>3, <2>4, <2>5, BudgetSpends
<1>8. CASE (\E c \in Chunks : Publish(c)) \/ UNCHANGED vars
  <2>1. Live /\ Account' = Account
    BY <1>8, QuietEffect
  <2>2. UNCHANGED <<phase, action, attempt, invoked>>
    BY <1>8 DEF Publish, history, vars
  <2>3. Spending' = Spending /\ SpendingOnSearch' = SpendingOnSearch
    BY <2>2 DEF Spending, SpendingOnSearch
  <2> QED
    BY <2>1, <2>2, <2>3, BudgetSame
<1> QED
  BY <1>1, <1>2, <1>3, <1>4, <1>5, <1>6, <1>7, <1>8 DEF Next, LoopStep, Quits

\* The step that ends a run invokes no adapter.
LEMMA EndingInvokesNothing ==
  ASSUME [Next]_vars, ~Live'
  PROVE  invoked' = invoked
<1>1. ASSUME NEW a \in Actions, RefuseAction(a) \/ Replay(a) \/ Diverge(a) \/ Pause(a)
      PROVE  invoked' = invoked
  BY <1>1 DEF RefuseAction, Replay, Diverge, Pause, history
<1>2. ASSUME NEW a \in Actions, Call(a)
      PROVE  FALSE
  BY <1>2 DEF Call, Live
<1>3. CASE Stop \/ AttemptReturns \/ AttemptDenied \/ AttemptFails \/ Abandon
           \/ Approve \/ Decline
  BY <1>3 DEF Stop, AttemptReturns, AttemptDenied, AttemptFails, Abandon, Approve,
              Decline, history
<1>4. CASE AttemptTransient
  BY <1>4 DEF AttemptTransient, Retry, Live, history
<1>5. CASE (\E c \in Chunks : Publish(c)) \/ UNCHANGED vars
  BY <1>5 DEF Publish, vars, history
<1> QED
  BY <1>1, <1>2, <1>3, <1>4, <1>5 DEF Next, LoopStep

\* The invariant holds at the start.
LEMMA InvInit ==
  ASSUME Init
  PROVE  Inv
<1>1. Base /\ NumberInv
  BY BaseInit, NumberInit
<1>2. BudgetInv
  <2>1. Total(invoked) = 0 /\ invoked["search"] = 0
    BY DEF Init, Total, TOOL_MANIFEST
  <2>2. Spending = 0 /\ SpendingOnSearch = 0
    BY DEF Init, Spending, SpendingOnSearch
  <2> QED
    BY <1>1, <2>1, <2>2, BudgetTypes DEF BudgetInv
<1>3. Live
  BY DEF Init, Live
<1> QED
  BY <1>1, <1>2, <1>3, BudgetImplies DEF Inv

\* Every step keeps the invariant.
LEMMA InvNext ==
  ASSUME Inv, [Next]_vars
  PROVE  Inv'
<1>1. Base /\ NumberInv /\ BudgetInv /\ BudgetsKept
  BY DEF Inv
<1>2. Base'
  BY <1>1, BaseNext
<1>3. NumberInv'
  BY <1>1, <1>2, NumberNext
<1>4. BudgetInv'
  BY <1>1, <1>2, BudgetNext
<1>5. BudgetsKept'
  <2>1. CASE Live'
    BY <1>2, <1>4, <2>1, BudgetImplies, PTL
  <2>2. CASE ~Live'
    BY <1>1, <2>2, EndingInvokesNothing DEF BudgetsKept
  <2> QED
    BY <2>1, <2>2
<1> QED
  BY <1>2, <1>3, <1>4, <1>5 DEF Inv

-----------------------------------------------------------------------------
(***************************************************************************)
(* The evidence book.                                                      *)
(***************************************************************************)

\* The book of the refinement mapping.
BookNow == IF Replaying THEN Cites(hist) ELSE evidence

BookFits ==
  /\ DOMAIN BookNow = 1..sequence
  /\ \A i \in DOMAIN Account : \A n \in DOMAIN Account[i].cites :
       BookNow[n] = Account[i].cites[n]
  /\ \A n \in DOMAIN BookNow : BookNow[n] \in Chunks

\* A step of the book, in terms of the run.
BookStep ==
  /\ Live /\ Live' \in BOOLEAN
  /\ \A n \in DOMAIN BookNow' : n \in Nat \ {0} /\ 1..n \subseteq DOMAIN BookNow'
  /\ \A n \in DOMAIN BookNow : n \in DOMAIN BookNow' /\ BookNow'[n] = BookNow[n]
  /\ \A n \in DOMAIN BookNow' : BookNow'[n] \in Chunks

\* The mapping takes the steps of the run to those of the book.
LEMMA BookStepIs == BookStep => Book!Next
BY Zenon DEF BookStep, Book!Next, BookNow, Live

\* The book says what the account of the run says.
LEMMA BookOfAccount ==
  ASSUME Base, Numbers
  PROVE  BookFits
<1>1. CASE Replaying
  <2>1. hist \in Seq(Observation) /\ Disjoint(hist) /\ Numbered(hist) = 1..sequence
    BY <1>1 DEF Base, LoopInv, Numbers, Account
  <2>2. BookNow = Cites(hist) /\ Account = hist
    BY <1>1 DEF BookNow, Account
  <2> QED
    BY <2>1, <2>2, CitesOwner DEF BookFits
<1>2. CASE ~Replaying
  <2>1. BookNow = evidence /\ Account = obs
    BY <1>2 DEF BookNow, Account
  <2>2. \A n \in DOMAIN evidence : evidence[n] \in Chunks
    BY DEF Base, TypeOK
  <2> QED
    BY <2>1, <2>2 DEF Numbers, Filed, BookFits
<1> QED
  BY <1>1, <1>2

\* A run that has not ended and keeps its book.
LEMMA BookKept ==
  ASSUME Base, Numbers, Live, BookNow' = BookNow
  PROVE  Book!Next
<1>1. sequence \in Nat
  BY DEF Base, TypeOK
<1>2. DOMAIN BookNow = 1..sequence /\ \A n \in DOMAIN BookNow : BookNow[n] \in Chunks
  BY BookOfAccount DEF BookFits
<1>3. \A n \in 1..sequence : n \in Nat \ {0} /\ 1..n \subseteq 1..sequence
  BY <1>1
<1> QED
  BY <1>2, <1>3, BookStepIs DEF BookStep, Live

\* A run that has not ended and whose account gets longer, or stays.
LEMMA BookExtended ==
  ASSUME Base, Numbers, Live, Base', Numbers',
         sequence' >= sequence,
         \A i \in DOMAIN Account : i \in DOMAIN Account' /\ Account'[i] = Account[i]
  PROVE  Book!Next
<1>1. sequence \in Nat /\ sequence' \in Nat
  BY DEF Base, TypeOK
<1>2. /\ DOMAIN BookNow = 1..sequence
      /\ \A i \in DOMAIN Account : \A n \in DOMAIN Account[i].cites :
           BookNow[n] = Account[i].cites[n]
  BY BookOfAccount DEF BookFits
<1>7. BookFits'
  BY BookOfAccount, PTL
<1>3. /\ DOMAIN BookNow' = 1..sequence'
      /\ \A i \in DOMAIN Account' : \A n \in DOMAIN Account'[i].cites :
           BookNow'[n] = Account'[i].cites[n]
      /\ \A n \in DOMAIN BookNow' : BookNow'[n] \in Chunks
  BY <1>7 DEF BookFits
<1>4. \A n \in 1..sequence' : n \in Nat \ {0} /\ 1..n \subseteq 1..sequence'
  BY <1>1
<1>5. ASSUME NEW n \in DOMAIN BookNow
      PROVE  n \in DOMAIN BookNow' /\ BookNow'[n] = BookNow[n]
  <2>1. n \in 1..sequence /\ n \in Numbered(Account)
    BY <1>2 DEF Numbers
  <2>2. PICK i \in DOMAIN Account : n \in DOMAIN Account[i].cites
    BY <2>1 DEF Numbered
  <2>3. i \in DOMAIN Account' /\ Account'[i] = Account[i]
    BY <2>2
  <2>4. BookNow'[n] = BookNow[n]
    BY <1>2, <1>3, <2>2, <2>3
  <2>5. n \in 1..sequence'
    BY <1>1, <2>1
  <2> QED
    BY <1>3, <2>4, <2>5
<1>6. /\ \A n \in DOMAIN BookNow' : n \in Nat \ {0} /\ 1..n \subseteq DOMAIN BookNow'
      /\ \A n \in DOMAIN BookNow : n \in DOMAIN BookNow' /\ BookNow'[n] = BookNow[n]
      /\ \A n \in DOMAIN BookNow' : BookNow'[n] \in Chunks
  BY <1>3, <1>4, <1>5
<1> QED
  BY <1>6, BookStepIs DEF BookStep, Live

\* Every step is a step of the book, or leaves it alone.
LEMMA BookNext ==
  ASSUME Inv, Inv', [Next]_vars
  PROVE  [Book!Next]_(Book!vars)
<1>1. CASE UNCHANGED vars
  BY <1>1 DEF vars, Book!vars, Replaying, Cites, Numbered
<1>2. CASE Next
  <2>1. Live
    BY <1>2 DEF Next, LoopStep, RefuseAction, Replay, Diverge, Pause, Call, MayCall, Stop,
                AttemptReturns, AttemptDenied, AttemptTransient, AttemptFails, Abandon,
                Approve, Decline, Publish, Live
  <2>2. Base /\ Base' /\ NumberInv /\ NumberInv' /\ Numbers
    BY <2>1 DEF Inv, NumberInv
  <2>3. ASSUME UNCHANGED <<obs, hist, evidence>>
        PROVE  Book!Next
    <3>1. BookNow' = BookNow
      BY <2>3 DEF BookNow, Replaying, Cites, Numbered
    <3> QED
      BY <2>1, <2>2, <3>1, BookKept
  <2>4. ASSUME NEW a \in Actions, Replay(a)
        PROVE  Book!Next
    <3>1. CASE hist[Len(obs) + 1].act = a
      <4>1. Numbers' /\ Account' = Account /\ sequence' = sequence
        BY <2>2, <2>4, <3>1, NumberReplays, ReplayEffect
      <4>2. sequence' >= sequence
        BY <2>2, <4>1, BaseFacts
      <4> QED
        BY <2>1, <2>2, <4>1, <4>2, BookExtended
    <3>2. CASE hist[Len(obs) + 1].act # a
      BY <2>3, <2>4, <3>2 DEF Replay
    <3> QED
      BY <3>1, <3>2
  <2>5. CASE Quits
    BY <2>3, <2>5, QuitsEffect
  <2>6. CASE AttemptReturns
    <3>1. CASE UNCHANGED <<obs, evidence>>
      BY <2>2, <2>3, <2>6, <3>1, ReturnsEffect
    <3>2. CASE ~UNCHANGED <<obs, evidence>>
      <4>1. PICK found \in Found(action) :
              /\ SnapshotFits(Number(found))
              /\ sequence' = sequence + Len(found)
              /\ obs' = Append(obs, [act |-> action, cites |-> Number(found)])
              /\ evidence' = [n \in DOMAIN evidence \cup DOMAIN Number(found) |->
                                IF n \in DOMAIN Number(found)
                                  THEN Number(found)[n] ELSE evidence[n]]
        BY <2>2, <2>6, <3>2, ReturnsEffect
      <4>2. ~Replaying /\ action \in Actions /\ hist' = hist
        BY <2>2, <2>6, ReturnsEffect
      <4>3. /\ Numbers' /\ Len(obs') = Len(obs) + 1 /\ Account = obs /\ Account' = obs'
            /\ \A i \in DOMAIN obs : obs'[i] = obs[i]
            /\ Len(found) \in Nat
        BY <2>1, <2>2, <4>1, <4>2, NumberGrows
      <4>4. obs' \in Seq(Observation) /\ obs \in Seq(Observation) /\ sequence \in Nat
        BY <2>2 DEF Base, LoopInv, TypeOK
      <4>5. DOMAIN obs = 1..Len(obs) /\ DOMAIN obs' = 1..Len(obs') /\ Len(obs) \in Nat
        BY <4>4, LenProperties
      <4>6. \A i \in DOMAIN Account : i \in DOMAIN Account' /\ Account'[i] = Account[i]
        BY <4>3, <4>5
      <4>7. sequence' >= sequence
        BY <4>1, <4>3, <4>4
      <4> QED
        BY <2>1, <2>2, <4>3, <4>6, <4>7, BookExtended
    <3> QED
      BY <3>1, <3>2
  <2>7. CASE Approve
    <3>1. CASE Live'
      <4>1. Numbers' /\ Account' = Account /\ sequence' = sequence
        BY <2>2, <2>7, <3>1, ApprovedAccount DEF NumberInv
      <4>2. sequence' >= sequence
        BY <2>2, <4>1, BaseFacts
      <4> QED
        BY <2>1, <2>2, <4>1, <4>2, BookExtended
    <3>2. CASE ~Live'
      BY <2>3, <2>7, <3>2, ApproveEffect DEF Live
    <3> QED
      BY <3>1, <3>2
  <2>8. ASSUME NEW a \in Actions, Pause(a)
        PROVE  Book!Next
    <3>1. BookNow' = BookNow
      BY <2>8 DEF Pause, BookNow, Replaying, loopVars
    <3> QED
      BY <2>1, <2>2, <3>1, BookKept
  <2>9. ASSUME NEW a \in Actions, Call(a)
        PROVE  Book!Next
    BY <2>3, <2>9 DEF Call
  <2>10. CASE AttemptDenied \/ AttemptTransient \/ AttemptFails
    BY <2>3, <2>10 DEF AttemptDenied, AttemptTransient, AttemptFails, Conclude, Retry, loopVars
  <2>11. ASSUME NEW c \in Chunks, Publish(c)
         PROVE  Book!Next
    BY <2>3, <2>11 DEF Publish, loopVars
  <2> QED
    BY <1>2, <2>4, <2>5, <2>6, <2>7, <2>8, <2>9, <2>10, <2>11 DEF Next, LoopStep, Quits
<1> QED
  BY <1>1, <1>2

-----------------------------------------------------------------------------
(***************************************************************************)
(* The theorems.                                                           *)
(***************************************************************************)

\* The invariant holds in every state of a run.
LEMMA GatewayInvariant == Spec => []Inv
<1>1. Init => Inv
  BY InvInit
<1>2. Inv /\ [Next]_vars => Inv'
  BY InvNext
<1> QED
  BY <1>1, <1>2, PTL DEF Spec

\* Type correctness of the tool calls of a run, for any limits.
THEOREM GatewayTypes == Spec => []TypeOK
<1>1. Inv => TypeOK
  BY DEF Inv, Base
<1> QED
  BY <1>1, GatewayInvariant, PTL

\* The budgets of loop.py (max_steps, max_retrieval_rewrites,
\* max_transient_retries) bound the adapter invocations of the whole run,
\* whatever the number of pauses and rebuilds.
THEOREM BudgetsAreKept == Spec => []BudgetsKept
<1>1. Inv => BudgetsKept
  BY DEF Inv
<1> QED
  BY <1>1, GatewayInvariant, PTL

\* A denial of an adapter is the last thing a run sees (gateway.py).
THEOREM DenialEndsTheRun == Spec => []DenialIsFinal
<1>1. Inv => DenialIsFinal
  BY DEF Inv, Base
<1> QED
  BY <1>1, GatewayInvariant, PTL

\* A paused run can always be rebuilt as far as its identifiers go: the
\* limits of approval_service.py, gateway_adapter.py and loop.py fit.
THEOREM PausedRunFits == Spec => []PausedFits
<1>1. ASSUME Inv, phase = "paused"
      PROVE  /\ StoredEvidence(hist) <= MaxSequence
             /\ Numbered(hist) = 1..StoredEvidence(hist)
  <2>1. Base /\ Numbers /\ hist = obs /\ Account = hist /\ Len(hist) < MaxSteps
    BY <1>1 DEF Inv, Base, LoopInv, NumberInv, Live, Account
  <2>2. /\ sequence \in Nat /\ Numbered(hist) = 1..sequence
        /\ sequence <= Len(hist) * MaxCites
    BY <2>1 DEF Base, TypeOK, Numbers
  <2>3. StoredEvidence(hist) = sequence
    BY <2>2, StoredCount
  <2>4. /\ Len(hist) \in Nat /\ MaxSteps - 1 \in Nat /\ MaxCites \in Nat
        /\ Len(hist) <= MaxSteps - 1
    BY <2>1, LimitTypes, BaseFacts
  <2>5. Len(hist) * MaxCites <= (MaxSteps - 1) * MaxCites
    BY <2>4, Fewer
  <2>6. (MaxSteps - 1) * MaxCites \in Nat /\ Len(hist) * MaxCites \in Nat
    BY <2>4, OneMore
  <2> QED
    BY <2>2, <2>3, <2>5, <2>6, LimitTypes
<1>2. Inv => PausedFits
  BY <1>1 DEF PausedFits
<1> QED
  BY <1>2, GatewayInvariant, PTL

\* The tool calls of a run implement the evidence book: identifiers are
\* handed out in order and an identifier names the same chunk from the call
\* that numbered it to the end of the run, through every rebuild.
THEOREM GatewayRefinesBook == Spec => BookRefined
<1>1. Init => Book!Init
  BY DEF Init, Book!Init, Replaying
<1>2. Inv /\ Inv' /\ [Next]_vars => [Book!Next]_(Book!vars)
  BY BookNext
<1> QED
  BY <1>1, <1>2, GatewayInvariant, PTL DEF Spec, BookRefined, Book!Spec
=============================================================================
