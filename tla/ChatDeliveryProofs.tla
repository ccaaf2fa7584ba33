------------------------- MODULE ChatDeliveryProofs -------------------------
(***************************************************************************)
(* Machine-checked proofs about ChatDelivery, for any identifiers,         *)
(* fingerprints, pages and concurrent requests, and any number of          *)
(* attempts, broken connections, database errors and crashes.              *)
(***************************************************************************)
EXTENDS ChatDelivery, FiniteSetTheorems, TLAPS

-----------------------------------------------------------------------------
(***************************************************************************)
(* The inductive invariant.                                                *)
(***************************************************************************)
Says(n, i, role, p) == [turn |-> n, id |-> i, role |-> role, print |-> p] \in messages

\* The messages of a turn share its identifier and fingerprint, an answer has
\* its question, and turns are numbered in the order of arrival.
MessageFacts ==
  /\ \A x \in messages : x.turn <= attempts
  /\ \A x, y \in messages : x.turn = y.turn => x.id = y.id /\ x.print = y.print
  /\ \A x \in messages : x.role = "assistant" => Says(x.turn, x.id, "user", x.print)

\* One trace for each turn, of the right kind.
TraceFacts ==
  /\ remembered \subseteq AnsweredTurns
  /\ {t.turn : t \in traces} = UserTurns
  /\ IsFiniteSet(traces) /\ IsFiniteSet(UserTurns)
  /\ Cardinality(traces) = Cardinality(UserTurns)
  /\ {t.turn : t \in {u \in traces : u.status = "provider_error"}} = FailedTurns

\* What the replay record of an identifier says is what is stored under it.
DeliveryFacts(i) ==
  /\ delivery[i].status \in {"none", "PENDING"} => \A x \in messages : x.id # i
  /\ delivery[i].status = "COMPLETED" =>
       /\ Says(delivery[i].payload, i, "user", delivery[i].print)
       /\ Says(delivery[i].payload, i, "assistant", delivery[i].print)
       /\ \A x \in messages : x.id = i => x.turn = delivery[i].payload
  /\ delivery[i].status = "FAILED" =>
       \E n \in Turns :
         /\ Says(n, i, "user", delivery[i].print)
         /\ \A x \in messages : x.id = i => x.turn = n /\ x.role = "user"

RowInv == MessageFacts /\ TraceFacts /\ \A i \in Ids : DeliveryFacts(i)

Answering == {"route", "search", "evidence", "question", "generate", "persist"}

\* How many progress events a request has reported at most, by where it is.
Reported(label) ==
  CASE label \in {"idle", "lookup", "insert", "route"} -> 0
    [] label = "search" -> 3
    [] label = "evidence" -> 4
    [] OTHER -> 5

\* A request has a turn of its own, and from the insert on the record of its
\* identifier: not committed before the search, PENDING after it.
RequestFacts(q) ==
  /\ pc[q] = "idle" => job[q] = NoJob /\ draft[q] = NoDraft
  /\ pc[q] # "idle" =>
       /\ job[q].turn \in 1..attempts /\ job[q].turn \notin UserTurns
       /\ job[q].print \in Prints
  /\ pc[q] \in {"lookup", "insert"} => job[q].id \in Ids /\ draft[q].row = "none"
  /\ pc[q] \in Answering => (job[q].id = NoId <=> draft[q].row = "none")
  /\ pc[q] \in {"route", "search"} => draft[q].row # "stored"
  /\ pc[q] \in {"evidence", "generate"} => draft[q].row # "flushed"
  /\ pc[q] = "question" /\ draft[q].path = "grounded" => draft[q].row # "flushed"
  /\ draft[q].row = "flushed" => delivery[job[q].id].status = "none"
  /\ draft[q].row = "stored" =>
       delivery[job[q].id].status = "PENDING" /\ delivery[job[q].id].print = job[q].print
  /\ progress[q] <= Reported(pc[q])

\* Two requests have different turns, and only one has the record.
Apart(p, q) ==
  /\ pc[p] # "idle" /\ pc[q] # "idle" => job[p].turn # job[q].turn
  /\ draft[p].row # "none" /\ draft[q].row # "none" => job[p].id # job[q].id

WorkInv ==
  /\ \A q \in Requests : RequestFacts(q)
  /\ \A p, q \in Requests : p # q => Apart(p, q)

\* Events whose text, if they carry any, is the stored answer to a question.
Good(M, i, p) ==
  {e \in Events : e.type \in {"delta", "completed"} =>
     [turn |-> e.turn, id |-> i, role |-> "assistant", print |-> p] \in M}

\* A page shows the stored answer to its own question, and so will what it has
\* not read yet.
TabFacts(b) ==
  /\ tab[b].at # "idle" => tab[b].id \in Ids /\ tab[b].print \in Prints
  /\ tab[b].conn # NoRequest => tab[b].at # "idle"
  /\ tab[b].shown # 0 => Says(tab[b].shown, tab[b].id, "assistant", tab[b].print)
  /\ tab[b].conn # NoRequest =>
       /\ pc[tab[b].conn] # "idle" =>
            job[tab[b].conn].id = tab[b].id /\ job[tab[b].conn].print = tab[b].print
       /\ wire[tab[b].conn] \in Seq(Good(messages, tab[b].id, tab[b].print))

PageInv ==
  /\ \A b \in Tabs : TabFacts(b)
  /\ \A b, c \in Tabs : b # c /\ tab[b].conn = tab[c].conn => tab[b].conn = NoRequest

Inv == TypeOK /\ RowInv /\ WorkInv /\ PageInv

-----------------------------------------------------------------------------
(***************************************************************************)
(* Types and frames.                                                       *)
(***************************************************************************)
Labels == {"idle", "lookup", "insert", "route", "search", "evidence", "question", "generate",
           "persist"}

\* The constants, one fact each.
LEMMA ConstantTypes ==
  /\ MaxAttempts \in Nat /\ MaxFaults \in Nat
  /\ NoId \notin Ids /\ NoPrint \notin Prints /\ NoTab \notin Tabs /\ NoRequest \notin Requests
  /\ Turns = 1..MaxAttempts
BY DeliveryAssumption DEF Turns

\* A request.
LEMMA RequestTypes ==
  ASSUME TypeOK, NEW q \in Requests
  PROVE  /\ pc[q] \in Labels /\ job[q] \in Job /\ draft[q] \in Draft /\ progress[q] \in Nat
         /\ wire[q] \in Seq(Events)
         /\ job[q].turn \in 0..MaxAttempts /\ job[q].id \in AnyId /\ job[q].print \in AnyPrint
         /\ job[q].streams \in BOOLEAN /\ draft[q].title \in AnyPrint
         /\ draft[q].row \in {"none", "flushed", "stored"}
<1>1. /\ pc[q] \in Labels /\ job[q] \in Job /\ draft[q] \in Draft /\ progress[q] \in Nat
      /\ wire[q] \in Seq(Events)
  BY DEF TypeOK, Labels
<1> QED
  BY <1>1 DEF Job, Draft

\* A page.
LEMMA TabTypes ==
  ASSUME TypeOK, NEW b \in Tabs
  PROVE  /\ tab[b] \in Tab /\ tab[b].id \in AnyId /\ tab[b].print \in AnyPrint
         /\ tab[b].conn \in Requests \cup {NoRequest} /\ tab[b].shown \in 0..MaxAttempts
<1>1. tab[b] \in Tab
  BY DEF TypeOK
<1> QED
  BY <1>1 DEF Tab

\* A message is what its four fields say.
LEMMA MessageTypes ==
  /\ \A x \in Message : /\ x.turn \in Turns /\ x.id \in AnyId /\ x.print \in Prints
                        /\ x.role \in {"user", "assistant"}
                        /\ x = [turn |-> x.turn, id |-> x.id, role |-> x.role, print |-> x.print]
BY DEF Message

\* A longer set of messages says all that the shorter one said.
LEMMA GoodGrows ==
  ASSUME NEW M, NEW L, M \subseteq L, NEW i, NEW p, NEW s \in Seq(Good(M, i, p))
  PROVE  s \in Seq(Good(L, i, p))
<1>1. Good(M, i, p) \subseteq Good(L, i, p)
  BY DEF Good
<1> QED
  BY <1>1

\* The request is over.
LEMMA EndEffect ==
  ASSUME TypeOK, NEW q \in Requests, EndRequest(q)
  PROVE  /\ pc' \in [Requests -> Labels] /\ job' \in [Requests -> Job]
         /\ draft' \in [Requests -> Draft] /\ progress' \in [Requests -> Nat]
         /\ rowLock' \in Requests \cup {NoRequest}
         /\ \A p \in Requests \ {q} : /\ pc'[p] = pc[p] /\ job'[p] = job[p] /\ draft'[p] = draft[p]
                                      /\ progress'[p] = progress[p]
         /\ pc'[q] = "idle" /\ job'[q] = NoJob /\ draft'[q] = NoDraft /\ progress'[q] = 0
<1>1. NoJob \in Job /\ NoDraft \in Draft /\ "idle" \in Labels /\ 0 \in Nat
  BY ConstantTypes DEF NoJob, Job, AnyId, AnyPrint, NoDraft, Draft, Labels
<1>2. /\ pc \in [Requests -> Labels] /\ job \in [Requests -> Job] /\ draft \in [Requests -> Draft]
      /\ progress \in [Requests -> Nat] /\ rowLock \in Requests \cup {NoRequest}
  BY DEF TypeOK, Labels
<1>3. pc' = [pc EXCEPT ![q] = "idle"] /\ job' = [job EXCEPT ![q] = NoJob]
  BY DEF EndRequest
<1>4. draft' = [draft EXCEPT ![q] = NoDraft] /\ progress' = [progress EXCEPT ![q] = 0]
  BY DEF EndRequest
<1>5. rowLock' \in Requests \cup {NoRequest}
  BY <1>2 DEF EndRequest, Released
<1> QED
  BY <1>1, <1>2, <1>3, <1>4, <1>5

\* Nothing is stored.
LEMMA RowsStay ==
  ASSUME TypeOK, RowInv, UNCHANGED <<delivery, messages, traces, remembered>>,
         attempts' \in Nat, attempts' >= attempts
  PROVE  RowInv'
<1>1. MessageFacts'
  <2>1. \A x \in messages : x.turn \in Nat
    BY MessageTypes, ConstantTypes DEF TypeOK
  <2>2. attempts \in Nat
    BY ConstantTypes DEF TypeOK
  <2> QED
    BY <2>1, <2>2 DEF RowInv, MessageFacts, Says
<1>2. TraceFacts'
  BY DEF RowInv, TraceFacts, UserTurns, AnsweredTurns, FailedTurns
<1>3. ASSUME NEW i \in Ids
      PROVE  DeliveryFacts(i)'
  <2>1. DeliveryFacts(i)
    BY DEF RowInv
  <2> QED
    BY <2>1 DEF DeliveryFacts, Says
<1> QED
  BY <1>1, <1>2, <1>3 DEF RowInv

\* A request that is not there has no facts to keep.
LEMMA IdleFacts ==
  ASSUME NEW q \in Requests, pc'[q] = "idle", job'[q] = NoJob, draft'[q] = NoDraft,
         progress'[q] = 0
  PROVE  RequestFacts(q)'
BY DEF RequestFacts, Answering, NoDraft, Reported

\* A step of request q, which changes its own record only.
LEMMA WorkStep ==
  ASSUME TypeOK, WorkInv, NEW q \in Requests, attempts' = attempts,
         \A p \in Requests \ {q} : /\ pc'[p] = pc[p] /\ job'[p] = job[p] /\ draft'[p] = draft[p]
                                   /\ progress'[p] = progress[p],
         \A n \in UserTurns' : n \in UserTurns \/ (pc[q] # "idle" /\ n = job[q].turn),
         \A i \in Ids : (i = job[q].id /\ draft[q].row # "none") \/ delivery'[i] = delivery[i],
         RequestFacts(q)',
         pc'[q] # "idle" => pc[q] # "idle" /\ job'[q] = job[q],
         pc'[q] # "idle" /\ draft'[q].row # "none" =>
           \/ draft[q].row # "none"
           \/ \A p \in Requests \ {q} : draft[p].row # "none" => job[p].id # job[q].id
  PROVE  WorkInv'
<1>1. ASSUME NEW p \in Requests \ {q}
      PROVE  RequestFacts(p)' /\ Apart(p, q)' /\ Apart(q, p)'
  <2>1. RequestFacts(p) /\ Apart(p, q) /\ Apart(q, p) /\ pc[p] \in Labels
    BY RequestTypes DEF WorkInv
  <2>2. pc[p] # "idle" => job[p].turn \notin UserTurns'
    BY <2>1 DEF RequestFacts, Apart
  <2>3. draft[p].row # "none" => job[p].id \in Ids /\ delivery'[job[p].id] = delivery[job[p].id]
    <3>1. draft[p].row # "none" => pc[p] \in Answering
      BY <2>1 DEF RequestFacts, Answering, Labels, NoDraft
    <3>2. draft[p].row # "none" => job[p].id \in Ids
      BY <2>1, <3>1, RequestTypes DEF RequestFacts, AnyId
    <3> QED
      BY <2>1, <3>2 DEF Apart
  <2>4. RequestFacts(p)'
    BY <2>1, <2>2, <2>3 DEF RequestFacts
  <2>5. draft'[q].row # "none" => pc'[q] # "idle"
    BY DEF RequestFacts, NoDraft
  <2> QED
    BY <2>1, <2>4, <2>5 DEF Apart
<1>2. ASSUME NEW p \in Requests \ {q}, NEW r \in Requests \ {q}, p # r
      PROVE  Apart(p, r)'
  BY <1>2 DEF WorkInv, Apart
<1> QED
  BY <1>1, <1>2 DEF WorkInv

\* A step of request q that leaves the pages alone but may send them events.
LEMMA PageStep ==
  ASSUME TypeOK, PageInv, NEW q \in Requests, UNCHANGED tab, messages \subseteq messages',
         \A p \in Requests \ {q} : wire'[p] = wire[p] /\ pc'[p] = pc[p] /\ job'[p] = job[p],
         pc'[q] # "idle" => pc[q] # "idle" /\ job'[q] = job[q],
         \A b \in Tabs : tab[b].conn = q => wire'[q] \in Seq(Good(messages', tab[b].id, tab[b].print))
  PROVE  PageInv'
<1>1. ASSUME NEW b \in Tabs
      PROVE  TabFacts(b)'
  <2>1. TabFacts(b) /\ tab[b].conn \in Requests \cup {NoRequest}
    BY TabTypes DEF PageInv
  <2>2. tab[b].shown # 0 => Says(tab[b].shown, tab[b].id, "assistant", tab[b].print)'
    BY <2>1 DEF TabFacts, Says
  <2>3. CASE tab[b].conn = NoRequest
    BY <2>1, <2>2, <2>3 DEF TabFacts
  <2>4. CASE tab[b].conn = q
    <3>1. wire'[q] \in Seq(Good(messages', tab[b].id, tab[b].print))
      BY <2>4
    <3> QED
      BY <2>1, <2>2, <2>4, <3>1 DEF TabFacts
  <2>5. CASE tab[b].conn \in Requests \ {q}
    <3>1. wire[tab[b].conn] \in Seq(Good(messages, tab[b].id, tab[b].print))
      BY <2>1, <2>5, ConstantTypes DEF TabFacts
    <3>2. wire[tab[b].conn] \in Seq(Good(messages', tab[b].id, tab[b].print))
      BY <3>1, GoodGrows
    <3> QED
      BY <2>1, <2>2, <2>5, <3>2 DEF TabFacts
  <2> QED
    BY <2>1, <2>3, <2>4, <2>5
<1> QED
  BY <1>1 DEF PageInv

-----------------------------------------------------------------------------
(***************************************************************************)
(* Steps that store nothing.                                               *)
(***************************************************************************)

\* What Emit does to the streams.
LEMMA EmitEffect ==
  ASSUME TypeOK, NEW q \in Requests, NEW s \in Seq(Events), Emit(q, s)
  PROVE  /\ wire' \in [Requests -> Seq(Events)]
         /\ \A p \in Requests \ {q} : wire'[p] = wire[p]
         /\ wire'[q] = wire[q] \/ wire'[q] = wire[q] \o s
<1>1. wire \in [Requests -> Seq(Events)]
  BY DEF TypeOK
<1>2. wire' = wire \/ wire' = [wire EXCEPT ![q] = @ \o s]
  BY DEF Emit
<1>3. wire[q] \o s \in Seq(Events)
  BY <1>1
<1> QED
  BY <1>1, <1>2, <1>3

\* Events are appended to a stream of events.
LEMMA JoinedEvents ==
  ASSUME NEW S, NEW u \in Seq(S), NEW v \in Seq(S)
  PROVE  u \o v \in Seq(S)
OBVIOUS

\* A request ends and stores nothing; what it sends, if anything, is an error
\* or an answer that is stored.
LEMMA QuietEnd ==
  ASSUME Inv, NEW q \in Requests, UNCHANGED <<rowVars, tab, attempts>>, EndRequest(q),
         faults' \in 0..MaxFaults, refused' \subseteq Ids,
         NEW s \in Seq(Good(messages, job[q].id, job[q].print)),
         pc[q] # "idle",
         Emit(q, s) \/ UNCHANGED wire
  PROVE  Inv'
<1>1. TypeOK /\ RowInv /\ WorkInv /\ PageInv
  BY DEF Inv
<1>2. /\ pc' \in [Requests -> Labels] /\ job' \in [Requests -> Job]
      /\ draft' \in [Requests -> Draft] /\ progress' \in [Requests -> Nat]
      /\ rowLock' \in Requests \cup {NoRequest}
      /\ \A p \in Requests \ {q} : /\ pc'[p] = pc[p] /\ job'[p] = job[p] /\ draft'[p] = draft[p]
                                   /\ progress'[p] = progress[p]
      /\ pc'[q] = "idle" /\ job'[q] = NoJob /\ draft'[q] = NoDraft /\ progress'[q] = 0
  BY <1>1, EndEffect
<1>3. s \in Seq(Events)
  <2>1. Good(messages, job[q].id, job[q].print) \subseteq Events
    BY DEF Good
  <2> QED
    BY <2>1
<1>4. /\ wire' \in [Requests -> Seq(Events)]
      /\ \A p \in Requests \ {q} : wire'[p] = wire[p]
      /\ wire'[q] = wire[q] \/ wire'[q] = wire[q] \o s
  <2>1. CASE Emit(q, s)
    BY <1>1, <1>3, <2>1, EmitEffect
  <2>2. CASE UNCHANGED wire
    BY <1>1, <2>2 DEF TypeOK
  <2> QED
    BY <2>1, <2>2
<1>5. UNCHANGED <<delivery, messages, traces, remembered, title>>
  BY DEF rowVars
<1>6. TypeOK'
  BY <1>1, <1>2, <1>4, <1>5 DEF TypeOK, Labels
<1>7. RowInv'
  <2>1. attempts' \in Nat /\ attempts' >= attempts
    BY <1>1, ConstantTypes DEF TypeOK
  <2> QED
    BY <1>1, <1>5, <2>1, RowsStay
<1>8. WorkInv'
  <2>1. RequestFacts(q)'
    BY <1>2, IdleFacts
  <2>2. UserTurns' = UserTurns
    BY <1>5 DEF UserTurns
  <2> QED
    BY <1>1, <1>2, <1>5, <2>1, <2>2, WorkStep
<1>9. PageInv'
  <2>1. ASSUME NEW b \in Tabs, tab[b].conn = q
        PROVE  wire'[q] \in Seq(Good(messages', tab[b].id, tab[b].print))
    <3>1. /\ wire[q] \in Seq(Good(messages, tab[b].id, tab[b].print))
          /\ job[q].id = tab[b].id /\ job[q].print = tab[b].print
      BY <1>1, <2>1, ConstantTypes DEF PageInv, TabFacts
    <3>2. s \in Seq(Good(messages, tab[b].id, tab[b].print))
      BY <3>1
    <3>3. wire[q] \o s \in Seq(Good(messages, tab[b].id, tab[b].print))
      BY <3>1, <3>2, JoinedEvents
    <3>4. wire'[q] = wire[q] \/ wire'[q] = wire[q] \o s
      BY <1>4
    <3>5. wire'[q] \in Seq(Good(messages, tab[b].id, tab[b].print))
      BY <3>1, <3>3, <3>4
    <3> QED
      BY <1>5, <3>5
  <2>2. \A p \in Requests \ {q} : wire'[p] = wire[p] /\ pc'[p] = pc[p] /\ job'[p] = job[p]
    BY <1>2, <1>4
  <2>3. pc'[q] # "idle" => pc[q] # "idle" /\ job'[q] = job[q]
    BY <1>2
  <2>4. messages \subseteq messages' /\ UNCHANGED tab
    BY <1>5
  <2> QED
    BY <1>1, <2>1, <2>2, <2>3, <2>4, PageStep
<1> QED
  BY <1>6, <1>7, <1>8, <1>9 DEF Inv

\* An error says nothing about an answer.
LEMMA ErrorIsGood ==
  ASSUME NEW M, NEW i, NEW p
  PROVE  <<SafeError>> \in Seq(Good(M, i, p))
<1>1. SafeError \in Good(M, i, p)
  BY DEF SafeError, Good, Events
<1> QED
  BY <1>1

\* The closing events of a stored answer.
LEMMA AnswerIsGood ==
  ASSUME NEW M, NEW i, NEW p, NEW n \in 0..MaxAttempts,
         [turn |-> n, id |-> i, role |-> "assistant", print |-> p] \in M
  PROVE  <<[type |-> "delta", turn |-> n], [type |-> "completed", turn |-> n]>> \in Seq(Good(M, i, p))
<1>1. [type |-> "delta", turn |-> n] \in Good(M, i, p)
  BY DEF Good, Events
<1>2. [type |-> "completed", turn |-> n] \in Good(M, i, p)
  BY DEF Good, Events
<1> QED
  BY <1>1, <1>2

\* Replays, conflicts, failed searches, refusals, disconnections and errors.
LEMMA InvEnds ==
  ASSUME Inv, NEW q \in Requests,
         \/ Replay(q) \/ InsertConflict(q) \/ SearchFails(q) \/ Disconnected(q) \/ DatabaseError(q)
         \/ \E route \in {"heavy", "simple"} : RequireDeep(q, route)
  PROVE  Inv'
<1>1. TypeOK /\ RowInv /\ RequestFacts(q)
  BY DEF Inv, WorkInv
<1>2. faults \in 0..MaxFaults /\ refused \subseteq Ids
  BY <1>1 DEF TypeOK
<1>3. ASSUME EndWithError(q), pc[q] # "idle", UNCHANGED <<tab, attempts>>,
             faults' \in 0..MaxFaults, refused' \subseteq Ids
      PROVE  Inv'
  <2>1. <<SafeError>> \in Seq(Good(messages, job[q].id, job[q].print))
    BY ErrorIsGood
  <2>2. EndRequest(q) /\ Emit(q, <<SafeError>>) /\ UNCHANGED rowVars
    BY <1>3 DEF EndWithError
  <2>3. PICK s \in Seq(Good(messages, job[q].id, job[q].print)) : Emit(q, s)
    BY <2>1, <2>2
  <2> QED
    BY <1>3, <2>2, <2>3, QuietEnd
<1>4. CASE Replay(q)
  <2>1. PICK i, d : i = job[q].id /\ d = delivery[i]
    OBVIOUS
  <2>2. /\ pc[q] = "lookup" /\ UNCHANGED <<tab, attempts, faults, refused>>
        /\ \/ EndWithError(q)
           \/ /\ d.print = job[q].print /\ d.status = "COMPLETED"
              /\ EndRequest(q) /\ Deliver(q, d.payload) /\ UNCHANGED rowVars
    BY <1>4, <2>1 DEF Replay
  <2>3. i \in Ids
    BY <1>1, <2>1, <2>2 DEF RequestFacts
  <2>4. CASE EndWithError(q)
    BY <1>2, <1>3, <2>2, <2>4
  <2>5. CASE /\ d.print = job[q].print /\ d.status = "COMPLETED"
             /\ EndRequest(q) /\ Deliver(q, d.payload) /\ UNCHANGED rowVars
    <3>1. d.payload \in 0..MaxAttempts
      BY <1>1, <2>1, <2>3 DEF TypeOK, Delivery
    <3>2. [turn |-> d.payload, id |-> i, role |-> "assistant", print |-> job[q].print] \in messages
      BY <1>1, <2>1, <2>3, <2>5 DEF RowInv, DeliveryFacts, Says
    <3>3. PICK s \in Seq(Good(messages, job[q].id, job[q].print)) : Emit(q, s)
      BY <2>1, <2>5, <3>1, <3>2, AnswerIsGood DEF Deliver
    <3> QED
      BY <1>2, <2>2, <2>5, <3>3, QuietEnd
  <2> QED
    BY <2>2, <2>4, <2>5
<1>5. CASE InsertConflict(q) \/ SearchFails(q)
  <2>1. EndWithError(q) /\ pc[q] # "idle" /\ UNCHANGED <<tab, attempts, faults, refused>>
    BY <1>5 DEF InsertConflict, SearchFails
  <2> QED
    BY <1>2, <1>3, <2>1
<1>6. CASE DatabaseError(q)
  <2>1. /\ EndWithError(q) /\ pc[q] # "idle" /\ UNCHANGED <<tab, attempts, refused>>
        /\ faults < MaxFaults /\ faults' = faults + 1
    BY <1>6 DEF DatabaseError
  <2>2. faults' \in 0..MaxFaults
    BY <1>2, <2>1, ConstantTypes
  <2> QED
    BY <1>2, <1>3, <2>1, <2>2
<1>7. ASSUME NEW route, RequireDeep(q, route)
      PROVE  Inv'
  <2>1. /\ EndWithError(q) /\ pc[q] # "idle" /\ UNCHANGED <<tab, attempts, faults>>
        /\ refused' = refused \cup ({job[q].id} \ {NoId})
    BY <1>7 DEF RequireDeep
  <2>2. job[q].id \in Ids \cup {NoId}
    BY <1>1, RequestTypes DEF AnyId
  <2>3. refused' \subseteq Ids
    BY <1>2, <2>1, <2>2
  <2> QED
    BY <1>2, <1>3, <2>1, <2>3
<1>8. CASE Disconnected(q)
  <2>1. /\ pc[q] # "idle" /\ EndRequest(q)
        /\ UNCHANGED <<rowVars, wire, tab, attempts, faults, refused>>
    BY <1>8 DEF Disconnected
  <2>2. PICK s \in Seq(Good(messages, job[q].id, job[q].print)) : s = <<SafeError>>
    BY ErrorIsGood
  <2> QED
    BY <1>2, <2>1, QuietEnd
<1> QED
  BY <1>4, <1>5, <1>6, <1>7, <1>8

\* Only the draft of request q changes, to x.
DraftIs(q, x) ==
  /\ draft' \in [Requests -> Draft] /\ draft'[q] = x
  /\ \A p \in Requests \ {q} : draft'[p] = draft[p]

\* A request moves on to a label with its draft as x, and stores nothing.
MovesOn(q, label, x) ==
  /\ pc' = [pc EXCEPT ![q] = label]
  /\ DraftIs(q, x)
  /\ progress' \in [Requests -> Nat]
  /\ \A p \in Requests \ {q} : progress'[p] = progress[p]
  /\ progress'[q] <= Reported(label)
  /\ rowLock' \in Requests \cup {NoRequest}
  /\ UNCHANGED <<rowVars, job, wire, tab, attempts, faults, refused>>

\* What it may claim about its record there.
RecordFits(q, label, x) ==
  /\ label \in {"lookup", "insert"} => pc[q] \in {"lookup", "insert"} /\ x.row = "none"
  /\ label \in Answering => (job[q].id = NoId <=> x.row = "none")
  /\ label \in {"route", "search"} => x.row # "stored"
  /\ label \in {"evidence", "generate"} => x.row # "flushed"
  /\ label = "question" /\ x.path = "grounded" => x.row # "flushed"
  /\ \/ x.row = draft[q].row
     \/ /\ x.row = "flushed" /\ delivery[job[q].id].status = "none"
        /\ \A p \in Requests \ {q} : draft[p].row # "none" => job[p].id # job[q].id

\* A request moves on and stores nothing.
LEMMA QuietMove ==
  ASSUME Inv, NEW q \in Requests, NEW label \in Labels \ {"idle"}, NEW x, pc[q] # "idle",
         MovesOn(q, label, x), RecordFits(q, label, x)
  PROVE  Inv'
<1>1. TypeOK /\ RowInv /\ WorkInv /\ PageInv /\ RequestFacts(q)
  BY DEF Inv, WorkInv
<1>2. /\ pc' \in [Requests -> Labels] /\ pc'[q] = label /\ \A p \in Requests \ {q} : pc'[p] = pc[p]
  BY <1>1 DEF TypeOK, Labels, MovesOn
<1>3. /\ draft' \in [Requests -> Draft] /\ draft'[q] = x
      /\ \A p \in Requests \ {q} : draft'[p] = draft[p]
  BY DEF MovesOn, DraftIs
<1>4. /\ UNCHANGED <<delivery, messages, traces, remembered, title, job, wire, tab, attempts,
                      faults, refused>>
      /\ progress' \in [Requests -> Nat] /\ \A p \in Requests \ {q} : progress'[p] = progress[p]
      /\ progress'[q] <= Reported(label) /\ rowLock' \in Requests \cup {NoRequest}
  BY DEF rowVars, MovesOn
<1>5. TypeOK'
  BY <1>1, <1>2, <1>3, <1>4 DEF TypeOK, Labels
<1>6. RowInv'
  <2>1. attempts' \in Nat /\ attempts' >= attempts
    BY <1>1, <1>4, ConstantTypes DEF TypeOK
  <2> QED
    BY <1>1, <1>4, <2>1, RowsStay
<1>7. WorkInv'
  <2>1. UserTurns' = UserTurns
    BY <1>4 DEF UserTurns
  <2>2. RequestFacts(q)'
    BY <1>1, <1>2, <1>3, <1>4, <2>1 DEF RequestFacts, RecordFits
  <2> QED
    BY <1>1, <1>2, <1>3, <1>4, <2>1, <2>2, WorkStep DEF RecordFits
<1>8. PageInv'
  <2>1. \A b \in Tabs : tab[b].conn = q => wire'[q] \in Seq(Good(messages', tab[b].id, tab[b].print))
    BY <1>1, <1>4, ConstantTypes DEF PageInv, TabFacts
  <2> QED
    BY <1>1, <1>2, <1>4, <2>1, PageStep
<1> QED
  BY <1>5, <1>6, <1>7, <1>8 DEF Inv

\* What Report does to the progress queues.
LEMMA ReportEffect ==
  ASSUME TypeOK, NEW q \in Requests, NEW n \in Nat, Report(q, n)
  PROVE  /\ progress' \in [Requests -> Nat]
         /\ \A p \in Requests \ {q} : progress'[p] = progress[p]
         /\ progress'[q] <= progress[q] + n
<1>1. progress \in [Requests -> Nat]
  BY DEF TypeOK
<1>2. progress' = progress \/ progress' = [progress EXCEPT ![q] = @ + n]
  BY DEF Report
<1> QED
  BY <1>1, <1>2

\* A request that looks up, inserts, routes, collects evidence, takes the
\* conversation and generates.
LEMMA InvMoves ==
  ASSUME Inv, NEW q \in Requests,
         \/ NotSeen(q) \/ InsertDelivery(q) \/ NoEvidence(q) \/ Question(q)
         \/ \E intent \in Intents, regrounding \in BOOLEAN : Route(q, intent, regrounding)
         \/ \E route \in {"heavy", "simple"} : Grounded(q, route)
         \/ \E supported \in BOOLEAN, claims \in SUBSET {{}, {1}, {1, 3}} :
              Generated(q, supported, claims)
  PROVE  Inv'
<1>1. TypeOK /\ RequestFacts(q)
  BY DEF Inv, WorkInv
<1>2. /\ job[q] \in Job /\ draft[q] \in Draft /\ pc \in [Requests -> Labels]
      /\ draft \in [Requests -> Draft] /\ progress \in [Requests -> Nat]
      /\ rowLock \in Requests \cup {NoRequest} /\ progress[q] \in Nat
      /\ job[q].id \in AnyId /\ job[q].print \in AnyPrint /\ draft[q].row \in {"none", "flushed", "stored"}
      /\ pc[q] \in Labels
  BY <1>1, RequestTypes DEF TypeOK, Labels
<1>3. progress[q] <= Reported(pc[q])
  BY <1>1 DEF RequestFacts
<1>5. CASE NotSeen(q)
  <2>1. /\ pc[q] = "lookup" /\ pc' = [pc EXCEPT ![q] = "insert"]
        /\ UNCHANGED <<rowVars, rowLock, job, draft, progress, wire, tab, attempts, faults, refused>>
    BY <1>5 DEF NotSeen, Goto
  <2>2. draft[q].row = "none" /\ progress[q] <= Reported("insert")
    BY <1>1, <1>3, <2>1 DEF RequestFacts, Reported
  <2>3. "insert" \in Labels \ {"idle"} /\ "insert" \notin Answering
    BY DEF Labels, Answering
  <2>4. DraftIs(q, draft[q])
    BY <1>2, <2>1 DEF DraftIs
  <2>a. MovesOn(q, "insert", draft[q])
    BY <1>2, <2>1, <2>2, <2>3, <2>4 DEF MovesOn
  <2>b. RecordFits(q, "insert", draft[q])
    BY <1>2, <2>1, <2>2, <2>3, <2>4 DEF RecordFits
  <2>c. pc[q] # "idle" /\ "insert" \in Labels \ {"idle"}
    BY <1>2, <2>1, <2>2, <2>3, <2>4
  <2> QED
    BY <2>a, <2>b, <2>c, QuietMove
<1>6. CASE InsertDelivery(q)
  <2>1. /\ pc[q] = "insert" /\ pc' = [pc EXCEPT ![q] = "route"]
        /\ draft' = [draft EXCEPT ![q].row = "flushed"]
        /\ ~KeyInFlight(q) /\ ~KeyTaken(q)
        /\ UNCHANGED <<rowVars, rowLock, job, progress, wire, tab, attempts, faults, refused>>
    BY <1>6 DEF InsertDelivery, Goto
  <2>2. PICK x : x = [draft[q] EXCEPT !.row = "flushed"]
    OBVIOUS
  <2>3. x \in Draft /\ x.row = "flushed" /\ DraftIs(q, x)
    BY <1>2, <2>1, <2>2 DEF Draft, DraftIs
  <2>4. job[q].id \in Ids /\ job[q].id # NoId /\ progress[q] <= Reported("route")
    BY <1>1, <1>3, <2>1, ConstantTypes DEF RequestFacts, Reported
  <2>5. "route" \in Labels \ {"idle"}
    BY DEF Labels
  <2>6. delivery[job[q].id].status = "none"
    BY <2>1 DEF KeyTaken
  <2>7. ASSUME NEW p \in Requests \ {q}, draft[p].row # "none"
        PROVE  job[p].id # job[q].id
    <3>1. RequestFacts(p)
      BY DEF Inv, WorkInv
    <3>2. draft[p].row = "flushed" \/ draft[p].row = "stored"
      BY <1>1, <2>7, RequestTypes
    <3>3. CASE draft[p].row = "flushed"
      BY <2>1, <3>3 DEF KeyInFlight
    <3>4. CASE draft[p].row = "stored"
      BY <2>6, <3>1, <3>4 DEF RequestFacts
    <3> QED
      BY <3>2, <3>3, <3>4
  <2>a. MovesOn(q, "route", x)
    BY <1>2, <2>1, <2>3, <2>4, <2>5, <2>6, <2>7 DEF MovesOn
  <2>b. RecordFits(q, "route", x)
    BY <1>2, <2>1, <2>3, <2>4, <2>5, <2>6, <2>7 DEF RecordFits
  <2>c. pc[q] # "idle" /\ "route" \in Labels \ {"idle"}
    BY <1>2, <2>1, <2>3, <2>4, <2>5, <2>6, <2>7
  <2> QED
    BY <2>a, <2>b, <2>c, QuietMove
<1>7. CASE NoEvidence(q)
  <2>1. /\ pc[q] = "evidence" /\ pc' = [pc EXCEPT ![q] = "question"]
        /\ draft' = [draft EXCEPT ![q].path = "nothing"]
        /\ UNCHANGED <<rowVars, rowLock, job, progress, wire, tab, attempts, faults, refused>>
    BY <1>7 DEF NoEvidence, Goto
  <2>2. PICK x : x = [draft[q] EXCEPT !.path = "nothing"]
    OBVIOUS
  <2>3. x \in Draft /\ x.row = draft[q].row /\ x.path # "grounded" /\ DraftIs(q, x)
    BY <1>2, <2>1, <2>2 DEF Draft, DraftIs
  <2>4. progress[q] <= Reported("question")
    BY <1>2, <1>3, <2>1 DEF Reported
  <2>5. "question" \in Labels \ {"idle"} /\ (job[q].id = NoId <=> x.row = "none")
    BY <1>1, <2>1, <2>3 DEF Labels, RequestFacts, Answering
  <2>a. MovesOn(q, "question", x)
    BY <1>2, <2>1, <2>3, <2>4, <2>5 DEF MovesOn
  <2>b. RecordFits(q, "question", x)
    BY <1>2, <2>1, <2>3, <2>4, <2>5 DEF RecordFits
  <2>c. pc[q] # "idle" /\ "question" \in Labels \ {"idle"}
    BY <1>2, <2>1, <2>3, <2>4, <2>5
  <2> QED
    BY <2>a, <2>b, <2>c, QuietMove
<1>8. CASE Question(q)
  <2>1. PICK label \in {"generate", "persist"} :
          /\ label = IF draft[q].path = "grounded" THEN "generate" ELSE "persist"
          /\ pc' = [pc EXCEPT ![q] = label]
    BY <1>8 DEF Question, Goto
  <2>2. /\ pc[q] = "question" /\ rowLock' = q
        /\ UNCHANGED <<rowVars, job, draft, progress, wire, tab, attempts, faults, refused>>
    BY <1>8 DEF Question
  <2>3. progress[q] <= Reported(label)
    BY <1>3, <2>1, <2>2 DEF Reported
  <2>4. label \in Labels \ {"idle"} /\ (job[q].id = NoId <=> draft[q].row = "none")
    BY <1>1, <2>1, <2>2 DEF Labels, RequestFacts, Answering
  <2>5. label = "generate" => draft[q].row # "flushed"
    BY <1>1, <2>1, <2>2 DEF RequestFacts
  <2>6. DraftIs(q, draft[q])
    BY <1>2, <2>2 DEF DraftIs
  <2>a. MovesOn(q, label, draft[q])
    BY <1>2, <2>1, <2>2, <2>3, <2>4, <2>5, <2>6 DEF MovesOn
  <2>b. RecordFits(q, label, draft[q])
    BY <1>2, <2>1, <2>2, <2>3, <2>4, <2>5, <2>6 DEF RecordFits
  <2>c. pc[q] # "idle" /\ label \in Labels \ {"idle"}
    BY <1>2, <2>1, <2>2, <2>3, <2>4, <2>5, <2>6
  <2> QED
    BY <2>a, <2>b, <2>c, QuietMove
<1>9. ASSUME NEW route, Grounded(q, route)
      PROVE  Inv'
  <2>1. /\ pc[q] = "evidence" /\ pc' = [pc EXCEPT ![q] = "question"]
        /\ draft' = [draft EXCEPT ![q].path = "grounded"] /\ Report(q, 1)
        /\ UNCHANGED <<rowVars, rowLock, job, wire, tab, attempts, faults, refused>>
    BY <1>9 DEF Grounded, Goto
  <2>2. PICK x : x = [draft[q] EXCEPT !.path = "grounded"]
    OBVIOUS
  <2>3. x \in Draft /\ x.row = draft[q].row /\ DraftIs(q, x)
    BY <1>2, <2>1, <2>2 DEF Draft, DraftIs
  <2>4. /\ progress' \in [Requests -> Nat]
        /\ \A p \in Requests \ {q} : progress'[p] = progress[p]
        /\ progress'[q] <= progress[q] + 1
    BY <1>1, <2>1, ReportEffect
  <2>5. progress'[q] <= Reported("question")
    <3>1. progress'[q] \in Nat /\ progress[q] <= 4
      BY <1>3, <2>1, <2>4 DEF Reported
    <3> QED
      BY <1>2, <2>4, <3>1 DEF Reported
  <2>6. /\ "question" \in Labels \ {"idle"} /\ (job[q].id = NoId <=> x.row = "none")
        /\ x.row # "flushed"
    BY <1>1, <2>1, <2>3 DEF Labels, RequestFacts, Answering
  <2>a. MovesOn(q, "question", x)
    BY <1>2, <2>1, <2>3, <2>4, <2>5, <2>6 DEF MovesOn
  <2>b. RecordFits(q, "question", x)
    BY <1>2, <2>1, <2>3, <2>4, <2>5, <2>6 DEF RecordFits
  <2>c. pc[q] # "idle" /\ "question" \in Labels \ {"idle"}
    BY <1>2, <2>1, <2>3, <2>4, <2>5, <2>6
  <2> QED
    BY <2>a, <2>b, <2>c, QuietMove
<1>10. ASSUME NEW supported, NEW claims, Generated(q, supported, claims)
       PROVE  Inv'
  <2>1. PICK path \in {"grounded", "unsupported"} : draft' = [draft EXCEPT ![q].path = path]
    BY <1>10 DEF Generated
  <2>2. /\ pc[q] = "generate" /\ pc' = [pc EXCEPT ![q] = "persist"]
        /\ UNCHANGED <<rowVars, rowLock, job, progress, wire, tab, attempts, faults, refused>>
    BY <1>10 DEF Generated, Goto
  <2>3. PICK x : x = [draft[q] EXCEPT !.path = path]
    OBVIOUS
  <2>4. x \in Draft /\ x.row = draft[q].row /\ DraftIs(q, x)
    BY <1>2, <2>1, <2>3 DEF Draft, DraftIs
  <2>5. progress[q] <= Reported("persist")
    BY <1>3, <2>2 DEF Reported
  <2>6. "persist" \in Labels \ {"idle"} /\ (job[q].id = NoId <=> x.row = "none")
    BY <1>1, <2>2, <2>4 DEF Labels, RequestFacts, Answering
  <2>a. MovesOn(q, "persist", x)
    BY <1>2, <2>2, <2>4, <2>5, <2>6 DEF MovesOn
  <2>b. RecordFits(q, "persist", x)
    BY <1>2, <2>2, <2>4, <2>5, <2>6 DEF RecordFits
  <2>c. pc[q] # "idle" /\ "persist" \in Labels \ {"idle"}
    BY <1>2, <2>2, <2>4, <2>5, <2>6
  <2> QED
    BY <2>a, <2>b, <2>c, QuietMove
<1>11. ASSUME NEW intent, NEW regrounding, Route(q, intent, regrounding)
       PROVE  Inv'
  <2>1. PICK path, names : path = PathOf(intent, regrounding)
                           /\ names = (draft[q].untitled /\ intent # "CASUAL")
    OBVIOUS
  <2>2. PICK n, k, label :
          /\ n = IF names THEN job[q].print ELSE NoPrint
          /\ k = CASE path = "recall" -> 3 [] path = "search" -> 2 [] OTHER -> 1
          /\ label = IF path \in {"search", "recall"} THEN "search" ELSE "question"
    OBVIOUS
  <2>3. /\ pc[q] = "route" /\ pc' = [pc EXCEPT ![q] = label]
        /\ draft' = [draft EXCEPT ![q].path = path, ![q].title = n] /\ Report(q, k)
        /\ rowLock' = IF names THEN q ELSE rowLock
        /\ UNCHANGED <<rowVars, job, wire, tab, attempts, faults, refused>>
    BY <1>11, <2>1, <2>2 DEF Route, Goto
  <2>4. path \in {"chat", "decline", "write", "search", "recall"}
    BY <2>1 DEF PathOf
  <2>5. n \in AnyPrint /\ k \in Nat /\ k <= 3 /\ label \in {"search", "question"}
        /\ rowLock' \in Requests \cup {NoRequest}
    BY <1>2, <2>2, <2>3 DEF AnyPrint
  <2>6. PICK x : x = [draft[q] EXCEPT !.path = path, !.title = n]
    OBVIOUS
  <2>7. x \in Draft /\ x.row = draft[q].row /\ x.path = path
    BY <1>2, <2>4, <2>5, <2>6 DEF Draft
  <2>8. DraftIs(q, x)
    <3>1. draft' = [draft EXCEPT ![q].path = path, ![q].title = n]
      BY <2>3
    <3>2. draft'[q] = x
      BY <1>2, <2>6, <3>1 DEF Draft
    <3>3. \A r \in Requests \ {q} : draft'[r] = draft[r]
      BY <1>2, <3>1
    <3>4. draft' = [r \in Requests |-> draft'[r]]
      <4>1. PICK y : y = [draft EXCEPT ![q].path = path]
        OBVIOUS
      <4>2. y = [r \in Requests |-> y[r]]
        BY <1>2, <4>1
      <4>3. draft' = [y EXCEPT ![q].title = n]
        BY <3>1, <4>1
      <4> QED
        BY <4>2, <4>3
    <3>5. \A r \in Requests : draft'[r] \in Draft
      BY <1>2, <2>7, <3>2, <3>3
    <3> QED
      BY <3>2, <3>3, <3>4, <3>5 DEF DraftIs
  <2>9. /\ progress' \in [Requests -> Nat]
        /\ \A p \in Requests \ {q} : progress'[p] = progress[p]
        /\ progress'[q] <= progress[q] + k
    BY <1>1, <2>3, <2>5, ReportEffect
  <2>10. progress[q] <= 0
    BY <1>3, <2>3 DEF Reported
  <2>11. progress'[q] <= Reported(label)
    BY <1>2, <2>5, <2>9, <2>10 DEF Reported
  <2>12. /\ label \in Labels \ {"idle"} /\ label \notin {"lookup", "insert", "evidence", "generate"}
         /\ (job[q].id = NoId <=> x.row = "none") /\ x.row # "stored"
    BY <1>1, <2>3, <2>5, <2>7 DEF Labels, RequestFacts, Answering
  <2>13. x.path # "grounded"
    BY <2>4, <2>7
  <2>a. MovesOn(q, label, x)
    BY <1>2, <2>3, <2>5, <2>7, <2>8, <2>9, <2>11, <2>12, <2>13 DEF MovesOn
  <2>b. RecordFits(q, label, x)
    BY <1>2, <2>3, <2>5, <2>7, <2>8, <2>9, <2>11, <2>12, <2>13 DEF RecordFits
  <2>c. pc[q] # "idle" /\ label \in Labels \ {"idle"}
    BY <1>2, <2>3, <2>5, <2>7, <2>8, <2>9, <2>11, <2>12, <2>13
  <2> QED
    BY <2>a, <2>b, <2>c, QuietMove
<1> QED
  BY <1>5, <1>6, <1>7, <1>8, <1>9, <1>10, <1>11

-----------------------------------------------------------------------------
(***************************************************************************)
(* Steps that store something.                                             *)
(***************************************************************************)
\* What a commit writes in the replay record.
LEMMA DeliveryEffect ==
  ASSUME TypeOK, NEW q \in Requests, job[q].print \in Prints,
         NEW status \in {"PENDING", "COMPLETED", "FAILED"}, NEW n \in 0..MaxAttempts,
         delivery' = WithDelivery(q, status, n)
  PROVE  /\ delivery' \in [Ids -> Delivery]
         /\ \A i \in Ids : i # job[q].id => delivery'[i] = delivery[i]
         /\ job[q].id \in Ids =>
              delivery'[job[q].id] = [status |-> status, print |-> job[q].print, payload |-> n]
<1>1. delivery \in [Ids -> Delivery]
  BY DEF TypeOK
<1>2. [status |-> status, print |-> job[q].print, payload |-> n] \in Delivery
  BY DEF Delivery, AnyPrint
<1>3. job[q].id = NoId \/ job[q].id \in Ids
  BY RequestTypes DEF AnyId
<1>4. CASE job[q].id = NoId
  BY <1>1, <1>4, ConstantTypes DEF WithDelivery
<1>5. CASE job[q].id \in Ids
  <2>1. delivery' = [delivery EXCEPT ![job[q].id] = [status |-> status, print |-> job[q].print,
                                                    payload |-> n]]
    BY <1>5, ConstantTypes DEF WithDelivery
  <2> QED
    BY <1>1, <1>2, <1>5, <2>1
<1> QED
  BY <1>3, <1>4, <1>5

\* A request that answers under an identifier has its record, which says that
\* nothing is stored under it.
LEMMA OwnRecord ==
  ASSUME Inv, NEW q \in Requests, pc[q] \in Answering, job[q].id # NoId
  PROVE  /\ job[q].id \in Ids /\ draft[q].row # "none"
         /\ delivery[job[q].id].status \in {"none", "PENDING"}
         /\ \A x \in messages : x.id # job[q].id
<1>1. TypeOK /\ RowInv /\ RequestFacts(q)
  BY DEF Inv, WorkInv
<1>2. job[q].id \in Ids
  BY <1>1, RequestTypes DEF AnyId
<1>3. draft[q].row \in {"flushed", "stored"}
  BY <1>1, RequestTypes DEF RequestFacts
<1>4. delivery[job[q].id].status \in {"none", "PENDING"}
  BY <1>1, <1>3 DEF RequestFacts
<1>5. DeliveryFacts(job[q].id)
  BY <1>1, <1>2 DEF RowInv
<1> QED
  BY <1>2, <1>3, <1>4, <1>5 DEF DeliveryFacts

\* The document search commits the pending record and the title.
LEMMA InvSearch ==
  ASSUME Inv, NEW q \in Requests, Search(q)
  PROVE  Inv'
<1>1. TypeOK /\ RowInv /\ WorkInv /\ PageInv /\ RequestFacts(q)
  BY DEF Inv, WorkInv
<1>2. /\ draft[q] \in Draft /\ pc \in [Requests -> Labels]
      /\ draft \in [Requests -> Draft] /\ progress \in [Requests -> Nat]
      /\ rowLock \in Requests \cup {NoRequest} /\ progress[q] \in Nat /\ title \in AnyPrint
      /\ job[q].id \in AnyId /\ job[q].print \in AnyPrint /\ draft[q].row \in {"none", "flushed", "stored"}
      /\ draft[q].title \in AnyPrint
  BY <1>1, RequestTypes DEF TypeOK, Labels
<1>3. PICK row : row = IF job[q].id = NoId THEN "none" ELSE "stored"
  OBVIOUS
<1>4. /\ pc[q] = "search" /\ pc' = [pc EXCEPT ![q] = "evidence"]
      /\ delivery' = WithDelivery(q, "PENDING", 0) /\ title' = TitleOf(q)
      /\ rowLock' = Released(q) /\ Report(q, 1)
      /\ draft' = [draft EXCEPT ![q].row = row, ![q].title = NoPrint]
      /\ UNCHANGED <<messages, traces, remembered, job, wire, tab, attempts, faults, refused>>
  BY <1>3 DEF Search, Goto
<1>5. PICK x : x = [draft[q] EXCEPT !.row = row, !.title = NoPrint]
  OBVIOUS
<1>6. x \in Draft /\ x.row = row
  BY <1>2, <1>3, <1>5 DEF Draft, AnyPrint
<1>7. DraftIs(q, x)
  <2>1. draft' = [draft EXCEPT ![q].row = row, ![q].title = NoPrint]
    BY <1>4
  <2>2. draft'[q] = x
    BY <1>2, <1>5, <2>1 DEF Draft
  <2>3. \A r \in Requests \ {q} : draft'[r] = draft[r]
    BY <1>2, <2>1
  <2>4. draft' = [r \in Requests |-> draft'[r]]
    <3>1. PICK y : y = [draft EXCEPT ![q].row = row]
      OBVIOUS
    <3>2. y = [r \in Requests |-> y[r]]
      BY <1>2, <3>1
    <3>3. draft' = [y EXCEPT ![q].title = NoPrint]
      BY <2>1, <3>1
    <3> QED
      BY <3>2, <3>3
  <2>5. \A r \in Requests : draft'[r] \in Draft
    BY <1>2, <1>6, <2>2, <2>3
  <2> QED
    BY <2>2, <2>3, <2>4, <2>5 DEF DraftIs
<1>8. job[q].print \in Prints /\ pc[q] \in Answering
  BY <1>1, <1>4 DEF RequestFacts, Answering
<1>9. /\ delivery' \in [Ids -> Delivery]
      /\ \A i \in Ids : i # job[q].id => delivery'[i] = delivery[i]
      /\ job[q].id \in Ids =>
           delivery'[job[q].id] = [status |-> "PENDING", print |-> job[q].print, payload |-> 0]
  BY <1>1, <1>4, <1>8, ConstantTypes, DeliveryEffect
<1>10. job[q].id # NoId => /\ job[q].id \in Ids /\ draft[q].row # "none"
                           /\ \A y \in messages : y.id # job[q].id
  BY <1>8, OwnRecord
<1>11. /\ progress' \in [Requests -> Nat] /\ \A p \in Requests \ {q} : progress'[p] = progress[p]
       /\ progress'[q] <= 4
  <2>1. /\ progress' \in [Requests -> Nat] /\ \A p \in Requests \ {q} : progress'[p] = progress[p]
        /\ progress'[q] <= progress[q] + 1
    BY <1>1, <1>4, ReportEffect
  <2>2. progress[q] <= 3
    BY <1>1, <1>4 DEF RequestFacts, Reported
  <2> QED
    BY <1>2, <2>1, <2>2
<1>12. /\ pc' \in [Requests -> Labels] /\ pc'[q] = "evidence"
       /\ \A p \in Requests \ {q} : pc'[p] = pc[p]
  BY <1>2, <1>4 DEF Labels
<1>13. TypeOK'
  <2>1. title' \in AnyPrint /\ rowLock' \in Requests \cup {NoRequest}
    BY <1>2, <1>4 DEF TitleOf, Released
  <2>2. draft' \in [Requests -> Draft]
    BY <1>7 DEF DraftIs
  <2> QED
    BY <1>1, <1>4, <1>9, <1>11, <1>12, <2>1, <2>2 DEF TypeOK, Labels
<1>14. RowInv'
  <2>1. MessageFacts'
    BY <1>1, <1>4 DEF RowInv, MessageFacts, Says
  <2>2. TraceFacts'
    BY <1>1, <1>4 DEF RowInv, TraceFacts, UserTurns, AnsweredTurns, FailedTurns
  <2>3. ASSUME NEW i \in Ids
        PROVE  DeliveryFacts(i)'
    <3>1. CASE i # job[q].id
      <4>1. DeliveryFacts(i) /\ delivery'[i] = delivery[i] /\ messages' = messages
        BY <1>1, <1>4, <1>9, <3>1 DEF RowInv
      <4> QED
        BY <4>1 DEF DeliveryFacts, Says
    <3>2. CASE i = job[q].id
      <4>1. delivery'[i].status = "PENDING" /\ messages' = messages
        BY <1>4, <1>9, <3>2
      <4>2. \A y \in messages : y.id # i
        BY <1>10, <3>2, ConstantTypes
      <4> QED
        BY <4>1, <4>2 DEF DeliveryFacts
    <3> QED
      BY <3>1, <3>2
  <2> QED
    BY <2>1, <2>2, <2>3 DEF RowInv
<1>15. WorkInv'
  <2>1. UserTurns' = UserTurns /\ attempts' = attempts /\ job' = job
    BY <1>4 DEF UserTurns
  <2>2. draft'[q] = x /\ \A p \in Requests \ {q} : draft'[p] = draft[p]
    BY <1>7 DEF DraftIs
  <2>3. RequestFacts(q)'
    <3>1. job[q].turn \in 1..attempts /\ job[q].turn \notin UserTurns
      BY <1>1, <1>4 DEF RequestFacts
    <3>2. x.row = "stored" => delivery'[job[q].id] = [status |-> "PENDING", print |-> job[q].print, payload |-> 0]
      BY <1>3, <1>6, <1>9, <1>10
    <3>3. x.row # "flushed" /\ (job[q].id = NoId <=> x.row = "none")
      BY <1>3, <1>6
    <3> QED
      BY <1>8, <1>11, <1>12, <2>1, <2>2, <3>1, <3>2, <3>3 DEF RequestFacts, Reported
  <2>4. \A i \in Ids : (i = job[q].id /\ draft[q].row # "none") \/ delivery'[i] = delivery[i]
    BY <1>9, <1>10, ConstantTypes
  <2>5. x.row # "none" => draft[q].row # "none"
    BY <1>3, <1>6, <1>10
  <2>6. pc[q] # "idle"
    BY <1>4
  <2> QED
    BY <1>1, <1>11, <1>12, <2>1, <2>2, <2>3, <2>4, <2>5, <2>6, WorkStep
<1>16. PageInv'
  <2>1. \A b \in Tabs : tab[b].conn = q => wire'[q] \in Seq(Good(messages', tab[b].id, tab[b].print))
    BY <1>1, <1>4, ConstantTypes DEF PageInv, TabFacts
  <2> QED
    BY <1>1, <1>4, <1>12, <2>1, PageStep
<1> QED
  BY <1>13, <1>14, <1>15, <1>16 DEF Inv

\* A turn that nobody has stored has no message and no trace.
LEMMA FreshTurn ==
  ASSUME Inv, NEW q \in Requests, pc[q] # "idle"
  PROVE  /\ job[q].turn \in Turns /\ job[q].turn \notin UserTurns /\ job[q].print \in Prints
         /\ \A x \in messages : x.turn # job[q].turn
         /\ \A t \in traces : t.turn # job[q].turn
<1>1. TypeOK /\ RowInv /\ RequestFacts(q)
  BY DEF Inv, WorkInv
<1>2. job[q].turn \in 1..attempts /\ job[q].turn \notin UserTurns /\ job[q].print \in Prints
  BY <1>1 DEF RequestFacts
<1>3. job[q].turn \in Turns
  BY <1>1, <1>2, ConstantTypes DEF TypeOK
<1>4. ASSUME NEW x \in messages
      PROVE  x.turn # job[q].turn
  <2>1. x.role \in {"user", "assistant"}
    BY <1>1, MessageTypes DEF TypeOK
  <2>2. CASE x.role = "user"
    <3>1. x.turn \in UserTurns
      BY <2>2 DEF UserTurns
    <3> QED
      BY <1>2, <3>1
  <2>3. CASE x.role = "assistant"
    <3>1. PICK y \in messages : y.turn = x.turn /\ y.role = "user"
      BY <1>1, <2>3 DEF RowInv, MessageFacts, Says
    <3>2. y.turn \in UserTurns
      BY <3>1 DEF UserTurns
    <3> QED
      BY <1>2, <3>1, <3>2
  <2> QED
    BY <2>1, <2>2, <2>3
<1>5. ASSUME NEW t \in traces
      PROVE  t.turn # job[q].turn
  <2>1. t.turn \in {u.turn : u \in traces}
    OBVIOUS
  <2> QED
    BY <1>1, <1>2, <2>1 DEF RowInv, TraceFacts
<1> QED
  BY <1>2, <1>3, <1>4, <1>5

\* One commit stores the question, its trace, the outcome in the replay record
\* and, if there is one, the answer.
StoresTurn(q, answered, status) ==
  /\ messages' = IF answered THEN messages \cup {MessageOf(q, "user"), MessageOf(q, "assistant")}
                 ELSE messages \cup {MessageOf(q, "user")}
  /\ traces' = traces \cup {[turn |-> job[q].turn, status |-> status]}
  /\ remembered' = remembered \/ (answered /\ remembered' = remembered \cup {job[q].turn})
  /\ delivery' = IF answered THEN WithDelivery(q, "COMPLETED", job[q].turn)
                 ELSE WithDelivery(q, "FAILED", 0)

\* The turns after such a commit.
LEMMA TurnsAfter ==
  ASSUME NEW q \in Requests, NEW answered \in BOOLEAN, NEW status, StoresTurn(q, answered, status)
  PROVE  /\ UserTurns' = UserTurns \cup {job[q].turn}
         /\ AnsweredTurns' = IF answered THEN AnsweredTurns \cup {job[q].turn} ELSE AnsweredTurns
<1>1. PICK u, a : u = MessageOf(q, "user") /\ a = MessageOf(q, "assistant")
  OBVIOUS
<1>2. /\ u.turn = job[q].turn /\ a.turn = job[q].turn /\ u.role = "user" /\ a.role = "assistant"
  BY <1>1 DEF MessageOf
<1>3. messages' = IF answered THEN messages \cup {u, a} ELSE messages \cup {u}
  BY <1>1 DEF StoresTurn
<1>4. UserTurns' = UserTurns \cup {job[q].turn}
  BY <1>2, <1>3 DEF UserTurns
<1>5. AnsweredTurns' = IF answered THEN AnsweredTurns \cup {job[q].turn} ELSE AnsweredTurns
  BY <1>2, <1>3 DEF AnsweredTurns
<1> QED
  BY <1>4, <1>5

\* What the rows say about messages after such a commit.
LEMMA MessagesAfter ==
  ASSUME Inv, NEW q \in Requests, NEW answered \in BOOLEAN, NEW status,
         pc[q] # "idle", StoresTurn(q, answered, status), attempts' = attempts
  PROVE  MessageFacts' /\ messages' \subseteq Message
<1>1. TypeOK /\ RowInv /\ RequestFacts(q)
  BY DEF Inv, WorkInv
<1>2. PICK u, a : u = MessageOf(q, "user") /\ a = MessageOf(q, "assistant")
  OBVIOUS
<1>3. /\ u.turn = job[q].turn /\ a.turn = job[q].turn /\ u.role = "user" /\ a.role = "assistant"
      /\ u.id = job[q].id /\ a.id = job[q].id /\ u.print = job[q].print /\ a.print = job[q].print
      /\ u = [turn |-> job[q].turn, id |-> job[q].id, role |-> "user", print |-> job[q].print]
  BY <1>2 DEF MessageOf
<1>4. /\ messages \subseteq messages' /\ u \in messages'
      /\ \A x \in messages' : x \in messages \/ x = u \/ x = a
  BY <1>2 DEF StoresTurn
<1>5. job[q].turn \in Turns /\ job[q].print \in Prints /\ \A x \in messages : x.turn # job[q].turn
  BY FreshTurn
<1>6. u \in Message /\ a \in Message
  BY <1>1, <1>2, <1>5, RequestTypes DEF MessageOf, Message
<1>7. \A x \in messages' : x.turn <= attempts'
  <2>1. job[q].turn <= attempts
    BY <1>1, ConstantTypes DEF RequestFacts, TypeOK
  <2> QED
    BY <1>1, <1>3, <1>4, <2>1 DEF RowInv, MessageFacts
<1>8. ASSUME NEW x \in messages', NEW y \in messages', x.turn = y.turn
      PROVE  x.id = y.id /\ x.print = y.print
  <2>1. CASE x \in messages /\ y \in messages
    BY <1>1, <1>8, <2>1 DEF RowInv, MessageFacts
  <2>2. CASE ~(x \in messages /\ y \in messages)
    BY <1>3, <1>4, <1>5, <1>8, <2>2
  <2> QED
    BY <2>1, <2>2
<1>9. ASSUME NEW x \in messages', x.role = "assistant"
      PROVE  [turn |-> x.turn, id |-> x.id, role |-> "user", print |-> x.print] \in messages'
  <2>1. CASE x \in messages
    BY <1>1, <1>4, <1>9, <2>1 DEF RowInv, MessageFacts, Says
  <2>2. CASE x = a
    BY <1>3, <1>4, <2>2
  <2> QED
    BY <1>3, <1>4, <1>9, <2>1, <2>2
<1> QED
  BY <1>1, <1>4, <1>6, <1>7, <1>8, <1>9 DEF MessageFacts, Says, TypeOK

\* What they say about traces.
LEMMA TracesAfter ==
  ASSUME Inv, NEW q \in Requests, NEW answered \in BOOLEAN,
         NEW status \in {"grounded", "insufficient_evidence", "provider_error"},
         status = "provider_error" <=> ~answered,
         pc[q] # "idle", StoresTurn(q, answered, status)
  PROVE  TraceFacts' /\ traces' \subseteq Trace /\ remembered' \subseteq Turns
<1>1. TypeOK /\ RowInv /\ TraceFacts
  BY DEF Inv, RowInv
<1>2. PICK n, new : n = job[q].turn /\ new = [turn |-> n, status |-> status]
  OBVIOUS
<1>3. /\ n \in Turns /\ n \notin UserTurns /\ \A t \in traces : t.turn # n
      /\ \A x \in messages : x.turn # n
  BY <1>2, FreshTurn
<1>4. traces' = traces \cup {new} /\ new.turn = n /\ new.status = status
  BY <1>2 DEF StoresTurn
<1>5. /\ UserTurns' = UserTurns \cup {n}
      /\ AnsweredTurns' = IF answered THEN AnsweredTurns \cup {n} ELSE AnsweredTurns
  BY <1>2, TurnsAfter
<1>6. remembered' = remembered \/ (answered /\ remembered' = remembered \cup {n})
  BY <1>2 DEF StoresTurn
<1>7. n \notin AnsweredTurns
  BY <1>3 DEF AnsweredTurns
<1>8. remembered' \subseteq AnsweredTurns' /\ remembered' \subseteq Turns
  BY <1>1, <1>3, <1>5, <1>6 DEF TraceFacts, TypeOK
<1>9. {t.turn : t \in traces'} = UserTurns'
  <2>1. {t.turn : t \in traces'} = {t.turn : t \in traces} \cup {n}
    BY <1>4
  <2> QED
    BY <1>1, <1>5, <2>1 DEF TraceFacts
<1>10. new \notin traces
  BY <1>3, <1>4
<1>11. /\ IsFiniteSet(traces') /\ IsFiniteSet(UserTurns')
       /\ Cardinality(traces') = Cardinality(UserTurns')
  <2>1. /\ IsFiniteSet(traces) /\ IsFiniteSet(UserTurns) /\ Cardinality(traces) = Cardinality(UserTurns)
    BY <1>1 DEF TraceFacts
  <2>2. IsFiniteSet(traces \cup {new}) /\ Cardinality(traces \cup {new}) = Cardinality(traces) + 1
    BY <1>10, <2>1, FS_AddElement
  <2>3. IsFiniteSet(UserTurns \cup {n}) /\ Cardinality(UserTurns \cup {n}) = Cardinality(UserTurns) + 1
    BY <1>3, <2>1, FS_AddElement
  <2> QED
    BY <1>4, <1>5, <2>1, <2>2, <2>3
<1>12. {t.turn : t \in {u \in traces' : u.status = "provider_error"}} = FailedTurns'
  <2>1. CASE answered
    <3>1. {u \in traces' : u.status = "provider_error"} = {u \in traces : u.status = "provider_error"}
      BY <1>4, <2>1
    <3>2. FailedTurns' = FailedTurns
      BY <1>3, <1>5, <2>1 DEF FailedTurns
    <3> QED
      BY <1>1, <3>1, <3>2 DEF TraceFacts
  <2>2. CASE ~answered
    <3>1. {u \in traces' : u.status = "provider_error"}
            = {u \in traces : u.status = "provider_error"} \cup {new}
      BY <1>4, <2>2
    <3>2. PICK E : E = {u \in traces : u.status = "provider_error"}
      OBVIOUS
    <3>3. {t.turn : t \in E \cup {new}} = {t.turn : t \in E} \cup {n}
      BY <1>4
    <3>4. FailedTurns' = FailedTurns \cup {n}
      BY <1>5, <1>7, <2>2 DEF FailedTurns
    <3>5. {t.turn : t \in E} = FailedTurns
      BY <1>1, <3>2 DEF TraceFacts
    <3> QED
      BY <3>1, <3>2, <3>3, <3>4, <3>5
  <2> QED
    BY <2>1, <2>2
<1>13. new \in Trace
  BY <1>2, <1>3 DEF Trace
<1> QED
  BY <1>1, <1>4, <1>8, <1>9, <1>11, <1>12, <1>13 DEF TraceFacts, TypeOK

\* What they say about the replay records.
LEMMA RecordsAfter ==
  ASSUME Inv, NEW q \in Requests, NEW answered \in BOOLEAN, NEW status,
         pc[q] \in Answering, StoresTurn(q, answered, status), NEW i \in Ids
  PROVE  DeliveryFacts(i)'
<1>1. TypeOK /\ RowInv
  BY DEF Inv
<1>2. PICK u, a : u = MessageOf(q, "user") /\ a = MessageOf(q, "assistant")
  OBVIOUS
<1>3. /\ u.id = job[q].id /\ a.id = job[q].id /\ u.turn = job[q].turn /\ a.turn = job[q].turn
      /\ u.role = "user"
      /\ u = [turn |-> job[q].turn, id |-> job[q].id, role |-> "user", print |-> job[q].print]
      /\ a = [turn |-> job[q].turn, id |-> job[q].id, role |-> "assistant", print |-> job[q].print]
  BY <1>2 DEF MessageOf
<1>4. messages' = IF answered THEN messages \cup {u, a} ELSE messages \cup {u}
  BY <1>2 DEF StoresTurn
<1>5. pc[q] # "idle"
  BY DEF Answering
<1>6. job[q].turn \in Turns /\ job[q].print \in Prints
  BY <1>5, FreshTurn
<1>7. /\ job[q].turn \in 0..MaxAttempts /\ 0 \in 0..MaxAttempts
  BY <1>6, ConstantTypes
<1>8. CASE i # job[q].id
  <2>1. delivery'[i] = delivery[i]
    <3>1. CASE answered
      BY <1>1, <1>6, <1>7, <1>8, <3>1, DeliveryEffect DEF StoresTurn
    <3>2. CASE ~answered
      BY <1>1, <1>6, <1>7, <1>8, <3>2, DeliveryEffect DEF StoresTurn
    <3> QED
      BY <3>1, <3>2
  <2>2. messages \subseteq messages' /\ \A x \in messages' : x.id = i => x \in messages
    BY <1>3, <1>4, <1>8
  <2>3. DeliveryFacts(i)
    BY <1>1 DEF RowInv
  <2>4. delivery[i].status \in {"none", "PENDING"} => \A x \in messages' : x.id # i
    BY <2>2, <2>3 DEF DeliveryFacts
  <2>5. delivery[i].status = "COMPLETED" =>
          /\ Says(delivery[i].payload, i, "user", delivery[i].print)'
          /\ Says(delivery[i].payload, i, "assistant", delivery[i].print)'
          /\ \A x \in messages' : x.id = i => x.turn = delivery[i].payload
    BY <2>1, <2>2, <2>3 DEF DeliveryFacts, Says
  <2>6. ASSUME delivery[i].status = "FAILED"
        PROVE  \E n \in Turns :
                 /\ [turn |-> n, id |-> i, role |-> "user", print |-> delivery[i].print] \in messages'
                 /\ \A x \in messages' : x.id = i => x.turn = n /\ x.role = "user"
    <3>1. PICK n \in Turns :
            /\ [turn |-> n, id |-> i, role |-> "user", print |-> delivery[i].print] \in messages
            /\ \A x \in messages : x.id = i => x.turn = n /\ x.role = "user"
      BY <2>3, <2>6 DEF DeliveryFacts, Says
    <3> QED
      BY <2>2, <3>1
  <2> QED
    BY <2>1, <2>4, <2>5, <2>6 DEF DeliveryFacts, Says
<1>9. CASE i = job[q].id
  <2>1. \A x \in messages : x.id # i
    BY <1>9, OwnRecord, ConstantTypes
  <2>2. \A x \in messages' : x.id = i => (x = u \/ (answered /\ x = a))
    BY <1>4, <2>1
  <2>3. CASE answered
    <3>1. delivery'[i] = [status |-> "COMPLETED", print |-> job[q].print, payload |-> job[q].turn]
      BY <1>1, <1>6, <1>7, <1>9, <2>3, DeliveryEffect DEF StoresTurn
    <3>2. /\ delivery'[i].status = "COMPLETED" /\ delivery'[i].print = job[q].print
          /\ delivery'[i].payload = job[q].turn
      BY <3>1
    <3>3. u \in messages' /\ a \in messages'
      BY <1>4, <2>3
    <3>4. \A x \in messages' : x.id = i => x.turn = job[q].turn
      BY <1>3, <2>2
    <3> QED
      BY <1>3, <1>9, <3>2, <3>3, <3>4 DEF DeliveryFacts, Says
  <2>4. CASE ~answered
    <3>1. delivery'[i] = [status |-> "FAILED", print |-> job[q].print, payload |-> 0]
      BY <1>1, <1>6, <1>7, <1>9, <2>4, DeliveryEffect DEF StoresTurn
    <3>2. delivery'[i].status = "FAILED" /\ delivery'[i].print = job[q].print
      BY <3>1
    <3>3. u \in messages'
      BY <1>4
    <3>4. \A x \in messages' : x.id = i => x.turn = job[q].turn /\ x.role = "user"
      BY <1>3, <2>2, <2>4
    <3> QED
      BY <1>3, <1>6, <1>9, <3>2, <3>3, <3>4 DEF DeliveryFacts, Says
  <2> QED
    BY <2>3, <2>4
<1> QED
  BY <1>8, <1>9

\* Such a commit, the end of the request and what it sends keep the invariant.
LEMMA InvStores ==
  ASSUME Inv, NEW q \in Requests, NEW answered \in BOOLEAN,
         NEW status \in {"grounded", "insufficient_evidence", "provider_error"},
         status = "provider_error" <=> ~answered,
         pc[q] \in {"generate", "persist"}, StoresTurn(q, answered, status), EndRequest(q),
         title' \in AnyPrint, UNCHANGED <<tab, attempts, faults, refused>>,
         NEW s \in Seq(Good(messages', job[q].id, job[q].print)), Emit(q, s)
  PROVE  Inv'
<1>1. TypeOK /\ RowInv /\ WorkInv /\ PageInv /\ RequestFacts(q)
  BY DEF Inv, WorkInv
<1>2. /\ pc' \in [Requests -> Labels] /\ job' \in [Requests -> Job]
      /\ draft' \in [Requests -> Draft] /\ progress' \in [Requests -> Nat]
      /\ rowLock' \in Requests \cup {NoRequest}
      /\ \A p \in Requests \ {q} : /\ pc'[p] = pc[p] /\ job'[p] = job[p] /\ draft'[p] = draft[p]
                                   /\ progress'[p] = progress[p]
      /\ pc'[q] = "idle" /\ job'[q] = NoJob /\ draft'[q] = NoDraft /\ progress'[q] = 0
  BY <1>1, EndEffect
<1>3. s \in Seq(Events)
  <2>1. Good(messages', job[q].id, job[q].print) \subseteq Events
    BY DEF Good
  <2> QED
    BY <2>1
<1>4. /\ wire' \in [Requests -> Seq(Events)]
      /\ \A p \in Requests \ {q} : wire'[p] = wire[p]
      /\ wire'[q] = wire[q] \/ wire'[q] = wire[q] \o s
  BY <1>1, <1>3, EmitEffect
<1>5. pc[q] # "idle" /\ pc[q] \in Answering
  BY DEF Answering
<1>6. job[q].turn \in Turns /\ job[q].print \in Prints
  BY <1>5, FreshTurn
<1>7. MessageFacts' /\ messages' \subseteq Message
  BY <1>5, MessagesAfter
<1>8. TraceFacts' /\ traces' \subseteq Trace /\ remembered' \subseteq Turns
  BY <1>5, TracesAfter
<1>9. RowInv'
  BY <1>5, <1>7, <1>8, RecordsAfter DEF RowInv
<1>10. /\ delivery' \in [Ids -> Delivery]
       /\ \A i \in Ids : i # job[q].id => delivery'[i] = delivery[i]
  <2>1. job[q].turn \in 0..MaxAttempts /\ 0 \in 0..MaxAttempts
    BY <1>6, ConstantTypes
  <2>2. CASE answered
    <3>1. delivery' = WithDelivery(q, "COMPLETED", job[q].turn)
      BY <2>2 DEF StoresTurn
    <3> QED
      BY <1>1, <1>6, <2>1, <3>1, DeliveryEffect
  <2>3. CASE ~answered
    <3>1. delivery' = WithDelivery(q, "FAILED", 0)
      BY <2>3 DEF StoresTurn
    <3> QED
      BY <1>1, <1>6, <2>1, <3>1, DeliveryEffect
  <2> QED
    BY <2>2, <2>3
<1>11. TypeOK'
  BY <1>1, <1>2, <1>4, <1>7, <1>8, <1>10 DEF TypeOK, Labels
<1>12. WorkInv'
  <2>1. RequestFacts(q)'
    BY <1>2, IdleFacts
  <2>2. UserTurns' = UserTurns \cup {job[q].turn}
    BY TurnsAfter
  <2>3. \A i \in Ids : (i = job[q].id /\ draft[q].row # "none") \/ delivery'[i] = delivery[i]
    BY <1>5, <1>10, OwnRecord, ConstantTypes
  <2> QED
    BY <1>1, <1>2, <1>5, <2>1, <2>2, <2>3, WorkStep
<1>13. PageInv'
  <2>1. messages \subseteq messages' /\ UNCHANGED tab
    BY DEF StoresTurn
  <2>2. ASSUME NEW b \in Tabs, tab[b].conn = q
        PROVE  wire'[q] \in Seq(Good(messages', tab[b].id, tab[b].print))
    <3>1. /\ wire[q] \in Seq(Good(messages, tab[b].id, tab[b].print))
          /\ job[q].id = tab[b].id /\ job[q].print = tab[b].print
      BY <1>1, <1>5, <2>2, ConstantTypes DEF PageInv, TabFacts
    <3>2. wire[q] \in Seq(Good(messages', tab[b].id, tab[b].print))
      BY <2>1, <3>1, GoodGrows
    <3>3. s \in Seq(Good(messages', tab[b].id, tab[b].print))
      BY <3>1
    <3>4. wire[q] \o s \in Seq(Good(messages', tab[b].id, tab[b].print))
      BY <3>2, <3>3, JoinedEvents
    <3>5. wire'[q] = wire[q] \/ wire'[q] = wire[q] \o s
      BY <1>4
    <3> QED
      BY <3>2, <3>4, <3>5
  <2>3. \A p \in Requests \ {q} : wire'[p] = wire[p] /\ pc'[p] = pc[p] /\ job'[p] = job[p]
    BY <1>2, <1>4
  <2>4. pc'[q] # "idle" => pc[q] # "idle" /\ job'[q] = job[q]
    BY <1>2
  <2> QED
    BY <1>1, <2>1, <2>2, <2>3, <2>4, PageStep
<1> QED
  BY <1>9, <1>11, <1>12, <1>13 DEF Inv

\* An answer and a provider's error are such commits.
LEMMA TurnCommits ==
  ASSUME NEW q \in Requests
  PROVE  /\ ProviderError(q) => StoresTurn(q, FALSE, "provider_error")
         /\ \A memory \in BOOLEAN :
              PersistAnswer(q, memory) => StoresTurn(q, TRUE, TraceStatus(q))
BY DEF ProviderError, PersistAnswer, StoresTurn

\* The model's answer, or its failure, is stored.
LEMMA InvTurns ==
  ASSUME Inv, NEW q \in Requests,
         ProviderError(q) \/ \E memory \in BOOLEAN : PersistAnswer(q, memory)
  PROVE  Inv'
<1>1. TypeOK /\ RequestFacts(q)
  BY DEF Inv, WorkInv
<1>2. title \in AnyPrint /\ draft[q].title \in AnyPrint
  BY <1>1, RequestTypes DEF TypeOK
<1>3. CASE ProviderError(q)
  <2>1. /\ pc[q] \in {"generate", "persist"} /\ EndRequest(q) /\ Emit(q, <<SafeError>>)
        /\ UNCHANGED <<title, tab, attempts, faults, refused>>
    BY <1>3 DEF ProviderError
  <2>2. PICK s \in Seq(Good(messages', job[q].id, job[q].print)) : Emit(q, s)
    BY <2>1, ErrorIsGood
  <2>3. StoresTurn(q, FALSE, "provider_error")
    BY <1>3, TurnCommits
  <2>4. title' \in AnyPrint
    BY <1>2, <2>1
  <2> QED
    BY <2>1, <2>2, <2>3, <2>4, InvStores
<1>4. ASSUME NEW memory \in BOOLEAN, PersistAnswer(q, memory)
      PROVE  Inv'
  <2>1. /\ pc[q] \in {"generate", "persist"} /\ pc[q] # "idle" /\ EndRequest(q)
        /\ Deliver(q, job[q].turn)
        /\ title' = TitleOf(q) /\ UNCHANGED <<tab, attempts, faults, refused>>
        /\ MessageOf(q, "assistant") \in messages'
    BY <1>4 DEF PersistAnswer
  <2>2. job[q].turn \in 0..MaxAttempts
    BY <1>1, RequestTypes
  <2>3. PICK s \in Seq(Good(messages', job[q].id, job[q].print)) : Emit(q, s)
    BY <2>1, <2>2, AnswerIsGood DEF Deliver, MessageOf
  <2>4. StoresTurn(q, TRUE, TraceStatus(q))
    BY <1>4, TurnCommits
  <2>5. TraceStatus(q) \in {"grounded", "insufficient_evidence"}
    BY DEF TraceStatus
  <2>6. title' \in AnyPrint
    BY <1>2, <2>1 DEF TitleOf
  <2> QED
    BY <2>1, <2>3, <2>4, <2>5, <2>6, InvStores
<1> QED
  BY <1>3, <1>4

-----------------------------------------------------------------------------
(***************************************************************************)
(* The browser and the restart of the server.                              *)
(***************************************************************************)
\* Page b reads or leaves its stream, whose unread events are w afterwards.
PageTurns(b, t, w) ==
  /\ tab' = [tab EXCEPT ![b] = t]
  /\ wire' = [wire EXCEPT ![tab[b].conn] = w]
  /\ faults' \in 0..MaxFaults
  /\ UNCHANGED <<rowVars, rowLock, serverVars, attempts, refused>>

\* What the page may be then.
PageFits(b, t, w) ==
  /\ t \in Tab /\ t.id = tab[b].id /\ t.print = tab[b].print
  /\ t.conn \in {tab[b].conn, NoRequest}
  /\ t.conn # NoRequest => t.at # "idle"
  /\ t.shown # 0 => Says(t.shown, t.id, "assistant", t.print)
  /\ w \in Seq(Good(messages, tab[b].id, tab[b].print))

\* A step of one page keeps the invariant.
LEMMA InvPageTurns ==
  ASSUME Inv, NEW b \in Tabs, tab[b].conn # NoRequest, NEW t, NEW w,
         PageTurns(b, t, w), PageFits(b, t, w)
  PROVE  Inv'
<1>1. TypeOK /\ RowInv /\ WorkInv /\ PageInv /\ TabFacts(b)
  BY DEF Inv, PageInv
<1>2. PICK c : c = tab[b].conn
  OBVIOUS
<1>3. c \in Requests /\ tab[b].at # "idle" /\ tab[b].id \in Ids /\ tab[b].print \in Prints
  BY <1>1, <1>2, TabTypes DEF TabFacts
<1>4. UNCHANGED <<delivery, messages, traces, remembered, title, rowLock, pc, job, draft, progress,
                  attempts, refused>>
  BY DEF PageTurns, rowVars, serverVars
<1>5. /\ tab' \in [Tabs -> Tab] /\ tab'[b] = t /\ \A d \in Tabs \ {b} : tab'[d] = tab[d]
  BY <1>1 DEF PageTurns, PageFits, TypeOK
<1>6. w \in Seq(Events)
  <2>1. Good(messages, tab[b].id, tab[b].print) \subseteq Events
    BY DEF Good
  <2> QED
    BY <2>1 DEF PageFits
<1>7. /\ wire' \in [Requests -> Seq(Events)] /\ wire'[c] = w
      /\ \A p \in Requests \ {c} : wire'[p] = wire[p]
  BY <1>1, <1>2, <1>3, <1>6 DEF PageTurns, TypeOK
<1>8. TypeOK'
  <2>1. faults' \in 0..MaxFaults
    BY DEF PageTurns
  <2> QED
    BY <1>1, <1>4, <1>5, <1>7, <2>1 DEF TypeOK
<1>9. RowInv'
  <2>1. attempts' \in Nat /\ attempts' >= attempts
    BY <1>1, <1>4, ConstantTypes DEF TypeOK
  <2> QED
    BY <1>1, <1>4, <2>1, RowsStay
<1>10. WorkInv'
  <2>1. UserTurns' = UserTurns
    BY <1>4 DEF UserTurns
  <2> QED
    BY <1>1, <1>4, <2>1 DEF WorkInv, RequestFacts, Apart
<1>11. TabFacts(b)'
  <2>1. t.at # "idle" => t.id \in Ids /\ t.print \in Prints
    BY <1>3 DEF PageFits
  <2>2. t.shown # 0 => Says(t.shown, t.id, "assistant", t.print)'
    BY <1>4 DEF PageFits, Says
  <2>3. t.conn # NoRequest =>
          /\ t.conn = c /\ t.at # "idle"
          /\ pc'[c] # "idle" => job'[c].id = t.id /\ job'[c].print = t.print
          /\ wire'[c] \in Seq(Good(messages', t.id, t.print))
    BY <1>1, <1>2, <1>4, <1>7 DEF PageFits, TabFacts
  <2> QED
    BY <1>5, <2>1, <2>2, <2>3 DEF TabFacts
<1>12. ASSUME NEW d \in Tabs \ {b}
       PROVE  TabFacts(d)'
  <2>1. TabFacts(d) /\ tab[d].conn # c /\ tab[d].conn \in Requests \cup {NoRequest}
    BY <1>1, <1>2, TabTypes DEF PageInv
  <2>2. tab[d].conn # NoRequest => wire'[tab[d].conn] = wire[tab[d].conn]
    BY <1>7, <2>1
  <2> QED
    BY <1>4, <1>5, <2>1, <2>2 DEF TabFacts, Says
<1>13. \A d, e \in Tabs : d # e /\ tab'[d].conn = tab'[e].conn => tab'[d].conn = NoRequest
  BY <1>1, <1>5 DEF PageInv, PageFits
<1> QED
  BY <1>8, <1>9, <1>10, <1>11, <1>12, <1>13 DEF Inv, PageInv

\* The empty stream says nothing.
LEMMA NothingIsGood ==
  ASSUME NEW M, NEW i, NEW p
  PROVE  <<>> \in Seq(Good(M, i, p))
OBVIOUS

\* The event a page reads, and the ones it leaves.
LEMMA FirstAndRest ==
  ASSUME NEW S, NEW u \in Seq(S), u # <<>>
  PROVE  Head(u) \in S /\ Tail(u) \in Seq(S)
OBVIOUS

\* What a lost connection leaves of a page.
LEMMA LostPage ==
  ASSUME TypeOK, NEW b \in Tabs, tab[b].conn # NoRequest
  PROVE  LET t == LoseConnection(tab[b]) IN
         /\ t \in Tab /\ t.id = tab[b].id /\ t.print = tab[b].print /\ t.conn = NoRequest
         /\ t.shown = 0 \/ t.shown = tab[b].shown
<1>1. tab[b] \in Tab
  BY TabTypes
<1>2. PICK u : u = tab[b]
  OBVIOUS
<1>3. u \in Tab /\ u.conn # NoRequest
  BY <1>1, <1>2
<1>4. CASE u.at = "first"
  <2>1. LoseConnection(u) = [u EXCEPT !.at = "again", !.conn = NoRequest]
    BY <1>3, <1>4 DEF LoseConnection
  <2> QED
    BY <1>2, <1>3, <2>1 DEF Tab
<1>5. CASE u.at # "first"
  <2>1. LoseConnection(u) = [u EXCEPT !.at = "idle", !.conn = NoRequest, !.shown = 0,
                                      !.outcome = "offline"]
    BY <1>3, <1>5 DEF LoseConnection
  <2>2. 0 \in 0..MaxAttempts
    BY ConstantTypes
  <2> QED
    BY <1>2, <1>3, <2>1, <2>2 DEF Tab
<1> QED
  BY <1>4, <1>5

\* A page reads an event, cancels, or loses its connection.
LEMMA InvPages ==
  ASSUME Inv, NEW b \in Tabs, BreakConnection(b) \/ Read(b) \/ Abort(b)
  PROVE  Inv'
<1>1. TypeOK /\ TabFacts(b)
  BY DEF Inv, PageInv
<1>2. faults \in 0..MaxFaults /\ tab[b] \in Tab
  BY <1>1, TabTypes DEF TypeOK
<1>3. CASE BreakConnection(b)
  <2>1. PICK t : t = LoseConnection(tab[b])
    OBVIOUS
  <2>2. /\ tab[b].conn # NoRequest /\ faults < MaxFaults /\ faults' = faults + 1
        /\ tab' = [tab EXCEPT ![b] = t]
        /\ wire' = [wire EXCEPT ![tab[b].conn] = <<>>]
        /\ UNCHANGED <<rowVars, rowLock, serverVars, attempts, refused>>
    BY <1>3, <2>1 DEF BreakConnection
  <2>3. faults' \in 0..MaxFaults
    BY <1>2, <2>2, ConstantTypes
  <2>4. PageTurns(b, t, <<>>)
    BY <2>2, <2>3 DEF PageTurns
  <2>5. /\ t \in Tab /\ t.id = tab[b].id /\ t.print = tab[b].print /\ t.conn = NoRequest
        /\ t.shown = 0 \/ t.shown = tab[b].shown
    BY <1>1, <2>1, <2>2, LostPage
  <2>6. PageFits(b, t, <<>>)
    BY <1>1, <2>5, NothingIsGood DEF PageFits, TabFacts
  <2> QED
    BY <2>2, <2>4, <2>6, InvPageTurns
<1>4. CASE Abort(b)
  <2>1. PICK t : t = [tab[b] EXCEPT !.at = "idle", !.conn = NoRequest, !.shown = 0,
                                    !.outcome = "cancelled"]
    OBVIOUS
  <2>2. /\ t \in Tab /\ t.id = tab[b].id /\ t.print = tab[b].print /\ t.conn = NoRequest
        /\ t.shown = 0
    <3>1. 0 \in 0..MaxAttempts
      BY ConstantTypes
    <3> QED
      BY <1>2, <2>1, <3>1 DEF Tab
  <2>3. tab' = [tab EXCEPT ![b] = t]
    BY <1>1, <1>4, <2>1 DEF Abort, TypeOK, Tab
  <2>4. tab[b].conn # NoRequest /\ PageTurns(b, t, <<>>)
    BY <1>2, <1>4, <2>3 DEF Abort, PageTurns
  <2>5. PageFits(b, t, <<>>)
    BY <2>2, NothingIsGood DEF PageFits
  <2> QED
    BY <2>4, <2>5, InvPageTurns
<1>5. CASE Read(b)
  <2>1. PICK c, G, e, w, t : /\ c = tab[b].conn /\ G = Good(messages, tab[b].id, tab[b].print)
                             /\ e = Head(wire[c]) /\ w = Tail(wire[c]) /\ t = AfterEvent(tab[b], e)
    OBVIOUS
  <2>2. /\ c # NoRequest /\ wire[c] # <<>> /\ tab' = [tab EXCEPT ![b] = t]
        /\ wire' = [wire EXCEPT ![c] = w]
        /\ UNCHANGED <<rowVars, rowLock, serverVars, attempts, faults, refused>>
    BY <1>5, <2>1 DEF Read
  <2>3. PageTurns(b, t, w)
    BY <1>2, <2>1, <2>2 DEF PageTurns
  <2>4. c \in Requests /\ wire[c] \in Seq(G) /\ tab[b].at # "idle"
    BY <1>1, <2>1, <2>2, TabTypes DEF TabFacts
  <2>5. e \in G /\ w \in Seq(G)
    BY <2>1, <2>2, <2>4, FirstAndRest
  <2>6. /\ e \in Events
        /\ e.type \in {"delta", "completed"} => Says(e.turn, tab[b].id, "assistant", tab[b].print)
    BY <2>1, <2>5 DEF Good, Says
  <2>7. PICK u : u = tab[b]
    OBVIOUS
  <2>8. /\ t \in Tab /\ t.id = u.id /\ t.print = u.print
        /\ t.conn \in {c, NoRequest} /\ (t.conn # NoRequest => t.at = u.at)
        /\ t.shown = 0 \/ (t.shown = e.turn /\ e.type \in {"delta", "completed"})
    <3>1. u \in Tab /\ u.conn = c
      BY <1>2, <2>1, <2>7
    <3>2. \/ e.type \in {"started", "delta", "completed"} /\ e.turn \in 0..MaxAttempts
          \/ e.type = "error" /\ e.code = "stream_failed"
      BY <2>6 DEF Events
    <3>3. 0 \in 0..MaxAttempts
      BY ConstantTypes
    <3>4. CASE e.type = "started"
      <4>1. t = [u EXCEPT !.shown = 0]
        BY <2>1, <2>7, <3>4 DEF AfterEvent
      <4> QED
        BY <3>1, <3>3, <4>1 DEF Tab
    <3>5. CASE e.type = "delta"
      <4>1. t = [u EXCEPT !.shown = e.turn]
        BY <2>1, <2>7, <3>5 DEF AfterEvent
      <4> QED
        BY <3>1, <3>2, <3>5, <4>1 DEF Tab
    <3>6. CASE e.type = "completed"
      <4>1. t = [u EXCEPT !.at = "idle", !.conn = NoRequest, !.shown = e.turn, !.done = e.turn,
                          !.outcome = "answered"]
        BY <2>1, <2>7, <3>6 DEF AfterEvent
      <4> QED
        BY <3>1, <3>2, <3>6, <4>1 DEF Tab
    <3>7. CASE e.type = "error" /\ e.code = "stream_failed"
      <4>1. t = [u EXCEPT !.at = "idle", !.conn = NoRequest, !.shown = 0, !.outcome = "failed"]
        BY <2>1, <2>7, <3>7 DEF AfterEvent
      <4> QED
        BY <3>1, <3>3, <4>1 DEF Tab
    <3> QED
      BY <3>2, <3>4, <3>5, <3>6, <3>7
  <2>9. PageFits(b, t, w)
    BY <2>1, <2>4, <2>5, <2>6, <2>7, <2>8 DEF PageFits
  <2> QED
    BY <2>1, <2>2, <2>3, <2>9, InvPageTurns
<1> QED
  BY <1>3, <1>4, <1>5

\* The server restarts: every request and every connection is gone.
LEMMA InvCrash ==
  ASSUME Inv, Crash
  PROVE  Inv'
<1>1. TypeOK /\ RowInv /\ PageInv
  BY DEF Inv
<1>2. /\ faults < MaxFaults /\ faults' = faults + 1
      /\ pc' = [q \in Requests |-> "idle"] /\ job' = [q \in Requests |-> NoJob]
      /\ draft' = [q \in Requests |-> NoDraft] /\ progress' = [q \in Requests |-> 0]
      /\ wire' = [q \in Requests |-> <<>>] /\ rowLock' = NoRequest
      /\ UNCHANGED <<delivery, messages, traces, remembered, title, attempts, refused>>
  BY DEF Crash, rowVars
<1>3. tab' = [b \in Tabs |-> LoseConnection(tab[b])]
  BY DEF Crash
<1>4. ASSUME NEW b \in Tabs
      PROVE  /\ tab'[b] \in Tab /\ tab'[b].id = tab[b].id /\ tab'[b].print = tab[b].print
             /\ tab'[b].shown = 0 \/ tab'[b].shown = tab[b].shown
             /\ tab'[b].conn = NoRequest /\ (tab'[b].at # "idle" => tab[b].at # "idle")
  <2>1. tab'[b] = LoseConnection(tab[b]) /\ tab[b] \in Tab
    BY <1>1, <1>3, TabTypes
  <2>2. CASE tab[b].conn = NoRequest
    <3>1. LoseConnection(tab[b]) = tab[b]
      BY <2>2, Zenon DEF LoseConnection
    <3> QED
      BY <2>1, <2>2, <3>1
  <2>3. CASE tab[b].conn # NoRequest
    <3>1. tab[b].at # "idle"
      BY <1>1, <2>3 DEF PageInv, TabFacts
    <3> QED
      BY <1>1, <2>1, <2>3, <3>1, LostPage
  <2> QED
    BY <2>2, <2>3
<1>5. TypeOK'
  <2>1. faults' \in 0..MaxFaults
    BY <1>1, <1>2, ConstantTypes DEF TypeOK
  <2>2. NoJob \in Job /\ NoDraft \in Draft
    BY ConstantTypes DEF NoJob, Job, AnyId, AnyPrint, NoDraft, Draft
  <2>3. tab' \in [Tabs -> Tab]
    BY <1>3, <1>4
  <2>4. job' \in [Requests -> Job] /\ draft' \in [Requests -> Draft] /\ progress' \in [Requests -> Nat]
    BY <1>2, <2>2
  <2>5. wire' \in [Requests -> Seq(Events)]
    BY <1>2
  <2> QED
    BY <1>1, <1>2, <2>1, <2>3, <2>4, <2>5 DEF TypeOK
<1>6. RowInv'
  <2>1. attempts' \in Nat /\ attempts' >= attempts
    BY <1>1, <1>2, ConstantTypes DEF TypeOK
  <2> QED
    BY <1>1, <1>2, <2>1, RowsStay
<1>7. WorkInv'
  <2>1. ASSUME NEW q \in Requests
        PROVE  RequestFacts(q)'
    BY <1>2, IdleFacts
  <2>2. ASSUME NEW p \in Requests, NEW q \in Requests
        PROVE  Apart(p, q)'
    BY <1>2 DEF Apart, NoDraft
  <2> QED
    BY <2>1, <2>2 DEF WorkInv
<1>8. PageInv'
  <2>1. ASSUME NEW b \in Tabs
        PROVE  TabFacts(b)'
    <3>1. TabFacts(b)
      BY <1>1 DEF PageInv
    <3>2. tab'[b].shown # 0 =>
            [turn |-> tab'[b].shown, id |-> tab'[b].id, role |-> "assistant",
             print |-> tab'[b].print] \in messages'
      BY <1>2, <1>4, <3>1 DEF TabFacts, Says
    <3> QED
      BY <1>4, <3>1, <3>2 DEF TabFacts, Says
  <2> QED
    BY <1>4, <2>1 DEF PageInv
<1> QED
  BY <1>5, <1>6, <1>7, <1>8 DEF Inv

-----------------------------------------------------------------------------
(***************************************************************************)
(* Requests arrive.                                                        *)
(***************************************************************************)
\* The first event of every stream.
Started == [type |-> "started", turn |-> 0]

\* What an arrival does to the server.
LEMMA ArriveEffect ==
  ASSUME Inv, NEW q \in Requests, NEW id \in AnyId, NEW print \in Prints, NEW streams \in BOOLEAN,
         Arrive(q, id, print, streams)
  PROVE  /\ attempts' = attempts + 1 /\ attempts' \in 0..MaxAttempts /\ attempts \in Nat
         /\ pc' \in [Requests -> Labels] /\ pc'[q] = IF id = NoId THEN "route" ELSE "lookup"
         /\ job' \in [Requests -> Job] /\ job'[q].turn = attempts + 1 /\ job'[q].id = id
         /\ job'[q].print = print
         /\ draft' \in [Requests -> Draft] /\ draft'[q].row = "none" /\ draft'[q].path = "none"
         /\ wire' \in [Requests -> Seq(Events)]
         /\ wire'[q] = <<>> \/ wire'[q] = <<Started>>
         /\ \A p \in Requests \ {q} : /\ pc'[p] = pc[p] /\ job'[p] = job[p] /\ draft'[p] = draft[p]
                                      /\ wire'[p] = wire[p]
         /\ pc[q] = "idle" /\ \A b \in Tabs : tab[b].conn # q
         /\ UNCHANGED <<delivery, messages, traces, remembered, title, rowLock, progress, faults,
                        refused>>
<1>1. TypeOK /\ RequestFacts(q)
  BY DEF Inv, WorkInv
<1>2. /\ pc[q] = "idle" /\ wire[q] = <<>> /\ \A b \in Tabs : tab[b].conn # q
  BY DEF Arrive, Slot
<1>3. /\ attempts' = attempts + 1 /\ attempts' \in 0..MaxAttempts /\ attempts \in Nat
      /\ attempts + 1 \in 0..MaxAttempts
  BY <1>1, ConstantTypes DEF Arrive, TypeOK
<1>4. /\ pc \in [Requests -> Labels] /\ job \in [Requests -> Job] /\ draft \in [Requests -> Draft]
      /\ wire \in [Requests -> Seq(Events)]
  BY <1>1 DEF TypeOK, Labels
<1>5. /\ pc' \in [Requests -> Labels] /\ pc'[q] = IF id = NoId THEN "route" ELSE "lookup"
      /\ \A p \in Requests \ {q} : pc'[p] = pc[p]
  BY <1>4 DEF Arrive, Goto, Labels
<1>6. PICK j : j = [turn |-> attempts + 1, id |-> id, print |-> print, streams |-> streams]
  OBVIOUS
<1>7. j \in Job /\ j.turn = attempts + 1 /\ j.id = id /\ j.print = print
  BY <1>3, <1>6 DEF Job, AnyPrint
<1>8. job' = [job EXCEPT ![q] = j]
  BY <1>6 DEF Arrive
<1>9. job' \in [Requests -> Job] /\ job'[q] = j /\ \A p \in Requests \ {q} : job'[p] = job[p]
  BY <1>4, <1>7, <1>8
<1>10. draft[q] = NoDraft
  BY <1>1, <1>2 DEF RequestFacts
<1>11. PICK untitled \in BOOLEAN : draft' = [draft EXCEPT ![q].untitled = untitled]
  BY DEF Arrive
<1>12. /\ draft' \in [Requests -> Draft] /\ draft'[q].row = "none" /\ draft'[q].path = "none"
       /\ \A p \in Requests \ {q} : draft'[p] = draft[p]
  BY <1>4, <1>10, <1>11 DEF Draft, NoDraft
<1>13. <<Started>> \in Seq(Events)
  <2>1. Started \in Events
    BY ConstantTypes DEF Started, Events
  <2> QED
    BY <2>1
<1>14. wire' = wire \/ wire' = [wire EXCEPT ![q] = <<Started>>]
  BY DEF Arrive, Started
<1>15. /\ wire' \in [Requests -> Seq(Events)]
       /\ wire'[q] = <<>> \/ wire'[q] = <<Started>>
       /\ \A p \in Requests \ {q} : wire'[p] = wire[p]
  BY <1>2, <1>4, <1>13, <1>14
<1>16. UNCHANGED <<delivery, messages, traces, remembered, title, rowLock, progress, faults, refused>>
  BY DEF Arrive, rowVars
<1> QED
  BY <1>2, <1>3, <1>5, <1>7, <1>9, <1>12, <1>15, <1>16

\* The new request has a turn of its own.
LEMMA ArriveWork ==
  ASSUME Inv, NEW q \in Requests, NEW id \in AnyId, NEW print \in Prints, NEW streams \in BOOLEAN,
         Arrive(q, id, print, streams)
  PROVE  RowInv' /\ WorkInv'
<1>1. TypeOK /\ RowInv /\ WorkInv /\ RequestFacts(q)
  BY DEF Inv, WorkInv
<1>2. /\ attempts' = attempts + 1 /\ attempts' \in Nat /\ attempts \in Nat
      /\ UNCHANGED <<delivery, messages, traces, remembered, progress>> /\ pc[q] = "idle"
  BY ArriveEffect
<1>3. /\ pc'[q] = (IF id = NoId THEN "route" ELSE "lookup") /\ job'[q].turn = attempts + 1
      /\ job'[q].id = id /\ job'[q].print = print /\ draft'[q].row = "none"
      /\ \A p \in Requests \ {q} : pc'[p] = pc[p] /\ job'[p] = job[p] /\ draft'[p] = draft[p]
  BY ArriveEffect
<1>4. RowInv'
  BY <1>1, <1>2, RowsStay
<1>5. UserTurns' = UserTurns
  BY <1>2 DEF UserTurns
<1>6. \A n \in UserTurns : n <= attempts
  BY <1>1 DEF RowInv, MessageFacts, UserTurns
<1>7. attempts + 1 \in 1..attempts' /\ attempts + 1 \notin UserTurns
  BY <1>2, <1>6
<1>8. RequestFacts(q)'
  <2>1. progress[q] <= 0
    BY <1>1, <1>2 DEF RequestFacts, Reported
  <2>2. id \in Ids \/ id = NoId
    BY DEF AnyId
  <2>3. CASE id = NoId
    BY <1>2, <1>3, <1>5, <1>7, <2>1, <2>3 DEF RequestFacts, Answering, Reported
  <2>4. CASE id \in Ids
    BY <1>2, <1>3, <1>5, <1>7, <2>1, <2>4, ConstantTypes DEF RequestFacts, Answering, Reported
  <2> QED
    BY <2>2, <2>3, <2>4
<1>9. ASSUME NEW p \in Requests \ {q}
      PROVE  RequestFacts(p)' /\ Apart(p, q)' /\ Apart(q, p)'
  <2>1. RequestFacts(p)
    BY <1>1 DEF WorkInv
  <2>2. pc[p] # "idle" => job[p].turn \in 1..attempts' /\ job[p].turn # attempts + 1
    BY <1>2, <2>1 DEF RequestFacts
  <2>3. RequestFacts(p)'
    BY <1>2, <1>3, <1>5, <2>1, <2>2 DEF RequestFacts
  <2> QED
    BY <1>3, <2>2, <2>3 DEF Apart
<1>10. ASSUME NEW p \in Requests \ {q}, NEW r \in Requests \ {q}, p # r
       PROVE  Apart(p, r)'
  BY <1>1, <1>3, <1>10 DEF WorkInv, Apart
<1> QED
  BY <1>4, <1>8, <1>9, <1>10 DEF WorkInv

\* The page that has sent a request listens to it.
LEMMA ArrivePage ==
  ASSUME Inv, NEW b \in Tabs, NEW q \in Requests, NEW id \in Ids, NEW print \in Prints,
         NEW streams \in BOOLEAN, Arrive(q, id, print, streams), NEW t \in Tab, tab' = [tab EXCEPT ![b] = t],
         t.at # "idle", t.id = id, t.print = print, t.conn = q,
         t.shown # 0 => Says(t.shown, t.id, "assistant", t.print)
  PROVE  Inv'
<1>1. TypeOK /\ PageInv
  BY DEF Inv
<1>2. id \in AnyId
  BY DEF AnyId
<1>3. RowInv' /\ WorkInv'
  BY <1>2, ArriveWork
<1>4. /\ attempts' \in 0..MaxAttempts /\ pc' \in [Requests -> Labels] /\ job' \in [Requests -> Job]
      /\ draft' \in [Requests -> Draft] /\ wire' \in [Requests -> Seq(Events)]
      /\ UNCHANGED <<delivery, messages, traces, remembered, title, rowLock, progress, faults, refused>>
  BY <1>2, ArriveEffect
<1>5. /\ job'[q].id = id /\ job'[q].print = print
      /\ wire'[q] = <<>> \/ wire'[q] = <<Started>>
      /\ \A p \in Requests \ {q} : pc'[p] = pc[p] /\ job'[p] = job[p] /\ wire'[p] = wire[p]
      /\ \A c \in Tabs : tab[c].conn # q
  <2>1. /\ job'[q].id = id /\ job'[q].print = print
        /\ wire'[q] = <<>> \/ wire'[q] = <<Started>>
    BY <1>2, ArriveEffect
  <2>2. ASSUME NEW p \in Requests \ {q}
        PROVE  pc'[p] = pc[p] /\ job'[p] = job[p] /\ wire'[p] = wire[p]
    BY <1>2, ArriveEffect
  <2>3. ASSUME NEW c \in Tabs
        PROVE  tab[c].conn # q
    BY <1>2, ArriveEffect
  <2> QED
    BY <2>1, <2>2, <2>3
<1>6. tab' \in [Tabs -> Tab] /\ tab'[b] = t /\ \A c \in Tabs \ {b} : tab'[c] = tab[c]
  BY <1>1 DEF TypeOK
<1>7. TypeOK'
  BY <1>1, <1>4, <1>6 DEF TypeOK, Labels
<1>8. TabFacts(b)'
  <2>1. Started \in Good(messages', id, print)
    BY ConstantTypes DEF Started, Good, Events
  <2>2. wire'[q] \in Seq(Good(messages', id, print))
    <3>1. <<Started>> \in Seq(Good(messages', id, print))
      BY <2>1
    <3>2. <<>> \in Seq(Good(messages', id, print))
      BY NothingIsGood
    <3> QED
      BY <1>5, <3>1, <3>2
  <2>3. t.shown # 0 => [turn |-> t.shown, id |-> t.id, role |-> "assistant", print |-> t.print] \in messages'
    BY <1>4 DEF Says
  <2> QED
    BY <1>5, <1>6, <2>2, <2>3 DEF TabFacts, Says
<1>9. ASSUME NEW c \in Tabs \ {b}
      PROVE  TabFacts(c)'
  <2>1. TabFacts(c) /\ tab[c].conn \in (Requests \ {q}) \cup {NoRequest}
    BY <1>1, <1>5, TabTypes DEF PageInv
  <2>2. tab[c].conn # NoRequest =>
          /\ wire'[tab[c].conn] = wire[tab[c].conn] /\ pc'[tab[c].conn] = pc[tab[c].conn]
          /\ job'[tab[c].conn] = job[tab[c].conn]
    BY <1>5, <2>1
  <2> QED
    BY <1>4, <1>6, <2>1, <2>2 DEF TabFacts, Says
<1>10. \A c, d \in Tabs : c # d /\ tab'[c].conn = tab'[d].conn => tab'[c].conn = NoRequest
  BY <1>1, <1>5, <1>6 DEF PageInv
<1> QED
  BY <1>3, <1>7, <1>8, <1>9, <1>10 DEF Inv, PageInv

\* Sending, reconnecting and posting.
LEMMA InvArrivals ==
  ASSUME Inv,
         \/ \E b \in Tabs, q \in Requests, id \in Ids, print \in Prints : Send(b, q, id, print)
         \/ \E b \in Tabs, q \in Requests : Reconnect(b, q)
         \/ \E q \in Requests, id \in AnyId, print \in Prints : Post(q, id, print)
  PROVE  Inv'
<1>1. TypeOK /\ PageInv
  BY DEF Inv
<1>2. ASSUME NEW b \in Tabs, NEW q \in Requests, NEW id \in Ids, NEW print \in Prints,
             Send(b, q, id, print)
      PROVE  Inv'
  <2>1. PICK t : t = [NewTab EXCEPT !.at = "first", !.id = id, !.print = print, !.conn = q]
    OBVIOUS
  <2>2. 0 \in 0..MaxAttempts
    BY ConstantTypes
  <2>3. /\ t = [at |-> "first", id |-> id, print |-> print, conn |-> q, shown |-> 0, done |-> 0,
                outcome |-> "none"]
    BY <2>1 DEF NewTab
  <2>4. /\ t \in Tab /\ t.at = "first" /\ t.id = id /\ t.print = print /\ t.conn = q /\ t.shown = 0
    BY <2>2, <2>3 DEF Tab, AnyId, AnyPrint
  <2>5. PICK streams \in BOOLEAN : Arrive(q, id, print, streams) /\ tab' = [tab EXCEPT ![b] = t]
    BY <1>2, <2>1 DEF Send
  <2> QED
    BY <2>4, <2>5, ArrivePage
<1>3. ASSUME NEW b \in Tabs, NEW q \in Requests, Reconnect(b, q)
      PROVE  Inv'
  <2>1. PICK u, t : u = tab[b] /\ t = [u EXCEPT !.at = "second", !.conn = q]
    OBVIOUS
  <2>2. u \in Tab /\ TabFacts(b) /\ u.at = "again"
    BY <1>1, <1>3, <2>1, TabTypes DEF PageInv, Reconnect
  <2>3. u.id \in Ids /\ u.print \in Prints
    BY <2>1, <2>2 DEF TabFacts
  <2>4. /\ t \in Tab /\ t.at = "second" /\ t.id = u.id /\ t.print = u.print /\ t.conn = q
        /\ t.shown = u.shown
    BY <2>1, <2>2 DEF Tab
  <2>5. tab' = [tab EXCEPT ![b] = t]
    BY <1>1, <1>3, <2>1 DEF Reconnect, TypeOK, Tab
  <2>6. PICK streams \in BOOLEAN : Arrive(q, u.id, u.print, streams)
    BY <1>3, <2>1 DEF Reconnect
  <2>7. t.shown # 0 => Says(t.shown, t.id, "assistant", t.print)
    BY <2>1, <2>2, <2>4 DEF TabFacts
  <2> QED
    BY <2>3, <2>4, <2>5, <2>6, <2>7, ArrivePage
<1>4. ASSUME NEW q \in Requests, NEW id \in AnyId, NEW print \in Prints, Post(q, id, print)
      PROVE  Inv'
  <2>1. PICK streams \in BOOLEAN : Arrive(q, id, print, streams) /\ tab' = tab
    BY <1>4 DEF Post
  <2>2. RowInv' /\ WorkInv'
    BY <2>1, ArriveWork
  <2>3. /\ attempts' \in 0..MaxAttempts /\ pc' \in [Requests -> Labels] /\ job' \in [Requests -> Job]
        /\ draft' \in [Requests -> Draft] /\ wire' \in [Requests -> Seq(Events)]
        /\ UNCHANGED <<delivery, messages, traces, remembered, title, rowLock, progress, faults,
                       refused>>
    BY <2>1, ArriveEffect
  <2>4. /\ \A p \in Requests \ {q} : pc'[p] = pc[p] /\ job'[p] = job[p] /\ wire'[p] = wire[p]
        /\ \A c \in Tabs : tab[c].conn # q
    <3>1. ASSUME NEW p \in Requests \ {q}
          PROVE  pc'[p] = pc[p] /\ job'[p] = job[p] /\ wire'[p] = wire[p]
      BY <2>1, ArriveEffect
    <3>2. ASSUME NEW c \in Tabs
          PROVE  tab[c].conn # q
      BY <2>1, ArriveEffect
    <3> QED
      BY <3>1, <3>2
  <2>5. TypeOK'
    BY <1>1, <2>1, <2>3 DEF TypeOK, Labels
  <2>6. ASSUME NEW c \in Tabs
        PROVE  TabFacts(c)'
    <3>1. TabFacts(c) /\ tab[c].conn \in (Requests \ {q}) \cup {NoRequest}
      BY <1>1, <2>4, TabTypes DEF PageInv
    <3>2. tab[c].conn # NoRequest =>
            /\ wire'[tab[c].conn] = wire[tab[c].conn] /\ pc'[tab[c].conn] = pc[tab[c].conn]
            /\ job'[tab[c].conn] = job[tab[c].conn]
      BY <2>4, <3>1
    <3> QED
      BY <2>1, <2>3, <3>1, <3>2 DEF TabFacts, Says
  <2> QED
    BY <1>1, <2>1, <2>2, <2>5, <2>6 DEF Inv, PageInv
<1> QED
  BY <1>2, <1>3, <1>4

-----------------------------------------------------------------------------
(***************************************************************************)
(* The invariant and the properties it gives.                              *)
(***************************************************************************)
\* At the start nothing is stored, at work or on the screen.
LEMMA InvInit == Init => Inv
<1> SUFFICES ASSUME Init PROVE Inv
  OBVIOUS
<1>1. /\ messages = {} /\ traces = {} /\ remembered = {} /\ attempts = 0 /\ refused = {}
      /\ title = NoPrint /\ rowLock = NoRequest /\ faults = 0
      /\ delivery = [i \in Ids |-> NoDelivery]
  BY DEF Init
<1>2. /\ pc = [q \in Requests |-> "idle"] /\ job = [q \in Requests |-> NoJob]
      /\ draft = [q \in Requests |-> NoDraft] /\ progress = [q \in Requests |-> 0]
      /\ wire = [q \in Requests |-> <<>>] /\ tab = [b \in Tabs |-> NewTab]
  BY DEF Init
<1>3. 0 \in 0..MaxAttempts /\ 0 \in 0..MaxFaults
  BY ConstantTypes
<1>4. NoDelivery \in Delivery /\ NoJob \in Job /\ NoDraft \in Draft /\ NewTab \in Tab
  BY <1>3 DEF NoDelivery, Delivery, NoJob, Job, NoDraft, Draft, NewTab, Tab, AnyId, AnyPrint
<1>5. TypeOK
  BY <1>1, <1>2, <1>3, <1>4 DEF TypeOK, AnyPrint
<1>6. UserTurns = {} /\ AnsweredTurns = {} /\ FailedTurns = {}
  BY <1>1 DEF UserTurns, AnsweredTurns, FailedTurns
<1>7. RowInv
  <2>1. MessageFacts
    BY <1>1 DEF MessageFacts
  <2>2. TraceFacts
    BY <1>1, <1>6, FS_EmptySet DEF TraceFacts
  <2>3. ASSUME NEW i \in Ids
        PROVE  DeliveryFacts(i)
    BY <1>1 DEF DeliveryFacts, NoDelivery
  <2> QED
    BY <2>1, <2>2, <2>3 DEF RowInv
<1>8. WorkInv
  <2>1. ASSUME NEW q \in Requests
        PROVE  RequestFacts(q)
    BY <1>2 DEF RequestFacts, Answering, NoDraft, Reported
  <2>2. ASSUME NEW p \in Requests, NEW q \in Requests
        PROVE  Apart(p, q)
    BY <1>2 DEF Apart, NoDraft
  <2> QED
    BY <2>1, <2>2 DEF WorkInv
<1>9. PageInv
  <2>1. \A b \in Tabs : tab[b].at = "idle" /\ tab[b].conn = NoRequest /\ tab[b].shown = 0
    BY <1>2 DEF NewTab
  <2> QED
    BY <2>1 DEF PageInv, TabFacts
<1> QED
  BY <1>5, <1>7, <1>8, <1>9 DEF Inv

\* The routes the server may choose.
LEMMA Routes ==
  ASSUME NEW documents, NEW confident, NEW complex
  PROVE  AutomaticRoute(documents, confident, complex) \in {"heavy", "simple"}
BY DEF AutomaticRoute

\* The steps of a request, by what they store.
LEMMA HandleKinds ==
  ASSUME NEW q \in Requests, Handle(q)
  PROVE  \/ Replay(q) \/ InsertConflict(q) \/ SearchFails(q) \/ Disconnected(q)
         \/ \E route \in {"heavy", "simple"} : RequireDeep(q, route)
         \/ NotSeen(q) \/ InsertDelivery(q) \/ NoEvidence(q) \/ Question(q)
         \/ \E intent \in Intents, regrounding \in BOOLEAN : Route(q, intent, regrounding)
         \/ \E route \in {"heavy", "simple"} : Grounded(q, route)
         \/ \E supported \in BOOLEAN, claims \in SUBSET {{}, {1}, {1, 3}} :
              Generated(q, supported, claims)
         \/ Search(q)
         \/ ProviderError(q)
         \/ \E memory \in BOOLEAN : PersistAnswer(q, memory)
<1>1. ASSUME NEW documents \in {1, 2}, NEW confident \in BOOLEAN, NEW complex \in BOOLEAN,
             \/ Grounded(q, AutomaticRoute(documents, confident, complex))
             \/ RequireDeep(q, AutomaticRoute(documents, confident, complex))
      PROVE  \/ \E route \in {"heavy", "simple"} : Grounded(q, route)
             \/ \E route \in {"heavy", "simple"} : RequireDeep(q, route)
  BY <1>1, Routes, Zenon
<1> QED
  BY <1>1, Zenon DEF Handle

\* Every step keeps the invariant.
LEMMA InvNext == Inv /\ [Next]_vars => Inv'
<1> SUFFICES ASSUME Inv, [Next]_vars PROVE Inv'
  OBVIOUS
<1>1. ASSUME NEW q \in Requests, Handle(q)
      PROVE  Inv'
  <2>1. CASE \/ Replay(q) \/ InsertConflict(q) \/ SearchFails(q) \/ Disconnected(q)
             \/ \E route \in {"heavy", "simple"} : RequireDeep(q, route)
    BY <2>1, InvEnds
  <2>2. CASE \/ NotSeen(q) \/ InsertDelivery(q) \/ NoEvidence(q) \/ Question(q)
             \/ \E intent \in Intents, regrounding \in BOOLEAN : Route(q, intent, regrounding)
             \/ \E route \in {"heavy", "simple"} : Grounded(q, route)
             \/ \E supported \in BOOLEAN, claims \in SUBSET {{}, {1}, {1, 3}} :
                  Generated(q, supported, claims)
    BY <2>2, InvMoves
  <2>3. CASE Search(q)
    BY <2>3, InvSearch
  <2>4. CASE ProviderError(q) \/ \E memory \in BOOLEAN : PersistAnswer(q, memory)
    BY <2>4, InvTurns
  <2> QED
    BY <1>1, <2>1, <2>2, <2>3, <2>4, HandleKinds
<1>2. ASSUME NEW q \in Requests, DatabaseError(q)
      PROVE  Inv'
  BY <1>2, InvEnds
<1>3. CASE UNCHANGED vars
  <2>1. UNCHANGED <<delivery, messages, traces, remembered, title, rowLock, pc, job, draft, progress,
                    wire, tab, attempts, faults, refused>>
    BY <1>3 DEF vars, rowVars, serverVars
  <2>2. TypeOK /\ RowInv /\ WorkInv /\ PageInv
    BY DEF Inv
  <2>3. TypeOK'
    BY <2>1, <2>2 DEF TypeOK
  <2>4. RowInv'
    <3>1. attempts' \in Nat /\ attempts' >= attempts
      BY <2>1, <2>2, ConstantTypes DEF TypeOK
    <3> QED
      BY <2>1, <2>2, <3>1, RowsStay
  <2>5. WorkInv'
    <3>1. UserTurns' = UserTurns
      BY <2>1 DEF UserTurns
    <3> QED
      BY <2>1, <2>2, <3>1 DEF WorkInv, RequestFacts, Apart
  <2>6. PageInv'
    BY <2>1, <2>2 DEF PageInv, TabFacts, Says
  <2> QED
    BY <2>3, <2>4, <2>5, <2>6 DEF Inv
<1>4. CASE \E b \in Tabs : BreakConnection(b) \/ Read(b) \/ Abort(b)
  BY <1>4, InvPages
<1>5. CASE Next
  BY <1>1, <1>2, <1>4, <1>5, InvArrivals, InvCrash, Zenon DEF Next
<1> QED
  BY <1>3, <1>5

\* The inductive invariant holds in every reachable state.
LEMMA DeliveryInvariant == Spec => []Inv
BY InvInit, InvNext, PTL DEF Spec

\* Every variable of the chat keeps its type: in particular no request is ever
\* numbered beyond the bound.
THEOREM DeliveryTypes == Spec => []TypeOK
<1>1. Inv => TypeOK
  BY DEF Inv
<1> QED
  BY <1>1, DeliveryInvariant, PTL

\* Two messages of one identifier and one role are the same message.
LEMMA OneMessage ==
  ASSUME Inv, NEW i \in Ids, NEW x \in messages, NEW y \in messages,
         x.id = i, y.id = i, x.role = y.role
  PROVE  x = y
<1>1. RowInv /\ DeliveryFacts(i) /\ TypeOK
  BY DEF Inv, RowInv
<1>2. x \in Message /\ y \in Message
  BY <1>1 DEF TypeOK
<1>3. delivery[i].status \in {"none", "PENDING", "COMPLETED", "FAILED"}
  BY <1>1 DEF TypeOK, Delivery
<1>4. x.turn = y.turn
  BY <1>1, <1>3 DEF DeliveryFacts
<1>5. x.print = y.print
  BY <1>1, <1>4 DEF RowInv, MessageFacts
<1> QED
  BY <1>2, <1>4, <1>5, MessageTypes

\* However a message is repeated and wherever the server fails, at most one
\* question and one answer are stored under a client_message_id.
THEOREM StoredOncePerId == Spec => []OncePerId
<1>1. ASSUME Inv, NEW i \in Ids, NEW role \in {"user", "assistant"}
      PROVE  Cardinality({x \in messages : x.id = i /\ x.role = role}) <= 1
  <2>1. PICK S : S = {x \in messages : x.id = i /\ x.role = role}
    OBVIOUS
  <2>2. \A x, y \in S : x = y
    BY <1>1, <2>1, OneMessage
  <2>3. S = {} \/ \E x : S = {x}
    <3>1. CASE S # {}
      <4>1. PICK x \in S : TRUE
        BY <3>1
      <4>2. S = {x}
        BY <2>2, <4>1
      <4> QED
        BY <4>2
    <3> QED
      BY <3>1
  <2>4. Cardinality(S) = 0 \/ Cardinality(S) = 1
    BY <2>3, FS_EmptySet, FS_Singleton
  <2> QED
    BY <2>1, <2>4
<1>2. Inv => OncePerId
  BY <1>1 DEF OncePerId
<1> QED
  BY <1>2, DeliveryInvariant, PTL

\* What the invariant says of a stored turn.
LEMMA WholeTurns ==
  ASSUME Inv
  PROVE  TurnsWhole
<1>1. TypeOK /\ RowInv /\ MessageFacts /\ TraceFacts
  BY DEF Inv, RowInv
<1>2. AnsweredTurns \subseteq UserTurns
  <2>1. ASSUME NEW n \in AnsweredTurns
        PROVE  n \in UserTurns
    <3>1. PICK x \in messages : x.role = "assistant" /\ x.turn = n
      BY <2>1 DEF AnsweredTurns
    <3>2. PICK u \in messages : u.role = "user" /\ u.turn = n
      BY <1>1, <3>1 DEF MessageFacts, Says
    <3> QED
      BY <3>2 DEF UserTurns
  <2> QED
    BY <2>1
<1>3. ASSUME NEW x \in messages, x.id # NoId
      PROVE  /\ delivery[x.id].print = x.print
             /\ delivery[x.id].status = IF x.turn \in FailedTurns THEN "FAILED" ELSE "COMPLETED"
             /\ delivery[x.id].status = "COMPLETED" => delivery[x.id].payload = x.turn
  <2>1. PICK i, d : i = x.id /\ d = delivery[i]
    OBVIOUS
  <2>2. x \in Message /\ i \in Ids
    BY <1>1, <1>3, <2>1, MessageTypes DEF TypeOK, AnyId
  <2>3. DeliveryFacts(i) /\ d.status \in {"none", "PENDING", "COMPLETED", "FAILED"}
    BY <1>1, <2>1, <2>2 DEF RowInv, TypeOK, Delivery
  <2>4. d.status \in {"COMPLETED", "FAILED"}
    BY <2>1, <2>3 DEF DeliveryFacts
  <2>5. CASE d.status = "COMPLETED"
    <3>1. PICK a \in messages : a.turn = d.payload /\ a.role = "assistant" /\ a.print = d.print
      BY <2>1, <2>3, <2>5 DEF DeliveryFacts, Says
    <3>2. x.turn = d.payload
      BY <2>1, <2>3, <2>5 DEF DeliveryFacts
    <3>3. x.print = d.print
      BY <1>1, <3>1, <3>2 DEF MessageFacts
    <3>4. x.turn \in AnsweredTurns
      BY <3>1, <3>2 DEF AnsweredTurns
    <3>5. x.turn \notin FailedTurns
      BY <3>4 DEF FailedTurns
    <3> QED
      BY <2>1, <2>5, <3>2, <3>3, <3>5
  <2>6. CASE d.status = "FAILED"
    <3>1. PICK n : /\ Says(n, i, "user", d.print)
                   /\ \A y \in messages : y.id = i => y.turn = n /\ y.role = "user"
      BY <2>1, <2>3, <2>6 DEF DeliveryFacts
    <3>2. x.turn = n /\ x.role = "user"
      BY <2>1, <3>1
    <3>3. PICK u \in messages : u.turn = n /\ u.print = d.print
      BY <3>1 DEF Says
    <3>4. x.print = d.print
      BY <1>1, <3>2, <3>3 DEF MessageFacts
    <3>5. \A y \in messages : y.turn = n => y.role = "user"
      BY <1>1, <2>1, <3>1, <3>2 DEF MessageFacts
    <3>6. x.turn \in UserTurns
      BY <3>2 DEF UserTurns
    <3>7. x.turn \notin AnsweredTurns
      BY <3>2, <3>5 DEF AnsweredTurns
    <3>8. x.turn \in FailedTurns
      BY <3>6, <3>7 DEF FailedTurns
    <3> QED
      BY <2>1, <2>6, <3>4, <3>8
  <2> QED
    BY <2>4, <2>5, <2>6
<1>4. ASSUME NEW i \in Ids, delivery[i].status \in {"COMPLETED", "FAILED"}
      PROVE  \E x \in messages : x.id = i
  <2>1. DeliveryFacts(i)
    BY <1>1 DEF RowInv
  <2> QED
    BY <1>4, <2>1 DEF DeliveryFacts, Says
<1> QED
  BY <1>1, <1>2, <1>3, <1>4 DEF TurnsWhole, TraceFacts

\* A stored turn is whole: question, answer or failure, trace, replay record
\* and memory tell the same story.
THEOREM StoredTurnsWhole == Spec => []TurnsWhole
<1>1. Inv => TurnsWhole
  BY WholeTurns
<1> QED
  BY <1>1, DeliveryInvariant, PTL

\* A page never shows anything but the stored answer to its own question.
THEOREM ShownAnswersStored == Spec => []ShownIsStored
<1>1. ASSUME Inv, NEW b \in Tabs, tab[b].shown # 0
      PROVE  \E x \in messages : /\ x.role = "assistant" /\ x.turn = tab[b].shown
                                 /\ x.id = tab[b].id /\ x.print = tab[b].print
  BY <1>1 DEF Inv, PageInv, TabFacts, Says
<1>2. Inv => ShownIsStored
  BY <1>1 DEF ShownIsStored
<1> QED
  BY <1>2, DeliveryInvariant, PTL

\* No request fills the progress queue of its stream.
THEOREM ProgressAlwaysFits == Spec => []ProgressFits
<1>1. ASSUME Inv, NEW q \in Requests
      PROVE  progress[q] + 1 <= QueueSize
  <2>1. progress[q] \in Nat /\ progress[q] <= Reported(pc[q])
    BY <1>1, RequestTypes DEF Inv, WorkInv, RequestFacts
  <2>2. Reported(pc[q]) \in {0, 3, 4, 5}
    BY DEF Reported
  <2> QED
    BY <2>1, <2>2 DEF QueueSize
<1>2. Inv => ProgressFits
  BY <1>1 DEF ProgressFits
<1> QED
  BY <1>2, DeliveryInvariant, PTL

-----------------------------------------------------------------------------
(***************************************************************************)
(* The chat implements ReplayLedger.                                       *)
(***************************************************************************)
\* What the mapping shows of one identifier.
StateOf(i) == CASE delivery[i].status = "none" -> "free"
                [] delivery[i].status = "PENDING" -> "claimed"
                [] delivery[i].status = "COMPLETED" -> "answered"
                [] OTHER -> "failed"
StoredAs(i, role) == {x \in messages : x.id = i /\ x.role = role}

\* It is free, and nothing is counted, at the start.
LEMMA LedgerInit == Init => Ledger!Init
<1> SUFFICES ASSUME Init PROVE Ledger!Init
  OBVIOUS
<1>1. messages = {} /\ delivery = [i \in Ids |-> NoDelivery]
  BY DEF Init
<1>2. \A i \in Ids : delivery[i].status = "none"
  BY <1>1 DEF NoDelivery
<1>3. \A i \in Ids, role \in {"user", "assistant"} :
        Cardinality({x \in messages : x.id = i /\ x.role = role}) = 0
  <2>1. \A i \in Ids, role \in {"user", "assistant"} :
          {x \in messages : x.id = i /\ x.role = role} = {}
    BY <1>1
  <2> QED
    BY <2>1, FS_EmptySet
<1> QED
  BY <1>2, <1>3 DEF Ledger!Init

\* The steps that leave the records and the messages alone.
LEMMA RecordsStay ==
  ASSUME [Next]_vars,
         \A q \in Requests : /\ ~Search(q) /\ ~ProviderError(q)
                             /\ \A memory \in BOOLEAN : ~PersistAnswer(q, memory)
  PROVE  UNCHANGED <<delivery, messages>>
<1>1. CASE UNCHANGED vars
  BY <1>1 DEF vars, rowVars
<1>2. ASSUME NEW q \in Requests, EndWithError(q)
      PROVE  UNCHANGED <<delivery, messages>>
  BY <1>2 DEF EndWithError, rowVars
<1>3. ASSUME NEW q \in Requests, Handle(q)
      PROVE  UNCHANGED <<delivery, messages>>
  <2>1. CASE Replay(q)
    BY <2>1, <1>2 DEF Replay, rowVars
  <2>2. CASE InsertConflict(q) \/ SearchFails(q)
            \/ \E route \in {"heavy", "simple"} : RequireDeep(q, route)
    BY <2>2, <1>2 DEF InsertConflict, SearchFails, RequireDeep
  <2>3. CASE Disconnected(q) \/ NotSeen(q) \/ InsertDelivery(q) \/ NoEvidence(q) \/ Question(q)
    BY <2>3 DEF Disconnected, NotSeen, InsertDelivery, NoEvidence, Question, rowVars
  <2>4. ASSUME NEW intent, NEW regrounding, Route(q, intent, regrounding)
        PROVE  UNCHANGED <<delivery, messages>>
    BY <2>4 DEF Route, rowVars
  <2>5. ASSUME NEW route, Grounded(q, route)
        PROVE  UNCHANGED <<delivery, messages>>
    BY <2>5 DEF Grounded, rowVars
  <2>6. ASSUME NEW supported, NEW claims, Generated(q, supported, claims)
        PROVE  UNCHANGED <<delivery, messages>>
    BY <2>6 DEF Generated, rowVars
  <2> QED
    BY <1>3, <2>1, <2>2, <2>3, <2>4, <2>5, <2>6, HandleKinds
<1>4. ASSUME NEW q \in Requests, DatabaseError(q)
      PROVE  UNCHANGED <<delivery, messages>>
  BY <1>2, <1>4 DEF DatabaseError
<1>5. CASE \/ \E b \in Tabs, q \in Requests, id \in Ids, print \in Prints : Send(b, q, id, print)
           \/ \E b \in Tabs, q \in Requests : Reconnect(b, q)
           \/ \E q \in Requests, id \in AnyId, print \in Prints : Post(q, id, print)
  BY <1>5 DEF Send, Reconnect, Post, Arrive, rowVars
<1>6. CASE Crash \/ \E b \in Tabs : BreakConnection(b) \/ Read(b) \/ Abort(b)
  BY <1>6 DEF Crash, BreakConnection, Read, Abort, rowVars
<1> QED
  BY <1>1, <1>3, <1>4, <1>5, <1>6, Zenon DEF Next

\* A commit of a turn, as the ledger sees it: under an identifier one question
\* is counted and one answer, if there is one, where there was nothing.
LEMMA CountsAfter ==
  ASSUME Inv, NEW q \in Requests, NEW answered \in BOOLEAN, NEW status, NEW k, k = job[q].id,
         pc[q] \in Answering, StoresTurn(q, answered, status)
  PROVE  /\ \A i \in Ids \ {k}, role \in {"user", "assistant"} :
              StoredAs(i, role)' = StoredAs(i, role)
         /\ k \in Ids =>
              /\ StoredAs(k, "user") = {} /\ StoredAs(k, "assistant") = {}
              /\ StoredAs(k, "user")' = {MessageOf(q, "user")}
              /\ StoredAs(k, "assistant")' = IF answered THEN {MessageOf(q, "assistant")} ELSE {}
<1>1. PICK u, a : u = MessageOf(q, "user") /\ a = MessageOf(q, "assistant")
  OBVIOUS
<1>2. u.id = k /\ a.id = k /\ u.role = "user" /\ a.role = "assistant"
  BY <1>1 DEF MessageOf
<1>3. messages' = IF answered THEN messages \cup {u, a} ELSE messages \cup {u}
  BY <1>1 DEF StoresTurn
<1>4. ASSUME NEW i \in Ids \ {k}, NEW role \in {"user", "assistant"}
      PROVE  StoredAs(i, role)' = StoredAs(i, role)
  BY <1>2, <1>3 DEF StoredAs
<1>5. ASSUME k \in Ids
      PROVE  /\ StoredAs(k, "user") = {} /\ StoredAs(k, "assistant") = {}
             /\ StoredAs(k, "user")' = {u}
             /\ StoredAs(k, "assistant")' = IF answered THEN {a} ELSE {}
  <2>1. \A x \in messages : x.id # k
    BY <1>5, OwnRecord, ConstantTypes
  <2> QED
    BY <1>2, <1>3, <2>1 DEF StoredAs
<1> QED
  BY <1>1, <1>4, <1>5

\* A commit of a turn settles its identifier, or, without one, changes nothing
\* the ledger shows.
LEMMA LedgerSettles ==
  ASSUME Inv, NEW q \in Requests, NEW answered \in BOOLEAN, NEW status,
         pc[q] \in {"generate", "persist"}, ~answered => pc[q] = "generate",
         StoresTurn(q, answered, status)
  PROVE  [Ledger!Next]_(Ledger!vars)
<1> DEFINE L == [i \in Ids |-> StateOf(i)]
           Q == [i \in Ids |-> Cardinality(StoredAs(i, "user"))]
           A == [i \in Ids |-> Cardinality(StoredAs(i, "assistant"))]
<1>1. PICK k : k = job[q].id
  OBVIOUS
<1>2. TypeOK /\ RequestFacts(q) /\ pc[q] \in Answering /\ pc[q] # "idle"
  BY DEF Inv, WorkInv, Answering
<1>3. job[q].turn \in 0..MaxAttempts /\ 0 \in 0..MaxAttempts /\ job[q].print \in Prints
  BY <1>2, FreshTurn, ConstantTypes DEF Turns
<1>4. /\ \A i \in Ids \ {k} : delivery'[i] = delivery[i]
      /\ k \in Ids => delivery'[k].status = IF answered THEN "COMPLETED" ELSE "FAILED"
  <2>1. CASE answered
    <3>1. delivery' = WithDelivery(q, "COMPLETED", job[q].turn)
      BY <2>1 DEF StoresTurn
    <3>2. /\ \A i \in Ids : i # job[q].id => delivery'[i] = delivery[i]
          /\ job[q].id \in Ids =>
               delivery'[job[q].id] = [status |-> "COMPLETED", print |-> job[q].print, payload |-> job[q].turn]
      BY <1>2, <1>3, <3>1, DeliveryEffect
    <3> QED
      BY <1>1, <2>1, <3>2
  <2>2. CASE ~answered
    <3>1. delivery' = WithDelivery(q, "FAILED", 0)
      BY <2>2 DEF StoresTurn
    <3>2. /\ \A i \in Ids : i # job[q].id => delivery'[i] = delivery[i]
          /\ job[q].id \in Ids =>
               delivery'[job[q].id] = [status |-> "FAILED", print |-> job[q].print, payload |-> 0]
      BY <1>2, <1>3, <3>1, DeliveryEffect
    <3> QED
      BY <1>1, <2>2, <3>2
  <2> QED
    BY <2>1, <2>2
<1>5. \A i \in Ids \ {k}, role \in {"user", "assistant"} : StoredAs(i, role)' = StoredAs(i, role)
  BY <1>1, <1>2, CountsAfter
<1>6. \A i \in Ids \ {k} : StateOf(i)' = StateOf(i)
  BY <1>4 DEF StateOf
<1>7. CASE k \notin Ids
  <2>1. L' = L
    BY <1>6, <1>7
  <2>2. Q' = Q /\ A' = A
    BY <1>5, <1>7
  <2> QED
    BY <2>1, <2>2 DEF Ledger!vars, StateOf, StoredAs
<1>8. CASE k \in Ids
  <2>1. /\ StoredAs(k, "user") = {} /\ StoredAs(k, "assistant") = {}
        /\ StoredAs(k, "user")' = {MessageOf(q, "user")}
        /\ StoredAs(k, "assistant")' = IF answered THEN {MessageOf(q, "assistant")} ELSE {}
    BY <1>1, <1>2, <1>8, CountsAfter
  <2>2. /\ Cardinality(StoredAs(k, "user")) = 0 /\ Cardinality(StoredAs(k, "assistant")) = 0
        /\ Cardinality(StoredAs(k, "user")') = 1
        /\ Cardinality(StoredAs(k, "assistant")') = IF answered THEN 1 ELSE 0
    BY <2>1, FS_EmptySet, FS_Singleton
  <2>3. StateOf(k)' = IF answered THEN "answered" ELSE "failed"
    BY <1>4, <1>8 DEF StateOf
  <2>4. StateOf(k) \in {"free", "claimed"} /\ (~answered => StateOf(k) = "claimed")
    <3>1. delivery[k].status \in {"none", "PENDING"}
      BY <1>1, <1>2, <1>8, OwnRecord, ConstantTypes
    <3>2. ~answered => draft[q].row = "stored"
      BY <1>1, <1>2, <1>8, ConstantTypes, RequestTypes DEF RequestFacts
    <3>3. ~answered => delivery[k].status = "PENDING"
      BY <1>1, <1>2, <3>2 DEF RequestFacts
    <3> QED
      BY <3>1, <3>3 DEF StateOf
  <2>5. L' = [L EXCEPT ![k] = IF answered THEN "answered" ELSE "failed"]
    BY <1>6, <1>8, <2>3
  <2>6. Q' = [Q EXCEPT ![k] = @ + 1]
    <3>1. \A i \in Ids \ {k} : Cardinality(StoredAs(i, "user")') = Cardinality(StoredAs(i, "user"))
      BY <1>5
    <3>2. Q[k] = 0 /\ Q = [i \in Ids |-> Q[i]] /\ \A i \in Ids : Q[i] = Cardinality(StoredAs(i, "user"))
      BY <1>8, <2>2
    <3>3. Q' = [i \in Ids |-> IF i = k THEN 1 ELSE Q[i]]
      BY <1>8, <2>2, <3>1
    <3> HIDE DEF Q
    <3> QED
      BY <1>8, <3>2, <3>3
  <2>7. A' = IF answered THEN [A EXCEPT ![k] = @ + 1] ELSE A
    <3>1. \A i \in Ids \ {k} : Cardinality(StoredAs(i, "assistant")') = Cardinality(StoredAs(i, "assistant"))
      BY <1>5
    <3> QED
      BY <1>8, <2>2, <3>1
  <2>8. L[k] \in {"free", "claimed"} /\ (~answered => L[k] = "claimed")
    BY <1>8, <2>4
  <2> HIDE DEF L, Q, A
  <2>9. CASE answered
    <3>1. /\ L[k] \in {"free", "claimed"} /\ L' = [L EXCEPT ![k] = "answered"]
          /\ Q' = [Q EXCEPT ![k] = @ + 1] /\ A' = [A EXCEPT ![k] = @ + 1]
      BY <2>5, <2>6, <2>7, <2>8, <2>9
    <3>2. Ledger!Answer(k)
      BY <3>1 DEF Ledger!Answer, L, Q, A, StateOf, StoredAs
    <3> QED
      BY <1>8, <3>2 DEF Ledger!Next
  <2>10. CASE ~answered
    <3>1. /\ L[k] = "claimed" /\ L' = [L EXCEPT ![k] = "failed"]
          /\ Q' = [Q EXCEPT ![k] = @ + 1] /\ A' = A
      BY <2>5, <2>6, <2>7, <2>8, <2>10
    <3>2. Ledger!Fail(k)
      BY <3>1 DEF Ledger!Fail, L, Q, A, StateOf, StoredAs
    <3> QED
      BY <1>8, <3>2 DEF Ledger!Next
  <2> QED
    BY <2>9, <2>10
<1> QED
  BY <1>7, <1>8

\* Every step is a step of the ledger or leaves it alone.
LEMMA LedgerStep ==
  ASSUME Inv, [Next]_vars
  PROVE  [Ledger!Next]_(Ledger!vars)
<1> DEFINE L == [i \in Ids |-> StateOf(i)]
           Q == [i \in Ids |-> Cardinality(StoredAs(i, "user"))]
           A == [i \in Ids |-> Cardinality(StoredAs(i, "assistant"))]
<1>1. CASE UNCHANGED <<delivery, messages>>
  <2>1. L' = L /\ Q' = Q /\ A' = A
    BY <1>1 DEF StateOf, StoredAs
  <2> QED
    BY <2>1 DEF Ledger!vars, StateOf, StoredAs
<1>2. ASSUME NEW q \in Requests, Search(q)
      PROVE  [Ledger!Next]_(Ledger!vars)
  <2>1. PICK k : k = job[q].id
    OBVIOUS
  <2>2. /\ pc[q] = "search" /\ delivery' = WithDelivery(q, "PENDING", 0) /\ messages' = messages
    BY <1>2 DEF Search
  <2>3. TypeOK /\ RequestFacts(q) /\ job[q].print \in Prints /\ pc[q] \in Answering
    BY <2>2, FreshTurn DEF Inv, WorkInv, Answering
  <2>4. /\ \A i \in Ids \ {k} : delivery'[i] = delivery[i]
        /\ k \in Ids => delivery'[k].status = "PENDING"
    <3>1. 0 \in 0..MaxAttempts
      BY ConstantTypes
    <3>2. /\ \A i \in Ids : i # job[q].id => delivery'[i] = delivery[i]
          /\ job[q].id \in Ids =>
               delivery'[job[q].id] = [status |-> "PENDING", print |-> job[q].print, payload |-> 0]
      BY <2>2, <2>3, <3>1, DeliveryEffect
    <3> QED
      BY <2>1, <3>2
  <2>5. Q' = Q /\ A' = A
    BY <2>2 DEF StoredAs
  <2>6. \A i \in Ids \ {k} : StateOf(i)' = StateOf(i)
    BY <2>4 DEF StateOf
  <2>7. CASE k \notin Ids
    <3>1. L' = L
      BY <2>6, <2>7
    <3> QED
      BY <2>5, <3>1 DEF Ledger!vars, StateOf, StoredAs
  <2>8. CASE k \in Ids
    <3>1. draft[q].row = "flushed"
      BY <2>1, <2>2, <2>3, <2>8, ConstantTypes, RequestTypes DEF RequestFacts
    <3>2. StateOf(k) = "free"
      BY <2>1, <2>3, <3>1 DEF RequestFacts, StateOf
    <3>3. StateOf(k)' = "claimed"
      BY <2>4, <2>8 DEF StateOf
    <3>4. L[k] = "free" /\ L' = [L EXCEPT ![k] = "claimed"]
      BY <2>6, <2>8, <3>2, <3>3
    <3> HIDE DEF L, Q, A
    <3>5. Ledger!Claim(k)
      BY <2>5, <3>4 DEF Ledger!Claim, L, Q, A, StateOf, StoredAs
    <3> QED
      BY <2>8, <3>5 DEF Ledger!Next
  <2> QED
    BY <2>7, <2>8
<1>3. ASSUME NEW q \in Requests, ProviderError(q)
      PROVE  [Ledger!Next]_(Ledger!vars)
  <2>1. PICK answered \in BOOLEAN : ~answered /\ StoresTurn(q, answered, "provider_error")
    BY <1>3, TurnCommits
  <2>2. pc[q] = "generate"
    BY <1>3 DEF ProviderError
  <2> QED
    BY <2>1, <2>2, LedgerSettles
<1>4. ASSUME NEW q \in Requests, NEW memory \in BOOLEAN, PersistAnswer(q, memory)
      PROVE  [Ledger!Next]_(Ledger!vars)
  <2>1. PICK status : StoresTurn(q, TRUE, status)
    BY <1>4, TurnCommits
  <2>2. PICK answered \in BOOLEAN : answered /\ StoresTurn(q, answered, status)
    BY <2>1
  <2>3. pc[q] = "persist"
    BY <1>4 DEF PersistAnswer
  <2>4. pc[q] \in {"generate", "persist"}
    BY <2>3
  <2>5. ~answered => pc[q] = "generate"
    BY <2>2
  <2>6. StoresTurn(q, answered, status)
    BY <2>2
  <2> QED
    BY <2>4, <2>5, <2>6, LedgerSettles
<1> QED
  BY <1>1, <1>2, <1>3, <1>4, RecordsStay

\* chat/service.py keeps the promise of ReplayLedger: an identifier is claimed
\* at most once and settled by one step.
THEOREM ChatRefinesLedger == Spec => LedgerRefined
<1>1. Inv /\ [Next]_vars => [Ledger!Next]_(Ledger!vars)
  BY LedgerStep
<1> QED
  BY <1>1, LedgerInit, DeliveryInvariant, PTL DEF Spec, LedgerRefined, Ledger!Spec
=============================================================================
