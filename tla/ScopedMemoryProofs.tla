------------------------- MODULE ScopedMemoryProofs -------------------------
(***************************************************************************)
(* Machine-checked proofs about ScopedMemory, for any users, documents,    *)
(* conversations and candidates, any number of turns and requests at the   *)
(* same time, and any order of their steps, deadlocks and failures.        *)
(***************************************************************************)
EXTENDS ScopedMemory, FiniteSetTheorems, SequenceTheorems, TLAPS

-----------------------------------------------------------------------------
(***************************************************************************)
(* The inductive invariant.                                                *)
(***************************************************************************)

\* A row has the company and the department of its sources, and no summary waits for a
\* confirmation.
Sound(r) ==
  /\ Of(r.company, r.sources) /\ Depts(r.sources) \subseteq {r.dept}
  /\ r.kind = "CONVERSATION_SUMMARY" => r.status # "PENDING_CONFIRMATION"

\* The insertion may supersede the stored row.
Succeeds(p, m) ==
  /\ p.id > m /\ p.row.owner = rows[m].owner
  /\ p.row.company = rows[m].company /\ p.row.key = rows[m].key

IsSummary(p) == p.row.kind = "CONVERSATION_SUMMARY"
Drafts(t) == turn[t].new \cup turn[t].pending

\* The committed rows: numbered as they were inserted, sound, with their
\* successors, one summary for a conversation and a workspace, deleted for good.
RowFacts ==
  /\ \A m \in Stored : m <= inserted /\ Sound(rows[m])
  /\ SupersededBySuccessor
  /\ \A c \in Conversations, w \in Workspaces :
       \A m, n \in SummariesOf(Owner[c], c, w) : m = n
  /\ \A m \in forgotten : m \in Stored /\ rows[m].deleted

\* A request writes a row that is stored; what it confirms is no summary.
RequestFacts ==
  \A q \in Requests : req[q].pc = "write" =>
    /\ req[q].row \in Stored
    /\ req[q].op = "confirm" => rows[req[q].row].kind # "CONVERSATION_SUMMARY"

\* A turn holds its conversation from the question to the commit.
PhaseFacts(t) ==
  /\ turn[t].pc = "idle" => turn[t] = NoTurnState
  /\ turn[t].pc # "idle" => turn[t].conv \in Conversations /\ turn[t].company \in Companies
  /\ turn[t].pc \notin {"idle", "question"} => convLock[turn[t].conv] = t

\* What a turn inserts has a number of its own and is not stored yet.
DraftFacts(t) ==
  /\ \A p \in Drafts(t) :
       /\ p.id <= inserted /\ p.id \notin Stored
       /\ Sound(p.row) /\ p.row.status \in {"ACTIVE", "PENDING_CONFIRMATION"}
  /\ \A p, q \in Drafts(t) : p.id = q.id => p = q

\* What a turn updates is stored, and a supersession has its successor.
UpdateFacts(t) ==
  /\ turn[t].pc # "supersede" => turn[t].pending = {}
  /\ turn[t].pc = "supersede" =>
       \E p \in Insertion : /\ turn[t].pending = {p} /\ ~IsSummary(p)
                            /\ Succeeds(p, turn[t].target)
  /\ turn[t].pc \in {"supersede", "refresh", "rewrite"} => turn[t].target \in Stored
  /\ turn[t].superseded # None =>
       /\ turn[t].superseded \in Stored
       /\ \E p \in turn[t].new : p.id = turn[t].by /\ Succeeds(p, turn[t].superseded)
  /\ turn[t].renewed \subseteq Stored

\* A turn that inserts a summary is about to commit it, as the only one of
\* a conversation that has none in the workspace.
SummaryFacts(t) ==
  /\ \A p \in turn[t].new : IsSummary(p) =>
       /\ turn[t].pc = "commit" /\ p.row.conv = turn[t].conv
       /\ p.row.company = turn[t].company /\ SummariesFound(t) = {}
  /\ \A p, q \in turn[t].new : IsSummary(p) /\ IsSummary(q) => p = q

TurnFacts(t) == PhaseFacts(t) /\ DraftFacts(t) /\ UpdateFacts(t) /\ SummaryFacts(t)

\* No number is given to two turns.
ApartFacts ==
  \A t, u \in Turns : t # u =>
    \A p \in Drafts(t), q \in Drafts(u) : p.id # q.id

Facts == RowFacts /\ RequestFacts /\ (\A t \in Turns : TurnFacts(t)) /\ ApartFacts
Inv == TypeOK /\ Facts

-----------------------------------------------------------------------------
(***************************************************************************)
(* Rows.                                                                   *)
(***************************************************************************)

\* The constants, one fact each.
LEMMA ConstantTypes ==
  /\ MaxRows \in Nat /\ MaxTurns \in Nat /\ MaxEvents \in Nat
  /\ Owner \in [Conversations -> Users]
  /\ Company \in [Chunks -> Companies] /\ Department \in [Chunks -> Departments]
  /\ EpisodeCites \subseteq SUBSET Chunks /\ Manual \subseteq SUBSET Chunks
  /\ NoTurn \notin Turns
BY MemoryAssumption

\* A row that is there is not the absence of one.
LEMMA RowIsThere ==
  ASSUME NEW r \in Row
  PROVE  r # NoRow
<1>1. r.kind # "none"
  BY DEF Row
<1>2. NoRow.kind = "none"
  BY DEF NoRow
<1> QED
  BY <1>1, <1>2

\* The fields of a row.
LEMMA RowFields ==
  ASSUME NEW r \in Row
  PROVE  /\ r.kind \in {"SEMANTIC", "EPISODIC", "CONVERSATION_SUMMARY"}
         /\ r.scope \in Scopes /\ r.creator \in Users /\ r.owner \in Users \cup {NoUser}
         /\ r.company \in Companies /\ r.dept \in Departments /\ r.status \in Statuses
         /\ r.key \in Keys \cup {NoKey} /\ r.content \in Contents \cup {NoKey}
         /\ r.conv \in Conversations \cup {NoConversation} /\ r.sources \subseteq Chunks
         /\ r.by \in 0..MaxRows /\ r.deleted \in BOOLEAN /\ r.expired \in BOOLEAN
BY DEF Row

\* Nothing that identifies a row changes, and it is not undeleted.
SameRow(r, s) ==
  /\ s \in Row
  /\ s.kind = r.kind /\ s.scope = r.scope /\ s.creator = r.creator /\ s.owner = r.owner
  /\ s.company = r.company /\ s.dept = r.dept /\ s.key = r.key /\ s.conv = r.conv /\ s.sources = r.sources
  /\ r.deleted => s.deleted

\* A row is the same as itself.
LEMMA SameRowSelf ==
  ASSUME NEW r \in Row
  PROVE  SameRow(r, r)
BY DEF SameRow

\* Confirmation, removal and expiry write status, deletion and expiry, and
\* nothing else.
LEMMA RowUpdates ==
  ASSUME NEW r \in Row
  PROVE  /\ SameRow(r, Confirmed(r)) /\ Confirmed(r).status = "ACTIVE"
         /\ SameRow(r, Removed(r)) /\ Removed(r).status = "DELETED" /\ Removed(r).deleted
         /\ SameRow(r, [r EXCEPT !.expired = TRUE])
         /\ [r EXCEPT !.expired = TRUE].status = r.status
         /\ [r EXCEPT !.expired = TRUE].by = r.by
BY DEF Row, SameRow, Confirmed, Removed, Statuses

\* The rows a turn makes.
LEMMA PrivateRowType ==
  ASSUME NEW u \in Users, NEW k \in Companies, NEW kind \in {"SEMANTIC", "EPISODIC", "CONVERSATION_SUMMARY"},
         NEW status \in {"ACTIVE", "PENDING_CONFIRMATION"},
         NEW key \in Keys \cup {NoKey}, NEW content \in Contents \cup {NoKey},
         NEW c \in Conversations \cup {NoConversation},
         kind = "CONVERSATION_SUMMARY" => status = "ACTIVE"
  PROVE  LET r == PrivateRow(u, k, kind, status, key, content, c) IN
         /\ r \in Row /\ Sound(r)
         /\ r.kind = kind /\ r.status = status /\ r.owner = u /\ r.company = k
         /\ r.key = key /\ r.conv = c
<1> DEFINE r == PrivateRow(u, k, kind, status, key, content, c)
<1>1. /\ r.kind = kind /\ r.status = status /\ r.owner = u /\ r.company = k
      /\ r.key = key /\ r.conv = c
      /\ r.sources = {} /\ r.dept = "shared"
  BY DEF PrivateRow
<1>2. r \in Row
  BY ConstantTypes DEF PrivateRow, Row, Scopes, Departments, Statuses, None
<1>3. Sound(r)
  BY <1>1 DEF Sound, Depts, Of
<1> QED
  BY <1>1, <1>2, <1>3

\* The row of a preference.
LEMMA PreferenceRowType ==
  ASSUME NEW u \in Users, NEW k \in Companies,
         NEW status \in {"ACTIVE", "PENDING_CONFIRMATION"},
         NEW key \in Keys, NEW content \in Contents,
         NEW c \in Conversations \cup {NoConversation}
  PROVE  LET r == PrivateRow(u, k, "SEMANTIC", status, key, content, c) IN
         /\ r \in Row /\ Sound(r)
         /\ r.kind = "SEMANTIC" /\ r.status = status /\ r.owner = u /\ r.company = k
         /\ r.key = key
<1>1. /\ key \in Keys \cup {NoKey} /\ content \in Contents \cup {NoKey}
      /\ "SEMANTIC" \in {"SEMANTIC", "EPISODIC", "CONVERSATION_SUMMARY"}
      /\ "SEMANTIC" # "CONVERSATION_SUMMARY"
  OBVIOUS
<1> QED
  BY <1>1, PrivateRowType

\* Departments can be counted, so that one department is one element.
LEMMA OneDepartment ==
  ASSUME NEW chunks \in SUBSET Chunks, Cardinality(Depts(chunks)) = 1
  PROVE  \A d \in Depts(chunks) : d \in Departments /\ Depts(chunks) = {d}
<1>1. Depts(chunks) \in SUBSET Departments
  BY ConstantTypes DEF Depts
<1>2. IsFiniteSet(Departments)
  <2>1. IsFiniteSet({"finance"})
    BY FS_Singleton
  <2>2. IsFiniteSet({"finance"} \cup {"legal"})
    BY <2>1, FS_AddElement
  <2>3. IsFiniteSet(({"finance"} \cup {"legal"}) \cup {"shared"})
    BY <2>2, FS_AddElement
  <2>4. Departments = ({"finance"} \cup {"legal"}) \cup {"shared"}
    BY DEF Departments
  <2> QED
    BY <2>3, <2>4
<1>3. IsFiniteSet(Depts(chunks))
  BY <1>1, <1>2, FS_Subset
<1>4. PICK d : Depts(chunks) = {d}
  BY <1>3, FS_Singleton
<1> QED
  BY <1>1, <1>4

\* The row of an episode has the company and the department of its evidence.
LEMMA EpisodeRowType ==
  ASSUME NEW u \in Users, NEW k \in Companies, NEW c \in Conversations,
         NEW chunks \in SUBSET Chunks, Of(k, chunks),
         Cardinality(Depts(chunks)) = 1, NEW dept \in Depts(chunks)
  PROVE  LET r == EpisodeRow(u, k, c, chunks, dept) IN
         r \in Row /\ Sound(r) /\ r.kind = "EPISODIC" /\ r.status = "ACTIVE"
<1> DEFINE s == PrivateRow(u, k, "EPISODIC", "ACTIVE", NoKey, NoKey, c)
           r == [s EXCEPT !.dept = dept, !.sources = chunks]
<1>1. s \in Row /\ s.kind = "EPISODIC" /\ s.status = "ACTIVE" /\ s.company = k
  BY PrivateRowType
<1>2. dept \in Departments /\ Depts(chunks) = {dept}
  BY OneDepartment
<1> HIDE DEF s
<1>3. r \in Row /\ r.kind = "EPISODIC" /\ r.status = "ACTIVE" /\ r.dept = dept
      /\ r.sources = chunks /\ r.company = k
  BY <1>1, <1>2 DEF Row
<1>4. Sound(r)
  BY <1>2, <1>3 DEF Sound
<1> QED
  BY <1>3, <1>4 DEF EpisodeRow, s

\* The row of the memory page has the ACL of its sources.
CreatedRow(u, k, scope, chunks, acl) ==
  [PrivateRow(u, k, "SEMANTIC", "ACTIVE", NoKey, NoKey, NoConversation) EXCEPT
     !.scope = scope, !.owner = IF scope = "PRIVATE_USER" THEN u ELSE NoUser,
     !.dept = acl.dept, !.sources = chunks]

\* It is derived from their departments.
LEMMA CreatedRowType ==
  ASSUME NEW u \in Users, NEW k \in Companies, NEW scope \in Scopes, NEW chunks \in SUBSET Chunks,
         Of(k, chunks), NEW acl \in DeriveMemoryAcl(scope, Depts(chunks))
  PROVE  LET r == CreatedRow(u, k, scope, chunks, acl) IN
         r \in Row /\ Sound(r) /\ r.kind = "SEMANTIC" /\ r.status = "ACTIVE"
<1> DEFINE s == PrivateRow(u, k, "SEMANTIC", "ACTIVE", NoKey, NoKey, NoConversation)
           own == IF scope = "PRIVATE_USER" THEN u ELSE NoUser
           d == acl.dept
           r == [s EXCEPT !.scope = scope, !.owner = own, !.dept = d, !.sources = chunks]
<1>1. s \in Row /\ s.kind = "SEMANTIC" /\ s.status = "ACTIVE" /\ s.company = k
  BY PrivateRowType
<1>2. d \in Departments /\ Depts(chunks) \subseteq {d}
  <2>1. CASE Depts(chunks) = {}
    BY <2>1 DEF DeriveMemoryAcl, Departments
  <2>2. CASE Depts(chunks) # {}
    <3>1. acl.dept \in Depts(chunks) /\ Cardinality(Depts(chunks)) = 1
      BY <2>2 DEF DeriveMemoryAcl
    <3> QED
      BY <3>1, OneDepartment
  <2> QED
    BY <2>1, <2>2
<1>3. own \in Users \cup {NoUser}
  OBVIOUS
<1> HIDE DEF s, own, d
<1>4. r \in Row /\ r.kind = "SEMANTIC" /\ r.status = "ACTIVE" /\ r.dept = d
      /\ r.sources = chunks /\ r.company = k
  BY <1>1, <1>2, <1>3 DEF Row
<1>5. Sound(r)
  BY <1>2, <1>4 DEF Sound
<1>6. r = CreatedRow(u, k, scope, chunks, acl)
  BY DEF CreatedRow, s, own, d
<1> HIDE DEF r
<1> QED
  BY <1>4, <1>5, <1>6

-----------------------------------------------------------------------------
(***************************************************************************)
(* Steps of one turn that commit nothing.                                  *)
(***************************************************************************)

\* The fields of a turn, of an insertion and of a stored row.
LEMMA TurnFields ==
  ASSUME TypeOK, NEW t \in Turns
  PROVE  /\ turn[t] \in Turn
         /\ turn[t].conv \in Conversations \cup {NoConversation}
         /\ turn[t].company \in Companies \cup {NoCompany}
         /\ turn[t].todo \subseteq RowIds /\ turn[t].target \in 0..MaxRows
         /\ turn[t].new \subseteq Insertion /\ turn[t].pending \subseteq Insertion
         /\ turn[t].superseded \in 0..MaxRows /\ turn[t].by \in 0..MaxRows
         /\ turn[t].renewed \subseteq RowIds
         /\ Drafts(t) \subseteq Insertion
         /\ \A p \in Drafts(t) : p.id \in RowIds /\ p.row \in Row
<1>1. turn[t] \in Turn
  BY DEF TypeOK
<1>2. turn[t].new \subseteq Insertion /\ turn[t].pending \subseteq Insertion
  BY <1>1 DEF Turn
<1>3. \A p \in Insertion : p.id \in RowIds /\ p.row \in Row
  BY DEF Insertion
<1> QED
  BY <1>1, <1>2, <1>3 DEF Turn, Drafts

\* Stored rows are rows.
LEMMA StoredRow ==
  ASSUME TypeOK, NEW m \in Stored
  PROVE  m \in RowIds /\ m \in Nat /\ m > 0 /\ rows[m] \in Row
BY ConstantTypes DEF TypeOK, Stored, RowIds

\* The facts about a turn depend on its own record, the rows, the numbers
\* given out and its conversation's lock.
LEMMA OtherTurn ==
  ASSUME NEW u \in Turns, TypeOK, TurnFacts(u), turn'[u] = turn[u], rows' = rows,
         inserted' \in Nat, inserted' >= inserted,
         turn[u].pc \notin {"idle", "question"} => convLock'[turn[u].conv] = u
  PROVE  TurnFacts(u)' /\ Drafts(u)' = Drafts(u)
<1>1. Stored' = Stored /\ Drafts(u)' = Drafts(u)
  BY DEF Stored, Drafts
<1>2. PhaseFacts(u)'
  BY DEF TurnFacts, PhaseFacts
<1>3. DraftFacts(u)'
  <2>1. inserted \in Nat /\ \A p \in Drafts(u) : p.id \in Nat
    BY TurnFields, ConstantTypes DEF TypeOK, RowIds
  <2> QED
    BY <1>1, <2>1 DEF TurnFacts, DraftFacts
<1>4. UpdateFacts(u)'
  BY <1>1 DEF TurnFacts, UpdateFacts, Succeeds
<1>5. SummaryFacts(u)'
  <2>1. SummariesFound(u)' = SummariesFound(u)
    BY <1>1 DEF SummariesFound, SummariesOf, UserOf
  <2> QED
    BY <2>1 DEF TurnFacts, SummaryFacts
<1> QED
  BY <1>1, <1>2, <1>3, <1>4, <1>5 DEF TurnFacts

\* What remains to be shown of a step of turn t that writes no row.
LEMMA TurnStep ==
  ASSUME Inv, NEW t \in Turns, rows' = rows, req' = req, forgotten' = forgotten,
         TypeOK', inserted' >= inserted,
         \A u \in Turns \ {t} :
           /\ turn'[u] = turn[u]
           /\ turn[u].pc \notin {"idle", "question"} => convLock'[turn[u].conv] = u,
         TurnFacts(t)',
         \A p \in Drafts(t)' : p \in Drafts(t) \/ p.id > inserted
  PROVE  Inv'
<1>1. TypeOK /\ RowFacts /\ RequestFacts /\ ApartFacts /\ \A u \in Turns : TurnFacts(u)
  BY DEF Inv, Facts
<1>2. inserted \in Nat /\ inserted' \in Nat
  BY <1>1, ConstantTypes DEF TypeOK
<1>3. Stored' = Stored
  BY DEF Stored
<1>4. RowFacts'
  <2>1. \A m \in Stored : m \in Nat
    BY <1>1, StoredRow
  <2>2. SupersededBySuccessor'
    BY <1>1, <1>3 DEF RowFacts, SupersededBySuccessor
  <2>3. \A u, c, w : SummariesOf(u, c, w)' = SummariesOf(u, c, w)
    BY <1>3 DEF SummariesOf
  <2> QED
    BY <1>1, <1>2, <1>3, <2>1, <2>2, <2>3 DEF RowFacts
<1>5. RequestFacts'
  BY <1>1, <1>3 DEF RequestFacts
<1>6. ASSUME NEW u \in Turns \ {t}
      PROVE  TurnFacts(u)' /\ Drafts(u)' = Drafts(u)
  BY <1>1, <1>2, OtherTurn
<1>7. ApartFacts'
  <2>1. ASSUME NEW u \in Turns \ {t}, NEW p \in Drafts(t)', NEW q \in Drafts(u)
        PROVE  p.id # q.id
    <3>1. q.id <= inserted /\ q.id \in Nat
      <4>1. q.id \in RowIds
        BY <1>1, TurnFields
      <4> QED
        BY <1>1, <4>1, ConstantTypes DEF TurnFacts, DraftFacts, RowIds
    <3>2. CASE p \in Drafts(t)
      BY <1>1, <3>2 DEF ApartFacts
    <3>3. CASE p.id > inserted
      BY <1>2, <3>1, <3>3
    <3> QED
      BY <3>2, <3>3
  <2>2. ASSUME NEW u \in Turns \ {t}, NEW v \in Turns \ {t}, u # v,
               NEW p \in Drafts(u), NEW q \in Drafts(v)
        PROVE  p.id # q.id
    BY <1>1, <2>2 DEF ApartFacts
  <2> QED
    BY <1>6, <2>1, <2>2 DEF ApartFacts
<1>8. \A u \in Turns : TurnFacts(u)'
  BY <1>6
<1> QED
  BY <1>4, <1>5, <1>7, <1>8 DEF Inv, Facts

\* The parts of a turn that only its own writes change.
SameDraft(t) ==
  /\ turn'[t].conv = turn[t].conv /\ turn'[t].company = turn[t].company
  /\ turn'[t].new = turn[t].new
  /\ turn'[t].pending = turn[t].pending /\ turn'[t].superseded = turn[t].superseded
  /\ turn'[t].by = turn[t].by /\ turn'[t].renewed = turn[t].renewed

\* A turn that goes on to its next step without writing anything.
LEMMA MoveFacts ==
  ASSUME Inv, NEW t \in Turns, rows' = rows, inserted' = inserted, SameDraft(t),
         turn[t].pc \notin {"idle", "supersede", "commit"},
         turn'[t].pc \notin {"idle", "question", "supersede"},
         convLock'[turn[t].conv] = t,
         turn'[t].pc \in {"refresh", "rewrite"} => turn'[t].target \in Stored
  PROVE  TurnFacts(t)' /\ Drafts(t)' = Drafts(t)
<1>1. TurnFacts(t)
  BY DEF Inv, Facts
<1>2. Stored' = Stored /\ Drafts(t)' = Drafts(t)
  BY DEF Stored, Drafts, SameDraft
<1>3. PhaseFacts(t)'
  BY <1>1 DEF TurnFacts, PhaseFacts, SameDraft
<1>4. DraftFacts(t)'
  BY <1>1, <1>2 DEF TurnFacts, DraftFacts
<1>5. UpdateFacts(t)'
  BY <1>1, <1>2 DEF TurnFacts, UpdateFacts, SameDraft, Succeeds
<1>6. SummaryFacts(t)'
  BY <1>1 DEF TurnFacts, SummaryFacts, SameDraft
<1> QED
  BY <1>2, <1>3, <1>4, <1>5, <1>6 DEF TurnFacts

\* Such a step, with the conversation it holds already.
LEMMA MoveStep ==
  ASSUME Inv, NEW t \in Turns,
         UNCHANGED <<rows, inserted, convLock, req, grants, live, begun, events, forgotten>>,
         rowLock' \in [RowIds -> Turns \cup {NoTurn}],
         turn' \in [Turns -> Turn], \A u \in Turns \ {t} : turn'[u] = turn[u],
         SameDraft(t),
         turn[t].pc \notin {"idle", "question", "supersede", "commit"},
         turn'[t].pc \notin {"idle", "question", "supersede"},
         turn'[t].pc \in {"refresh", "rewrite"} => turn'[t].target \in Stored
  PROVE  Inv'
<1>1. TypeOK /\ \A u \in Turns : TurnFacts(u)
  BY DEF Inv, Facts
<1>2. TypeOK'
  BY <1>1 DEF TypeOK
<1>3. \A u \in Turns : turn[u].pc \notin {"idle", "question"} => convLock'[turn[u].conv] = u
  BY <1>1 DEF TurnFacts, PhaseFacts
<1>4. TurnFacts(t)' /\ Drafts(t)' = Drafts(t)
  BY <1>3, MoveFacts
<1>5. inserted' >= inserted
  BY <1>1, ConstantTypes DEF TypeOK
<1> QED
  BY <1>2, <1>3, <1>4, <1>5, TurnStep

\* Nothing to do, or nothing that is done: the turn goes on.
LEMMA InvSkips ==
  ASSUME Inv, NEW t \in Turns, ExtractNothing(t) \/ NoEpisode(t) \/ NoSummary(t)
  PROVE  Inv'
<1>1. turn \in [Turns -> Turn] /\ rowLock \in [RowIds -> Turns \cup {NoTurn}]
  BY DEF Inv, TypeOK
<1>2. PICK to \in {"episode", "summary", "commit"} : turn' = [turn EXCEPT ![t].pc = to]
  BY DEF ExtractNothing, NoEpisode, NoSummary
<1>3. turn[t].pc \in {"extract", "episode", "summary"}
  BY DEF ExtractNothing, NoEpisode, NoSummary
<1>4. UNCHANGED <<rows, inserted, rowLock, convLock, req, grants, live, begun, events, forgotten>>
  BY DEF ExtractNothing, NoEpisode, NoSummary
<1>5. /\ turn' \in [Turns -> Turn] /\ \A u \in Turns \ {t} : turn'[u] = turn[u]
      /\ SameDraft(t) /\ turn'[t].pc = to
  BY <1>1, <1>2 DEF Turn, SameDraft
<1> QED
  BY <1>1, <1>3, <1>4, <1>5, MoveStep

\* The rows a turn has read are marked one by one.
LEMMA InvTouches ==
  ASSUME Inv, NEW t \in Turns, TouchNext(t)
  PROVE  Inv'
<1>1. turn \in [Turns -> Turn] /\ rowLock \in [RowIds -> Turns \cup {NoTurn}]
  BY DEF Inv, TypeOK
<1>2. /\ turn[t].pc = "touch"
      /\ UNCHANGED <<rows, inserted, convLock, req, grants, live, begun, events, forgotten>>
  BY DEF TouchNext
<1>3. CASE turn[t].todo = {}
  <2>1. turn' = [turn EXCEPT ![t].pc = "extract"] /\ rowLock' = rowLock
    BY <1>3 DEF TouchNext
  <2>2. /\ turn' \in [Turns -> Turn] /\ \A u \in Turns \ {t} : turn'[u] = turn[u]
        /\ SameDraft(t) /\ turn'[t].pc = "extract"
    BY <1>1, <2>1 DEF Turn, SameDraft
  <2> QED
    BY <1>1, <1>2, <2>1, <2>2, MoveStep
<1>4. CASE turn[t].todo # {}
  <2>1. PICK m : /\ rowLock' = [rowLock EXCEPT ![m] = t]
                 /\ turn' = [turn EXCEPT ![t].todo = @ \ {m}]
    BY <1>4 DEF TouchNext
  <2>2. /\ turn' \in [Turns -> Turn] /\ \A u \in Turns \ {t} : turn'[u] = turn[u]
        /\ SameDraft(t) /\ turn'[t].pc = "touch"
    BY <1>1, <1>2, <2>1 DEF Turn, SameDraft
  <2>3. rowLock' \in [RowIds -> Turns \cup {NoTurn}]
    BY <1>1, <2>1
  <2> QED
    BY <1>2, <2>2, <2>3, MoveStep
<1> QED
  BY <1>3, <1>4

\* An unchanged preference, or a summary that exists: the row is known.
LEMMA InvReads ==
  ASSUME Inv, NEW t \in Turns, (\E p \in Candidates : ExtractSame(t, p)) \/ RewriteSummary(t)
  PROVE  Inv'
<1>1. turn \in [Turns -> Turn] /\ rowLock \in [RowIds -> Turns \cup {NoTurn}]
  BY DEF Inv, TypeOK
<1>2. /\ turn[t].pc \in {"extract", "summary"}
      /\ UNCHANGED <<rows, inserted, rowLock, convLock, req, grants, live, begun, events, forgotten>>
  BY DEF ExtractSame, RewriteSummary
<1>3. \/ turn' = [turn EXCEPT ![t].pc = "episode"]
      \/ \E m \in Stored, to \in {"refresh", "rewrite"} :
           turn' = [turn EXCEPT ![t].target = m, ![t].pc = to]
  BY DEF ExtractSame, RewriteSummary, InForce, SummariesFound, SummariesOf
<1>4. CASE turn' = [turn EXCEPT ![t].pc = "episode"]
  <2>1. /\ turn' \in [Turns -> Turn] /\ \A u \in Turns \ {t} : turn'[u] = turn[u]
        /\ SameDraft(t) /\ turn'[t].pc = "episode"
    BY <1>1, <1>4 DEF Turn, SameDraft
  <2> QED
    BY <1>1, <1>2, <2>1, MoveStep
<1>5. ASSUME NEW m \in Stored, NEW to \in {"refresh", "rewrite"},
             turn' = [turn EXCEPT ![t].target = m, ![t].pc = to]
      PROVE  Inv'
  <2>1. m \in 0..MaxRows
    BY ConstantTypes DEF Stored, RowIds
  <2>2. /\ turn' \in [Turns -> Turn] /\ \A u \in Turns \ {t} : turn'[u] = turn[u]
        /\ SameDraft(t) /\ turn'[t].pc = to /\ turn'[t].target = m
    <3> DEFINE N == [turn[t] EXCEPT !.target = m, !.pc = to]
    <3>1. /\ N \in Turn /\ N.pc = to /\ N.target = m
          /\ N.conv = turn[t].conv /\ N.company = turn[t].company /\ N.new = turn[t].new
          /\ N.pending = turn[t].pending /\ N.superseded = turn[t].superseded
          /\ N.by = turn[t].by /\ N.renewed = turn[t].renewed
      BY <1>1, <2>1 DEF Turn
    <3>2. turn' = [turn EXCEPT ![t] = N]
      BY <1>1, <1>5
    <3> HIDE DEF N
    <3> QED
      BY <1>1, <3>1, <3>2 DEF SameDraft
  <2> QED
    BY <1>1, <1>2, <2>2, MoveStep
<1> QED
  BY <1>3, <1>4, <1>5

\* A turn begins with nothing to commit.
LEMMA InvBegins ==
  ASSUME Inv, NEW t \in Turns, NEW c \in Conversations, NEW k \in Companies,
         NEW touched \in SUBSET Stored, Begin(t, c, k, touched)
  PROVE  Inv'
<1>1. TypeOK /\ TurnFacts(t) /\ \A u \in Turns : TurnFacts(u)
  BY DEF Inv, Facts
<1>2. /\ turn[t].pc = "idle" /\ begun < MaxTurns /\ begun' = begun + 1
      /\ turn' = [turn EXCEPT ![t].pc = "question", ![t].conv = c, ![t].company = k,
                              ![t].todo = touched]
      /\ UNCHANGED <<rows, inserted, rowLock, convLock, req, grants, live, events, forgotten>>
  BY DEF Begin
<1>3. turn \in [Turns -> Turn] /\ touched \subseteq RowIds
  BY <1>1 DEF TypeOK, Stored
<1>4. /\ turn' \in [Turns -> Turn] /\ \A u \in Turns \ {t} : turn'[u] = turn[u]
      /\ turn'[t].pc = "question" /\ turn'[t].conv = c /\ turn'[t].company = k
      /\ turn'[t].new = turn[t].new /\ turn'[t].pending = turn[t].pending
      /\ turn'[t].superseded = turn[t].superseded /\ turn'[t].renewed = turn[t].renewed
  <2> DEFINE N == [turn[t] EXCEPT !.pc = "question", !.conv = c, !.company = k,
                               !.todo = touched]
  <2>1. /\ N \in Turn /\ N.pc = "question" /\ N.conv = c /\ N.company = k
        /\ N.new = turn[t].new /\ N.pending = turn[t].pending
        /\ N.superseded = turn[t].superseded /\ N.renewed = turn[t].renewed
    BY <1>3 DEF Turn
  <2>2. turn' = [turn EXCEPT ![t] = N]
    BY <1>2, <1>3
  <2> HIDE DEF N
  <2> QED
    BY <1>3, <2>1, <2>2
<1>5. /\ turn[t].new = {} /\ turn[t].pending = {} /\ turn[t].renewed = {}
      /\ turn[t].superseded = None
  BY <1>1, <1>2 DEF TurnFacts, PhaseFacts, NoTurnState
<1>6. begun' \in 0..MaxTurns /\ inserted' >= inserted
  BY <1>1, <1>2, ConstantTypes DEF TypeOK
<1>7. TypeOK'
  BY <1>1, <1>2, <1>4, <1>6 DEF TypeOK
<1>8. TurnFacts(t)' /\ Drafts(t)' = {}
  BY <1>4, <1>5 DEF TurnFacts, PhaseFacts, DraftFacts, UpdateFacts, SummaryFacts, Drafts
<1>9. \A u \in Turns : turn[u].pc \notin {"idle", "question"} => convLock'[turn[u].conv] = u
  BY <1>1, <1>2 DEF TurnFacts, PhaseFacts
<1> QED
  BY <1>2, <1>4, <1>6, <1>7, <1>8, <1>9, TurnStep

\* The question takes the conversation, which no other turn holds.
LEMMA InvQuestions ==
  ASSUME Inv, NEW t \in Turns, Question(t)
  PROVE  Inv'
<1>1. TypeOK /\ \A u \in Turns : TurnFacts(u)
  BY DEF Inv, Facts
<1>2. /\ turn[t].pc = "question" /\ convLock[turn[t].conv] = NoTurn
      /\ convLock' = [convLock EXCEPT ![turn[t].conv] = t]
      /\ turn' = [turn EXCEPT ![t].pc = "touch"]
      /\ UNCHANGED <<rows, inserted, rowLock, req, grants, live, begun, events, forgotten>>
  BY DEF Question
<1>3. /\ turn \in [Turns -> Turn] /\ turn[t].conv \in Conversations
      /\ convLock \in [Conversations -> Turns \cup {NoTurn}]
  BY <1>1, <1>2 DEF TypeOK, TurnFacts, PhaseFacts
<1>4. /\ turn' \in [Turns -> Turn] /\ \A u \in Turns \ {t} : turn'[u] = turn[u]
      /\ SameDraft(t) /\ turn'[t].pc = "touch"
  BY <1>2, <1>3 DEF Turn, SameDraft
<1>5. /\ convLock' \in [Conversations -> Turns \cup {NoTurn}]
      /\ convLock'[turn[t].conv] = t
  BY <1>2, <1>3
<1>6. ASSUME NEW u \in Turns \ {t}, turn[u].pc \notin {"idle", "question"}
      PROVE  convLock'[turn[u].conv] = u
  <2>1. convLock[turn[u].conv] = u /\ turn[u].conv \in Conversations
    BY <1>1, <1>6 DEF TurnFacts, PhaseFacts
  <2>2. turn[u].conv # turn[t].conv
    BY <1>2, <2>1, ConstantTypes
  <2> QED
    BY <1>2, <1>3, <2>1, <2>2
<1>7. TypeOK'
  BY <1>1, <1>2, <1>4, <1>5 DEF TypeOK
<1>8. TurnFacts(t)' /\ Drafts(t)' = Drafts(t)
  BY <1>2, <1>4, <1>5, MoveFacts
<1>9. inserted' >= inserted
  BY <1>1, <1>2, ConstantTypes DEF TypeOK
<1> QED
  BY <1>2, <1>4, <1>6, <1>7, <1>8, <1>9, TurnStep

\* Locks that a turn gives back were its own.
LEMMA UnlockEffect ==
  ASSUME TypeOK, \A u \in Turns : TurnFacts(u), NEW t \in Turns, Unlock(t)
  PROVE  /\ rowLock' \in [RowIds -> Turns \cup {NoTurn}]
         /\ convLock' \in [Conversations -> Turns \cup {NoTurn}]
         /\ \A u \in Turns \ {t} :
              turn[u].pc \notin {"idle", "question"} => convLock'[turn[u].conv] = u
<1>1. /\ rowLock \in [RowIds -> Turns \cup {NoTurn}]
      /\ convLock \in [Conversations -> Turns \cup {NoTurn}]
  BY DEF TypeOK
<1>2. \A u \in Turns : turn[u].pc \notin {"idle", "question"} =>
        turn[u].conv \in Conversations /\ convLock[turn[u].conv] = u
  BY DEF TurnFacts, PhaseFacts
<1> QED
  BY <1>1, <1>2 DEF Unlock

\* An idle turn has nothing.
LEMMA IdleFacts ==
  ASSUME NEW t \in Turns, turn'[t] = NoTurnState
  PROVE  TurnFacts(t)' /\ Drafts(t)' = {} /\ NoTurnState \in Turn
<1>1. NoTurnState \in Turn
  BY ConstantTypes DEF NoTurnState, Turn, None
<1>2. Drafts(t)' = {}
  BY DEF Drafts, NoTurnState
<1>3. PhaseFacts(t)' /\ UpdateFacts(t)' /\ SummaryFacts(t)'
  BY DEF PhaseFacts, UpdateFacts, SummaryFacts, NoTurnState
<1> QED
  BY <1>1, <1>2, <1>3 DEF TurnFacts, DraftFacts

\* A turn that is rolled back leaves the rows alone.
LEMMA InvRollsBack ==
  ASSUME Inv, NEW t \in Turns, RollBack(t), events' \in 0..MaxEvents
  PROVE  Inv'
<1>1. TypeOK /\ \A u \in Turns : TurnFacts(u)
  BY DEF Inv, Facts
<1>2. /\ Unlock(t) /\ turn' = [turn EXCEPT ![t] = NoTurnState]
      /\ UNCHANGED <<rows, inserted, req, grants, live, begun, forgotten>>
  BY DEF RollBack
<1>3. turn \in [Turns -> Turn]
  BY <1>1 DEF TypeOK
<1>4. turn'[t] = NoTurnState /\ \A u \in Turns \ {t} : turn'[u] = turn[u]
  BY <1>2, <1>3
<1>5. TurnFacts(t)' /\ Drafts(t)' = {} /\ NoTurnState \in Turn
  BY <1>4, IdleFacts
<1>6. turn' \in [Turns -> Turn]
  BY <1>2, <1>3, <1>5
<1>7. /\ rowLock' \in [RowIds -> Turns \cup {NoTurn}]
      /\ convLock' \in [Conversations -> Turns \cup {NoTurn}]
      /\ \A u \in Turns \ {t} :
           turn[u].pc \notin {"idle", "question"} => convLock'[turn[u].conv] = u
  BY <1>1, <1>2, UnlockEffect
<1>8. TypeOK'
  BY <1>1, <1>2, <1>6, <1>7 DEF TypeOK
<1>9. inserted' >= inserted
  BY <1>1, <1>2, ConstantTypes DEF TypeOK
<1> QED
  BY <1>2, <1>4, <1>5, <1>7, <1>8, <1>9, TurnStep

\* A turn that its client, its server or the deadlock detector ends.
LEMMA InvAborts ==
  ASSUME Inv, NEW t \in Turns, Abort(t)
  PROVE  Inv'
<1>1. events' \in 0..MaxEvents
  BY ConstantTypes DEF Abort, Inv, TypeOK
<1> QED
  BY <1>1, InvRollsBack DEF Abort

\* The victim of a deadlock drops its savepoint and goes on, or ends.
LEMMA InvGivesUp ==
  ASSUME Inv, NEW t \in Turns, GiveUp(t)
  PROVE  Inv'
<1>1. TypeOK /\ \A u \in Turns : TurnFacts(u)
  BY DEF Inv, Facts
<1>2. events' = events /\ events \in 0..MaxEvents
  BY <1>1 DEF GiveUp, TypeOK
<1>3. CASE turn[t].pc \notin {"supersede", "refresh", "rewrite"}
  BY <1>2, <1>3, InvRollsBack DEF GiveUp
<1>4. CASE turn[t].pc \in {"supersede", "refresh", "rewrite"}
  <2>1. PICK to \in {"commit", "episode"} :
          turn' = [turn EXCEPT ![t].pending = {}, ![t].target = None, ![t].pc = to]
    BY <1>4 DEF GiveUp
  <2>2. UNCHANGED <<rows, inserted, rowLock, convLock, req, grants, live, begun, forgotten>>
    BY <1>4 DEF GiveUp
  <2>3. turn \in [Turns -> Turn] /\ None \in 0..MaxRows
    BY <1>1, ConstantTypes DEF TypeOK, None
  <2>4. /\ turn' \in [Turns -> Turn] /\ \A u \in Turns \ {t} : turn'[u] = turn[u]
        /\ turn'[t].pending = {} /\ turn'[t].pc = to
        /\ turn'[t].conv = turn[t].conv /\ turn'[t].company = turn[t].company
        /\ turn'[t].new = turn[t].new
        /\ turn'[t].superseded = turn[t].superseded /\ turn'[t].by = turn[t].by
        /\ turn'[t].renewed = turn[t].renewed
    <3> DEFINE N == [turn[t] EXCEPT !.pending = {}, !.target = None, !.pc = to]
    <3>1. /\ N \in Turn /\ N.pending = {} /\ N.pc = to
          /\ N.conv = turn[t].conv /\ N.company = turn[t].company /\ N.new = turn[t].new
          /\ N.superseded = turn[t].superseded /\ N.by = turn[t].by
          /\ N.renewed = turn[t].renewed
      BY <2>3 DEF Turn
    <3>2. turn' = [turn EXCEPT ![t] = N]
      BY <2>1, <2>3
    <3> HIDE DEF N
    <3> QED
      BY <2>3, <3>1, <3>2
  <2>5. Stored' = Stored /\ \A p \in Drafts(t)' : p \in Drafts(t)
    BY <2>2, <2>4 DEF Stored, Drafts
  <2>6. TypeOK'
    BY <1>1, <1>2, <2>2, <2>4 DEF TypeOK
  <2>7. PhaseFacts(t)'
    BY <1>1, <1>4, <2>2, <2>4 DEF TurnFacts, PhaseFacts
  <2>8. DraftFacts(t)'
    BY <1>1, <2>2, <2>5 DEF TurnFacts, DraftFacts
  <2>9. UpdateFacts(t)'
    BY <1>1, <2>2, <2>4, <2>5 DEF TurnFacts, UpdateFacts, Succeeds
  <2>10. SummaryFacts(t)'
    BY <1>1, <1>4, <2>4 DEF TurnFacts, SummaryFacts
  <2>11. \A u \in Turns : turn[u].pc \notin {"idle", "question"} => convLock'[turn[u].conv] = u
    BY <1>1, <2>2 DEF TurnFacts, PhaseFacts
  <2>12. inserted' >= inserted
    BY <1>1, <2>2, ConstantTypes DEF TypeOK
  <2> QED
    BY <2>2, <2>4, <2>5, <2>6, <2>7, <2>8, <2>9, <2>10, <2>11, <2>12, TurnStep
       DEF TurnFacts
<1> QED
  BY <1>3, <1>4

\* A new insertion takes the next number, which nothing has.
LEMMA DraftGrows ==
  ASSUME Inv, NEW t \in Turns, rows' = rows, inserted' = inserted + 1,
         NEW p, p.id = inserted + 1, Sound(p.row),
         p.row.status \in {"ACTIVE", "PENDING_CONFIRMATION"},
         Drafts(t)' = Drafts(t) \cup {p}
  PROVE  DraftFacts(t)' /\ \A q \in Drafts(t)' : q \in Drafts(t) \/ q.id > inserted
<1>1. TypeOK /\ DraftFacts(t) /\ inserted \in Nat
  BY DEF Inv, Facts, TurnFacts, TypeOK
<1>2. Stored' = Stored /\ \A m \in Stored : m \in Nat /\ m <= inserted
  BY <1>1, StoredRow DEF Stored, Inv, Facts, RowFacts
<1>3. \A q \in Drafts(t) : q.id \in Nat /\ q.id <= inserted
  BY <1>1, TurnFields DEF DraftFacts, RowIds
<1>4. p.id \notin Stored
  BY <1>1, <1>2
<1>5. \A q \in Drafts(t) : q.id # p.id
  BY <1>1, <1>3
<1>6. \A q \in Drafts(t) : q.id <= inserted + 1
  BY <1>1, <1>3
<1>7. p.id <= inserted + 1 /\ p.id > inserted
  BY <1>1
<1> QED
  BY <1>1, <1>2, <1>4, <1>5, <1>6, <1>7 DEF DraftFacts

\* The number of a new insertion is within the bound, and later than the
\* stored rows.
LEMMA NextIdType ==
  ASSUME Inv, CanInsert
  PROVE  /\ NextId \in RowIds /\ NextId = inserted + 1 /\ NextId \in 0..MaxRows
         /\ inserted \in Nat /\ \A m \in Stored : NextId > m
<1>1. TypeOK /\ inserted \in Nat /\ MaxRows \in Nat
  BY ConstantTypes DEF Inv, TypeOK
<1>2. \A m \in Stored : m \in Nat /\ m <= inserted
  BY <1>1, StoredRow DEF Inv, Facts, RowFacts
<1> QED
  BY <1>1, <1>2 DEF CanInsert, NextId, RowIds

\* A turn that adds an insertion to its draft and goes on.
LEMMA InsertStep ==
  ASSUME Inv, NEW t \in Turns, CanInsert, inserted' = NextId,
         UNCHANGED <<rows, rowLock, convLock, req, grants, live, begun, events, forgotten>>,
         NEW row \in Row, Sound(row), row.status \in {"ACTIVE", "PENDING_CONFIRMATION"},
         turn[t].pc \in {"extract", "episode", "summary"},
         NEW to \in {"episode", "summary", "commit"},
         turn' = [turn EXCEPT ![t].new = @ \cup {[id |-> NextId, row |-> row]}, ![t].pc = to],
         row.kind = "CONVERSATION_SUMMARY" =>
           /\ to = "commit" /\ row.conv = turn[t].conv
           /\ row.company = turn[t].company /\ SummariesFound(t) = {}
  PROVE  Inv'
<1> DEFINE p == [id |-> NextId, row |-> row]
           N == [turn[t] EXCEPT !.new = @ \cup {p}, !.pc = to]
<1>1. TypeOK /\ \A u \in Turns : TurnFacts(u)
  BY DEF Inv, Facts
<1>2. turn \in [Turns -> Turn] /\ turn[t] \in Turn
  BY <1>1 DEF TypeOK
<1>3. p \in Insertion /\ p.id = NextId /\ p.row = row
  BY NextIdType DEF Insertion
<1>4. inserted' = inserted + 1 /\ p.id = inserted + 1 /\ inserted' \in 0..MaxRows
      /\ inserted' >= inserted
  BY <1>3, NextIdType
<1> HIDE DEF p
<1>5. /\ N \in Turn /\ N.pc = to /\ N.new = turn[t].new \cup {p}
      /\ N.pending = turn[t].pending /\ N.conv = turn[t].conv /\ N.company = turn[t].company
      /\ N.superseded = turn[t].superseded /\ N.by = turn[t].by
      /\ N.renewed = turn[t].renewed
  BY <1>2, <1>3 DEF Turn
<1>6. turn' = [turn EXCEPT ![t] = N]
  BY <1>2 DEF p
<1> HIDE DEF N
<1>7. /\ turn' \in [Turns -> Turn] /\ \A u \in Turns \ {t} : turn'[u] = turn[u]
      /\ turn'[t] = N
  BY <1>2, <1>5, <1>6
<1>8. TypeOK'
  BY <1>1, <1>4, <1>7 DEF TypeOK
<1>9. Drafts(t)' = Drafts(t) \cup {p}
  BY <1>5, <1>7 DEF Drafts
<1>10. DraftFacts(t)' /\ \A q \in Drafts(t)' : q \in Drafts(t) \/ q.id > inserted
  BY <1>3, <1>4, <1>9, DraftGrows
<1>11. Stored' = Stored
  BY DEF Stored
<1>12. PhaseFacts(t)'
  BY <1>1, <1>5, <1>7 DEF TurnFacts, PhaseFacts
<1>13. UpdateFacts(t)'
  <2>1. turn[t].pending = {} /\ turn[t].renewed \subseteq Stored
    BY <1>1 DEF TurnFacts, UpdateFacts
  <2>2. turn[t].superseded # None =>
          /\ turn[t].superseded \in Stored
          /\ \E q \in N.new : q.id = turn[t].by /\ Succeeds(q, turn[t].superseded)
    BY <1>1, <1>5 DEF TurnFacts, UpdateFacts
  <2>4. (turn[t].superseded # None =>
           /\ turn[t].superseded \in Stored
           /\ \E q \in turn[t].new : q.id = turn[t].by /\ Succeeds(q, turn[t].superseded))'
    <3>1. CASE turn[t].superseded # None
      <4>1. PICK q \in N.new : q.id = turn[t].by /\ Succeeds(q, turn[t].superseded)
        BY <2>2, <3>1
      <4>2. q \in turn'[t].new /\ q.id = turn'[t].by
        BY <1>5, <1>7, <4>1
      <4>3. Succeeds(q, turn[t].superseded)'
        BY <1>5, <1>7, <4>1 DEF Succeeds
      <4> QED
        BY <1>5, <1>7, <1>11, <2>2, <3>1, <4>2, <4>3
    <3>2. CASE turn[t].superseded = None
      BY <1>5, <1>7, <3>2
    <3> QED
      BY <3>1, <3>2
  <2> QED
    BY <1>5, <1>7, <1>11, <2>1, <2>4 DEF UpdateFacts
<1>14. SummaryFacts(t)'
  <2>1. \A q \in turn[t].new : ~IsSummary(q)
    BY <1>1 DEF TurnFacts, SummaryFacts
  <2>2. IsSummary(p) => /\ to = "commit" /\ p.row.conv = turn[t].conv
                        /\ p.row.company = turn[t].company /\ SummariesFound(t) = {}
    BY <1>3 DEF IsSummary
  <2>3. SummariesFound(t)' = SummariesFound(t)
    BY <1>5, <1>7, <1>11 DEF SummariesFound, SummariesOf, UserOf
  <2> QED
    BY <1>5, <1>7, <2>1, <2>2, <2>3 DEF SummaryFacts, IsSummary
<1>15. \A u \in Turns : turn[u].pc \notin {"idle", "question"} => convLock'[turn[u].conv] = u
  BY <1>1 DEF TurnFacts, PhaseFacts
<1> QED
  BY <1>4, <1>7, <1>8, <1>10, <1>12, <1>13, <1>14, <1>15, TurnStep DEF TurnFacts

\* The user and the company of a turn that has begun.
LEMMA UserOfType ==
  ASSUME Inv, NEW t \in Turns, turn[t].pc # "idle"
  PROVE  /\ turn[t].conv \in Conversations /\ UserOf(t) \in Users
         /\ turn[t].company \in Companies
<1>1. turn[t].conv \in Conversations /\ turn[t].company \in Companies
  BY DEF Inv, Facts, TurnFacts, PhaseFacts
<1> QED
  BY <1>1, ConstantTypes DEF UserOf

\* An episode of the answer.
LEMMA InvEpisodes ==
  ASSUME Inv, NEW t \in Turns, NEW chunks \in EpisodeCites, CreateEpisode(t, chunks)
  PROVE  Inv'
<1>1. /\ turn[t].pc = "episode" /\ CanInsert /\ inserted' = NextId
      /\ Of(turn[t].company, chunks) /\ Cardinality(Depts(chunks)) = 1
      /\ chunks \in SUBSET Chunks
      /\ UNCHANGED <<rows, rowLock, convLock, req, grants, live, begun, events, forgotten>>
  BY ConstantTypes DEF CreateEpisode
<1>2. PICK dept \in Depts(chunks) :
        turn' = [turn EXCEPT ![t].new = @ \cup
                   {[id |-> NextId, row |-> EpisodeRow(UserOf(t), turn[t].company,
                                                       turn[t].conv, chunks, dept)]},
                 ![t].pc = "summary"]
  BY DEF CreateEpisode
<1> DEFINE row == EpisodeRow(UserOf(t), turn[t].company, turn[t].conv, chunks, dept)
<1>3. row \in Row /\ Sound(row) /\ row.kind = "EPISODIC" /\ row.status = "ACTIVE"
  BY <1>1, UserOfType, EpisodeRowType
<1> HIDE DEF row
<1>4. turn' = [turn EXCEPT ![t].new = @ \cup {[id |-> NextId, row |-> row]}, ![t].pc = "summary"]
  BY <1>2 DEF row
<1> QED
  BY <1>1, <1>3, <1>4, InsertStep

\* A summary for a conversation that has none in the workspace.
LEMMA InvSummarises ==
  ASSUME Inv, NEW t \in Turns, NewSummary(t)
  PROVE  Inv'
<1>1. /\ turn[t].pc = "summary" /\ CanInsert /\ inserted' = NextId
      /\ SummariesFound(t) = {}
      /\ UNCHANGED <<rows, rowLock, convLock, req, grants, live, begun, events, forgotten>>
  BY DEF NewSummary
<1> DEFINE row == PrivateRow(UserOf(t), turn[t].company, "CONVERSATION_SUMMARY", "ACTIVE",
                             NoKey, NoKey, turn[t].conv)
<1>2. /\ row \in Row /\ Sound(row) /\ row.status = "ACTIVE"
      /\ row.conv = turn[t].conv /\ row.company = turn[t].company
  <2>1. UserOf(t) \in Users /\ turn[t].company \in Companies
        /\ turn[t].conv \in Conversations \cup {NoConversation}
    BY <1>1, UserOfType
  <2>2. NoKey \in Keys \cup {NoKey} /\ NoKey \in Contents \cup {NoKey}
    OBVIOUS
  <2>3. PICK u \in Users, k \in Companies, v \in Conversations \cup {NoConversation} :
          u = UserOf(t) /\ k = turn[t].company /\ v = turn[t].conv
    BY <2>1
  <2> DEFINE s == PrivateRow(u, k, "CONVERSATION_SUMMARY", "ACTIVE", NoKey, NoKey, v)
  <2>4. s \in Row /\ Sound(s) /\ s.status = "ACTIVE" /\ s.conv = v /\ s.company = k
    BY <2>2, PrivateRowType
  <2> QED
    BY <2>3, <2>4
<1> HIDE DEF row
<1>3. turn' = [turn EXCEPT ![t].new = @ \cup {[id |-> NextId, row |-> row]}, ![t].pc = "commit"]
  BY DEF NewSummary, row
<1> QED
  BY <1>1, <1>2, <1>3, InsertStep

\* A changed preference: its row waits in the savepoint for the old one.
LEMMA InvExtracts ==
  ASSUME Inv, NEW t \in Turns, NEW c \in Candidates, ExtractNew(t, c)
  PROVE  Inv'
<1> DEFINE status == IF c.explicit THEN "ACTIVE" ELSE "PENDING_CONFIRMATION"
           row == PrivateRow(UserOf(t), turn[t].company, "SEMANTIC", status,
                             c.key, c.content, turn[t].conv)
           p == [id |-> NextId, row |-> row]
           found == InForce(UserOf(t), turn[t].company, c.key)
<1>1. /\ turn[t].pc = "extract" /\ CanInsert /\ inserted' = NextId
      /\ UNCHANGED <<rows, rowLock, convLock, req, grants, live, begun, events, forgotten>>
  BY DEF ExtractNew
<1>2. /\ row \in Row /\ Sound(row) /\ row.kind = "SEMANTIC" /\ row.status = status
      /\ row.owner = UserOf(t) /\ row.company = turn[t].company /\ row.key = c.key
  <2>1. UserOf(t) \in Users /\ turn[t].company \in Companies
        /\ turn[t].conv \in Conversations \cup {NoConversation}
    BY <1>1, UserOfType
  <2>2. PICK key \in Keys, content \in Contents : key = c.key /\ content = c.content
    BY DEF Keys, Contents
  <2>3. status \in {"ACTIVE", "PENDING_CONFIRMATION"}
    OBVIOUS
  <2> HIDE DEF status
  <2>4. PICK u \in Users, k \in Companies, v \in Conversations \cup {NoConversation} :
          u = UserOf(t) /\ k = turn[t].company /\ v = turn[t].conv
    BY <2>1
  <2> DEFINE s == PrivateRow(u, k, "SEMANTIC", status, key, content, v)
  <2>5. /\ s \in Row /\ Sound(s) /\ s.kind = "SEMANTIC" /\ s.status = status
        /\ s.owner = u /\ s.company = k /\ s.key = key
    BY <2>3, PreferenceRowType
  <2> QED
    BY <2>2, <2>4, <2>5
<1>3. row.status \in {"ACTIVE", "PENDING_CONFIRMATION"}
  BY <1>2
<1>4. \/ turn' = [turn EXCEPT ![t].new = @ \cup {p}, ![t].pc = "episode"]
      \/ \E m \in found : turn' = [turn EXCEPT ![t].pending = {p}, ![t].target = m,
                                               ![t].pc = "supersede"]
  BY Zenon DEF ExtractNew
<1> HIDE DEF row, found, status
<1>5. CASE turn' = [turn EXCEPT ![t].new = @ \cup {p}, ![t].pc = "episode"]
  BY <1>1, <1>2, <1>3, <1>5, InsertStep
<1>6. ASSUME NEW m \in found,
             turn' = [turn EXCEPT ![t].pending = {p}, ![t].target = m, ![t].pc = "supersede"]
      PROVE  Inv'
  <2> DEFINE N == [turn[t] EXCEPT !.pending = {p}, !.target = m, !.pc = "supersede"]
  <2>1. TypeOK /\ \A u \in Turns : TurnFacts(u)
    BY DEF Inv, Facts
  <2>2. turn \in [Turns -> Turn] /\ turn[t] \in Turn
    BY <2>1 DEF TypeOK
  <2>3. p \in Insertion /\ p.id = NextId /\ p.row = row
    BY <1>1, <1>2, NextIdType DEF Insertion
  <2>4. inserted' = inserted + 1 /\ p.id = inserted + 1 /\ inserted' \in 0..MaxRows
        /\ inserted' >= inserted
    BY <1>1, <2>3, NextIdType
  <2>5. /\ m \in Stored /\ rows[m].owner = UserOf(t) /\ rows[m].company = turn[t].company
        /\ rows[m].key = c.key
    BY DEF found, InForce
  <2>6. NextId > m /\ m \in 0..MaxRows
    BY <1>1, <2>5, NextIdType, ConstantTypes DEF Stored, RowIds
  <2> HIDE DEF p
  <2>7. /\ N \in Turn /\ N.pc = "supersede" /\ N.new = turn[t].new
        /\ N.pending = {p} /\ N.target = m /\ N.conv = turn[t].conv /\ N.company = turn[t].company
        /\ N.superseded = turn[t].superseded /\ N.by = turn[t].by
        /\ N.renewed = turn[t].renewed
    BY <2>2, <2>3, <2>6 DEF Turn
  <2>8. turn' = [turn EXCEPT ![t] = N]
    BY <1>6, <2>2
  <2> HIDE DEF N
  <2>9. /\ turn' \in [Turns -> Turn] /\ \A u \in Turns \ {t} : turn'[u] = turn[u]
        /\ turn'[t] = N
    BY <2>2, <2>7, <2>8
  <2>10. TypeOK'
    BY <1>1, <2>1, <2>4, <2>9 DEF TypeOK
  <2>11. Drafts(t)' = Drafts(t) \cup {p}
    <3>1. turn[t].pending = {}
      BY <1>1, <2>1 DEF TurnFacts, UpdateFacts
    <3> QED
      BY <2>7, <2>9, <3>1 DEF Drafts
  <2>12. DraftFacts(t)' /\ \A q \in Drafts(t)' : q \in Drafts(t) \/ q.id > inserted
    BY <1>1, <1>2, <1>3, <2>3, <2>4, <2>11, DraftGrows
  <2>13. Stored' = Stored
    BY <1>1 DEF Stored
  <2>14. PhaseFacts(t)'
    BY <1>1, <2>1, <2>7, <2>9 DEF TurnFacts, PhaseFacts
  <2>15. UpdateFacts(t)'
    <3>1. Succeeds(p, m)
      BY <1>2, <2>3, <2>5, <2>6 DEF Succeeds
    <3>0. PICK q \in Insertion : q = p
      BY <2>3
    <3>2. Succeeds(q, turn[t].target)' /\ ~IsSummary(q) /\ turn'[t].pending = {q}
      BY <1>1, <1>2, <2>3, <2>7, <2>9, <3>0, <3>1 DEF Succeeds, IsSummary
    <3>3. (turn[t].superseded # None =>
             /\ turn[t].superseded \in Stored
             /\ \E y \in turn[t].new : y.id = turn[t].by /\ Succeeds(y, turn[t].superseded))'
      BY <1>1, <2>1, <2>7, <2>9, <2>13 DEF TurnFacts, UpdateFacts, Succeeds
    <3>4. turn[t].renewed \subseteq Stored
      BY <2>1 DEF TurnFacts, UpdateFacts
    <3> QED
      BY <2>3, <2>5, <2>7, <2>9, <2>13, <3>2, <3>3, <3>4 DEF UpdateFacts
  <2>16. SummaryFacts(t)'
    BY <1>1, <2>1, <2>7, <2>9 DEF TurnFacts, SummaryFacts
  <2>17. \A u \in Turns : turn[u].pc \notin {"idle", "question"} => convLock'[turn[u].conv] = u
    BY <1>1, <2>1 DEF TurnFacts, PhaseFacts
  <2> QED
    BY <1>1, <2>4, <2>9, <2>10, <2>12, <2>14, <2>15, <2>16, <2>17, TurnStep DEF TurnFacts
<1> QED
  BY <1>4, <1>5, <1>6

\* The savepoint is released: the old row is locked and has its successor.
LEMMA InvSupersedes ==
  ASSUME Inv, NEW t \in Turns, Supersede(t)
  PROVE  Inv'
<1> DEFINE m == turn[t].target
<1>1. TypeOK /\ \A u \in Turns : TurnFacts(u)
  BY DEF Inv, Facts
<1>2. turn \in [Turns -> Turn] /\ turn[t] \in Turn
  BY <1>1 DEF TypeOK
<1>3. /\ turn[t].pc = "supersede" /\ rowLock' = [rowLock EXCEPT ![m] = t]
      /\ UNCHANGED <<rows, inserted, convLock, req, grants, live, begun, events, forgotten>>
  BY DEF Supersede
<1>4. PICK p \in Insertion : turn[t].pending = {p} /\ ~IsSummary(p) /\ Succeeds(p, m)
  BY <1>1, <1>3 DEF TurnFacts, UpdateFacts
<1>5. m \in Stored /\ m \in 0..MaxRows /\ m # None /\ p.id \in 0..MaxRows
  BY <1>1, <1>3, <1>4, ConstantTypes
     DEF TurnFacts, UpdateFacts, Stored, RowIds, None, Insertion
<1> DEFINE N == [turn[t] EXCEPT !.new = @ \cup turn[t].pending, !.superseded = m,
                                !.by = p.id, !.pending = {}, !.target = None, !.pc = "episode"]
<1>6. (CHOOSE q \in turn[t].pending : TRUE) = p
  BY <1>4
<1>7. turn' = [turn EXCEPT ![t] = N]
  <2>1. turn' = [turn EXCEPT ![t].new = @ \cup turn[t].pending, ![t].superseded = m,
                             ![t].by = p.id, ![t].pending = {}, ![t].target = None,
                             ![t].pc = "episode"]
    BY <1>6, Zenon DEF Supersede
  <2> QED
    BY <1>2, <2>1
<1> HIDE DEF m
<1>8. /\ N \in Turn /\ N.pc = "episode" /\ N.new = turn[t].new \cup {p}
      /\ N.pending = {} /\ N.conv = turn[t].conv /\ N.company = turn[t].company
      /\ N.superseded = m /\ N.by = p.id /\ N.renewed = turn[t].renewed
  <2>1. None \in 0..MaxRows
    BY ConstantTypes DEF None
  <2> QED
    BY <1>2, <1>4, <1>5, <2>1 DEF Turn
<1> HIDE DEF N
<1>9. /\ turn' \in [Turns -> Turn] /\ \A u \in Turns \ {t} : turn'[u] = turn[u]
      /\ turn'[t] = N
  BY <1>2, <1>7, <1>8
<1>10. rowLock' \in [RowIds -> Turns \cup {NoTurn}]
  BY <1>1, <1>3 DEF TypeOK
<1>11. TypeOK'
  BY <1>1, <1>3, <1>9, <1>10 DEF TypeOK
<1>12. Drafts(t)' = Drafts(t) /\ Stored' = Stored
  BY <1>3, <1>4, <1>8, <1>9 DEF Drafts, Stored
<1>13. PhaseFacts(t)'
  BY <1>1, <1>3, <1>8, <1>9 DEF TurnFacts, PhaseFacts
<1>14. DraftFacts(t)'
  BY <1>1, <1>3, <1>12 DEF TurnFacts, DraftFacts
<1>15. UpdateFacts(t)'
  <2>1. Succeeds(p, turn[t].superseded)' /\ p \in turn'[t].new /\ p.id = turn'[t].by
    BY <1>3, <1>4, <1>8, <1>9 DEF Succeeds
  <2>2. turn[t].renewed \subseteq Stored
    BY <1>1 DEF TurnFacts, UpdateFacts
  <2> QED
    BY <1>5, <1>8, <1>9, <1>12, <2>1, <2>2 DEF UpdateFacts
<1>16. SummaryFacts(t)'
  <2>1. \A q \in turn[t].new : ~IsSummary(q)
    BY <1>1, <1>3 DEF TurnFacts, SummaryFacts
  <2>2. \A q \in turn'[t].new : ~IsSummary(q)
    BY <1>4, <1>8, <1>9, <2>1
  <2> QED
    BY <2>2 DEF SummaryFacts, IsSummary
<1>17. \A u \in Turns : turn[u].pc \notin {"idle", "question"} => convLock'[turn[u].conv] = u
  BY <1>1, <1>3 DEF TurnFacts, PhaseFacts
<1>18. inserted' >= inserted
  BY <1>1, <1>3, ConstantTypes DEF TypeOK
<1> QED
  BY <1>3, <1>9, <1>11, <1>12, <1>13, <1>14, <1>15, <1>16, <1>17, <1>18, TurnStep
     DEF TurnFacts

\* A renewed preference, a rewritten summary: the row is locked.
LEMMA InvRenews ==
  ASSUME Inv, NEW t \in Turns,
         Renew(t, "refresh", "episode") \/ Renew(t, "rewrite", "commit")
  PROVE  Inv'
<1> DEFINE m == turn[t].target
<1>1. TypeOK /\ \A u \in Turns : TurnFacts(u)
  BY DEF Inv, Facts
<1>2. turn \in [Turns -> Turn] /\ turn[t] \in Turn
  BY <1>1 DEF TypeOK
<1>3. /\ turn[t].pc \in {"refresh", "rewrite"} /\ rowLock' = [rowLock EXCEPT ![m] = t]
      /\ UNCHANGED <<rows, inserted, convLock, req, grants, live, begun, events, forgotten>>
  BY DEF Renew
<1>4. PICK to \in {"episode", "commit"} :
        turn' = [turn EXCEPT ![t].renewed = @ \cup {m}, ![t].target = None, ![t].pc = to]
  BY DEF Renew
<1>5. m \in Stored /\ m \in RowIds
  BY <1>1, <1>3 DEF TurnFacts, UpdateFacts, Stored
<1> DEFINE N == [turn[t] EXCEPT !.renewed = @ \cup {m}, !.target = None, !.pc = to]
<1>6. turn' = [turn EXCEPT ![t] = N]
  BY <1>2, <1>4
<1> HIDE DEF m
<1>7. /\ N \in Turn /\ N.pc = to /\ N.new = turn[t].new
      /\ N.pending = turn[t].pending /\ N.conv = turn[t].conv /\ N.company = turn[t].company
      /\ N.superseded = turn[t].superseded /\ N.by = turn[t].by
      /\ N.renewed = turn[t].renewed \cup {m}
  <2>1. None \in 0..MaxRows
    BY ConstantTypes DEF None
  <2> QED
    BY <1>2, <1>5, <2>1 DEF Turn
<1> HIDE DEF N
<1>8. /\ turn' \in [Turns -> Turn] /\ \A u \in Turns \ {t} : turn'[u] = turn[u]
      /\ turn'[t] = N
  BY <1>2, <1>6, <1>7
<1>9. rowLock' \in [RowIds -> Turns \cup {NoTurn}]
  BY <1>1, <1>3 DEF TypeOK
<1>10. TypeOK'
  BY <1>1, <1>3, <1>8, <1>9 DEF TypeOK
<1>11. Drafts(t)' = Drafts(t) /\ Stored' = Stored
  BY <1>3, <1>7, <1>8 DEF Drafts, Stored
<1>12. PhaseFacts(t)'
  BY <1>1, <1>3, <1>7, <1>8 DEF TurnFacts, PhaseFacts
<1>13. DraftFacts(t)'
  BY <1>1, <1>3, <1>11 DEF TurnFacts, DraftFacts
<1>14. UpdateFacts(t)'
  BY <1>1, <1>3, <1>5, <1>7, <1>8, <1>11 DEF TurnFacts, UpdateFacts, Succeeds
<1>15. SummaryFacts(t)'
  BY <1>1, <1>3, <1>7, <1>8 DEF TurnFacts, SummaryFacts
<1>16. \A u \in Turns : turn[u].pc \notin {"idle", "question"} => convLock'[turn[u].conv] = u
  BY <1>1, <1>3 DEF TurnFacts, PhaseFacts
<1>17. inserted' >= inserted
  BY <1>1, <1>3, ConstantTypes DEF TypeOK
<1> QED
  BY <1>3, <1>8, <1>10, <1>11, <1>12, <1>13, <1>14, <1>15, <1>16, <1>17, TurnStep
     DEF TurnFacts

-----------------------------------------------------------------------------
(***************************************************************************)
(* Steps that write rows.                                                  *)
(***************************************************************************)

\* Stored rows stay and keep what identifies them; no summary comes back.
Evolves ==
  \A m \in Stored :
    /\ m \in Stored' /\ SameRow(rows[m], rows'[m])
    /\ rows'[m].kind = "CONVERSATION_SUMMARY" /\ rows'[m].status = "ACTIVE" =>
         rows[m].status = "ACTIVE"

\* What the writes of others do to a turn: nothing, if they do not take its
\* numbers and do not summarise its conversation.
LEMMA OtherTurnWritten ==
  ASSUME NEW u \in Turns, TypeOK, TurnFacts(u), turn'[u] = turn[u], Evolves,
         inserted' \in Nat, inserted' >= inserted,
         turn[u].pc \notin {"idle", "question"} => convLock'[turn[u].conv] = u,
         \A p \in Drafts(u) : p.id \notin Stored',
         \A n \in Stored' \ Stored :
           turn[u].pc = "commit" /\ rows'[n].kind = "CONVERSATION_SUMMARY" =>
             rows'[n].conv # turn[u].conv
  PROVE  TurnFacts(u)' /\ Drafts(u)' = Drafts(u)
<1>1. Drafts(u)' = Drafts(u)
  BY DEF Drafts
<1>2. PhaseFacts(u)'
  BY DEF TurnFacts, PhaseFacts
<1>3. DraftFacts(u)'
  <2>1. inserted \in Nat /\ \A p \in Drafts(u) : p.id \in Nat
    BY TurnFields, ConstantTypes DEF TypeOK, RowIds
  <2> QED
    BY <1>1, <2>1 DEF TurnFacts, DraftFacts
<1>4. UpdateFacts(u)'
  <2>1. \A m \in Stored : /\ m \in Stored' /\ rows'[m].owner = rows[m].owner
                          /\ rows'[m].company = rows[m].company /\ rows'[m].key = rows[m].key
    BY DEF Evolves, SameRow
  <2>2. (turn[u].pc = "supersede" =>
           \E p \in Insertion : /\ turn[u].pending = {p} /\ ~IsSummary(p)
                                /\ Succeeds(p, turn[u].target))'
    BY <2>1 DEF TurnFacts, UpdateFacts, Succeeds
  <2>3. (turn[u].superseded # None =>
           /\ turn[u].superseded \in Stored
           /\ \E p \in turn[u].new : p.id = turn[u].by /\ Succeeds(p, turn[u].superseded))'
    BY <2>1 DEF TurnFacts, UpdateFacts, Succeeds
  <2>4. /\ turn[u].pc # "supersede" => turn[u].pending = {}
        /\ turn[u].pc \in {"supersede", "refresh", "rewrite"} => turn[u].target \in Stored'
        /\ turn[u].renewed \subseteq Stored'
    BY <2>1 DEF TurnFacts, UpdateFacts
  <2> QED
    BY <2>2, <2>3, <2>4 DEF UpdateFacts
<1>5. SummaryFacts(u)'
  <2>1. ASSUME NEW p \in turn[u].new, IsSummary(p)
        PROVE  SummariesFound(u)' = {}
    <3>1. turn[u].pc = "commit" /\ SummariesFound(u) = {}
      BY <2>1 DEF TurnFacts, SummaryFacts
    <3>2. UserOf(u)' = UserOf(u)
      BY DEF UserOf
    <3>3. SUFFICES ASSUME NEW n \in SummariesFound(u)'
                   PROVE  FALSE
      OBVIOUS
    <3>4. /\ n \in Stored' /\ rows'[n].kind = "CONVERSATION_SUMMARY"
          /\ rows'[n].owner = UserOf(u) /\ rows'[n].conv = turn[u].conv
          /\ rows'[n].status = "ACTIVE"
          /\ Workspace[rows'[n].company] = Workspace[turn[u].company]
      BY <3>2 DEF SummariesFound, SummariesOf
    <3>5. n \in Stored
      BY <3>1, <3>4
    <3>6. /\ rows[n].kind = "CONVERSATION_SUMMARY" /\ rows[n].owner = UserOf(u)
          /\ rows[n].conv = turn[u].conv /\ rows[n].status = "ACTIVE"
          /\ rows[n].company = rows'[n].company
      BY <3>4, <3>5 DEF Evolves, SameRow
    <3> QED
      BY <3>1, <3>4, <3>5, <3>6 DEF SummariesFound, SummariesOf
  <2> QED
    BY <2>1 DEF TurnFacts, SummaryFacts, IsSummary
<1> QED
  BY <1>1, <1>2, <1>3, <1>4, <1>5 DEF TurnFacts

\* One stored row is written: no summary comes back and no supersession
\* appears.
LEMMA UpdateStep ==
  ASSUME Inv, NEW m \in Stored, NEW s, rows' = [rows EXCEPT ![m] = s],
         SameRow(rows[m], s),
         s.status = "SUPERSEDED" => rows[m].status = "SUPERSEDED" /\ s.by = rows[m].by,
         rows[m].kind = "CONVERSATION_SUMMARY" =>
           s.status # "PENDING_CONFIRMATION" /\ (s.status = "ACTIVE" => rows[m].status = "ACTIVE"),
         forgotten' \subseteq forgotten \cup {m}, m \in forgotten' => s.deleted,
         req' \in [Requests -> Request],
         \A q \in Requests : req'[q].pc = "write" => req'[q] = req[q],
         events' \in 0..MaxEvents,
         UNCHANGED <<inserted, rowLock, convLock, turn, grants, live, begun>>
  PROVE  Inv'
<1>1. TypeOK /\ RowFacts /\ RequestFacts /\ ApartFacts /\ \A u \in Turns : TurnFacts(u)
  BY DEF Inv, Facts
<1>2. /\ rows \in [RowIds -> Row \cup {NoRow}] /\ m \in RowIds /\ rows[m] \in Row /\ s \in Row
      /\ inserted \in Nat
  BY <1>1, StoredRow, ConstantTypes DEF TypeOK, SameRow
<1>3. /\ rows' \in [RowIds -> Row \cup {NoRow}] /\ rows'[m] = s
      /\ \A n \in RowIds \ {m} : rows'[n] = rows[n]
  BY <1>2
<1>4. Stored' = Stored
  BY <1>2, <1>3, RowIsThere DEF Stored
<1>5. \A n \in Stored : n \in RowIds /\ rows[n] \in Row /\ n \in Nat
  BY <1>1, StoredRow
<1>6. \A n \in Stored : SameRow(rows[n], rows'[n])
  BY <1>3, <1>5, SameRowSelf
<1>7. Evolves
  BY <1>3, <1>4, <1>5, <1>6 DEF Evolves, SameRow
<1>8. TypeOK'
  <2>1. forgotten' \subseteq RowIds
    BY <1>1, <1>2 DEF TypeOK
  <2> QED
    BY <1>1, <1>3, <2>1 DEF TypeOK
<1>9. RowFacts'
  <2>1. ASSUME NEW n \in Stored
        PROVE  n <= inserted /\ Sound(rows'[n])
    <3>1. n <= inserted /\ Sound(rows[n]) /\ SameRow(rows[n], rows'[n])
      BY <1>1, <1>6 DEF RowFacts
    <3>2. rows'[n].kind = "CONVERSATION_SUMMARY" => rows'[n].status # "PENDING_CONFIRMATION"
      BY <1>3, <1>5, <3>1 DEF Sound, SameRow
    <3> QED
      BY <3>1, <3>2 DEF Sound, SameRow
  <2>2. SupersededBySuccessor'
    <3> SUFFICES ASSUME NEW n \in Stored, rows'[n].status = "SUPERSEDED"
                 PROVE  /\ rows'[n].by \in Stored /\ rows'[n].by > n
                        /\ rows'[rows'[n].by].owner = rows'[n].owner
                        /\ rows'[rows'[n].by].company = rows'[n].company
                        /\ rows'[rows'[n].by].key = rows'[n].key
      BY <1>4 DEF SupersededBySuccessor
    <3>1. rows[n].status = "SUPERSEDED" /\ rows'[n].by = rows[n].by
      BY <1>3, <1>5
    <3>2. /\ rows[n].by \in Stored /\ rows[n].by > n
          /\ rows[rows[n].by].owner = rows[n].owner
          /\ rows[rows[n].by].company = rows[n].company
          /\ rows[rows[n].by].key = rows[n].key
      BY <1>1, <3>1 DEF RowFacts, SupersededBySuccessor
    <3> QED
      BY <1>6, <3>1, <3>2 DEF SameRow
  <2>3. ASSUME NEW c \in Conversations, NEW w \in Workspaces,
               NEW n \in SummariesOf(Owner[c], c, w)'
        PROVE  n \in SummariesOf(Owner[c], c, w)
    <3>1. /\ n \in Stored /\ rows'[n].kind = "CONVERSATION_SUMMARY"
          /\ rows'[n].owner = Owner[c] /\ rows'[n].conv = c /\ rows'[n].status = "ACTIVE"
          /\ Workspace[rows'[n].company] = w
      BY <1>4, <2>3 DEF SummariesOf
    <3> QED
      BY <1>7, <3>1 DEF Evolves, SameRow, SummariesOf
  <2>4. \A n \in forgotten' : n \in Stored /\ rows'[n].deleted
    BY <1>1, <1>3, <1>5, <1>6 DEF RowFacts, SameRow
  <2> QED
    BY <1>1, <1>4, <2>1, <2>2, <2>3, <2>4 DEF RowFacts
<1>10. RequestFacts'
  BY <1>1, <1>4, <1>6 DEF RequestFacts, SameRow
<1>11. ASSUME NEW u \in Turns
       PROVE  TurnFacts(u)' /\ Drafts(u)' = Drafts(u)
  <2>1. \A p \in Drafts(u) : p.id \notin Stored'
    BY <1>1, <1>4 DEF TurnFacts, DraftFacts
  <2>2. turn[u].pc \notin {"idle", "question"} => convLock'[turn[u].conv] = u
    BY <1>1 DEF TurnFacts, PhaseFacts
  <2>3. inserted' \in Nat /\ inserted' >= inserted
    BY <1>2
  <2> QED
    BY <1>1, <1>4, <1>7, <2>1, <2>2, <2>3, OtherTurnWritten
<1>12. ApartFacts'
  BY <1>1, <1>11 DEF ApartFacts
<1> QED
  BY <1>8, <1>9, <1>10, <1>11, <1>12 DEF Inv, Facts

\* A request writes its row as it read it, whatever has happened since.
LEMMA InvWrites ==
  ASSUME Inv, NEW q \in Requests, Write(q)
  PROVE  Inv'
<1> DEFINE m == req[q].row
           s == IF req[q].op = "confirm" THEN Confirmed(rows[m]) ELSE Removed(rows[m])
<1>1. TypeOK /\ RowFacts /\ RequestFacts
  BY DEF Inv, Facts
<1>2. /\ req[q].pc = "write"
      /\ forgotten' = IF req[q].op = "confirm" THEN forgotten ELSE forgotten \cup {m}
      /\ req' = [req EXCEPT ![q] = NoRequestState]
      /\ UNCHANGED <<inserted, rowLock, convLock, turn, grants, live, begun, events>>
  BY DEF Write
<1>3. m \in Stored /\ (req[q].op = "confirm" => rows[m].kind # "CONVERSATION_SUMMARY")
  BY <1>1, <1>2 DEF RequestFacts
<1>4. rows[m] \in Row /\ m \in RowIds /\ rows \in [RowIds -> Row \cup {NoRow}]
  BY <1>1, <1>3, StoredRow DEF TypeOK
<1>5. rows' = [rows EXCEPT ![m] = s]
  BY <1>4 DEF Write
<1>6. /\ SameRow(rows[m], s) /\ s.status \in {"ACTIVE", "DELETED"}
      /\ s.status = "ACTIVE" => req[q].op = "confirm"
      /\ req[q].op # "confirm" => s.deleted
  <2>1. CASE req[q].op = "confirm"
    BY <1>4, <2>1, RowUpdates
  <2>2. CASE req[q].op # "confirm"
    BY <1>4, <2>2, RowUpdates
  <2> QED
    BY <2>1, <2>2
<1>7. /\ req' \in [Requests -> Request]
      /\ \A r \in Requests : req'[r].pc = "write" => req'[r] = req[r]
  <2>1. NoRequestState \in Request /\ NoRequestState.pc = "idle"
    BY ConstantTypes DEF NoRequestState, Request, None
  <2>2. req \in [Requests -> Request]
    BY <1>1 DEF TypeOK
  <2> QED
    BY <1>2, <2>1, <2>2
<1>8. m \in forgotten' => s.deleted
  BY <1>1, <1>2, <1>6 DEF RowFacts, SameRow
<1>9. events' \in 0..MaxEvents
  BY <1>1, <1>2 DEF TypeOK
<1>10. forgotten' \subseteq forgotten \cup {m}
  BY <1>2
<1> HIDE DEF s, m
<1> QED
  BY <1>2, <1>3, <1>5, <1>6, <1>7, <1>8, <1>9, <1>10, UpdateStep

\* Time passes.
LEMMA InvExpires ==
  ASSUME Inv, NEW m \in Stored, Expire(m)
  PROVE  Inv'
<1> DEFINE s == [rows[m] EXCEPT !.expired = TRUE]
<1>1. TypeOK /\ RowFacts
  BY DEF Inv, Facts
<1>2. /\ events < MaxEvents /\ events' = events + 1
      /\ UNCHANGED <<inserted, rowLock, convLock, turn, req, grants, live, begun, forgotten>>
  BY DEF Expire
<1>3. rows[m] \in Row /\ m \in RowIds /\ rows \in [RowIds -> Row \cup {NoRow}]
  BY <1>1, StoredRow DEF TypeOK
<1>4. rows' = [rows EXCEPT ![m] = s]
  BY <1>3 DEF Expire
<1>5. SameRow(rows[m], s) /\ s.status = rows[m].status /\ s.by = rows[m].by
  BY <1>3, RowUpdates
<1>6. req' \in [Requests -> Request] /\ events' \in 0..MaxEvents
  BY <1>1, <1>2, ConstantTypes DEF TypeOK
<1>7. m \in forgotten' => s.deleted
  BY <1>1, <1>2, <1>5 DEF RowFacts, SameRow
<1>8. rows[m].kind = "CONVERSATION_SUMMARY" => rows[m].status # "PENDING_CONFIRMATION"
  BY <1>1 DEF RowFacts, Sound
<1> HIDE DEF s
<1> QED
  BY <1>2, <1>4, <1>5, <1>6, <1>7, <1>8, UpdateStep

\* A request of the memory page reads the row it will write.
LEMMA InvAsks ==
  ASSUME Inv, NEW q \in Requests, NEW u \in Users,
         NEW op \in {"confirm", "dismiss", "delete"}, NEW m \in Stored, Ask(q, u, op, m)
  PROVE  Inv'
<1>1. TypeOK /\ RowFacts /\ RequestFacts /\ ApartFacts /\ \A t \in Turns : TurnFacts(t)
  BY DEF Inv, Facts
<1> DEFINE r == [pc |-> "write", op |-> op, row |-> m]
<1>2. /\ req' = [req EXCEPT ![q] = r]
      /\ op = "confirm" => rows[m].status = "PENDING_CONFIRMATION"
      /\ UNCHANGED <<rows, inserted, rowLock, convLock, turn, grants, live, begun, events, forgotten>>
  BY DEF Ask
<1>3. r \in Request
  BY <1>1, StoredRow, ConstantTypes DEF Request, RowIds
<1>4. req' \in [Requests -> Request] /\ req'[q] = r /\ \A p \in Requests \ {q} : req'[p] = req[p]
  BY <1>1, <1>2, <1>3 DEF TypeOK
<1>5. TypeOK'
  BY <1>1, <1>2, <1>4 DEF TypeOK
<1>6. Stored' = Stored /\ \A v, c, w : SummariesOf(v, c, w)' = SummariesOf(v, c, w)
  BY <1>2 DEF Stored, SummariesOf
<1>7. RowFacts'
  <2>1. SupersededBySuccessor'
    BY <1>1, <1>2, <1>6 DEF RowFacts, SupersededBySuccessor
  <2> QED
    BY <1>1, <1>2, <1>6, <2>1 DEF RowFacts
<1>8. RequestFacts'
  BY <1>1, <1>2, <1>4, <1>6 DEF RequestFacts, RowFacts, Sound
<1>9. ASSUME NEW t \in Turns
      PROVE  TurnFacts(t)' /\ Drafts(t)' = Drafts(t)
  <2>1. inserted' \in Nat /\ inserted' >= inserted
    BY <1>1, <1>2, ConstantTypes DEF TypeOK
  <2>2. turn[t].pc \notin {"idle", "question"} => convLock'[turn[t].conv] = t
    BY <1>1, <1>2 DEF TurnFacts, PhaseFacts
  <2> QED
    BY <1>1, <1>2, <2>1, <2>2, OtherTurn
<1>10. ApartFacts'
  BY <1>1, <1>9 DEF ApartFacts
<1> QED
  BY <1>5, <1>7, <1>8, <1>9, <1>10 DEF Inv, Facts

\* Retired documents, revoked grants and steps that change nothing.
LEMMA InvSurroundings ==
  ASSUME Inv, \/ \E c \in live : Retire(c)
              \/ \E u \in Users, w \in Workspaces, dept \in Departments : Revoke(u, w, dept)
              \/ UNCHANGED vars
  PROVE  Inv'
<1>1. TypeOK /\ RowFacts /\ RequestFacts /\ ApartFacts /\ \A t \in Turns : TurnFacts(t)
  BY DEF Inv, Facts
<1>2. UNCHANGED <<rows, inserted, rowLock, convLock, turn, req, begun, forgotten>>
  BY DEF Retire, Revoke, vars
<1>3. /\ events' \in 0..MaxEvents /\ live' \subseteq Chunks
      /\ grants' \in [Users -> SUBSET (Companies \X Departments)]
  BY <1>1, ConstantTypes DEF TypeOK, Retire, Revoke, vars
<1>4. TypeOK'
  BY <1>1, <1>2, <1>3 DEF TypeOK
<1>5. Stored' = Stored /\ \A v, c, w : SummariesOf(v, c, w)' = SummariesOf(v, c, w)
  BY <1>2 DEF Stored, SummariesOf
<1>6. RowFacts'
  <2>1. SupersededBySuccessor'
    BY <1>1, <1>2, <1>5 DEF RowFacts, SupersededBySuccessor
  <2> QED
    BY <1>1, <1>2, <1>5, <2>1 DEF RowFacts
<1>7. RequestFacts'
  BY <1>1, <1>2, <1>5 DEF RequestFacts
<1>8. ASSUME NEW t \in Turns
      PROVE  TurnFacts(t)' /\ Drafts(t)' = Drafts(t)
  <2>1. inserted' \in Nat /\ inserted' >= inserted
    BY <1>1, <1>2, ConstantTypes DEF TypeOK
  <2>2. turn[t].pc \notin {"idle", "question"} => convLock'[turn[t].conv] = t
    BY <1>1, <1>2 DEF TurnFacts, PhaseFacts
  <2> QED
    BY <1>1, <1>2, <2>1, <2>2, OtherTurn
<1>9. ApartFacts'
  BY <1>1, <1>8 DEF ApartFacts
<1> QED
  BY <1>4, <1>6, <1>7, <1>8, <1>9 DEF Inv, Facts

\* The memory page stores a row under a number nobody else has.
LEMMA InvCreates ==
  ASSUME Inv, NEW u \in Users, NEW b \in Companies, NEW scope \in Scopes,
         NEW chunks \in Manual, Create(u, b, scope, chunks)
  PROVE  Inv'
<1>1. TypeOK /\ RowFacts /\ RequestFacts /\ ApartFacts /\ \A t \in Turns : TurnFacts(t)
  BY DEF Inv, Facts
<1>2. /\ inserted < MaxRows /\ inserted' = inserted + 1 /\ Of(b, chunks)
      /\ UNCHANGED <<rowLock, convLock, turn, req, grants, live, begun, events, forgotten>>
  BY DEF Create, CanInsert, NextId
<1>3. PICK acl \in DeriveMemoryAcl(scope, Depts(chunks)) :
        rows' = [rows EXCEPT ![NextId] = CreatedRow(u, b, scope, chunks, acl)]
  BY DEF Create, CreatedRow
<1> DEFINE s == CreatedRow(u, b, scope, chunks, acl)
           k == inserted + 1
<1>4. s \in Row /\ Sound(s) /\ s.kind = "SEMANTIC" /\ s.status = "ACTIVE"
  BY <1>2, ConstantTypes, CreatedRowType
<1>5. inserted \in Nat /\ k \in RowIds /\ k \in Nat /\ k > inserted /\ inserted' \in 0..MaxRows
  BY <1>1, <1>2, ConstantTypes DEF TypeOK, RowIds
<1> HIDE DEF s
<1>6. /\ rows' \in [RowIds -> Row \cup {NoRow}] /\ rows'[k] = s
      /\ \A n \in RowIds \ {k} : rows'[n] = rows[n]
  BY <1>1, <1>3, <1>4, <1>5 DEF TypeOK, NextId, s
<1>7. \A n \in Stored : n \in RowIds /\ rows[n] \in Row /\ n \in Nat /\ n <= inserted /\ n # k
  BY <1>1, <1>5, StoredRow DEF RowFacts
<1>8. Stored' = Stored \cup {k}
  BY <1>4, <1>5, <1>6, RowIsThere DEF Stored
<1>9. \A n \in Stored : rows'[n] = rows[n]
  BY <1>6, <1>7
<1>10. Evolves
  BY <1>7, <1>8, <1>9, SameRowSelf DEF Evolves
<1>11. TypeOK'
  BY <1>1, <1>2, <1>5, <1>6 DEF TypeOK
<1> HIDE DEF k
<1>12. RowFacts'
  <2>1. \A n \in Stored' : n <= inserted' /\ Sound(rows'[n])
    BY <1>1, <1>2, <1>4, <1>5, <1>6, <1>7, <1>8, <1>9 DEF RowFacts, k
  <2>2. SupersededBySuccessor'
    <3> SUFFICES ASSUME NEW n \in Stored', rows'[n].status = "SUPERSEDED"
                 PROVE  /\ rows'[n].by \in Stored' /\ rows'[n].by > n
                        /\ rows'[rows'[n].by].owner = rows'[n].owner
                        /\ rows'[rows'[n].by].company = rows'[n].company
                        /\ rows'[rows'[n].by].key = rows'[n].key
      BY DEF SupersededBySuccessor
    <3>1. n \in Stored /\ rows[n].status = "SUPERSEDED" /\ rows'[n] = rows[n]
      BY <1>4, <1>6, <1>8, <1>9
    <3>2. /\ rows[n].by \in Stored /\ rows[n].by > n
          /\ rows[rows[n].by].owner = rows[n].owner
          /\ rows[rows[n].by].company = rows[n].company
          /\ rows[rows[n].by].key = rows[n].key
      BY <1>1, <3>1 DEF RowFacts, SupersededBySuccessor
    <3> QED
      BY <1>8, <1>9, <3>1, <3>2
  <2>3. \A v, c, w : SummariesOf(v, c, w)' = SummariesOf(v, c, w)
    BY <1>4, <1>6, <1>8, <1>9 DEF SummariesOf
  <2>4. \A n \in forgotten' : n \in Stored' /\ rows'[n].deleted
    BY <1>1, <1>2, <1>8, <1>9 DEF RowFacts
  <2> QED
    BY <1>1, <2>1, <2>2, <2>3, <2>4 DEF RowFacts
<1>13. RequestFacts'
  BY <1>1, <1>2, <1>8, <1>9 DEF RequestFacts
<1>14. ASSUME NEW t \in Turns
       PROVE  TurnFacts(t)' /\ Drafts(t)' = Drafts(t)
  <2>1. \A p \in Drafts(t) : p.id \notin Stored'
    <3>1. \A p \in Drafts(t) : p.id \in RowIds /\ p.id <= inserted /\ p.id \notin Stored
      BY <1>1, TurnFields DEF TurnFacts, DraftFacts
    <3> QED
      BY <1>5, <1>8, <3>1, ConstantTypes DEF RowIds
  <2>2. turn[t].pc \notin {"idle", "question"} => convLock'[turn[t].conv] = t
    BY <1>1, <1>2 DEF TurnFacts, PhaseFacts
  <2>3. inserted' \in Nat /\ inserted' >= inserted
    BY <1>2, <1>5
  <2>4. \A n \in Stored' \ Stored : rows'[n].kind # "CONVERSATION_SUMMARY"
    BY <1>4, <1>6, <1>8
  <2> QED
    BY <1>1, <1>2, <1>10, <2>1, <2>2, <2>3, <2>4, OtherTurnWritten
<1>15. ApartFacts'
  BY <1>1, <1>14 DEF ApartFacts
<1> QED
  BY <1>11, <1>12, <1>13, <1>14, <1>15 DEF Inv, Facts

\* What a commit makes of a row: a new one is as drafted, a stored one is
\* superseded, renewed or left, and the others stay absent.
LEMMA CommitEffect ==
  ASSUME Inv, NEW t \in Turns, Commit(t)
  PROVE  /\ rows' \in [RowIds -> Row \cup {NoRow}]
         /\ \A p \in turn[t].new : rows'[p.id] = p.row
         /\ \A m \in Stored : rows'[m] \in Row /\ SameRow(rows[m], rows'[m])
         /\ \A m \in Stored :
              \/ rows'[m].status = rows[m].status /\ rows'[m].by = rows[m].by
              \/ /\ m = turn[t].superseded
                 /\ rows'[m].status = "SUPERSEDED" /\ rows'[m].by = turn[t].by
         /\ Stored' = Stored \cup {p.id : p \in turn[t].new}
<1> DEFINE new == turn[t].new
           old == turn[t].superseded
           n == turn[t].by
<1>1. TypeOK /\ TurnFacts(t)
  BY DEF Inv, Facts
<1>2. rows' = [m \in RowIds |-> Written(t, m)]
  BY DEF Commit
<1>3. /\ \A p \in new : p.id \in RowIds /\ p.row \in Row /\ p.id \notin Stored
      /\ \A p, q \in new : p.id = q.id => p = q
  BY <1>1, TurnFields DEF TurnFacts, DraftFacts, Drafts
<1>4. /\ n \in 0..MaxRows /\ old \in 0..MaxRows
      /\ old # None => old \in Stored
      /\ turn[t].renewed \subseteq Stored
  BY <1>1, TurnFields DEF TurnFacts, UpdateFacts
<1>5. \A m \in Stored : m \in RowIds /\ m # None /\ rows[m] \in Row
  BY <1>1, StoredRow DEF None
<1>6. ASSUME NEW p \in new
      PROVE  Written(t, p.id) = p.row
  <2>1. (CHOOSE q \in new : q.id = p.id) = p
    BY <1>3
  <2>2. p.id # old /\ p.id \notin turn[t].renewed
    BY <1>3, <1>4, ConstantTypes DEF None, RowIds
  <2>3. \E q \in new : q.id = p.id
    OBVIOUS
  <2> QED
    BY <2>1, <2>2, <2>3 DEF Written
<1>7. ASSUME NEW m \in RowIds, \A p \in new : p.id # m
      PROVE  \/ m = old /\ Written(t, m) = [rows[m] EXCEPT !.status = "SUPERSEDED", !.by = n]
             \/ m \in turn[t].renewed /\ Written(t, m) = [rows[m] EXCEPT !.expired = FALSE]
             \/ Written(t, m) = rows[m]
  BY <1>7 DEF Written
<1>8. ASSUME NEW m \in Stored
      PROVE  /\ rows'[m] \in Row /\ SameRow(rows[m], rows'[m])
             /\ \/ rows'[m].status = rows[m].status /\ rows'[m].by = rows[m].by
                \/ m = old /\ rows'[m].status = "SUPERSEDED" /\ rows'[m].by = n
  <2>1. m \in RowIds /\ rows[m] \in Row /\ SameRow(rows[m], rows[m])
    BY <1>5, SameRowSelf
  <2>2. rows'[m] = Written(t, m) /\ \A p \in new : p.id # m
    BY <1>2, <1>3, <2>1
  <2>3. PICK r \in Row, b \in 0..MaxRows : r = rows[m] /\ b = n
    BY <1>4, <2>1
  <2>4. PICK s : s = [r EXCEPT !.status = "SUPERSEDED", !.by = b]
    OBVIOUS
  <2>5. PICK e : e = [r EXCEPT !.expired = FALSE]
    OBVIOUS
  <2>6. SameRow(r, s) /\ s.status = "SUPERSEDED" /\ s.by = b
    BY <2>4 DEF Row, SameRow, Statuses
  <2>7. SameRow(r, e) /\ e.status = r.status /\ e.by = r.by
    BY <2>5 DEF Row, SameRow
  <2>8. CASE m = old /\ rows'[m] = [rows[m] EXCEPT !.status = "SUPERSEDED", !.by = n]
    BY <2>3, <2>4, <2>6, <2>8, Zenon DEF SameRow
  <2>9. CASE rows'[m] = [rows[m] EXCEPT !.expired = FALSE]
    BY <2>3, <2>5, <2>7, <2>9, Zenon DEF SameRow
  <2>10. CASE rows'[m] = rows[m]
    BY <2>1, <2>10
  <2> QED
    BY <1>7, <2>1, <2>2, <2>8, <2>9, <2>10
<1>9. ASSUME NEW m \in RowIds, m \notin Stored, \A p \in new : p.id # m
      PROVE  rows'[m] = NoRow
  <2>1. m # old /\ m \notin turn[t].renewed
    BY <1>4, <1>9, ConstantTypes DEF None, RowIds
  <2>2. rows[m] = NoRow
    BY <1>9 DEF Stored
  <2> QED
    BY <1>2, <1>7, <1>9, <2>1, <2>2
<1>10. \A p \in new : rows'[p.id] = p.row
  BY <1>2, <1>3, <1>6
<1>11. rows' \in [RowIds -> Row \cup {NoRow}]
  <2>1. ASSUME NEW m \in RowIds
        PROVE  rows'[m] \in Row \cup {NoRow}
    BY <1>3, <1>8, <1>9, <1>10
  <2> QED
    BY <1>2, <2>1
<1>12. Stored' = Stored \cup {p.id : p \in new}
  BY <1>3, <1>5, <1>8, <1>9, <1>10, RowIsThere DEF Stored
<1> QED
  BY <1>8, <1>10, <1>11, <1>12

\* A turn commits its draft.  It holds its conversation, so that no other turn
\* commits a summary of it, and brings the successor of what it supersedes.
LEMMA InvCommits ==
  ASSUME Inv, NEW t \in Turns, Commit(t)
  PROVE  Inv'
<1>1. TypeOK /\ RowFacts /\ RequestFacts /\ ApartFacts /\ \A u \in Turns : TurnFacts(u)
  BY DEF Inv, Facts
<1>2. /\ turn[t].pc = "commit" /\ Unlock(t) /\ turn' = [turn EXCEPT ![t] = NoTurnState]
      /\ UNCHANGED <<inserted, req, grants, live, begun, events, forgotten>>
  BY DEF Commit
<1>3. /\ rows' \in [RowIds -> Row \cup {NoRow}]
      /\ \A p \in turn[t].new : rows'[p.id] = p.row
      /\ \A m \in Stored : SameRow(rows[m], rows'[m])
      /\ \A m \in Stored :
           \/ rows'[m].status = rows[m].status /\ rows'[m].by = rows[m].by
           \/ /\ m = turn[t].superseded
              /\ rows'[m].status = "SUPERSEDED" /\ rows'[m].by = turn[t].by
      /\ Stored' = Stored \cup {p.id : p \in turn[t].new}
  BY CommitEffect
<1>4. turn \in [Turns -> Turn]
  BY <1>1 DEF TypeOK
<1>5. turn'[t] = NoTurnState /\ \A u \in Turns \ {t} : turn'[u] = turn[u]
  BY <1>2, <1>4
<1>6. TurnFacts(t)' /\ Drafts(t)' = {} /\ NoTurnState \in Turn
  BY <1>5, IdleFacts
<1>7. turn' \in [Turns -> Turn]
  BY <1>2, <1>4, <1>6
<1>8. /\ rowLock' \in [RowIds -> Turns \cup {NoTurn}]
      /\ convLock' \in [Conversations -> Turns \cup {NoTurn}]
      /\ \A u \in Turns \ {t} :
           turn[u].pc \notin {"idle", "question"} => convLock'[turn[u].conv] = u
  BY <1>1, <1>2, UnlockEffect
<1>9. TypeOK'
  BY <1>1, <1>2, <1>3, <1>7, <1>8 DEF TypeOK
<1>10. Evolves
  BY <1>3 DEF Evolves
<1>11. \A p \in turn[t].new : /\ p.id <= inserted /\ p.id \notin Stored /\ Sound(p.row)
                              /\ p.row.status \in {"ACTIVE", "PENDING_CONFIRMATION"}
  BY <1>1 DEF TurnFacts, DraftFacts, Drafts
<1>12. \A p \in turn[t].new : IsSummary(p) =>
         /\ p.row.conv = turn[t].conv /\ p.row.company = turn[t].company
         /\ SummariesFound(t) = {}
  BY <1>1 DEF TurnFacts, SummaryFacts
<1>13. RowFacts'
  <2>1. \A m \in Stored' : m <= inserted' /\ Sound(rows'[m])
    <3>1. ASSUME NEW m \in Stored
          PROVE  m <= inserted /\ Sound(rows'[m])
      <4>1. m <= inserted /\ Sound(rows[m]) /\ SameRow(rows[m], rows'[m])
        BY <1>1, <1>3 DEF RowFacts
      <4>2. rows'[m].kind = "CONVERSATION_SUMMARY" => rows'[m].status # "PENDING_CONFIRMATION"
        BY <1>3, <4>1 DEF Sound, SameRow
      <4> QED
        BY <4>1, <4>2 DEF Sound, SameRow
    <3> QED
      BY <1>2, <1>3, <1>11, <3>1
  <2>2. SupersededBySuccessor'
    <3> SUFFICES ASSUME NEW m \in Stored', rows'[m].status = "SUPERSEDED"
                 PROVE  /\ rows'[m].by \in Stored' /\ rows'[m].by > m
                        /\ rows'[rows'[m].by].owner = rows'[m].owner
                        /\ rows'[rows'[m].by].company = rows'[m].company
                        /\ rows'[rows'[m].by].key = rows'[m].key
      BY DEF SupersededBySuccessor
    <3>1. /\ m \in Stored /\ rows'[m].owner = rows[m].owner
          /\ rows'[m].company = rows[m].company /\ rows'[m].key = rows[m].key
      BY <1>3, <1>11 DEF SameRow
    <3>2. CASE rows'[m].status = rows[m].status /\ rows'[m].by = rows[m].by
      <4>1. /\ rows[m].by \in Stored /\ rows[m].by > m
            /\ rows[rows[m].by].owner = rows[m].owner
            /\ rows[rows[m].by].company = rows[m].company
            /\ rows[rows[m].by].key = rows[m].key
        BY <1>1, <3>1, <3>2 DEF RowFacts, SupersededBySuccessor
      <4>2. /\ rows'[rows[m].by].owner = rows[rows[m].by].owner
            /\ rows'[rows[m].by].company = rows[rows[m].by].company
            /\ rows'[rows[m].by].key = rows[rows[m].by].key
        BY <1>3, <4>1 DEF SameRow
      <4> QED
        BY <1>3, <3>1, <3>2, <4>1, <4>2
    <3>3. CASE m = turn[t].superseded /\ rows'[m].by = turn[t].by
      <4>1. m # None
        BY <1>1, <3>1, StoredRow DEF None
      <4>2. PICK p \in turn[t].new : p.id = turn[t].by /\ Succeeds(p, m)
        BY <1>1, <3>3, <4>1 DEF TurnFacts, UpdateFacts
      <4> QED
        BY <1>3, <3>1, <3>3, <4>2 DEF Succeeds
    <3> QED
      BY <1>3, <3>1, <3>2, <3>3
  <2>3. ASSUME NEW c \in Conversations, NEW w \in Workspaces,
               NEW m \in SummariesOf(Owner[c], c, w)'
        PROVE  \/ m \in SummariesOf(Owner[c], c, w)
               \/ \E p \in turn[t].new : /\ p.id = m /\ IsSummary(p) /\ turn[t].conv = c
                                         /\ Workspace[turn[t].company] = w
    <3>1. /\ m \in Stored' /\ rows'[m].kind = "CONVERSATION_SUMMARY"
          /\ rows'[m].owner = Owner[c] /\ rows'[m].conv = c /\ rows'[m].status = "ACTIVE"
          /\ Workspace[rows'[m].company] = w
      BY <2>3 DEF SummariesOf
    <3>2. CASE m \in Stored
      BY <1>10, <3>1, <3>2 DEF Evolves, SameRow, SummariesOf
    <3>3. CASE m \notin Stored
      <4>1. PICK p \in turn[t].new : p.id = m
        BY <1>3, <3>1, <3>3
      <4>2. rows'[m] = p.row
        BY <1>3, <4>1
      <4>3. IsSummary(p)
        BY <3>1, <4>2 DEF IsSummary
      <4> QED
        BY <1>12, <3>1, <4>1, <4>2, <4>3
    <3> QED
      BY <3>2, <3>3
  <2>4. ASSUME NEW c \in Conversations, NEW w \in Workspaces,
               NEW m \in SummariesOf(Owner[c], c, w)', NEW n \in SummariesOf(Owner[c], c, w)'
        PROVE  m = n
    <3>1. CASE m \in SummariesOf(Owner[c], c, w) /\ n \in SummariesOf(Owner[c], c, w)
      BY <1>1, <3>1 DEF RowFacts
    <3>2. CASE \E p \in turn[t].new : /\ IsSummary(p) /\ turn[t].conv = c
                                     /\ Workspace[turn[t].company] = w
      <4>1. SummariesOf(Owner[c], c, w) = {}
        BY <1>12, <3>2 DEF UserOf, SummariesFound
      <4>2. \A p, q \in turn[t].new : IsSummary(p) /\ IsSummary(q) => p = q
        BY <1>1 DEF TurnFacts, SummaryFacts
      <4> QED
        BY <2>3, <4>1, <4>2
    <3> QED
      BY <2>3, <3>1, <3>2
  <2>5. \A m \in forgotten' : m \in Stored' /\ rows'[m].deleted
    BY <1>1, <1>2, <1>3 DEF RowFacts, SameRow
  <2> QED
    BY <2>1, <2>2, <2>4, <2>5 DEF RowFacts
<1>14. RequestFacts'
  BY <1>1, <1>2, <1>3 DEF RequestFacts, SameRow
<1>15. ASSUME NEW u \in Turns \ {t}
       PROVE  TurnFacts(u)' /\ Drafts(u)' = Drafts(u)
  <2>1. \A p \in Drafts(u) : p.id \notin Stored'
    <3>1. \A p \in Drafts(u) : p.id \notin Stored
      BY <1>1 DEF TurnFacts, DraftFacts
    <3>2. \A p \in Drafts(u), q \in turn[t].new : p.id # q.id
      BY <1>1 DEF ApartFacts, Drafts
    <3> QED
      BY <1>3, <3>1, <3>2
  <2>2. ASSUME NEW n \in Stored' \ Stored, turn[u].pc = "commit",
               rows'[n].kind = "CONVERSATION_SUMMARY"
        PROVE  rows'[n].conv # turn[u].conv
    <3>1. PICK p \in turn[t].new : p.id = n /\ rows'[n] = p.row
      BY <1>3
    <3>2. p.row.conv = turn[t].conv
      BY <1>12, <2>2, <3>1 DEF IsSummary
    <3>3. convLock[turn[t].conv] = t /\ convLock[turn[u].conv] = u
      BY <1>1, <1>2, <2>2 DEF TurnFacts, PhaseFacts
    <3> QED
      BY <3>1, <3>2, <3>3
  <2>3. inserted' \in Nat /\ inserted' >= inserted
    BY <1>1, <1>2, ConstantTypes DEF TypeOK
  <2> QED
    BY <1>1, <1>5, <1>8, <1>10, <2>1, <2>2, <2>3, OtherTurnWritten
<1>16. ApartFacts'
  <2>1. \A u, v \in Turns \ {t} : u # v =>
          \A p \in Drafts(u), q \in Drafts(v) : p.id # q.id
    BY <1>1 DEF ApartFacts
  <2> QED
    BY <1>6, <1>15, <2>1 DEF ApartFacts
<1> QED
  BY <1>6, <1>9, <1>13, <1>14, <1>15, <1>16 DEF Inv, Facts

-----------------------------------------------------------------------------
(***************************************************************************)
(* The theorems.                                                           *)
(***************************************************************************)

\* Before the first turn the rows are preferences in force or pending.
LEMMA InvInit ==
  Init => Inv
<1> SUFFICES ASSUME Init PROVE Inv
  OBVIOUS
<1> DEFINE Made == {PrivateRow(u, k, "SEMANTIC", status, key, content, c) :
                      u \in Users, k \in Companies, status \in {"ACTIVE", "PENDING_CONFIRMATION"},
                      key \in Keys, content \in Contents, c \in Conversations}
<1>1. /\ rows = [m \in RowIds |-> IF m <= Len(Earlier) THEN Earlier[m] ELSE NoRow]
      /\ inserted = Len(Earlier) /\ rowLock = [m \in RowIds |-> NoTurn]
      /\ convLock = [c \in Conversations |-> NoTurn]
      /\ turn = [t \in Turns |-> NoTurnState] /\ req = [q \in Requests |-> NoRequestState]
      /\ grants = InitialGrants /\ live = Chunks /\ begun = 0 /\ events = 0 /\ forgotten = {}
  BY DEF Init
<1>2. ASSUME NEW r \in Made
      PROVE  r \in Row /\ Sound(r) /\ r.kind = "SEMANTIC" /\ r.status # "SUPERSEDED"
  <2>1. PICK u \in Users, k \in Companies, status \in {"ACTIVE", "PENDING_CONFIRMATION"},
             key \in Keys, content \in Contents, c \in Conversations :
               r = PrivateRow(u, k, "SEMANTIC", status, key, content, c)
    OBVIOUS
  <2>2. c \in Conversations \cup {NoConversation}
    OBVIOUS
  <2> QED
    BY <2>1, <2>2, PreferenceRowType
<1>3. Earlier \in Seq(Made) /\ Len(Earlier) <= MaxRows
  BY EarlierAssumption
<1> HIDE DEF Made
<1>4. Len(Earlier) \in Nat /\ \A m \in 1..Len(Earlier) : Earlier[m] \in Made
  BY <1>3
<1>5. \A m \in RowIds : rows[m] = NoRow \/ (rows[m] \in Made /\ m <= Len(Earlier))
  BY <1>1, <1>4, ConstantTypes DEF RowIds
<1>6. TypeOK
  <2>1. rows \in [RowIds -> Row \cup {NoRow}]
    BY <1>1, <1>2, <1>5
  <2>2. NoTurnState \in Turn /\ NoRequestState \in Request
    BY ConstantTypes DEF NoTurnState, NoRequestState, Turn, Request, None
  <2>3. inserted \in 0..MaxRows /\ begun \in 0..MaxTurns /\ events \in 0..MaxEvents
    BY <1>1, <1>3, <1>4, ConstantTypes
  <2>4. grants \in [Users -> SUBSET (Companies \X Departments)]
    BY <1>1, MemoryAssumption
  <2> QED
    BY <1>1, <2>1, <2>2, <2>3, <2>4 DEF TypeOK
<1>7. \A m \in Stored : /\ m <= inserted /\ Sound(rows[m]) /\ rows[m].kind = "SEMANTIC"
                        /\ rows[m].status # "SUPERSEDED"
  BY <1>1, <1>2, <1>5 DEF Stored
<1>8. RowFacts
  BY <1>1, <1>7 DEF RowFacts, SupersededBySuccessor, SummariesOf
<1>9. RequestFacts
  BY <1>1 DEF RequestFacts, NoRequestState
<1>10. \A t \in Turns : turn[t] = NoTurnState
  BY <1>1
<1>11. ASSUME NEW t \in Turns
       PROVE  TurnFacts(t) /\ Drafts(t) = {}
  <2>1. Drafts(t) = {}
    BY <1>10 DEF Drafts, NoTurnState
  <2>2. PhaseFacts(t) /\ UpdateFacts(t) /\ SummaryFacts(t)
    BY <1>10 DEF PhaseFacts, UpdateFacts, SummaryFacts, NoTurnState
  <2> QED
    BY <2>1, <2>2 DEF TurnFacts, DraftFacts
<1>12. ApartFacts
  BY <1>11 DEF ApartFacts
<1> QED
  BY <1>6, <1>8, <1>9, <1>11, <1>12 DEF Inv, Facts

\* Every step keeps the invariant.
LEMMA InvNext ==
  Inv /\ [Next]_vars => Inv'
<1> SUFFICES ASSUME Inv, [Next]_vars PROVE Inv'
  OBVIOUS
<1>1. ASSUME NEW t \in Turns, Step(t)
      PROVE  Inv'
  <2>1. ASSUME NEW p \in Candidates, ExtractNew(t, p) \/ ExtractSame(t, p)
        PROVE  Inv'
    BY <2>1, InvExtracts, InvReads
  <2>2. ASSUME NEW chunks \in EpisodeCites, CreateEpisode(t, chunks)
        PROVE  Inv'
    BY <2>2, InvEpisodes
  <2>3. CASE Question(t) \/ TouchNext(t)
    BY <2>3, InvQuestions, InvTouches
  <2>4. CASE ExtractNothing(t) \/ NoEpisode(t) \/ NoSummary(t)
    BY <2>4, InvSkips
  <2>5. CASE Supersede(t) \/ Renew(t, "refresh", "episode") \/ Renew(t, "rewrite", "commit")
    BY <2>5, InvSupersedes, InvRenews
  <2>6. CASE NewSummary(t)
    BY <2>6, InvSummarises
  <2>7. CASE RewriteSummary(t)
    BY <2>7, InvReads
  <2>8. CASE Commit(t)
    BY <2>8, InvCommits
  <2>9. CASE GiveUp(t)
    BY <2>9, InvGivesUp
  <2> QED
    BY <1>1, <2>1, <2>2, <2>3, <2>4, <2>5, <2>6, <2>7, <2>8, <2>9 DEF Step
<1>2. ASSUME NEW t \in Turns, Abort(t)
      PROVE  Inv'
  BY <1>2, InvAborts
<1>3. ASSUME NEW t \in Turns, NEW c \in Conversations, NEW k \in Companies,
             NEW touched \in SUBSET Stored, Begin(t, c, k, touched)
      PROVE  Inv'
  BY <1>3, InvBegins
<1>4. ASSUME NEW u \in Users, NEW k \in Companies, NEW scope \in Scopes,
             NEW chunks \in Manual, Create(u, k, scope, chunks)
      PROVE  Inv'
  BY <1>4, InvCreates
<1>5. ASSUME NEW q \in Requests, NEW u \in Users, NEW op \in {"confirm", "dismiss", "delete"},
             NEW m \in Stored, Ask(q, u, op, m)
      PROVE  Inv'
  BY <1>5, InvAsks
<1>6. ASSUME NEW q \in Requests, Write(q)
      PROVE  Inv'
  BY <1>6, InvWrites
<1>7. ASSUME NEW m \in Stored, Expire(m)
      PROVE  Inv'
  BY <1>7, InvExpires
<1>8. CASE \/ \E c \in live : Retire(c)
           \/ \E u \in Users, w \in Workspaces, dept \in Departments : Revoke(u, w, dept)
           \/ UNCHANGED vars
  BY <1>8, InvSurroundings
<1> QED
  BY <1>1, <1>2, <1>3, <1>4, <1>5, <1>6, <1>7, <1>8 DEF Next

\* The invariant holds in every reachable state.
LEMMA MemoryInvariant ==
  Spec => []Inv
<1>1. Init => Inv
  BY InvInit
<1>2. Inv /\ [Next]_vars => Inv'
  BY InvNext
<1> QED
  BY <1>1, <1>2, PTL DEF Spec

\* The state of memories, turns and requests keeps its types.
THEOREM MemoryTypes ==
  Spec => []TypeOK
<1>1. Inv => TypeOK
  BY DEF Inv
<1> QED
  BY <1>1, MemoryInvariant, PTL

\* A memory whose owner was told that it is deleted is never visible again,
\* whatever the turns and requests that read it before still write.
THEOREM ForgottenForGood ==
  Spec => []ForgottenStays
<1>1. Inv => ForgottenStays
  BY DEF Inv, Facts, RowFacts, ForgottenStays, Visible
<1> QED
  BY <1>1, MemoryInvariant, PTL

\* A superseded preference has its successor, with any number of turns that
\* supersede the same rows, deadlock and fail.
THEOREM SupersessionsWhole ==
  Spec => []SupersededBySuccessor
<1>1. Inv => SupersededBySuccessor
  BY DEF Inv, Facts, RowFacts
<1> QED
  BY <1>1, MemoryInvariant, PTL

\* Who passes the scope clause of a memory may query the companies and the
\* departments of all its sources, for any documents and any history of grants.
THEOREM AclsFollow ==
  Spec => []AclFollowsSources
<1>1. ASSUME Inv, NEW m \in Stored, NEW u \in Users, ScopeClause(u, rows[m]),
             NEW c \in rows[m].sources
      PROVE  Area(c) \in grants[u]
  <2>1. Of(rows[m].company, rows[m].sources) /\ Depts(rows[m].sources) \subseteq {rows[m].dept}
    BY <1>1 DEF Inv, Facts, RowFacts, Sound
  <2>2. Company[c] = rows[m].company /\ Department[c] = rows[m].dept
    BY <1>1, <2>1 DEF Of, Depts
  <2> QED
    BY <1>1, <2>2 DEF ScopeClause, Area
<1>2. Inv => AclFollowsSources
  BY <1>1 DEF AclFollowsSources
<1> QED
  BY <1>2, MemoryInvariant, PTL

\* A conversation has at most one summary in force in each workspace, for any
\* companies, and any number of turns and requests at the same time.
THEOREM SummariesUnique ==
  Spec => []OneSummary
<1>1. ASSUME NEW S, \A m, n \in S : m = n
      PROVE  Cardinality(S) <= 1
  <2>1. CASE S = {}
    BY <2>1, FS_EmptySet
  <2>2. CASE S # {}
    <3>1. PICK m : S = {m}
      BY <1>1, <2>2
    <3>2. Cardinality({m}) = 1
      BY FS_Singleton
    <3> QED
      BY <3>1, <3>2
  <2> QED
    BY <2>1, <2>2
<1>2. Inv => OneSummary
  BY <1>1 DEF Inv, Facts, RowFacts, OneSummary
<1> QED
  BY <1>2, MemoryInvariant, PTL
=============================================================================
