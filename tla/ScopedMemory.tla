---------------------------- MODULE ScopedMemory ----------------------------
(***************************************************************************)
(* Memories of users (memory/service.py, memory/repository.py): the chat   *)
(* turns that read, extract, supersede and summarise them inside their own *)
(* transaction, and the requests that create, confirm, dismiss and delete  *)
(* them.                                                                   *)
(*                                                                         *)
(* A turn reads committed rows, keeps what it writes in its draft and      *)
(* holds the locks of the rows it has updated until it commits.  Updates   *)
(* write the changed columns of a row, whatever has happened to the row    *)
(* since it was read.                                                      *)
(***************************************************************************)
EXTENDS Naturals, Sequences, FiniteSets, FiniteSetsExt

CONSTANTS
  Users,
  Conversations,
  Owner,        \* the user of each conversation
  Companies,
  Workspace,    \* the workspace (tenant) of each company
  InitialGrants, \* companies and their departments each user may query
  Chunks,       \* document chunks memories may cite
  Company, Department, \* of each chunk
  Candidates,   \* what the extractor may propose: [key, content, explicit]
  EpisodeCites, \* sets of chunks the answer of a turn may cite
  Summarises,   \* whether the conversations are long enough for a summary
  Manual,       \* sets of chunks a user may save a memory from
  Earlier,      \* preferences stored by earlier turns
  Turns,        \* chat turns at work at the same time
  Requests,     \* requests of the memory page at work at the same time
  MaxRows,      \* bound: rows ever inserted
  MaxTurns,     \* bound: turns ever begun
  MaxEvents,    \* bound: aborted turns, expired rows, retired chunks, revoked grants
  NoUser, NoConversation, NoCompany, NoTurn, NoKey

Departments == {"finance", "legal", "shared"}
Scopes == {"PRIVATE_USER", "FINANCE", "LEGAL", "SHARED"}
Statuses == {"PENDING_CONFIRMATION", "ACTIVE", "SUPERSEDED", "DELETED"}
Workspaces == {Workspace[k] : k \in Companies}
Keys == {c.key : c \in Candidates}
Contents == {c.content : c \in Candidates}

ASSUME MemoryAssumption ==
  /\ Owner \in [Conversations -> Users]
  /\ InitialGrants \in [Users -> SUBSET (Companies \X Departments)]
  /\ Company \in [Chunks -> Companies]
  /\ Department \in [Chunks -> Departments]
  /\ EpisodeCites \subseteq SUBSET Chunks
  /\ Manual \subseteq SUBSET Chunks
  /\ Summarises \in BOOLEAN
  /\ MaxRows \in Nat /\ MaxTurns \in Nat /\ MaxEvents \in Nat
  /\ NoUser \notin Users /\ NoConversation \notin Conversations
  /\ NoCompany \notin Companies
  /\ NoTurn \notin Turns /\ NoKey \notin Keys

VARIABLES
  rows,      \* memories with their memory_sources, committed
  inserted,  \* rows given out so far
  rowLock,   \* the turn that has updated a row
  convLock,  \* the turn that has updated a conversation
  turn,      \* chat turns
  req,       \* requests of the memory page
  grants,    \* companies and their departments a user may query
  live,      \* chunks of the approved versions
  begun, events,
  \* history variable, read by the properties only
  forgotten  \* rows whose owner was told that they are deleted

vars == <<rows, inserted, rowLock, convLock, turn, req, grants, live, begun, events, forgotten>>

RowIds == 1..MaxRows
None == 0

Row == [kind : {"SEMANTIC", "EPISODIC", "CONVERSATION_SUMMARY"},
        scope : Scopes, creator : Users, owner : Users \cup {NoUser},
        company : Companies, dept : Departments, status : Statuses,
        key : Keys \cup {NoKey}, content : Contents \cup {NoKey},
        conv : Conversations \cup {NoConversation}, sources : SUBSET Chunks,
        by : 0..MaxRows, deleted : BOOLEAN, expired : BOOLEAN]
NoRow == [kind |-> "none"]

\* _base_private_memory
PrivateRow(u, k, kind, status, key, content, c) ==
  [kind |-> kind, scope |-> "PRIVATE_USER", creator |-> u, owner |-> u,
   company |-> k, dept |-> "shared", status |-> status, key |-> key, content |-> content, conv |-> c, sources |-> {},
   by |-> None, deleted |-> FALSE, expired |-> FALSE]

\* What earlier turns have extracted, and nobody has superseded or deleted.
ASSUME EarlierAssumption ==
  /\ Earlier \in Seq({PrivateRow(u, k, "SEMANTIC", status, key, content, c) :
                        u \in Users, k \in Companies, status \in {"ACTIVE", "PENDING_CONFIRMATION"},
                        key \in Keys, content \in Contents, c \in Conversations})
  /\ Len(Earlier) <= MaxRows

Insertion == [id : RowIds, row : Row]

\* company is the one company of the turn's evidence.  new, superseded and renewed are
\* what the turn's transaction will commit; pending
\* and target are the insertion and the update of its current savepoint.
Turn == [pc : {"idle", "question", "touch", "extract", "supersede", "refresh", "episode",
               "summary", "rewrite", "commit"},
         conv : Conversations \cup {NoConversation},
         company : Companies \cup {NoCompany}, todo : SUBSET RowIds,
         pending : SUBSET Insertion, target : 0..MaxRows,
         new : SUBSET Insertion, superseded : 0..MaxRows, by : 0..MaxRows,
         renewed : SUBSET RowIds]
NoTurnState == [pc |-> "idle", conv |-> NoConversation, company |-> NoCompany, todo |-> {},
                pending |-> {}, target |-> None, new |-> {}, superseded |-> None, by |-> None, renewed |-> {}]

Request == [pc : {"idle", "write"}, op : {"none", "confirm", "dismiss", "delete"},
            row : 0..MaxRows]
NoRequestState == [pc |-> "idle", op |-> "none", row |-> None]

TypeOK ==
  /\ rows \in [RowIds -> Row \cup {NoRow}]
  /\ inserted \in 0..MaxRows
  /\ rowLock \in [RowIds -> Turns \cup {NoTurn}]
  /\ convLock \in [Conversations -> Turns \cup {NoTurn}]
  /\ turn \in [Turns -> Turn]
  /\ req \in [Requests -> Request]
  /\ grants \in [Users -> SUBSET (Companies \X Departments)]
  /\ live \subseteq Chunks
  /\ begun \in 0..MaxTurns
  /\ events \in 0..MaxEvents
  /\ forgotten \subseteq RowIds
-----------------------------------------------------------------------------
(***************************************************************************)
(* Who sees a memory.                                                      *)
(***************************************************************************)
Stored == {m \in RowIds : rows[m] # NoRow}

\* A grant names companies and departments: what it opens and what a chunk lies in.
Area(c) == <<Company[c], Department[c]>>

\* _authorized_company, for any of them
AuthorizedCompanies(u) == {area[1] : area \in grants[u]}

\* authorized_chunks_statement
AuthorizedChunks(u) == {c \in live : Area(c) \in grants[u]}

ScopeOf == [finance |-> "FINANCE", legal |-> "LEGAL", shared |-> "SHARED"]

\* _scope_clause
ScopeClause(u, r) ==
  /\ <<r.company, r.dept>> \in grants[u]
  /\ \/ r.scope = "PRIVATE_USER" /\ r.owner = u
     \/ r.scope = ScopeOf[r.dept]

\* _visible_memory_ids: every source is authorized now and has the row's own ACL.
Visible(u, m, statuses) ==
  LET r == rows[m] IN
  /\ ScopeClause(u, r)
  /\ ~r.deleted
  /\ ~r.expired
  /\ r.status \in statuses
  /\ \A c \in r.sources : c \in AuthorizedChunks(u) /\ Area(c) = <<r.company, r.dept>>

Inspectable == {"ACTIVE", "PENDING_CONFIRMATION", "SUPERSEDED"}

\* derive_memory_acl: the scopes and departments that sources allow, nothing if
\* their restrictions differ.
DeriveMemoryAcl(requested, depts) ==
  IF depts = {} THEN [scope : {requested} \cap {"PRIVATE_USER"}, dept : {"shared"}]
  ELSE {a \in [scope : {requested}, dept : depts] :
          Cardinality(depts) = 1 /\ a.scope \in {"PRIVATE_USER", ScopeOf[a.dept]}}

Depts(chunks) == {Department[c] : c \in chunks}
Of(k, chunks) == \A c \in chunks : Company[c] = k
-----------------------------------------------------------------------------
(***************************************************************************)
(* A chat turn.                                                            *)
(***************************************************************************)
CanInsert == inserted < MaxRows
NextId == inserted + 1

UserOf(t) == Owner[turn[t].conv]

\* owned_conversation_summary: of any workspace the user is granted.
SummariesRead(u, c) ==
  {m \in Stored : /\ Visible(u, m, {"ACTIVE"})
                  /\ rows[m].kind = "CONVERSATION_SUMMARY"
                  /\ rows[m].owner = u
                  /\ rows[m].conv = c}

\* The turn reads the conversation's summary, and fails when it finds two.  What it
\* retrieves after that is of company k; if it is of several companies or of none, the
\* turn writes no memory, as in ExtractNothing, NoEpisode and NoSummary.
\* retrieve_relevant reads the memories to quote and marks them as accessed; the
\* flush that stores the question updates them.
Begin(t, c, k, touched) ==
  /\ turn[t].pc = "idle"
  /\ begun < MaxTurns
  /\ begun' = begun + 1
  /\ \A m, n \in SummariesRead(Owner[c], c) : m = n
  /\ k \in AuthorizedCompanies(Owner[c])
  /\ \A m \in touched : /\ rows[m].kind # "CONVERSATION_SUMMARY"
                        /\ Visible(Owner[c], m, {"ACTIVE"})
  /\ turn' = [turn EXCEPT ![t].pc = "question", ![t].conv = c, ![t].company = k,
                          ![t].todo = touched]
  /\ UNCHANGED <<rows, inserted, rowLock, convLock, req, grants, live, events, forgotten>>

QuestionUnlocked(t) ==
  /\ turn[t].pc = "question"
  /\ turn' = [turn EXCEPT ![t].pc = "touch"]
  /\ UNCHANGED <<rows, inserted, rowLock, convLock, req, grants, live, begun, events, forgotten>>

\* add_message sets last_activity_at: the conversation row is locked first.
Question(t) ==
  /\ turn[t].pc = "question"
  /\ convLock[turn[t].conv] = NoTurn
  /\ convLock' = [convLock EXCEPT ![turn[t].conv] = t]
  /\ turn' = [turn EXCEPT ![t].pc = "touch"]
  /\ UNCHANGED <<rows, inserted, rowLock, req, grants, live, begun, events, forgotten>>

Lockable(t, m) == rowLock[m] \in {NoTurn, t}

\* The unit of work updates the rows in the order of their keys.
TouchNext(t) ==
  /\ turn[t].pc = "touch"
  /\ IF turn[t].todo = {}
     THEN /\ turn' = [turn EXCEPT ![t].pc = "extract"]
          /\ UNCHANGED rowLock
     ELSE LET m == Min(turn[t].todo) IN
          /\ Lockable(t, m)
          /\ rowLock' = [rowLock EXCEPT ![m] = t]
          /\ turn' = [turn EXCEPT ![t].todo = @ \ {m}]
  /\ UNCHANGED <<rows, inserted, convLock, req, grants, live, begun, events, forgotten>>

\* The preference of a key that is in force, as a turn of the user reads it.
InForce(u, k, key) ==
  {m \in Stored : /\ rows[m].kind = "SEMANTIC"
                  /\ rows[m].scope = "PRIVATE_USER"
                  /\ rows[m].company = k
                  /\ rows[m].owner = u
                  /\ rows[m].key = key
                  /\ rows[m].status = "ACTIVE"
                  /\ ~rows[m].deleted}

\* apply_semantic_candidates in a savepoint.  Bound: one candidate per turn.
\* Of several rows in force the newest is read, by the start of its transaction.
ExtractNew(t, p) ==
  LET found == InForce(UserOf(t), turn[t].company, p.key)
      status == IF p.explicit THEN "ACTIVE" ELSE "PENDING_CONFIRMATION"
      pair == [id |-> NextId,
               row |-> PrivateRow(UserOf(t), turn[t].company, "SEMANTIC", status,
                                  p.key, p.content, turn[t].conv)]
  IN
  /\ turn[t].pc = "extract"
  /\ CanInsert
  /\ inserted' = NextId
  /\ IF found = {}
     THEN turn' = [turn EXCEPT ![t].new = @ \cup {pair}, ![t].pc = "episode"]
     ELSE \E m \in found : /\ rows[m].content # p.content
                           /\ turn' = [turn EXCEPT ![t].pending = {pair}, ![t].target = m,
                                                   ![t].pc = "supersede"]
  /\ UNCHANGED <<rows, rowLock, convLock, req, grants, live, begun, events, forgotten>>

\* The same preference again: an explicit one renews its expiry.
ExtractSame(t, p) ==
  /\ turn[t].pc = "extract"
  /\ \E m \in InForce(UserOf(t), turn[t].company, p.key) :
       /\ rows[m].content = p.content
       /\ turn' = IF p.explicit THEN [turn EXCEPT ![t].target = m, ![t].pc = "refresh"]
                  ELSE [turn EXCEPT ![t].pc = "episode"]
  /\ UNCHANGED <<rows, inserted, rowLock, convLock, req, grants, live, begun, events, forgotten>>

\* No candidate passes the policy, there is no single company, or extraction fails.
ExtractNothing(t) ==
  /\ turn[t].pc = "extract"
  /\ turn' = [turn EXCEPT ![t].pc = "episode"]
  /\ UNCHANGED <<rows, inserted, rowLock, convLock, req, grants, live, begun, events, forgotten>>

SupersedeWithoutInsert(t) ==
  LET m == turn[t].target IN
  /\ turn[t].pc = "supersede"
  /\ Lockable(t, m)
  /\ rowLock' = [rowLock EXCEPT ![m] = t]
  /\ turn' = [turn EXCEPT ![t].superseded = m,
                          ![t].by = (CHOOSE p \in turn[t].pending : TRUE).id,
                          ![t].pending = {}, ![t].target = None, ![t].pc = "episode"]
  /\ UNCHANGED <<rows, inserted, convLock, req, grants, live, begun, events, forgotten>>

\* The savepoint is released: its flush updates the old row.
Supersede(t) ==
  LET m == turn[t].target IN
  /\ turn[t].pc = "supersede"
  /\ Lockable(t, m)
  /\ rowLock' = [rowLock EXCEPT ![m] = t]
  /\ turn' = [turn EXCEPT ![t].new = @ \cup turn[t].pending, ![t].superseded = m,
                          ![t].by = (CHOOSE p \in turn[t].pending : TRUE).id,
                          ![t].pending = {}, ![t].target = None, ![t].pc = "episode"]
  /\ UNCHANGED <<rows, inserted, convLock, req, grants, live, begun, events, forgotten>>

Renew(t, from, to) ==
  LET m == turn[t].target IN
  /\ turn[t].pc = from
  /\ Lockable(t, m)
  /\ rowLock' = [rowLock EXCEPT ![m] = t]
  /\ turn' = [turn EXCEPT ![t].renewed = @ \cup {m}, ![t].target = None, ![t].pc = to]
  /\ UNCHANGED <<rows, inserted, convLock, req, grants, live, begun, events, forgotten>>

EpisodeRowShared(u, k, c, chunks, dept) ==
  [PrivateRow(u, k, "EPISODIC", "ACTIVE", NoKey, NoKey, c) EXCEPT !.sources = chunks]

\* create_episode inherits the ACL of the evidence that supports the answer.
EpisodeRow(u, k, c, chunks, dept) ==
  [PrivateRow(u, k, "EPISODIC", "ACTIVE", NoKey, NoKey, c) EXCEPT !.dept = dept, !.sources = chunks]

CreateEpisode(t, chunks) ==
  /\ turn[t].pc = "episode"
  /\ CanInsert
  /\ chunks # {}
  /\ chunks \subseteq AuthorizedChunks(UserOf(t))
  /\ Of(turn[t].company, chunks)
  /\ Cardinality(Depts(chunks)) = 1
  /\ inserted' = NextId
  /\ \E dept \in Depts(chunks) :
       turn' = [turn EXCEPT ![t].new = @ \cup
                  {[id |-> NextId, row |-> EpisodeRow(UserOf(t), turn[t].company,
                                                      turn[t].conv, chunks, dept)]},
                ![t].pc = "summary"]
  /\ UNCHANGED <<rows, rowLock, convLock, req, grants, live, begun, events, forgotten>>

NoEpisode(t) ==
  /\ turn[t].pc = "episode"
  /\ turn' = [turn EXCEPT ![t].pc = "summary"]
  /\ UNCHANGED <<rows, inserted, rowLock, convLock, req, grants, live, begun, events, forgotten>>

\* upsert_conversation_summary looks in the workspace of the turn's company, for the
\* summary of any company there; its one_or_none fails for two rows.
SummariesOf(u, c, w) ==
  {m \in Stored : /\ rows[m].kind = "CONVERSATION_SUMMARY"
                  /\ Workspace[rows[m].company] = w
                  /\ rows[m].owner = u
                  /\ rows[m].conv = c
                  /\ rows[m].status = "ACTIVE"}

SummariesFound(t) == SummariesOf(UserOf(t), turn[t].conv, Workspace[turn[t].company])

NewSummary(t) ==
  /\ turn[t].pc = "summary"
  /\ Summarises
  /\ CanInsert
  /\ SummariesFound(t) = {}
  /\ inserted' = NextId
  /\ turn' = [turn EXCEPT ![t].new = @ \cup
                {[id |-> NextId, row |-> PrivateRow(UserOf(t), turn[t].company,
                    "CONVERSATION_SUMMARY", "ACTIVE", NoKey, NoKey, turn[t].conv)]},
              ![t].pc = "commit"]
  /\ UNCHANGED <<rows, rowLock, convLock, req, grants, live, begun, events, forgotten>>

RewriteSummary(t) ==
  /\ turn[t].pc = "summary"
  /\ Summarises
  /\ \E m \in SummariesFound(t) :
       turn' = [turn EXCEPT ![t].target = m, ![t].pc = "rewrite"]
  /\ UNCHANGED <<rows, inserted, rowLock, convLock, req, grants, live, begun, events, forgotten>>

\* The conversation is short, there is no single company, or the summariser fails.
NoSummary(t) ==
  /\ turn[t].pc = "summary"
  /\ turn' = [turn EXCEPT ![t].pc = "commit"]
  /\ UNCHANGED <<rows, inserted, rowLock, convLock, req, grants, live, begun, events, forgotten>>

Unlock(t) ==
  /\ rowLock' = [m \in RowIds |-> IF rowLock[m] = t THEN NoTurn ELSE rowLock[m]]
  /\ convLock' = [c \in Conversations |-> IF convLock[c] = t THEN NoTurn ELSE convLock[c]]

Written(t, m) ==
  CASE \E p \in turn[t].new : p.id = m -> (CHOOSE p \in turn[t].new : p.id = m).row
    [] m = turn[t].superseded -> [rows[m] EXCEPT !.status = "SUPERSEDED", !.by = turn[t].by]
    [] m \in turn[t].renewed -> [rows[m] EXCEPT !.expired = FALSE]
    [] OTHER -> rows[m]

Commit(t) ==
  /\ turn[t].pc = "commit"
  /\ rows' = [m \in RowIds |-> Written(t, m)]
  /\ Unlock(t)
  /\ turn' = [turn EXCEPT ![t] = NoTurnState]
  /\ UNCHANGED <<inserted, req, grants, live, begun, events, forgotten>>

RollBack(t) ==
  /\ Unlock(t)
  /\ turn' = [turn EXCEPT ![t] = NoTurnState]
  /\ UNCHANGED <<rows, inserted, req, grants, live, begun, forgotten>>

\* The client is gone, the database fails, the server stops.
Abort(t) ==
  /\ turn[t].pc # "idle"
  /\ events < MaxEvents
  /\ events' = events + 1
  /\ RollBack(t)
-----------------------------------------------------------------------------
(***************************************************************************)
(* Deadlocks: rows are touched in order, but superseded in any.            *)
(***************************************************************************)
Holder(t) ==
  CASE turn[t].pc = "question" -> convLock[turn[t].conv]
    [] turn[t].pc = "touch" /\ turn[t].todo # {} -> rowLock[Min(turn[t].todo)]
    [] turn[t].pc \in {"supersede", "refresh", "rewrite"} -> rowLock[turn[t].target]
    [] OTHER -> NoTurn

Deadlocked(t) ==
  \E ring \in SUBSET Turns : t \in ring /\ {Holder(u) : u \in ring} = ring
                             /\ \A u \in ring : Holder(u) # u

GiveUpNever(t) == Deadlocked(t) /\ UNCHANGED vars

\* An error inside a savepoint is swallowed and the turn goes on without it.
GiveUp(t) ==
  /\ Deadlocked(t)
  /\ IF turn[t].pc \in {"supersede", "refresh", "rewrite"}
     THEN /\ turn' = [turn EXCEPT ![t].pending = {}, ![t].target = None,
                        ![t].pc = IF turn[t].pc = "rewrite" THEN "commit" ELSE "episode"]
          /\ UNCHANGED <<rows, inserted, rowLock, convLock, req, grants, live, begun, forgotten>>
     ELSE RollBack(t)
  /\ UNCHANGED events
-----------------------------------------------------------------------------
(***************************************************************************)
(* The memory page.                                                        *)
(***************************************************************************)
\* create: explicit, without a key.
Create(u, k, scope, chunks) ==
  /\ CanInsert
  /\ k \in AuthorizedCompanies(u)
  /\ Of(k, chunks)
  /\ chunks \subseteq AuthorizedChunks(u)
  /\ \E acl \in DeriveMemoryAcl(scope, Depts(chunks)) :
       rows' = [rows EXCEPT ![NextId] =
                  [PrivateRow(u, k, "SEMANTIC", "ACTIVE", NoKey, NoKey, NoConversation) EXCEPT
                     !.scope = scope, !.owner = IF scope = "PRIVATE_USER" THEN u ELSE NoUser,
                     !.dept = acl.dept, !.sources = chunks]]
  /\ inserted' = NextId
  /\ UNCHANGED <<rowLock, convLock, turn, req, grants, live, begun, events, forgotten>>

\* get_visible_memory and the checks: the row is not locked.
Ask(q, u, op, m) ==
  /\ req[q].pc = "idle"
  /\ Visible(u, m, Inspectable)
  /\ op \in {"confirm", "dismiss"} =>
       rows[m].owner = u /\ rows[m].status = "PENDING_CONFIRMATION"
  /\ op = "delete" => rows[m].creator = u
  /\ req' = [req EXCEPT ![q] = [pc |-> "write", op |-> op, row |-> m]]
  /\ UNCHANGED <<rows, inserted, rowLock, convLock, turn, grants, live, begun, events, forgotten>>

\* The columns confirm, and dismiss or delete, write.
Confirmed(r) == [r EXCEPT !.status = "ACTIVE", !.expired = FALSE]
RemovedByStatus(r) == [r EXCEPT !.status = "DELETED"]
Removed(r) == [r EXCEPT !.status = "DELETED", !.deleted = TRUE]

Write(q) ==
  LET m == req[q].row IN
  /\ req[q].pc = "write"
  /\ rowLock[m] = NoTurn
  /\ rows' = [rows EXCEPT ![m] = IF req[q].op = "confirm" THEN Confirmed(@) ELSE Removed(@)]
  /\ forgotten' = IF req[q].op = "confirm" THEN forgotten ELSE forgotten \cup {m}
  /\ req' = [req EXCEPT ![q] = NoRequestState]
  /\ UNCHANGED <<inserted, rowLock, convLock, turn, grants, live, begun, events>>
-----------------------------------------------------------------------------
(***************************************************************************)
(* Around them: time passes, documents change, grants are revoked.         *)
(***************************************************************************)
Expire(m) ==
  /\ events < MaxEvents
  /\ events' = events + 1
  /\ ~rows[m].expired
  /\ rows' = [rows EXCEPT ![m].expired = TRUE]
  /\ UNCHANGED <<inserted, rowLock, convLock, turn, req, grants, live, begun, forgotten>>

Retire(c) ==
  /\ events < MaxEvents
  /\ events' = events + 1
  /\ live' = live \ {c}
  /\ UNCHANGED <<rows, inserted, rowLock, convLock, turn, req, grants, begun, forgotten>>

\* A department of a workspace, with all its companies.
Revoke(u, w, dept) ==
  LET lost == {area \in grants[u] : Workspace[area[1]] = w /\ area[2] = dept} IN
  /\ events < MaxEvents
  /\ events' = events + 1
  /\ lost # {}
  /\ grants' = [grants EXCEPT ![u] = @ \ lost]
  /\ UNCHANGED <<rows, inserted, rowLock, convLock, turn, req, live, begun, forgotten>>
-----------------------------------------------------------------------------
Init ==
  /\ rows = [m \in RowIds |-> IF m <= Len(Earlier) THEN Earlier[m] ELSE NoRow]
  /\ inserted = Len(Earlier)
  /\ rowLock = [m \in RowIds |-> NoTurn]
  /\ convLock = [c \in Conversations |-> NoTurn]
  /\ turn = [t \in Turns |-> NoTurnState]
  /\ req = [q \in Requests |-> NoRequestState]
  /\ grants = InitialGrants
  /\ live = Chunks
  /\ begun = 0
  /\ events = 0
  /\ forgotten = {}

Step(t) ==
  \/ Question(t) \/ TouchNext(t)
  \/ \E p \in Candidates : ExtractNew(t, p) \/ ExtractSame(t, p)
  \/ ExtractNothing(t)
  \/ Supersede(t) \/ Renew(t, "refresh", "episode") \/ Renew(t, "rewrite", "commit")
  \/ \E chunks \in EpisodeCites : CreateEpisode(t, chunks)
  \/ NoEpisode(t)
  \/ NewSummary(t) \/ RewriteSummary(t) \/ NoSummary(t)
  \/ Commit(t) \/ GiveUp(t)

Next ==
  \/ \E t \in Turns : Step(t) \/ Abort(t)
  \/ \E t \in Turns, c \in Conversations, k \in Companies, touched \in SUBSET Stored :
       Begin(t, c, k, touched)
  \/ \E u \in Users, k \in Companies, scope \in Scopes, chunks \in Manual :
       Create(u, k, scope, chunks)
  \/ \E q \in Requests, u \in Users, op \in {"confirm", "dismiss", "delete"}, m \in Stored :
       Ask(q, u, op, m)
  \/ \E q \in Requests : Write(q)
  \/ \E m \in Stored : Expire(m)
  \/ \E c \in live : Retire(c)
  \/ \E u \in Users, w \in Workspaces, dept \in Departments : Revoke(u, w, dept)

Spec == Init /\ [][Next]_vars

\* A turn or a request that has begun is worked on; a deadlock is resolved.
FairSpec ==
  /\ Spec
  /\ \A t \in Turns : WF_vars(Step(t))
  /\ \A q \in Requests : WF_vars(Write(q))
-----------------------------------------------------------------------------
(***************************************************************************)
(* Properties.                                                             *)
(***************************************************************************)
\* A conversation has at most one summary in force in each workspace, however its
\* turns and deletions overlap and whichever company their evidence is of: a second
\* one would make the one_or_none of upsert_conversation_summary fail from then on.
\* It may have one in each of several workspaces: OneSummaryRead does not hold.
OneSummary ==
  \A c \in Conversations, w \in Workspaces : Cardinality(SummariesOf(Owner[c], c, w)) <= 1

\* Once its owner was told that a memory is deleted or dismissed nobody sees it
\* again, though a confirmation, a supersession or a renewal that read the row
\* before may still write its status or its expiry.
ForgottenStays == \A m \in forgotten, u \in Users : ~Visible(u, m, Inspectable)

\* A superseded preference names a later row of the same owner, company and key
\* that is stored: a supersession and the row it makes room for commit together or not
\* at all, with deadlocks, lost clients and other turns in between.
SupersededBySuccessor ==
  \A m \in Stored : rows[m].status = "SUPERSEDED" =>
    LET n == rows[m].by IN
    /\ n \in Stored
    /\ n > m
    /\ rows[n].owner = rows[m].owner
    /\ rows[n].company = rows[m].company
    /\ rows[n].key = rows[m].key

\* The ACL columns copied to a memory already restrict it like its sources: who
\* passes the scope clause may query the company and the department of every chunk
\* it was made from, for manual memories and episodes alike and after grants were revoked.
AclFollowsSources ==
  \A m \in Stored, u \in Users : ScopeClause(u, rows[m]) =>
    \A c \in rows[m].sources : Area(c) \in grants[u]

\* Every turn and every request ends, although turns touch and supersede each
\* other's rows in opposite orders.
MemoryWorkFinishes ==
  /\ \A t \in Turns : turn[t].pc # "idle" ~> turn[t].pc = "idle"
  /\ \A q \in Requests : req[q].pc # "idle" ~> req[q].pc = "idle"

\* A changed preference supersedes the old one: a user has at most one in
\* force for a key and a company.
OnePreferencePerKey ==
  \A u \in Users, k \in Companies, key \in Keys : Cardinality(InForce(u, k, key)) <= 1

\* The rolling summary a turn reads is selected by its workspace too: the turn does
\* not find those of two workspaces.
OneSummaryRead ==
  \A c \in Conversations : Cardinality(SummariesRead(Owner[c], c)) <= 1

\* An inferred preference remains pending: it does not displace the one in force
\* before the user has confirmed it.
InferredRemainsPending ==
  \A m \in Stored : (rows[m].status = "SUPERSEDED" /\ ~rows[m].deleted) =>
    rows[rows[m].by].status # "PENDING_CONFIRMATION"
=============================================================================
