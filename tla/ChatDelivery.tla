---------------------------- MODULE ChatDelivery ----------------------------
(***************************************************************************)
(* Messages sent to one conversation of one user: the handler that routes, *)
(* grounds, answers and stores them (chat/service.py), the route that      *)
(* streams the answer (api/routes/conversations.py) and the browser code   *)
(* that reads the stream and reconnects once (frontend/src/api/chat.ts).   *)
(*                                                                         *)
(* A request is one transaction, except that the document search commits   *)
(* the session in its middle: what was flushed before it is durable then.  *)
(* Committed rows are variables, a request keeps the rest in draft.        *)
(***************************************************************************)
EXTENDS Naturals, Sequences, FiniteSets

CONSTANTS
  Ids,          \* client_message_id values
  Prints,       \* request fingerprints: response mode and normalised question
  Fast,         \* the fingerprints whose response mode is FAST
  Tabs,         \* browser pages open on the conversation
  Requests,     \* requests the server works on at the same time
  MaxAttempts,  \* bound: requests ever sent
  MaxFaults,    \* bound: crashes, database errors and broken connections
  Plain,        \* the fingerprints other clients send with the plain POST
  NoId, NoPrint, NoTab, NoRequest

ASSUME DeliveryAssumption ==
  /\ MaxAttempts \in Nat
  /\ MaxFaults \in Nat
  /\ Plain \subseteq Prints
  /\ Fast \subseteq Prints
  /\ NoId \notin Ids
  /\ NoPrint \notin Prints
  /\ NoTab \notin Tabs
  /\ NoRequest \notin Requests

VARIABLES
  \* the committed rows
  delivery,   \* chat_message_requests, by client_message_id
  messages,   \* messages
  traces,     \* chat_request_traces
  remembered, \* turns that also stored a memory
  title,      \* conversations.title, NoPrint for "New conversation"
  rowLock,    \* the transaction that has updated the conversations row
  \* the server
  pc, job, draft,
  progress,   \* events put on the progress queue of a stream; the client, who
              \* only changes a caption for them, may not have read any
  wire,       \* events of a stream the browser has not read
  \* the browser
  tab,
  \* the outside
  attempts, faults,
  \* history variable, read by the properties only
  refused     \* identifiers answered with deep_mode_required

rowVars == <<delivery, messages, traces, remembered, title>>
serverVars == <<pc, job, draft, progress>>
vars == <<rowVars, rowLock, serverVars, wire, tab, attempts, faults, refused>>

Turns == 1..MaxAttempts
AnyId == Ids \cup {NoId}
AnyPrint == Prints \cup {NoPrint}

Delivery == [status : {"none", "PENDING", "COMPLETED", "FAILED"},
             print : AnyPrint, payload : 0..MaxAttempts]
NoDelivery == [status |-> "none", print |-> NoPrint, payload |-> 0]

\* A message belongs to the request that wrote it.
Message == [turn : Turns, id : AnyId, role : {"user", "assistant"}, print : Prints]
Trace == [turn : Turns, status : {"grounded", "insufficient_evidence", "provider_error"}]

Job == [turn : 0..MaxAttempts, id : AnyId, print : AnyPrint, streams : BOOLEAN]
NoJob == [turn |-> 0, id |-> NoId, print |-> NoPrint, streams |-> FALSE]

Draft == [row : {"none", "flushed", "stored"},  \* this request's delivery row
          untitled : BOOLEAN,                   \* the title it read is the default
          title : AnyPrint,                     \* the title it has set
          path : {"none", "chat", "decline", "write", "search", "recall", "nothing",
                  "grounded", "unsupported"}]
NoDraft == [row |-> "none", untitled |-> FALSE, title |-> NoPrint, path |-> "none"]

Events == [type : {"started", "delta", "completed"}, turn : 0..MaxAttempts]
          \cup [type : {"error"}, code : {"stream_failed"}]

Tab == [at : {"idle", "first", "again", "second"}, id : AnyId, print : AnyPrint,
        conn : Requests \cup {NoRequest}, shown : 0..MaxAttempts, done : 0..MaxAttempts,
        outcome : {"none", "answered", "failed", "upgrade", "offline", "cancelled"}]
NewTab == [at |-> "idle", id |-> NoId, print |-> NoPrint, conn |-> NoRequest,
           shown |-> 0, done |-> 0, outcome |-> "none"]

\* asyncio.Queue(maxsize=8)
SmallQueue == 4
QueueSize == 8

TypeOK ==
  /\ delivery \in [Ids -> Delivery]
  /\ messages \subseteq Message
  /\ traces \subseteq Trace
  /\ remembered \subseteq Turns
  /\ title \in AnyPrint
  /\ rowLock \in Requests \cup {NoRequest}
  /\ pc \in [Requests -> {"idle", "lookup", "insert", "route", "search", "evidence",
                          "question", "generate", "persist"}]
  /\ job \in [Requests -> Job]
  /\ draft \in [Requests -> Draft]
  /\ progress \in [Requests -> Nat]
  /\ wire \in [Requests -> Seq(Events)]
  /\ tab \in [Tabs -> Tab]
  /\ attempts \in 0..MaxAttempts
  /\ faults \in 0..MaxFaults
  /\ refused \subseteq Ids
-----------------------------------------------------------------------------
(***************************************************************************)
(* Transactions, streams and the end of a request.                         *)
(***************************************************************************)
LockFree(q) == rowLock \in {NoRequest, q}

NeverReleased(q) == rowLock

Released(q) == IF rowLock = q THEN NoRequest ELSE rowLock

Goto(q, label) == pc' = [pc EXCEPT ![q] = label]

\* The page that reads the stream of a request, if it still does.
Listening(q) == job[q].streams /\ \E b \in Tabs : tab[b].conn = q

\* report_progress: put_nowait
Report(q, n) ==
  progress' = IF job[q].streams THEN [progress EXCEPT ![q] = @ + n] ELSE progress

\* The events a stream ends with; a plain POST answers with one body instead.
Emit(q, events) ==
  wire' = IF Listening(q) THEN [wire EXCEPT ![q] = @ \o events] ELSE wire

\* The producer's finally clause puts None on the queue, the stream drains it.
EndRequest(q) ==
  /\ pc' = [pc EXCEPT ![q] = "idle"]
  /\ job' = [job EXCEPT ![q] = NoJob]
  /\ draft' = [draft EXCEPT ![q] = NoDraft]
  /\ progress' = [progress EXCEPT ![q] = 0]
  /\ rowLock' = Released(q)

\* An exception leaves answer: the session rolls back.  encode_event(SafeError())
\* carries no code of its own; a plain POST returns the error's status and code.
SafeError == [type |-> "error", code |-> "stream_failed"]
EndWithError(q) ==
  /\ EndRequest(q)
  /\ Emit(q, <<SafeError>>)
  /\ UNCHANGED rowVars

\* validated_answer_deltas and the closing event of a stored result.
Deliver(q, n) ==
  Emit(q, <<[type |-> "delta", turn |-> n], [type |-> "completed", turn |-> n]>>)
-----------------------------------------------------------------------------
(***************************************************************************)
(* Requests arrive.                                                        *)
(***************************************************************************)
Slot(q) == pc[q] = "idle" /\ wire[q] = <<>> /\ \A b \in Tabs : tab[b].conn # q

\* Bound: the reconnects still possible are kept in reserve.
Reserved == Cardinality({b \in Tabs : tab[b].at \in {"first", "again"}})

\* get_owned_conversation has read the row; its title is kept from here on.
Arrive(q, id, print, streams) ==
  /\ Slot(q)
  /\ attempts < MaxAttempts
  /\ attempts' = attempts + 1
  /\ job' = [job EXCEPT ![q] = [turn |-> attempts + 1, id |-> id, print |-> print,
                                streams |-> streams]]
  /\ draft' = [draft EXCEPT ![q].untitled = (title = NoPrint)]
  /\ Goto(q, IF id = NoId THEN "route" ELSE "lookup")
  /\ wire' = IF streams THEN [wire EXCEPT ![q] = <<[type |-> "started", turn |-> 0]>>]
             ELSE wire
  /\ UNCHANGED <<rowVars, rowLock, progress, faults, refused>>

\* ChatPage submits; crypto.randomUUID() is new.
Send(b, q, id, print) ==
  /\ tab[b].at = "idle"
  /\ attempts + Reserved + 2 <= MaxAttempts
  /\ delivery[id].status = "none"
  /\ \A r \in Requests : job[r].id # id
  /\ \A c \in Tabs : tab[c].id # id
  /\ Arrive(q, id, print, TRUE)
  /\ tab' = [tab EXCEPT ![b] = [NewTab EXCEPT !.at = "first", !.id = id, !.print = print,
                                              !.conn = q]]

\* streamConversationMessage tries once more with the same identifier.
Reconnect(b, q) ==
  /\ tab[b].at = "again"
  /\ Arrive(q, tab[b].id, tab[b].print, TRUE)
  /\ tab' = [tab EXCEPT ![b].at = "second", ![b].conn = q]

\* create_message: another client may repeat an identifier, or give none.
Post(q, id, print) ==
  /\ print \in Plain
  /\ attempts + Reserved + 1 <= MaxAttempts
  /\ Arrive(q, id, print, FALSE)
  /\ UNCHANGED tab
-----------------------------------------------------------------------------
(***************************************************************************)
(* The replay record.                                                      *)
(***************************************************************************)
ReplayOfAnyPrint(q) ==
  LET d == delivery[job[q].id] IN
  /\ pc[q] = "lookup"
  /\ d.status # "none"
  /\ IF d.status = "COMPLETED"
     THEN EndRequest(q) /\ Deliver(q, d.payload) /\ UNCHANGED rowVars
     ELSE EndWithError(q)
  /\ UNCHANGED <<tab, attempts, faults, refused>>

\* The identifier is known: replay, or 409 for other content and for a message
\* that is pending or failed.
Replay(q) ==
  LET d == delivery[job[q].id] IN
  /\ pc[q] = "lookup"
  /\ d.status # "none"
  /\ IF d.print = job[q].print /\ d.status = "COMPLETED"
     THEN EndRequest(q) /\ Deliver(q, d.payload) /\ UNCHANGED rowVars
     ELSE EndWithError(q)
  /\ UNCHANGED <<tab, attempts, faults, refused>>

NotSeen(q) ==
  /\ pc[q] = "lookup"
  /\ delivery[job[q].id].status = "none"
  /\ Goto(q, "insert")
  /\ UNCHANGED <<rowVars, rowLock, job, draft, progress, wire, tab, attempts, faults, refused>>

\* uq_chat_message_requests_actor_client_message: an insert waits for the
\* transaction that has inserted the same identifier.
KeyInFlight(q) ==
  \E p \in Requests \ {q} : job[p].id = job[q].id /\ draft[p].row = "flushed"

KeyTakenWhenDone(q) == delivery[job[q].id].status = "COMPLETED"

KeyTaken(q) == delivery[job[q].id].status # "none"

InsertDelivery(q) ==
  /\ pc[q] = "insert"
  /\ ~KeyInFlight(q)
  /\ ~KeyTaken(q)
  /\ draft' = [draft EXCEPT ![q].row = "flushed"]
  /\ Goto(q, "route")
  /\ UNCHANGED <<rowVars, rowLock, job, progress, wire, tab, attempts, faults, refused>>

\* IntegrityError, which nothing handles
InsertConflict(q) ==
  /\ pc[q] = "insert"
  /\ ~KeyInFlight(q)
  /\ KeyTaken(q)
  /\ EndWithError(q)
  /\ UNCHANGED <<tab, attempts, faults, refused>>
-----------------------------------------------------------------------------
(***************************************************************************)
(* Routing and evidence.                                                   *)
(***************************************************************************)
Intents == {"CASUAL", "DOCUMENT_QUESTION", "CONVERSATION_FOLLOW_UP", "MEMORY_RECALL",
            "MEMORY_WRITE", "CALCULATION", "CLARIFICATION", "REFUSE"}

\* obvious_intent or the classifier: any intent may come out.  Recalling a memory
\* is answered from it alone unless the work is to be grounded again.
PathOf(intent, regrounding) ==
  CASE intent = "CASUAL" -> "chat"
    [] intent \in {"CLARIFICATION", "REFUSE"} -> "decline"
    [] intent = "MEMORY_WRITE" -> "write"
    [] intent = "MEMORY_RECALL" -> IF regrounding THEN "recall" ELSE "chat"
    [] OTHER -> "search"

\* The first question that is not small talk names the conversation.  The
\* SELECT of the summary flushes the new title, an UPDATE of the row.
Route(q, intent, regrounding) ==
  LET path == PathOf(intent, regrounding)
      names == draft[q].untitled /\ intent # "CASUAL"
  IN
  /\ pc[q] = "route"
  /\ names => LockFree(q)
  /\ rowLock' = IF names THEN q ELSE rowLock
  /\ draft' = [draft EXCEPT ![q].path = path,
                            ![q].title = IF names THEN job[q].print ELSE NoPrint]
  /\ Report(q, CASE path = "recall" -> 3 [] path = "search" -> 2 [] OTHER -> 1)
  /\ Goto(q, IF path \in {"search", "recall"} THEN "search" ELSE "question")
  /\ UNCHANGED <<rowVars, job, wire, tab, attempts, faults, refused>>

TitleOf(q) == IF draft[q].title # NoPrint THEN draft[q].title ELSE title

WithDelivery(q, status, n) ==
  IF job[q].id = NoId THEN delivery
  ELSE [delivery EXCEPT ![job[q].id] = [status |-> status, print |-> job[q].print,
                                        payload |-> n]]

\* AuthorizedSearchService.search ends with a commit of the session it shares
\* with the chat: the pending record and the title are stored, the lock is free.
Search(q) ==
  /\ pc[q] = "search"
  /\ delivery' = WithDelivery(q, "PENDING", 0)
  /\ title' = TitleOf(q)
  /\ rowLock' = Released(q)
  /\ draft' = [draft EXCEPT ![q].row = IF job[q].id = NoId THEN "none" ELSE "stored",
                            ![q].title = NoPrint]
  /\ Report(q, 1)
  /\ Goto(q, "evidence")
  /\ UNCHANGED <<messages, traces, remembered, job, wire, tab, attempts, faults, refused>>

\* 503 embedding_unavailable
SearchFails(q) ==
  /\ pc[q] = "search"
  /\ EndWithError(q)
  /\ UNCHANGED <<tab, attempts, faults, refused>>

\* _sufficient_results and _evidence_from_result leave nothing to cite.
NoEvidence(q) ==
  /\ pc[q] = "evidence"
  /\ draft' = [draft EXCEPT ![q].path = "nothing"]
  /\ Goto(q, "question")
  /\ UNCHANGED <<rowVars, rowLock, job, progress, wire, tab, attempts, faults, refused>>

\* _automatic_route for a grounded answer, and route_model
AutomaticRoute(documents, confident, complex) ==
  IF documents > 1 \/ ~confident \/ complex THEN "heavy" ELSE "simple"
UpgradeRequired(print, route) == print \in Fast /\ route = "heavy"

Grounded(q, route) ==
  /\ pc[q] = "evidence"
  /\ ~UpgradeRequired(job[q].print, route)
  /\ draft' = [draft EXCEPT ![q].path = "grounded"]
  /\ Report(q, 1)
  /\ Goto(q, "question")
  /\ UNCHANGED <<rowVars, rowLock, job, wire, tab, attempts, faults, refused>>

\* 409 deep_mode_required
RequireDeep(q, route) ==
  /\ pc[q] = "evidence"
  /\ UpgradeRequired(job[q].print, route)
  /\ refused' = refused \cup ({job[q].id} \ {NoId})
  /\ EndWithError(q)
  /\ UNCHANGED <<tab, attempts, faults>>
-----------------------------------------------------------------------------
(***************************************************************************)
(* The turn.                                                               *)
(***************************************************************************)
\* add_message(role="user") updates last_activity_at: the row stays locked
\* until the turn commits.
Question(q) ==
  /\ pc[q] = "question"
  /\ LockFree(q)
  /\ rowLock' = q
  /\ Goto(q, IF draft[q].path = "grounded" THEN "generate" ELSE "persist")
  /\ UNCHANGED <<rowVars, job, draft, progress, wire, tab, attempts, faults, refused>>

MessageOf(q, role) ==
  [turn |-> job[q].turn, id |-> job[q].id, role |-> role, print |-> job[q].print]

ProviderErrorUnrecorded(q) ==
  /\ pc[q] = "generate"
  /\ messages' = messages \cup {MessageOf(q, "user")}
  /\ traces' = traces \cup {[turn |-> job[q].turn, status |-> "provider_error"]}
  /\ EndRequest(q)
  /\ Emit(q, <<SafeError>>)
  /\ UNCHANGED <<delivery, remembered, title, tab, attempts, faults, refused>>

\* LLMProviderError: the question, the trace and the failure are committed.
ProviderError(q) ==
  /\ pc[q] = "generate"
  /\ messages' = messages \cup {MessageOf(q, "user")}
  /\ traces' = traces \cup {[turn |-> job[q].turn, status |-> "provider_error"]}
  /\ delivery' = WithDelivery(q, "FAILED", 0)
  /\ EndRequest(q)
  /\ Emit(q, <<SafeError>>)
  /\ UNCHANGED <<remembered, title, tab, attempts, faults, refused>>

\* validate_grounded_answer: a claim cites at least one piece of the evidence
\* that was retrieved, and nothing else.
ValidateGroundedAnswer(supported, claims, evidence) ==
  /\ supported
  /\ claims # {}
  /\ \A cites \in claims : cites # {} /\ cites \subseteq evidence

\* The model answers; an answer that does not validate is replaced.
Generated(q, supported, claims) ==
  /\ pc[q] = "generate"
  /\ draft' = [draft EXCEPT ![q].path =
                 IF ValidateGroundedAnswer(supported, claims, {1, 2}) THEN "grounded"
                 ELSE "unsupported"]
  /\ Goto(q, "persist")
  /\ UNCHANGED <<rowVars, rowLock, job, progress, wire, tab, attempts, faults, refused>>

\* _extract_semantic_safely, create_episode and _summarize_safely write in
\* savepoints of the turn, which may fail without it.
Postprocesses(q) == draft[q].path \in {"write", "nothing", "grounded"}

TraceStatus(q) ==
  IF draft[q].path \in {"chat", "write", "grounded"} THEN "grounded" ELSE "insufficient_evidence"

PersistUnrecorded(q, memory) ==
  /\ pc[q] = "persist"
  /\ memory => Postprocesses(q)
  /\ messages' = messages \cup {MessageOf(q, "user"), MessageOf(q, "assistant")}
  /\ traces' = traces \cup {[turn |-> job[q].turn, status |-> TraceStatus(q)]}
  /\ remembered' = IF memory THEN remembered \cup {job[q].turn} ELSE remembered
  /\ title' = TitleOf(q)
  /\ EndRequest(q)
  /\ Deliver(q, job[q].turn)
  /\ UNCHANGED <<delivery, tab, attempts, faults, refused>>

\* _persist_answer: one commit, then the stream delivers what was stored.
PersistAnswer(q, memory) ==
  /\ pc[q] = "persist"
  /\ memory => Postprocesses(q)
  /\ messages' = messages \cup {MessageOf(q, "user"), MessageOf(q, "assistant")}
  /\ traces' = traces \cup {[turn |-> job[q].turn, status |-> TraceStatus(q)]}
  /\ remembered' = IF memory THEN remembered \cup {job[q].turn} ELSE remembered
  /\ delivery' = WithDelivery(q, "COMPLETED", job[q].turn)
  /\ title' = TitleOf(q)
  /\ EndRequest(q)
  /\ Deliver(q, job[q].turn)
  /\ UNCHANGED <<tab, attempts, faults, refused>>
-----------------------------------------------------------------------------
(***************************************************************************)
(* Faults: a closed stream, a database error, a restart of the server.     *)
(***************************************************************************)
\* The client of a stream is gone: the answer task is cancelled where it is and
\* the session rolls back.  Without a stream nobody notices.
Disconnected(q) ==
  /\ pc[q] # "idle"
  /\ job[q].streams
  /\ ~Listening(q)
  /\ EndRequest(q)
  /\ UNCHANGED <<rowVars, wire, tab, attempts, faults, refused>>

DatabaseError(q) ==
  /\ faults < MaxFaults
  /\ faults' = faults + 1
  /\ pc[q] \in {"insert", "route", "search", "question", "persist"}
  /\ EndWithError(q)
  /\ UNCHANGED <<tab, attempts, refused>>

\* fetch or reader.read rejects: the page reconnects once, then gives up.
LoseConnection(t) ==
  CASE t.conn = NoRequest -> t
    [] t.conn # NoRequest /\ t.at = "first" -> [t EXCEPT !.at = "again", !.conn = NoRequest]
    [] OTHER -> [t EXCEPT !.at = "idle", !.conn = NoRequest, !.shown = 0,
                          !.outcome = "offline"]

BreakConnection(b) ==
  /\ faults < MaxFaults
  /\ faults' = faults + 1
  /\ tab[b].conn # NoRequest
  /\ tab' = [tab EXCEPT ![b] = LoseConnection(@)]
  /\ wire' = [wire EXCEPT ![tab[b].conn] = <<>>]
  /\ UNCHANGED <<rowVars, rowLock, serverVars, attempts, refused>>

Crash ==
  /\ faults < MaxFaults
  /\ faults' = faults + 1
  /\ \E q \in Requests : pc[q] # "idle"
  /\ pc' = [q \in Requests |-> "idle"]
  /\ job' = [q \in Requests |-> NoJob]
  /\ draft' = [q \in Requests |-> NoDraft]
  /\ progress' = [q \in Requests |-> 0]
  /\ wire' = [q \in Requests |-> <<>>]
  /\ rowLock' = NoRequest
  /\ tab' = [b \in Tabs |-> LoseConnection(tab[b])]
  /\ UNCHANGED <<rowVars, attempts, refused>>
-----------------------------------------------------------------------------
(***************************************************************************)
(* The browser.                                                            *)
(***************************************************************************)
\* streamConversationMessageAttempt and handleStreamEvent: message.started
\* clears what an earlier attempt has shown.
AfterEvent(t, e) ==
  CASE e.type = "started" -> [t EXCEPT !.shown = 0]
    [] e.type = "delta" -> [t EXCEPT !.shown = e.turn]
    [] e.type = "completed" -> [t EXCEPT !.at = "idle", !.conn = NoRequest, !.shown = e.turn,
                                         !.done = e.turn, !.outcome = "answered"]
    [] OTHER -> [t EXCEPT !.at = "idle", !.conn = NoRequest, !.shown = 0,
                          !.outcome = IF e.code = "deep_mode_required" THEN "upgrade"
                                      ELSE "failed"]

Read(b) ==
  LET q == tab[b].conn IN
  /\ q # NoRequest
  /\ wire[q] # <<>>
  /\ tab' = [tab EXCEPT ![b] = AfterEvent(@, Head(wire[q]))]
  /\ wire' = [wire EXCEPT ![q] = Tail(@)]
  /\ UNCHANGED <<rowVars, rowLock, serverVars, attempts, faults, refused>>

\* cancelRequest: AbortError is never followed by a reconnect.
Abort(b) ==
  /\ tab[b].conn # NoRequest
  /\ tab' = [tab EXCEPT ![b].at = "idle", ![b].conn = NoRequest, ![b].shown = 0,
                        ![b].outcome = "cancelled"]
  /\ wire' = [wire EXCEPT ![tab[b].conn] = <<>>]
  /\ UNCHANGED <<rowVars, rowLock, serverVars, attempts, faults, refused>>
-----------------------------------------------------------------------------
Init ==
  /\ delivery = [i \in Ids |-> NoDelivery]
  /\ messages = {}
  /\ traces = {}
  /\ remembered = {}
  /\ title = NoPrint
  /\ rowLock = NoRequest
  /\ pc = [q \in Requests |-> "idle"]
  /\ job = [q \in Requests |-> NoJob]
  /\ draft = [q \in Requests |-> NoDraft]
  /\ progress = [q \in Requests |-> 0]
  /\ wire = [q \in Requests |-> <<>>]
  /\ tab = [b \in Tabs |-> NewTab]
  /\ attempts = 0
  /\ faults = 0
  /\ refused = {}

\* The steps of a request the server takes without anybody asking.
Handle(q) ==
  \/ Replay(q) \/ NotSeen(q)
  \/ InsertDelivery(q) \/ InsertConflict(q)
  \/ \E intent \in Intents, regrounding \in BOOLEAN : Route(q, intent, regrounding)
  \/ Search(q) \/ SearchFails(q)
  \/ NoEvidence(q)
  \/ \E documents \in {1, 2}, confident, complex \in BOOLEAN :
       LET route == AutomaticRoute(documents, confident, complex) IN
       Grounded(q, route) \/ RequireDeep(q, route)
  \/ Question(q)
  \/ ProviderError(q)
  \/ \E supported \in BOOLEAN, claims \in SUBSET {{}, {1}, {1, 3}} :
       Generated(q, supported, claims)
  \/ \E memory \in BOOLEAN : PersistAnswer(q, memory)
  \/ Disconnected(q)

Next ==
  \/ \E q \in Requests : Handle(q) \/ DatabaseError(q)
  \/ \E b \in Tabs, q \in Requests, id \in Ids, print \in Prints : Send(b, q, id, print)
  \/ \E b \in Tabs, q \in Requests : Reconnect(b, q)
  \/ \E q \in Requests, id \in AnyId, print \in Prints : Post(q, id, print)
  \/ \E b \in Tabs : BreakConnection(b) \/ Read(b) \/ Abort(b)
  \/ Crash

Spec == Init /\ [][Next]_vars

\* The server works on, and the browser reads what arrives and reconnects.
\* Users, faults and other clients owe nothing.
FairSpec ==
  /\ Spec
  /\ \A q \in Requests : WF_vars(Handle(q))
  /\ \A b \in Tabs : WF_vars(Read(b)) /\ WF_vars(\E q \in Requests : Reconnect(b, q))
-----------------------------------------------------------------------------
(***************************************************************************)
(* Properties.                                                             *)
(***************************************************************************)
\* However a message is repeated, by the page's reconnect, a second client or
\* both at once, and wherever the server fails, at most one question and one
\* answer are stored under its client_message_id.
OncePerId ==
  \A i \in Ids, role \in {"user", "assistant"} :
    Cardinality({x \in messages : x.id = i /\ x.role = role}) <= 1

UserTurns == {x.turn : x \in {y \in messages : y.role = "user"}}
AnsweredTurns == {x.turn : x \in {y \in messages : y.role = "assistant"}}
FailedTurns == UserTurns \ AnsweredTurns

\* A stored turn is whole: an answer never stands without its question, every
\* turn has exactly one trace and only an unanswered one says provider_error,
\* the replay record of its identifier tells the same outcome, and memories
\* come from answered turns only.
TurnsWhole ==
  /\ AnsweredTurns \subseteq UserTurns
  /\ remembered \subseteq AnsweredTurns
  /\ {t.turn : t \in traces} = UserTurns
  /\ Cardinality(traces) = Cardinality(UserTurns)
  /\ {t.turn : t \in {u \in traces : u.status = "provider_error"}} = FailedTurns
  /\ \A x \in messages : x.id # NoId =>
       LET d == delivery[x.id] IN
       /\ d.print = x.print
       /\ d.status = IF x.turn \in FailedTurns THEN "FAILED" ELSE "COMPLETED"
       /\ d.status = "COMPLETED" => d.payload = x.turn
  /\ \A i \in Ids : delivery[i].status \in {"COMPLETED", "FAILED"} =>
       \E x \in messages : x.id = i

\* What a page has on the screen, partly streamed text included, is the stored
\* answer to the question it sent under its own identifier.
ShownIsStored ==
  \A b \in Tabs : tab[b].shown # 0 =>
    \E x \in messages : /\ x.role = "assistant"
                       /\ x.turn = tab[b].shown
                       /\ x.id = tab[b].id
                       /\ x.print = tab[b].print

\* The progress events of one request and the closing None fit the queue even
\* if the client reads none of them; one more put_nowait would raise QueueFull
\* in the middle of answer and lose the turn.
ProgressFits == \A q \in Requests : progress[q] + 1 <= QueueSize

\* The replay record keeps the promise of ReplayLedger.
Ledger == INSTANCE ReplayLedger WITH
  ledger <- [i \in Ids |-> CASE delivery[i].status = "none" -> "free"
                              [] delivery[i].status = "PENDING" -> "claimed"
                              [] delivery[i].status = "COMPLETED" -> "answered"
                              [] OTHER -> "failed"],
  questions <- [i \in Ids |-> Cardinality({x \in messages : x.id = i /\ x.role = "user"})],
  answers <- [i \in Ids |-> Cardinality({x \in messages : x.id = i /\ x.role = "assistant"})]

\* Every step of the service claims an identifier, settles it in one step or
\* leaves the ledger alone: chat/service.py implements ReplayLedger.
LedgerRefined == Ledger!Spec

\* A page that has sent a message stops waiting: it shows an answer, an error,
\* or that the backend is out of reach, whatever breaks on the way.
SendSettles == \A b \in Tabs : tab[b].at # "idle" ~> tab[b].at = "idle"

\* A stored PENDING record belongs to a request that is still at work, as the
\* error message_already_processing tells the client.
PendingMeansProcessing ==
  \A i \in Ids : delivery[i].status = "PENDING" =>
    \E q \in Requests : job[q].id = i /\ draft[q].row = "stored"

\* A message refused with deep_mode_required has left nothing behind.
UpgradeLeavesNothing == \A i \in refused : delivery[i].status = "none"

\* The page of a message refused with deep_mode_required offers the upgrade.
UpgradeOffered ==
  \A b \in Tabs : (tab[b].id \in refused /\ tab[b].at = "idle") =>
    tab[b].outcome \in {"upgrade", "cancelled", "offline"}
=============================================================================
