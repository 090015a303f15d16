---------------------------- MODULE Consolidation ----------------------------
(***************************************************************************)
(* AGT-06, the memory agent: the short-term memory (STM) of a session in   *)
(* Redis and its consolidation into long-term memory (LTM) in Postgres.    *)
(*                                                                         *)
(* consolidate_session runs once for every HTTP request of AGT-03 and once *)
(* for every delivery of a session.end event, so several calls for one     *)
(* session overlap.  Every await of the coroutine is a step here: other    *)
(* calls, the writers of the STM and a crash of the process may come       *)
(* between any two.  A statement that fails raises; a statement whose      *)
(* reply is lost has been applied and raises all the same.                 *)
(*                                                                         *)
(* An STM list holds the ordinals of the entries pushed to it: the n-th    *)
(* entry pushed to a list is n, so a set of ordinals is an ordered list.   *)
(***************************************************************************)
EXTENDS Integers

CONSTANTS
    Sessions,          \* session ids
    NoSession,         \* the session of a slot that has run no call yet
    Calls,             \* slots for running consolidate_session coroutines
    MAX_CONTEXT_TURNS, \* length of the circular buffer of turns (20 in stm.py)
    MaxPushed,         \* bound: MaxPushed[l] entries are ever pushed to list l
    MaxFaults          \* bound: expired keys and failures of Redis, Postgres, Kafka
                       \* or the process

ASSUME ConsolidationAssumption ==
    /\ NoSession \notin Sessions
    /\ MAX_CONTEXT_TURNS \in Nat \ {0}
    /\ MaxPushed \in [{"errors", "context", "vocab"} -> Nat]
    /\ MaxFaults \in Nat

VARIABLES
    stm,           \* stm[s][l]: the entries of list l of session s, in Redis
    count,         \* count[s][l]: entries pushed to it so far (numbers them)
    expired,       \* expired[s][l]: the key has expired at least once
    untrimmed,     \* untrimmed[s]: pipelines whose turn is pushed and whose LTRIM
                   \* has not been served
    overrun,       \* overrun[s]: the most of them there were at once (history)
    row,           \* row[s]: the learning_sessions row
    errorRows,     \* errorRows[s][k]: rows of error_events for error k
    encounters,    \* encounters[s][k]: times encounter k was added to vocabulary_mastery
    conversation,  \* conversation[s]: the rows of conversation_archive
    complete,      \* complete[s]: agent.consolidation.complete events published
    snapshot,      \* snapshot[s]: what the call that closed s had read (history)
    ending,        \* sessions whose consolidation has been asked for (history)
    atEnd,         \* atEnd[s]: count[s] when that was first done (history)
    embedding,     \* sessions with a pending background embedding task
    call,          \* call[c]: the coroutine in slot c
    faults         \* failures so far

pipelineVars == <<untrimmed, overrun>>
stmVars == <<stm, count, expired, pipelineVars>>
ltmVars == <<row, errorRows, encounters, conversation, snapshot>>
endVars == <<ending, atEnd>>
vars == <<stmVars, ltmVars, endVars, complete, embedding, call, faults>>

Lists == {"errors", "context", "vocab"}
Items(l) == 1 .. MaxPushed[l]
None == [l \in Lists |-> {}]
Zero == [l \in Lists |-> 0]
Tally(l) == [k \in Items(l) |-> 0]

\* Where a coroutine is: the await it is about to make.
Points == {"idle", "read", "create", "close", "errors", "vocab", "archive", "emit"}

\* The points between the close of the session row and the return.
Owning == {"errors", "vocab", "archive", "emit"}

\* What the last call in a slot answered.
Answers == {"none", "true", "false", "raised"}

Reading == {got \in [Lists -> SUBSET Nat] : \A l \in Lists : got[l] \subseteq Items(l)}
Counts == [Lists -> Nat]
CallRecords ==
    [at : Points, session : Sessions \cup {NoSession}, unread : SUBSET Lists,
     got : Reading, answer : Answers]
\* A slot whose last call was for s and answered a.
IdleCall(s, a) ==
    [at |-> "idle", session |-> s, unread |-> {}, got |-> None,
     answer |-> a]

Conversations == [rows : Nat, transcript : SUBSET Nat, embedded : BOOLEAN]

TypeOK ==
    /\ \A s \in Sessions, l \in Lists :
         stm[s][l] \subseteq 1 .. count[s][l] /\ count[s][l] \in 0 .. MaxPushed[l]
    /\ stm \in [Sessions -> [Lists -> SUBSET Nat]]
    /\ count \in [Sessions -> Counts]
    /\ expired \in [Sessions -> [Lists -> BOOLEAN]]
    /\ untrimmed \in [Sessions -> Nat]
    /\ overrun \in [Sessions -> Nat]
    /\ row \in [Sessions -> {"none", "open", "closed"}]
    /\ errorRows \in [Sessions -> [Items("errors") -> Nat]]
    /\ encounters \in [Sessions -> [Items("vocab") -> Nat]]
    /\ conversation \in [Sessions -> Conversations]
    /\ snapshot \in [Sessions -> Reading]
    /\ ending \in SUBSET Sessions
    /\ atEnd \in [Sessions -> Counts]
    /\ complete \in [Sessions -> Nat]
    /\ embedding \in SUBSET Sessions
    /\ call \in [Calls -> CallRecords]
    /\ faults \in 0 .. MaxFaults

Init ==
    /\ stm = [s \in Sessions |-> None]
    /\ count = [s \in Sessions |-> Zero]
    /\ expired = [s \in Sessions |-> [l \in Lists |-> FALSE]]
    /\ untrimmed = [s \in Sessions |-> 0]
    /\ overrun = [s \in Sessions |-> 0]
    /\ row = [s \in Sessions |-> "none"]
    /\ errorRows = [s \in Sessions |-> Tally("errors")]
    /\ encounters = [s \in Sessions |-> Tally("vocab")]
    /\ conversation =
         [s \in Sessions |-> [rows |-> 0, transcript |-> {}, embedded |-> FALSE]]
    /\ complete = [s \in Sessions |-> 0]
    /\ snapshot = [s \in Sessions |-> None]
    /\ ending = {}
    /\ atEnd = [s \in Sessions |-> Zero]
    /\ embedding = {}
    /\ call = [c \in Calls |-> IdleCall(NoSession, "none")]
    /\ faults = 0

\* A failure, of which there are at most MaxFaults.
Fault ==
    /\ faults < MaxFaults
    /\ faults' = faults + 1

-----------------------------------------------------------------------------
(* The writers of the STM: AGT-04 logs errors, AGT-03 context turns, both   *)
(* over HTTP while a consolidation may be running.  A pipeline that is no   *)
(* transaction has its commands served one by one, and the commands of      *)
(* others between them; a connection that breaks cuts it short.  The        *)
(* EXPIRE at the end of each changes no list.                               *)

\* The ordinal of the entry pushed next to list l of s.
NextEntry(s, l) == count[s][l] + 1

\* (mutant) The entry is pushed but not numbered.
PushUnnumbered(s, l, list) ==
    /\ NextEntry(s, l) \in Items(l)
    /\ stm' = [stm EXCEPT ![s][l] = list]
    /\ UNCHANGED <<count, expired, ltmVars, endVars, complete, embedding, call, faults>>

\* Redis now holds the given list under the key.
Push(s, l, list) ==
    /\ NextEntry(s, l) \in Items(l)
    /\ stm' = [stm EXCEPT ![s][l] = list]
    /\ count' = [count EXCEPT ![s][l] = NextEntry(s, l)]
    /\ UNCHANGED <<expired, ltmVars, endVars, complete, embedding, call, faults>>

\* RPUSH key entry.
RPush(s, l) == stm[s][l] \cup {NextEntry(s, l)}

\* (mutant) The list is trimmed at the wrong end: LTRIM key 0 MAX_CONTEXT_TURNS-1.
LTrimHead(list, n) == {k \in list : k <= MAX_CONTEXT_TURNS}

\* LTRIM key -MAX_CONTEXT_TURNS -1 of a list that ends in entry n.
LTrim(list, n) == {k \in list : k > n - MAX_CONTEXT_TURNS}

AppendError(s) == Push(s, "errors", RPush(s, "errors")) /\ UNCHANGED pipelineVars
AppendVocab(s) == Push(s, "vocab", RPush(s, "vocab")) /\ UNCHANGED pipelineVars

\* The RPUSH of a pipeline: until its LTRIM the list may hold a turn too many.
AppendContextTurn(s) ==
    LET open == untrimmed[s] + 1 IN
    /\ Push(s, "context", RPush(s, "context"))
    /\ untrimmed' = [untrimmed EXCEPT ![s] = open]
    /\ overrun' = [overrun EXCEPT ![s] = IF @ < open THEN open ELSE @]

\* The LTRIM of one of them: of the list as it is by now.
TrimContext(s) ==
    /\ untrimmed[s] > 0
    /\ stm' = [stm EXCEPT ![s]["context"] = LTrim(@, count[s]["context"])]
    /\ untrimmed' = [untrimmed EXCEPT ![s] = @ - 1]
    /\ UNCHANGED <<count, expired, overrun, ltmVars, endVars, complete, embedding, call, faults>>

\* SESSION_TTL seconds after the last push to a list Redis drops the key.
Expire(s, l) ==
    /\ stm[s][l] # {}
    /\ Fault
    /\ stm' = [stm EXCEPT ![s][l] = {}]
    /\ expired' = [expired EXCEPT ![s][l] = TRUE]
    /\ UNCHANGED <<count, pipelineVars, ltmVars, endVars, complete, embedding, call>>

-----------------------------------------------------------------------------
(* The control of one coroutine.                                            *)

\* The slot goes on to the next await.
Proceed(c, point) ==
    /\ call' = [call EXCEPT ![c].at = point]
    /\ UNCHANGED faults

\* The coroutine returns.
Return(c, answer) ==
    /\ call' = [call EXCEPT ![c] = IdleCall(call[c].session, answer)]
    /\ UNCHANGED faults

\* An exception leaves the coroutine: the HTTP route answers 500, the event
\* handler logs it and the consumer moves on.
Raise(c) ==
    /\ Fault
    /\ call' = [call EXCEPT ![c] = IdleCall(call[c].session, "raised")]

\* Someone asks for s to be consolidated: AGT-03 at the end of a session, the
\* session.end topic (at least once, so any number of times), an operator.  A
\* free slot starts the reads of step 1.
Request(c, s) ==
    /\ call[c].at = "idle"
    /\ call' = [call EXCEPT ![c] = [IdleCall(s, "none") EXCEPT
                                      !.at = "read", !.unread = Lists]]
    /\ ending' = ending \cup {s}
    /\ atEnd' = IF s \in ending THEN atEnd ELSE [atEnd EXCEPT ![s] = count[s]]
    /\ UNCHANGED <<stmVars, ltmVars, complete, embedding, faults>>

\* asyncio.gather: the reads are separate round trips, served in any order.
Read(c, l) ==
    LET me == call[c] IN
    /\ me.at = "read"
    /\ l \in me.unread
    /\ call' = [call EXCEPT ![c] = [me EXCEPT
                  !.got[l] = stm[me.session][l],
                  !.unread = @ \ {l},
                  !.at = IF me.unread = {l} THEN "create" ELSE "read"]]
    /\ UNCHANGED <<stmVars, endVars, ltmVars, complete, embedding, faults>>

\* (mutant) The session row is not created before it is closed.
CreateSessionSkipped(c) ==
    /\ call[c].at = "create"
    /\ Proceed(c, "close") \/ Raise(c)
    /\ UNCHANGED <<stmVars, endVars, ltmVars, complete, embedding>>

\* (mutant) The conflict is resolved by an update that resets end_time.
CreateSessionReopens(c) ==
    LET s == call[c].session IN
    /\ call[c].at = "create"
    /\ row' = [row EXCEPT ![s] = "open"]
    /\ Proceed(c, "close") \/ Raise(c)
    /\ UNCHANGED <<stmVars, endVars, errorRows, encounters, conversation, snapshot,
                   complete, embedding>>

\* INSERT ... ON CONFLICT (session_id) DO NOTHING.
CreateSession(c) ==
    LET s == call[c].session IN
    /\ call[c].at = "create"
    /\ row' = [row EXCEPT ![s] = IF @ = "none" THEN "open" ELSE @]
    /\ Proceed(c, "close") \/ Raise(c)
    /\ UNCHANGED <<stmVars, endVars, errorRows, encounters, conversation, snapshot,
                   complete, embedding>>

\* The UPDATE below matches no row: end_time is set already.
CloseSessionLoses(c) ==
    /\ call[c].at = "close"
    /\ row[call[c].session] # "open"
    /\ Return(c, "false")
    /\ UNCHANGED <<stmVars, endVars, ltmVars, complete, embedding>>

\* (mutant) UPDATE without the condition on end_time.
CloseSessionAlways(c) ==
    LET s == call[c].session IN
    /\ call[c].at = "close"
    /\ row' = [row EXCEPT ![s] = "closed"]
    /\ snapshot' = [snapshot EXCEPT ![s] = call[c].got]
    /\ Proceed(c, "errors") \/ Raise(c)
    /\ UNCHANGED <<stmVars, endVars, errorRows, encounters, conversation, complete, embedding>>

\* UPDATE ... WHERE end_time IS NULL: one atomic statement sets end_time.
CloseSessionWins(c) ==
    LET s == call[c].session IN
    /\ call[c].at = "close"
    /\ row[s] = "open"
    /\ row' = [row EXCEPT ![s] = "closed"]
    /\ snapshot' = [snapshot EXCEPT ![s] = call[c].got]
    /\ Proceed(c, "errors") \/ Raise(c)
    /\ UNCHANGED <<stmVars, endVars, errorRows, encounters, conversation, complete, embedding>>

\* The tally with one more for every entry of the set read.
AddAll(tally, entries) == [k \in DOMAIN tally |-> tally[k] + (IF k \in entries THEN 1 ELSE 0)]

\* executemany in one transaction.  The rows have generated keys, so ON
\* CONFLICT DO NOTHING never finds a conflict.
InsertErrorEvents(c) ==
    LET s == call[c].session IN
    /\ call[c].at = "errors"
    /\ errorRows' = [errorRows EXCEPT ![s] = AddAll(@, call[c].got["errors"])]
    /\ \/ Proceed(c, "vocab")
       \/ call[c].got["errors"] # {} /\ Raise(c)
    /\ UNCHANGED <<stmVars, endVars, row, encounters, conversation, snapshot, complete, embedding>>

UpsertVocabBatch(c) ==
    LET s == call[c].session IN
    /\ call[c].at = "vocab"
    /\ encounters' = [encounters EXCEPT ![s] = AddAll(@, call[c].got["vocab"])]
    /\ Proceed(c, "archive")
    /\ UNCHANGED <<stmVars, endVars, row, errorRows, conversation, snapshot, complete, embedding>>

\* The batch fails as a whole, is logged, and the consolidation goes on.
SwallowVocabFailure(c) ==
    /\ call[c].at = "vocab"
    /\ call[c].got["vocab"] # {}
    /\ Fault
    /\ call' = [call EXCEPT ![c].at = "archive"]
    /\ UNCHANGED <<stmVars, endVars, ltmVars, complete, embedding>>

\* (mutant) The turns are read again when they are archived.
InsertConversationReread(c) ==
    LET s == call[c].session IN
    /\ call[c].at = "archive"
    /\ conversation' = [conversation EXCEPT ![s] =
         [rows |-> @.rows + 1, transcript |-> stm[s]["context"], embedded |-> FALSE]]
    /\ \/ Proceed(c, "emit") /\ embedding' = embedding \cup {s}
       \/ Raise(c) /\ UNCHANGED embedding
    /\ UNCHANGED <<stmVars, endVars, row, errorRows, encounters, snapshot, complete>>

\* Step 5, and step 6 when it returned: the embedding task is created.
InsertConversation(c) ==
    LET s == call[c].session IN
    /\ call[c].at = "archive"
    /\ conversation' = [conversation EXCEPT ![s] =
         [rows |-> @.rows + 1, transcript |-> call[c].got["context"], embedded |-> FALSE]]
    /\ \/ Proceed(c, "emit") /\ embedding' = embedding \cup {s}
       \/ Raise(c) /\ UNCHANGED embedding
    /\ UNCHANGED <<stmVars, endVars, row, errorRows, encounters, snapshot, complete>>

\* emit() swallows a failure, so the event may be lost; the call answers True.
EmitComplete(c) ==
    LET s == call[c].session IN
    /\ call[c].at = "emit"
    /\ call' = [call EXCEPT ![c] = IdleCall(s, "true")]
    /\ \/ complete' = [complete EXCEPT ![s] = @ + 1] /\ UNCHANGED faults
       \/ UNCHANGED complete /\ Fault
    /\ UNCHANGED <<stmVars, endVars, ltmVars, embedding>>

\* (mutant) A failed insert of the conversation is swallowed like that of the
\* vocabulary.
StatementFailsSwallowed(c) ==
    /\ call[c].at = "archive"
    /\ Fault
    /\ call' = [call EXCEPT ![c].at = "emit"]
    /\ UNCHANGED <<stmVars, endVars, ltmVars, complete, embedding>>

\* A read or a statement fails before it takes effect.  With no errors to
\* insert insert_error_events makes no statement that could fail.
StatementFails(c) ==
    /\ call[c].at \in {"read", "create", "close", "errors", "archive"}
    /\ call[c].at = "errors" => call[c].got["errors"] # {}
    /\ Raise(c)
    /\ UNCHANGED <<stmVars, endVars, ltmVars, complete, embedding>>

\* _generate_and_store_embedding; a blank transcript stores nothing.
StoreEmbedding(s) ==
    /\ s \in embedding
    /\ embedding' = embedding \ {s}
    /\ conversation' = [conversation EXCEPT ![s].embedded = @ \/ conversation[s].transcript # {}]
    /\ UNCHANGED <<stmVars, endVars, row, errorRows, encounters, snapshot, complete, call, faults>>

\* Its failure is logged and never retried.
EmbeddingFails(s) ==
    /\ s \in embedding
    /\ Fault
    /\ embedding' = embedding \ {s}
    /\ UNCHANGED <<stmVars, endVars, ltmVars, complete, call>>

\* The process dies: its coroutines and background tasks are gone, Redis,
\* Postgres and the topic are not.
Crash ==
    /\ Fault
    /\ call' = [c \in Calls |-> IF call[c].at = "idle" THEN call[c]
                                ELSE IdleCall(call[c].session, "raised")]
    /\ embedding' = {}
    /\ UNCHANGED <<stmVars, endVars, ltmVars, complete>>

-----------------------------------------------------------------------------
\* What the event loop of AGT-06 does for the call in slot c.
Step(c) ==
    \/ \E l \in Lists : Read(c, l)
    \/ CreateSession(c)
    \/ CloseSessionWins(c)
    \/ CloseSessionLoses(c)
    \/ InsertErrorEvents(c)
    \/ UpsertVocabBatch(c)
    \/ InsertConversation(c)
    \/ EmitComplete(c)

Next ==
    \/ \E s \in Sessions :
         \/ AppendError(s) \/ AppendVocab(s)
         \/ AppendContextTurn(s) \/ TrimContext(s)
         \/ \E l \in Lists : Expire(s, l)
         \/ StoreEmbedding(s) \/ EmbeddingFails(s)
         \/ \E c \in Calls : Request(c, s)
    \/ \E c \in Calls : Step(c) \/ SwallowVocabFailure(c) \/ StatementFails(c)
    \/ Crash

Spec == Init /\ [][Next]_vars

\* The event loop runs every ready coroutine and background task; nobody has
\* to push, expire, request or fail.
Fairness ==
    /\ \A c \in Calls : WF_vars(Step(c))
    /\ \A s \in Sessions : WF_vars(StoreEmbedding(s))

FairSpec == Spec /\ Fairness

-----------------------------------------------------------------------------
(* Properties.                                                              *)

\* The entries of a tally.
Stored(tally) == {k \in DOMAIN tally : tally[k] > 0}

\* However many requests, deliveries and retries overlap, fail or are cut off
\* by a crash, no error, no vocabulary encounter and no conversation of a
\* session is written to LTM twice (none of the three statements is idempotent
\* by itself: only the close of the session row stands between them).
NothingTwice ==
    \A s \in Sessions :
        /\ \A k \in Items("errors") : errorRows[s][k] <= 1
        /\ \A k \in Items("vocab") : encounters[s][k] <= 1
        /\ conversation[s].rows <= 1

\* LTM holds one consistent reading of the STM: the errors are all or none of
\* those the closing call read, and a conversation stands beside all of them
\* and holds the turns read with them.
OneReading ==
    \A s \in Sessions :
        /\ Stored(errorRows[s]) \in {{}, snapshot[s]["errors"]}
        /\ Stored(encounters[s]) \in {{}, snapshot[s]["vocab"]}
        /\ conversation[s].rows > 0 =>
             /\ Stored(errorRows[s]) = snapshot[s]["errors"]
             /\ conversation[s].transcript = snapshot[s]["context"]

\* agent.consolidation.complete wakes AGT-08, which reads the session's errors
\* from LTM: it is published at most once for a session, and only when its
\* errors and its conversation are there.
CompleteIsBacked ==
    \A s \in Sessions :
        /\ complete[s] <= conversation[s].rows
        /\ complete[s] > 0 => Stored(errorRows[s]) = snapshot[s]["errors"]

\* The last w turns when m turns have been appended.
LastTurns(w, m) == {k \in 1 .. m : k > m - w}

\* The lengths a reader may find the full buffer to have: a turn more for every
\* pipeline that was at once between its RPUSH and its LTRIM.
Windows(s) == MAX_CONTEXT_TURNS .. MAX_CONTEXT_TURNS + overrun[s]

\* What the session had recorded when its end was first asked for is archived,
\* though the reads race with the writers: every error, and the last turns as
\* of some moment after that, the buffer's and at most those not yet trimmed
\* away.  Only an expired key excuses.
NothingForgotten ==
    \A s \in Sessions : conversation[s].rows > 0 =>
        /\ ~expired[s]["errors"] => 1 .. atEnd[s]["errors"] \subseteq Stored(errorRows[s])
        /\ ~expired[s]["context"] =>
             \E m \in atEnd[s]["context"] .. count[s]["context"], w \in Windows(s) :
                 conversation[s].transcript = LastTurns(w, m)

\* Without failures a session that is asked for is archived, announced and, if
\* anything was said, embedded.
RequestedIsArchived ==
    \A s \in Sessions :
        s \in ending ~> \/ /\ conversation[s].rows = 1
                           /\ complete[s] = 1
                           /\ conversation[s].embedded \/ conversation[s].transcript = {}
                        \/ faults > 0

\* "Raises on unexpected errors after partial writes - callers should retry":
\* when a call has answered (True: consolidated now, False: already done) and
\* no other call for the session is running, the session is archived.
RetryCompletes ==
    \A c \in Calls :
        /\ call[c].answer \in {"true", "false"}
        /\ \A d \in Calls : call[d].session = call[c].session => call[d].at = "idle"
        => conversation[call[c].session].rows > 0

-----------------------------------------------------------------------------
(* What the archive promises its readers: see SessionArchive.               *)

Phase(s) ==
    IF complete[s] > 0 THEN "announced"
    ELSE IF conversation[s].rows > 0 THEN "archived"
    ELSE IF row[s] = "closed" THEN "sealed"
    ELSE "open"

Archive == INSTANCE SessionArchive WITH
    Entries <- UNION {Items(l) : l \in Lists},
    phase <- [s \in Sessions |-> Phase(s)],
    errors <- [s \in Sessions |-> Stored(errorRows[s])],
    words <- [s \in Sessions |-> Stored(encounters[s])],
    transcript <- [s \in Sessions |-> conversation[s].transcript]

\* Consolidation implements the write-once archive.
ImplementsArchive == Archive!Spec
=============================================================================
