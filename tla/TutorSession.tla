----------------------------- MODULE TutorSession -----------------------------
(***************************************************************************)
(* AGT-03, the tutor: the life of one session id.  start_session,          *)
(* process_turn and end_session keep nothing in memory; what they know of  *)
(* the session is the meta record and the turn counter that AGT-06 holds   *)
(* in Redis, reached by one HTTP request per await.  A WebSocket handler   *)
(* runs its messages one after the other and ends a started session when   *)
(* the connection is lost; the HTTP routes run whenever they are called.   *)
(*                                                                         *)
(* Starts of the session are numbered: meta = k is the record that start k *)
(* wrote, 0 none.                                                          *)
(***************************************************************************)
EXTENDS Integers

CONSTANTS
    Sockets,    \* WebSocket connections to /ws/sessions/{session_id}
    Clients,    \* callers of POST /sessions/start, /turn and /end
    MaxStarts,  \* bound: calls of start_session
    MaxTurns,   \* bound: calls of process_turn
    MaxFaults   \* bound: failed requests, expired keys and crashes

ASSUME TutorSessionAssumption ==
    /\ Sockets \cap Clients = {}
    /\ {MaxStarts, MaxTurns, MaxFaults} \subseteq Nat

VARIABLES
    meta,     \* session:{id}:meta in Redis
    turns,    \* session:{id}:turns
    context,  \* number of entries appended to session:{id}:context
    late,     \* requests given up on by AGT-03 that AGT-06 may still serve
    conn,     \* conn[a]: the connection of actor a
    started,  \* started[w]: the local of handle_session
    op,       \* op[a]: the coroutine that serves a
    starts,   \* calls of start_session so far (numbers them)
    taken,    \* calls of process_turn so far
    turnsOf,  \* turnsOf[k]: turns counted for start k (history)
    began,    \* starts whose session.start was published
    ended,    \* ended[k]: session.end events published for start k
    seal,     \* how the first consolidation found the session (history)
    raced,    \* starts that an end_session shared with another call (history)
    faults    \* failures so far

redisVars == <<meta, turns, context>>
actorVars == <<conn, started, op>>
topicVars == <<began, ended>>
vars == <<redisVars, late, actorVars, starts, taken, turnsOf, topicVars, seal, raced, faults>>

Actors == Sockets \cup Clients
Starts == 1 .. MaxStarts

\* The await a coroutine is about to make.  Awaits that change nothing here
\* (the profile and the plan, set_state, the context for the prompt, the LLM)
\* belong to the one after them.
StartPoints == {"opening", "set_meta", "emit_start"}
TurnPoints == {"get_meta", "user", "assistant", "incr"}
EndPoints == {"end_get_meta", "turn_count", "delete_meta", "consolidate", "emit_end"}
Points == {"idle"} \cup StartPoints \cup TurnPoints \cup EndPoints

\* "gone": the client has left, which the next receive or send will raise;
\* "cleanup": the finally block is ending the session.
Connections == {"open", "gone", "cleanup", "closed"}

\* start: the start whose meta the call holds; turns: the count it read.
Ops == [at : Points, start : 0 .. MaxStarts, turns : Nat]
IdleOp == [at |-> "idle", start |-> 0, turns |-> 0]

\* What a request that timed out may still do.
LateRequests ==
    [what : {"append", "set_meta", "incr", "delete_meta", "consolidate"},
     start : 0 .. MaxStarts, fault : Nat]

Unsealed == [done |-> FALSE, quiet |-> FALSE, context |-> 0, starts |-> 0]

TypeOK ==
    /\ meta \in 0 .. MaxStarts /\ turns \in 0 .. MaxTurns /\ context \in Nat
    /\ late \subseteq LateRequests
    /\ conn \in [Actors -> Connections]
    /\ started \in [Sockets -> BOOLEAN]
    /\ op \in [Actors -> Ops]
    /\ starts \in 0 .. MaxStarts /\ taken \in 0 .. MaxTurns
    /\ turnsOf \in [Starts -> Nat]
    /\ began \subseteq Starts
    /\ ended \in [Starts -> Nat]
    /\ seal \in [done : BOOLEAN, quiet : BOOLEAN, context : Nat, starts : Nat]
    /\ raced \subseteq Starts
    /\ faults \in 0 .. MaxFaults

Init ==
    /\ meta = 0 /\ turns = 0 /\ context = 0
    /\ late = {}
    /\ conn = [a \in Actors |-> "open"]
    /\ started = [w \in Sockets |-> FALSE]
    /\ op = [a \in Actors |-> IdleOp]
    /\ starts = 0 /\ taken = 0
    /\ turnsOf = [k \in Starts |-> 0]
    /\ began = {}
    /\ ended = [k \in Starts |-> 0]
    /\ seal = Unsealed
    /\ raced = {}
    /\ faults = 0

-----------------------------------------------------------------------------
(* The requests AGT-06 serves: what each does when it lands.                *)

\* Calls other than a's that hold the meta of start k.
Sharing(a, k) == {b \in Actors \ {a} : op[b].at # "idle" /\ op[b].start = k}

\* The calls among them that end the session.
Ending(a, k) == {b \in Sharing(a, k) : op[b].at \in EndPoints}

AppendLands == context' = context + 1

\* A start over a session that was not ended takes its place.
SetMetaLands(k) ==
    /\ meta' = k
    /\ raced' = raced \cup ({meta} \ {0})

\* (mutant) Only the meta key is deleted.
DeleteMetaOnly(k) ==
    /\ meta' = 0
    /\ UNCHANGED turns
    /\ raced' = raced \cup ({meta} \ {0, k})

\* (mutant) Nothing is deleted.
DeleteNothing(k) ==
    /\ UNCHANGED <<meta, turns>>
    /\ raced' = raced \cup ({meta} \ {0, k})

\* DEL meta turns, by a call that read the meta of start k: another start's
\* may be there by now.
DeleteMetaLands(k) ==
    /\ meta' = 0
    /\ turns' = 0
    /\ raced' = raced \cup ({meta} \ {0, k})

\* (mutant) The increment is sent twice.
IncrLandsTwice(k) ==
    /\ turns' = turns + 2
    /\ turnsOf' = [turnsOf EXCEPT ![k] = @ + 1]

IncrLands(k) ==
    /\ turns' = turns + 1
    /\ turnsOf' = [turnsOf EXCEPT ![k] = @ + 1]

\* consolidate_session archives the context; the first request counts.  The
\* session is quiet when no other call is running and nobody started it anew.
ConsolidateLands(others, k) ==
    seal' = IF seal.done THEN seal
            ELSE [done |-> TRUE, context |-> context, starts |-> starts,
                  quiet |-> /\ \A b \in others : op[b].at = "idle"
                            /\ meta \in {0, k}]

-----------------------------------------------------------------------------
(* The control of a coroutine.                                              *)

Proceed(a, point) == op' = [op EXCEPT ![a].at = point] /\ UNCHANGED <<conn, started>>

\* The handler has answered the message and waits for the next one.
Return(a) == op' = [op EXCEPT ![a] = IdleOp] /\ UNCHANGED conn

\* (mutant) The handler is left, and the socket open.
CloseKeeps(a) ==
    /\ op' = [op EXCEPT ![a] = IdleOp]
    /\ started' = [w \in Sockets |-> IF w = a THEN FALSE ELSE started[w]]
    /\ UNCHANGED conn

\* end_session has returned, or raised in the finally block: the socket is
\* closed, and what the finally block would end is ended.
Close(a) ==
    /\ op' = [op EXCEPT ![a] = IdleOp]
    /\ conn' = IF a \in Sockets THEN [conn EXCEPT ![a] = "closed"] ELSE conn
    /\ started' = [w \in Sockets |-> IF w = a THEN FALSE ELSE started[w]]

\* An exception: reported to the client, which may go on (the finally block
\* only logs it).
Raise(a) ==
    IF conn[a] = "cleanup" THEN Close(a) ELSE Return(a) /\ UNCHANGED started

Fault ==
    /\ faults < MaxFaults
    /\ faults' = faults + 1

\* A message or a request may begin for a.
Ready(a) == op[a].at = "idle" /\ conn[a] = "open"

Begin(a, point, k) == op' = [op EXCEPT ![a] = [at |-> point, start |-> k, turns |-> 0]]

-----------------------------------------------------------------------------
(* start_session.                                                           *)

Start(a) ==
    /\ Ready(a)
    /\ starts < MaxStarts
    /\ starts' = starts + 1
    /\ Begin(a, "opening", starts + 1)
    /\ UNCHANGED <<redisVars, late, conn, started, taken, turnsOf, topicVars, seal, raced, faults>>

AppendOpening(a) ==
    /\ op[a].at = "opening"
    /\ AppendLands
    /\ Proceed(a, "set_meta")
    /\ UNCHANGED <<meta, turns, late, starts, taken, turnsOf, topicVars, seal, raced, faults>>

SetMeta(a) ==
    /\ op[a].at = "set_meta"
    /\ SetMetaLands(op[a].start)
    /\ Proceed(a, "emit_start")
    /\ UNCHANGED <<turns, context, late, starts, taken, turnsOf, topicVars, seal, faults>>

\* The session.start event is published, or lost without a word; then the
\* handler sets started.
EmitStart(a) ==
    /\ op[a].at = "emit_start"
    /\ \/ began' = began \cup {op[a].start} /\ UNCHANGED faults
       \/ UNCHANGED began /\ Fault
    /\ Return(a)
    /\ started' = [w \in Sockets |-> started[w] \/ w = a]
    /\ UNCHANGED <<redisVars, late, starts, taken, turnsOf, ended, seal, raced>>

-----------------------------------------------------------------------------
(* process_turn: process_turn_reply, then process_turn_feedback.            *)

\* The handler refuses a turn before a start; the HTTP route does not.
Turn(a) ==
    /\ Ready(a)
    /\ a \in Sockets => started[a]
    /\ taken < MaxTurns
    /\ taken' = taken + 1
    /\ Begin(a, "get_meta", 0)
    /\ UNCHANGED <<redisVars, late, conn, started, starts, turnsOf, topicVars, seal, raced, faults>>

\* (mutant) A turn goes on without a meta record.
GetMetaUnchecked(a) ==
    /\ op[a].at = "get_meta"
    /\ op' = [op EXCEPT ![a] = [at |-> "user", start |-> meta, turns |-> 0]]
    /\ raced' = IF Ending(a, meta) = {} THEN raced ELSE raced \cup ({meta} \ {0})
    /\ UNCHANGED <<redisVars, late, conn, started, starts, taken, turnsOf, topicVars, seal, faults>>

GetMeta(a) ==
    /\ op[a].at = "get_meta"
    /\ meta # 0
    /\ op' = [op EXCEPT ![a] = [at |-> "user", start |-> meta, turns |-> 0]]
    /\ raced' = IF Ending(a, meta) = {} THEN raced ELSE raced \cup {meta}
    /\ UNCHANGED <<redisVars, late, conn, started, starts, taken, turnsOf, topicVars, seal, faults>>

\* ValueError: the session is not active.
GetMetaNone(a) ==
    /\ op[a].at = "get_meta"
    /\ meta = 0
    /\ Raise(a)
    /\ UNCHANGED <<redisVars, late, starts, taken, turnsOf, topicVars, seal, raced, faults>>

AppendTurn(a) ==
    /\ \/ op[a].at = "user" /\ Proceed(a, "assistant")
       \/ op[a].at = "assistant" /\ Proceed(a, "incr")
    /\ AppendLands
    /\ UNCHANGED <<meta, turns, late, starts, taken, turnsOf, topicVars, seal, raced, faults>>

\* The reply is sent; what follows asks AGT-04 and AGT-11 and never raises.
IncrTurn(a) ==
    /\ op[a].at = "incr"
    /\ IncrLands(op[a].start)
    /\ Return(a)
    /\ UNCHANGED <<meta, context, late, started, starts, taken, topicVars, seal, raced, faults>>

-----------------------------------------------------------------------------
(* end_session.                                                             *)

End(a) ==
    /\ Ready(a)
    /\ a \in Sockets => started[a]
    /\ Begin(a, "end_get_meta", 0)
    /\ UNCHANGED <<redisVars, late, conn, started, starts, taken, turnsOf, topicVars, seal, raced, faults>>

\* The turns are read only when there is a meta record.
EndGetMeta(a) ==
    /\ op[a].at = "end_get_meta"
    /\ op' = [op EXCEPT ![a] =
         [at |-> IF meta = 0 THEN "delete_meta" ELSE "turn_count", start |-> meta, turns |-> 0]]
    /\ raced' = IF Sharing(a, meta) = {} THEN raced ELSE raced \cup ({meta} \ {0})
    /\ UNCHANGED <<redisVars, late, conn, started, starts, taken, turnsOf, topicVars, seal, faults>>

GetTurnCount(a) ==
    /\ op[a].at = "turn_count"
    /\ op' = [op EXCEPT ![a] = [at |-> "delete_meta", start |-> op[a].start, turns |-> turns]]
    /\ UNCHANGED <<redisVars, late, conn, started, starts, taken, turnsOf, topicVars, seal, raced, faults>>

DeleteMeta(a) ==
    /\ op[a].at = "delete_meta"
    /\ DeleteMetaLands(op[a].start)
    /\ Proceed(a, "consolidate")
    /\ UNCHANGED <<context, late, starts, taken, turnsOf, topicVars, seal, faults>>

Consolidate(a) ==
    /\ op[a].at = "consolidate"
    /\ ConsolidateLands(Actors \ {a}, op[a].start)
    /\ Proceed(a, "emit_end")
    /\ UNCHANGED <<redisVars, late, starts, taken, turnsOf, topicVars, raced, faults>>

\* session.end, by a call that saw the meta record and at least one turn.  An
\* event may be lost without a word.
EmitEnd(a) ==
    /\ op[a].at = "emit_end"
    /\ \/ /\ op[a].start # 0 /\ op[a].turns > 0
          /\ \/ ended' = [ended EXCEPT ![op[a].start] = @ + 1] /\ UNCHANGED faults
             \/ UNCHANGED ended /\ Fault
       \/ /\ op[a].start = 0 \/ op[a].turns = 0
          /\ UNCHANGED <<ended, faults>>
    /\ Close(a)
    /\ UNCHANGED <<redisVars, late, starts, taken, turnsOf, began, seal, raced>>

-----------------------------------------------------------------------------
(* The connection of a WebSocket.                                           *)

\* The client sends "end" without a started session: the handler hangs up.
HangUp(w) ==
    /\ Ready(w)
    /\ ~started[w]
    /\ conn' = [conn EXCEPT ![w] = "closed"]
    /\ UNCHANGED <<redisVars, late, started, op, starts, taken, turnsOf, topicVars, seal, raced, faults>>

\* The tab is closed or the network lost.  The call that runs is not
\* cancelled.
Disconnect(w) ==
    /\ conn[w] = "open"
    /\ conn' = [conn EXCEPT ![w] = "gone"]
    /\ UNCHANGED <<redisVars, late, started, op, starts, taken, turnsOf, topicVars, seal, raced, faults>>

\* (mutant) The finally block does not end the session.
FinallySkips(w) ==
    /\ conn[w] = "gone"
    /\ op[w].at = "idle"
    /\ conn' = [conn EXCEPT ![w] = "closed"]
    /\ UNCHANGED <<redisVars, late, started, op, starts, taken, turnsOf, topicVars, seal, raced, faults>>

\* The handler finds the client gone: the finally block.
Finally(w) ==
    /\ conn[w] = "gone"
    /\ op[w].at = "idle"
    /\ \/ /\ started[w]
          /\ conn' = [conn EXCEPT ![w] = "cleanup"]
          /\ Begin(w, "end_get_meta", 0)
       \/ /\ ~started[w]
          /\ conn' = [conn EXCEPT ![w] = "closed"]
          /\ UNCHANGED op
    /\ UNCHANGED <<redisVars, late, started, starts, taken, turnsOf, topicVars, seal, raced, faults>>

-----------------------------------------------------------------------------
(* Failures.                                                                *)

\* A checked request is refused or the LLM fails: the exception leaves the
\* call.
CallFails(a) ==
    /\ op[a].at \in {"opening", "set_meta", "get_meta", "assistant", "incr",
                     "end_get_meta", "turn_count"}
    /\ Fault
    /\ Raise(a)
    /\ UNCHANGED <<redisVars, late, starts, taken, turnsOf, topicVars, seal, raced>>

\* An error status nobody looks at, or an exception that is swallowed.  The
\* meta record that is not deleted may be ended again.
CallIgnored(a) ==
    /\ \/ op[a].at = "opening" /\ Proceed(a, "set_meta") /\ UNCHANGED raced
       \/ op[a].at = "user" /\ Proceed(a, "assistant") /\ UNCHANGED raced
       \/ op[a].at = "assistant" /\ Proceed(a, "incr") /\ UNCHANGED raced
       \/ op[a].at = "delete_meta" /\ Proceed(a, "consolidate") /\ raced' = raced \cup ({op[a].start} \ {0})
       \/ op[a].at = "consolidate" /\ Proceed(a, "emit_end") /\ UNCHANGED raced
    /\ Fault
    /\ UNCHANGED <<redisVars, late, starts, taken, turnsOf, topicVars, seal>>

\* The request is given up: AGT-06 may serve it at any later time, or never.
Abandon(a, what) ==
    /\ Fault
    /\ late' = late \cup {[what |-> what, start |-> op[a].start, fault |-> faults]}
    /\ UNCHANGED <<redisVars, starts, taken, turnsOf, topicVars, seal, raced>>

TimesOut(a) ==
    \/ op[a].at = "opening" /\ Abandon(a, "append") /\ Proceed(a, "set_meta")
    \/ op[a].at = "user" /\ Abandon(a, "append") /\ Proceed(a, "assistant")
    \/ op[a].at = "assistant" /\ Abandon(a, "append") /\ Proceed(a, "incr")
    \/ op[a].at = "consolidate" /\ Abandon(a, "consolidate") /\ Proceed(a, "emit_end")
    \/ op[a].at \in {"set_meta", "incr", "delete_meta"} /\ Abandon(a, op[a].at) /\ Raise(a)

LateLands(r) ==
    /\ r \in late
    /\ late' = late \ {r}
    /\ \/ r.what = "append" /\ AppendLands /\ UNCHANGED <<meta, turns, turnsOf, seal, raced>>
       \/ r.what = "set_meta" /\ SetMetaLands(r.start) /\ UNCHANGED <<turns, context, turnsOf, seal>>
       \/ r.what = "incr" /\ IncrLands(r.start) /\ UNCHANGED <<meta, context, seal, raced>>
       \/ r.what = "delete_meta" /\ DeleteMetaLands(r.start) /\ UNCHANGED <<context, turnsOf, seal>>
       \/ r.what = "consolidate" /\ ConsolidateLands(Actors, r.start)
          /\ UNCHANGED <<redisVars, turnsOf, raced>>
    /\ UNCHANGED <<actorVars, starts, taken, topicVars, faults>>

\* SESSION_TTL seconds after it was written (turns: first counted).
Expire ==
    /\ \/ meta # 0 /\ meta' = 0 /\ UNCHANGED turns
       \/ turns # 0 /\ turns' = 0 /\ UNCHANGED meta
    /\ Fault
    /\ UNCHANGED <<context, late, actorVars, starts, taken, turnsOf, topicVars, seal, raced>>

\* AGT-03 dies: its coroutines go without their finally blocks.
Crash ==
    /\ Fault
    /\ op' = [a \in Actors |-> IdleOp]
    /\ conn' = [a \in Actors |-> IF a \in Sockets THEN "closed" ELSE conn[a]]
    /\ started' = [w \in Sockets |-> FALSE]
    /\ UNCHANGED <<redisVars, late, starts, taken, turnsOf, topicVars, seal, raced>>

-----------------------------------------------------------------------------
\* What the event loop of AGT-03 does for a.
Step(a) ==
    \/ AppendOpening(a) \/ SetMeta(a) \/ EmitStart(a)
    \/ GetMeta(a) \/ GetMetaNone(a) \/ AppendTurn(a) \/ IncrTurn(a)
    \/ EndGetMeta(a) \/ GetTurnCount(a) \/ DeleteMeta(a) \/ Consolidate(a) \/ EmitEnd(a)

Next ==
    \/ \E a \in Actors :
         \/ Start(a) \/ Turn(a) \/ End(a)
         \/ Step(a)
         \/ CallFails(a) \/ CallIgnored(a) \/ TimesOut(a)
    \/ \E w \in Sockets : HangUp(w) \/ Disconnect(w) \/ Finally(w)
    \/ \E r \in late : LateLands(r)
    \/ Expire
    \/ Crash

Spec == Init /\ [][Next]_vars

\* The event loop runs every coroutine and notices a lost connection; nobody
\* has to call, and nothing has to fail.
Fairness ==
    /\ \A a \in Actors : WF_vars(Step(a))
    /\ \A w \in Sockets : WF_vars(Finally(w))

FairSpec == Spec /\ Fairness

-----------------------------------------------------------------------------
(* Properties.  A start is raced when an end_session shared it with another *)
(* call, or deleted or failed to delete it for another; with a single       *)
(* socket, whose messages are served one by one, only a start sent over a   *)
(* live session makes one.                                                  *)

\* "Prevents a double-call from publishing a second event": session.end feeds
\* the streak of AGT-10, the profile of AGT-01 and the consolidation of AGT-06.
EndedOnce == \A k \in Starts : ended[k] <= 1

\* It is published at most once for a start, whoever ends it how often and
\* whatever fails or lands late, unless the calls overlapped.
EndedOnceUnlessRaced == \A k \in Starts \ raced : ended[k] <= 1

\* session.end follows session.start, and a session that was opened and abandoned without
\* a turn does not count as completed, though the turn counter outlives the calls that feed it
\* and the session id may have been started and ended before.
EndedForReal ==
    faults = 0 =>
        /\ \A k \in Starts \ raced : ended[k] > 0 => k \in began
        /\ raced = {} => \A k \in Starts : ended[k] > 0 => turnsOf[k] > 0

\* The consolidation of a quiet session reads all of its context: what it
\* reads is not appended to unless the session is started again.
NothingAfterEnd ==
    seal.done /\ seal.quiet /\ starts = seal.starts /\ faults = 0 => context = seal.context

\* "Abrupt disconnect must still close out the session": the handler of a started session does not come
\* to its end before the session it found is ended.  Its meta is gone, it is consolidated, and if a turn
\* was counted session.end is published.
ClosesOut(w) ==
    started[w] /\ conn[w] # "closed" /\ conn'[w] = "closed" /\ faults' = 0 =>
        LET k == op[w].start IN
        /\ seal.done
        /\ k # 0 => meta' # k /\ (turnsOf[k] > 0 => ended'[k] > 0 \/ k \in raced)

DisconnectClosesOut == [][\A w \in Sockets : ClosesOut(w)]_vars

\* ... and it does come to its end, whenever the client leaves.
DisconnectEnds == <>[](faults > 0 \/ \A w \in Sockets : conn[w] \in {"open", "closed"})
=============================================================================
