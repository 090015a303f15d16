----------------------------- MODULE LearnerProfile -----------------------------
(***************************************************************************)
(* AGT-01: the profile of one learner, a row of PostgreSQL with a copy in  *)
(* Redis, under the two Kafka consumers that update it from the errors and *)
(* the ends of sessions, the route that reads it and the one that creates  *)
(* it; with the consumer loop all agents share.                            *)
(*                                                                         *)
(* Every await is a step. A profile is abstracted to the errors counted by *)
(* type, the number of sessions blended into the averages and abilities,   *)
(* and whether goals are set. The merge of a session's own errors into an  *)
(* answer changes nothing that is kept and is left out, and so is PATCH,   *)
(* which nothing calls.                                                    *)
(***************************************************************************)
EXTENDS Naturals, Sequences, FiniteSets

CONSTANTS
    Sessions,
    Types,       \* error types, of one skill
    MaxEvents,   \* bound: events published
    MaxReads,    \* bound: calls of GET /profile
    MaxTroubles  \* bound: broken connections of a consumer, expired keys, failing calls and deaths of the process

ASSUME ProfileAssumption == MaxEvents \in Nat /\ MaxReads \in Nat /\ MaxTroubles \in Nat

VARIABLES
    row,         \* learner_profiles, or Missing
    cache,       \* profile:{user}, or Missing
    processed,   \* the keys agt01:processed:...
    lapses,      \* lapses[e]: how often the key of event e has expired (history)
    topic,       \* topic[c]: the events published for consumer c
    position,    \* position[c]: the events handed to the handler of c
    committed,   \* committed[c]: the offset its group had when it last (re)started
    call,        \* call[k]: the coroutine of a consumer or a request
    stale,       \* the harm old copies did: "stored" behind the deletion, "updated" (history)
    reads, drops, faults

dbVars == <<row, cache, processed, lapses>>
kafkaVars == <<topic, position, committed>>
bounds == <<reads, drops, faults>>
vars == <<dbVars, kafkaVars, call, stale, bounds>>

Consumers == {"errors", "ends"}
Calls == Consumers \cup {"get", "create"}

\* A type that is not in the map counts 0.
Missing == [errors |-> [t \in Types |-> 0], lengths |-> 0, goals |-> FALSE, there |-> FALSE]
ColdStart == [Missing EXCEPT !.there = TRUE]

\* then: what the base profile is read for, an update or the answer.
Idle == [at |-> "idle", then |-> "answer", event |-> <<>>, base |-> Missing]

Profiles == [errors : [Types -> Nat], lengths : Nat, goals : BOOLEAN, there : BOOLEAN]
EventKeys(c) == IF c = "errors" THEN Sessions \X Types ELSE {<<s>> : s \in Sessions}
Events == EventKeys("errors") \cup EventKeys("ends")
Keys(c) == {topic[c][i] : i \in DOMAIN topic[c]}
\* How often a handler has set the key of event e: once more each time it had expired.
Times(e) == lapses[e] + (IF e \in processed THEN 1 ELSE 0)
Points == {"idle", "dedup", "get", "select", "fill", "merge", "create", "delete", "delete_created"}
CallStates == [at : Points, then : {"answer", "update"},
               event : {<<>>} \cup Events, base : Profiles]

TypeOK ==
    /\ row \in Profiles /\ cache \in Profiles
    /\ processed \subseteq Events /\ lapses \in [Events -> Nat]
    /\ {e \in Events : Times(e) > 0} \subseteq Keys("errors") \cup Keys("ends")
    /\ topic \in [Consumers -> UNION {Seq(EventKeys(c)) : c \in Consumers}]
    /\ position \in [Consumers -> Nat] /\ committed \in [Consumers -> Nat]
    /\ \A c \in Consumers :
          topic[c] \in Seq(EventKeys(c)) /\ committed[c] <= position[c] /\ position[c] <= Len(topic[c])
    /\ call \in [Calls -> CallStates]
    /\ \A k \in Calls : call[k].at = "dedup" => k \in Consumers
    /\ \A c \in Consumers : call[c].then = "update" => call[c].event \in Keys(c)
    /\ stale \subseteq {"stored", "updated"}
    /\ {reads, drops, faults} \subseteq Nat /\ reads <= MaxReads /\ drops + faults <= MaxTroubles

Init ==
    /\ row = Missing /\ cache = Missing
    /\ processed = {} /\ lapses = [e \in Events |-> 0]
    /\ topic = [c \in Consumers |-> <<>>]
    /\ position = [c \in Consumers |-> 0] /\ committed = [c \in Consumers |-> 0]
    /\ call = [k \in Calls |-> Idle]
    /\ stale = {} /\ reads = 0 /\ drops = 0 /\ faults = 0

Fault == drops + faults < MaxTroubles /\ faults' = faults + 1 /\ UNCHANGED drops
Drop == drops + faults < MaxTroubles /\ drops' = drops + 1 /\ UNCHANGED faults

(******************************* What calls do *****************************)

\* The session of an end, the session and the type of an error: an event has no id of its own.
Key(k) == call[k].event

\* What the handlers ask for: absolute values, on top of the profile they have read.
ErrorMap(base, type) == [base.errors EXCEPT ![type] = @ + 1]
\* The map asked for over the stored one.
Over(map, stored) == [t \in Types |-> IF map[t] # 0 THEN map[t] ELSE stored[t]]
Merged(k) ==
    CASE k = "errors" -> [row EXCEPT !.errors = Over(ErrorMap(call[k].base, call[k].event[2]), row.errors)]
      [] k = "ends"   -> [row EXCEPT !.lengths = call[k].base.lengths + 1]
      [] OTHER        -> [row EXCEPT !.goals = TRUE]

\* Those that have changed the row and will delete the cached copy.
Invalidating == {k \in Calls : call[k].at \in {"delete", "delete_created"}}

\* SET NX EX: the key is there for a day.
MarkProcessed(k) == processed' = processed \cup {Key(k)} /\ UNCHANGED <<row, cache, lapses, stale>>
\* (mutant) What was read is written back as a whole.
MergeWhole(k) ==
    /\ row' = IF ~row.there THEN row
              ELSE IF k = "errors" THEN [Merged(k) EXCEPT !.lengths = call[k].base.lengths] ELSE Merged(k)
    /\ UNCHANGED <<cache, processed, lapses, stale>>
Merge(k) == row' = (IF row.there THEN Merged(k) ELSE row) /\ UNCHANGED <<cache, processed, lapses, stale>>
CreateProfile == row' = (IF row.there THEN row ELSE ColdStart) /\ UNCHANGED <<cache, processed, lapses, stale>>
Fill(k) ==
    /\ cache' = call[k].base
    /\ stale' = IF call[k].base # row /\ Invalidating = {} THEN stale \cup {"stored"} ELSE stale
    /\ UNCHANGED <<row, processed, lapses>>
\* (mutant) The cached copy is left to its TTL.
InvalidateNot == UNCHANGED <<dbVars, stale>>
Invalidate == cache' = Missing /\ UNCHANGED <<row, processed, lapses, stale>>
Nothing == UNCHANGED <<dbVars, stale>>

\* The part of a profile that a consumer sets anew from what it has read.
Own(k, profile) == IF k = "errors" THEN profile.errors ELSE profile.lengths
GetLands(k) ==
    /\ stale' = IF call[k].then = "update" /\ cache.there /\ Own(k, cache) # Own(k, row)
                THEN stale \cup {"updated"} ELSE stale
    /\ UNCHANGED dbVars

Lands(k) ==
    CASE call[k].at = "dedup"                          -> MarkProcessed(k)
      [] call[k].at = "get"                            -> GetLands(k)
      [] call[k].at = "select"                         -> Nothing
      [] call[k].at = "fill"                           -> Fill(k)
      [] call[k].at = "merge"                          -> Merge(k)
      [] call[k].at = "create"                         -> CreateProfile
      [] call[k].at \in {"delete", "delete_created"}   -> Invalidate

(******************************* The coroutines ****************************)

Goto(k, at) == call' = [call EXCEPT ![k].at = at]
Return(k) == call' = [call EXCEPT ![k] = Idle]
\* _get_base_profile has its answer.
HasBase(k, base) ==
    IF call[k].then = "answer" THEN Return(k) ELSE call' = [call EXCEPT ![k].at = "merge", ![k].base = base]

\* (mutant) The answer of SET NX is not looked at.
DedupIgnored(k) == call[k].at = "dedup" /\ Goto(k, "get")
\* SET NX: an event whose key is there is skipped.
Dedup(k) ==
    /\ call[k].at = "dedup"
    /\ IF Key(k) \in processed THEN Return(k) ELSE Goto(k, "get")

GetBaseProfile(k) ==
    \/ call[k].at = "get" /\ IF cache.there THEN HasBase(k, cache) ELSE Goto(k, "select")
    \/ /\ call[k].at = "select"
       /\ IF row.there THEN call' = [call EXCEPT ![k].at = "fill", ![k].base = row] ELSE HasBase(k, ColdStart)
    \/ call[k].at = "fill" /\ HasBase(k, call[k].base)

\* update_profile: SELECT FOR UPDATE and UPDATE are one transaction; a missing row is created and
\* the transaction tried again. The profile it returns is read anew, and cached.
UpdateProfile(k) ==
    \/ call[k].at = "merge" /\ Goto(k, IF row.there THEN "delete" ELSE "create")
    \/ call[k].at = "create" /\ Goto(k, "delete_created")
    \/ call[k].at = "delete_created" /\ Goto(k, "merge")
    \/ call[k].at = "delete" /\ call' = [call EXCEPT ![k] = [Idle EXCEPT !.at = "get"]]

Step(k) ==
    /\ call[k].at # "idle"
    /\ Lands(k)
    /\ Dedup(k) \/ GetBaseProfile(k) \/ UpdateProfile(k)
    /\ UNCHANGED <<kafkaVars, bounds>>

\* A call raises, before or behind its effect: a consumer logs it and goes on, a request answers 500.
Raises(k) ==
    /\ call[k].at # "idle" /\ Fault
    /\ Lands(k) \/ Nothing
    /\ Return(k)
    /\ UNCHANGED <<kafkaVars, reads>>

(********************************* The events ******************************)

Published == Len(topic["errors"]) + Len(topic["ends"])
Publish(c, event) == topic' = [topic EXCEPT ![c] = Append(@, event)]

\* AGT-04 records an error, AGT-03 ends a session, by one call or by two that overlap.
ErrorRecorded(s, t) ==
    /\ Published < MaxEvents /\ Publish("errors", <<s, t>>)
    /\ UNCHANGED <<dbVars, position, committed, call, stale, bounds>>
SessionEnded(s) ==
    /\ Published < MaxEvents /\ Publish("ends", <<s>>)
    /\ UNCHANGED <<dbVars, position, committed, call, stale, bounds>>

\* The loop takes the next event and awaits its handler.
Consume(c) ==
    /\ call[c].at = "idle" /\ position[c] < Len(topic[c])
    /\ position' = [position EXCEPT ![c] = @ + 1]
    /\ call' = [call EXCEPT ![c] = [Idle EXCEPT !.at = "dedup", !.then = "update", !.event = topic[c][position[c] + 1]]]
    /\ UNCHANGED <<dbVars, topic, committed, stale, bounds>>

\* (mutant) The offset of the event to come is committed, too.
AutoCommittedNext(c) == committed[c] .. position[c] + 1
\* enable_auto_commit: what was handed out counts as consumed, its handler done or not, from some
\* moment on; which one is settled when it is asked for.
AutoCommitted(c) == committed[c] .. position[c]

\* The loop breaks between two events and starts over where its group is.
Reconnect(c) ==
    /\ call[c].at = "idle" /\ Drop
    /\ \E n \in AutoCommitted(c) :
          position' = [position EXCEPT ![c] = n] /\ committed' = [committed EXCEPT ![c] = n]
    /\ UNCHANGED <<dbVars, topic, call, stale, reads>>

Crash ==
    /\ Fault
    /\ call' = [k \in Calls |-> Idle]
    /\ \E n \in AutoCommitted("errors"), m \in AutoCommitted("ends") :
          committed' = [c \in Consumers |-> IF c = "errors" THEN n ELSE m]
    /\ position' = committed'
    /\ UNCHANGED <<dbVars, topic, stale, reads>>

(******************************** The requests *****************************)

GetProfile ==
    /\ call["get"].at = "idle" /\ reads < MaxReads /\ reads' = reads + 1
    /\ call' = [call EXCEPT !["get"].at = "get"]
    /\ UNCHANGED <<dbVars, kafkaVars, stale, drops, faults>>

\* The onboarding: create_profile, and update_profile with the goals; asked for until they are set.
CreateLearnerProfile ==
    /\ call["create"].at = "idle" /\ ~row.goals
    /\ call' = [call EXCEPT !["create"] = [Idle EXCEPT !.at = "create", !.then = "update"]]
    /\ UNCHANGED <<dbVars, kafkaVars, stale, bounds>>

\* The five minutes of the cached copy are over.
CacheExpires ==
    /\ cache.there /\ cache' = Missing
    /\ Drop
    /\ UNCHANGED <<row, processed, lapses, kafkaVars, call, stale, reads>>

\* The day of the key of an event is over.
KeyExpires(e) ==
    /\ e \in processed /\ processed' = processed \ {e}
    /\ lapses' = [lapses EXCEPT ![e] = @ + 1]
    /\ Drop
    /\ UNCHANGED <<row, cache, kafkaVars, call, stale, reads>>

(***************************************************************************)

Next ==
    \/ \E k \in Calls : Step(k) \/ Raises(k)
    \/ \E c \in Consumers : Consume(c) \/ Reconnect(c)
    \/ \E s \in Sessions : SessionEnded(s) \/ \E t \in Types : ErrorRecorded(s, t)
    \/ Crash
    \/ GetProfile \/ CreateLearnerProfile
    \/ CacheExpires \/ \E e \in Events : KeyExpires(e)

Spec == Init /\ [][Next]_vars

(******************************** Properties *******************************)

\* The keys set, each as often as it was: what an update is done for, or lost for good.
Taken(c) == UNION {{<<e, n>> : n \in 1 .. Times(e)} : e \in Keys(c)}
OfType(taken, t) == Cardinality({g \in taken : g[1][2] = t})

\* However often an event is redelivered, published twice or half handled by a process that
\* died: an error counts at most once for its session and type, a session at most once, in the
\* row and in the copy, and once more only when the key that says so had expired (the SET NX EX
\* of consumers.py: "if the key already exists, skip").
CountedOnce ==
    \A profile \in {row, cache} :
        /\ \A t \in Types : profile.errors[t] <= OfType(Taken("errors"), t)
        /\ profile.lengths <= Cardinality(Taken("ends"))

\* The copy in Redis is the row, or some call is about to delete it. Exempted are a call
\* that failed or died between the row and the cache, and a reader that stores what the row no
\* longer says behind the deletion: for five minutes, the code has no remedy for either.
CacheCurrent == faults = 0 /\ "stored" \notin stale /\ Invalidating = {} => cache \in {Missing, row}

\* Nothing published is lost to the update of another part of the profile, to a broken connection
\* of a consumer or to the creation of the row by two calls at once: when all is consumed, every
\* session and every type of error in it counts, and once more for each key that had expired
\* when its event came again, unless a call failed or a consumer took an old copy for what it
\* set anew.
NothingLost ==
    faults = 0 /\ "updated" \notin stale
      /\ (\A c \in Consumers : position[c] = Len(topic[c]) /\ call[c].at = "idle") =>
         /\ \A c \in Consumers : \A e \in Keys(c) : Times(e) > 0
         /\ \A t \in Types : row.errors[t] = OfType(Taken("errors"), t)
         /\ row.lengths = Cardinality(Taken("ends"))
=============================================================================
