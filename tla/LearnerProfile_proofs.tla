------------------------ MODULE LearnerProfile_proofs ------------------------
(***************************************************************************)
(* Proofs about the learner profile, for all sessions, types of errors,    *)
(* events, reads and failures.                                             *)
(***************************************************************************)
EXTENDS LearnerProfile, FiniteSetTheorems, SequenceTheorems, TLAPS

-----------------------------------------------------------------------------
(* One step of one call.                                                    *)

\* The points at which a call is there to update the row.
Updating ==
    \A k \in Calls :
        call[k].at \in {"dedup", "merge", "create", "delete", "delete_created"} => call[k].then = "update"
TypeInv == TypeOK /\ Updating

\* Call k comes to a point; an update keeps its event.
Move(k, at, then, base) ==
    /\ call' \in [Calls -> CallStates]
    /\ \A j \in Calls \ {k} : call'[j] = call[j]
    /\ call'[k].at = at /\ call'[k].then = then /\ call'[k].base = base
    /\ then = "update" => call'[k].event = call[k].event
Based(k, base) ==
    \/ call[k].then = "answer" /\ Move(k, "idle", "answer", Missing)
    \/ call[k].then = "update" /\ Move(k, "merge", "update", base)

\* What Step does, point by point.
Deduped(k) ==
    /\ call[k].at = "dedup" /\ MarkProcessed(k)
    /\ \/ Key(k) \in processed /\ Move(k, "idle", "answer", Missing)
       \/ Key(k) \notin processed /\ Move(k, "get", call[k].then, call[k].base)
Got(k) ==
    /\ call[k].at = "get" /\ GetLands(k)
    /\ \/ cache.there /\ Based(k, cache)
       \/ ~cache.there /\ Move(k, "select", call[k].then, call[k].base)
Selected(k) ==
    /\ call[k].at = "select" /\ Nothing
    /\ \/ row.there /\ Move(k, "fill", call[k].then, row)
       \/ ~row.there /\ Based(k, ColdStart)
Filled(k) == call[k].at = "fill" /\ Fill(k) /\ Based(k, call[k].base)
HasMerged(k) ==
    /\ call[k].at = "merge" /\ Merge(k)
    /\ Move(k, IF row.there THEN "delete" ELSE "create", call[k].then, call[k].base)
Created(k) == call[k].at = "create" /\ CreateProfile /\ Move(k, "delete_created", call[k].then, call[k].base)
Invalidated(k) ==
    \/ call[k].at = "delete_created" /\ Invalidate /\ Move(k, "merge", call[k].then, call[k].base)
    \/ call[k].at = "delete" /\ Invalidate /\ Move(k, "get", "answer", Missing)
StepEffect(k) ==
    Deduped(k) \/ Got(k) \/ Selected(k) \/ Filled(k) \/ HasMerged(k) \/ Created(k) \/ Invalidated(k)

LEMMA Records ==
    /\ Missing \in Profiles /\ ColdStart \in Profiles
    /\ Missing.errors = [t \in Types |-> 0] /\ Missing.lengths = 0 /\ ~Missing.there
    /\ ColdStart.errors = [t \in Types |-> 0] /\ ColdStart.lengths = 0 /\ ColdStart.there
    /\ Idle \in CallStates /\ Idle.at = "idle" /\ Idle.then = "answer" /\ Idle.base = Missing
    /\ [Idle EXCEPT !.at = "get"] \in CallStates /\ [Idle EXCEPT !.at = "get"].at = "get"
    /\ [Idle EXCEPT !.at = "get"].then = "answer" /\ [Idle EXCEPT !.at = "get"].base = Missing
BY DEF Missing, ColdStart, Profiles, Idle, CallStates, Points

LEMMA Moves ==
    ASSUME TypeOK, NEW k \in Calls, NEW rec \in CallStates, call' = [call EXCEPT ![k] = rec],
           rec.then = "update" => rec.event = call[k].event
    PROVE  Move(k, rec.at, rec.then, rec.base)
BY DEF Move, TypeOK

LEMMA Goes ==
    ASSUME TypeOK, NEW k \in Calls, NEW at \in Points, Goto(k, at)
    PROVE  Move(k, at, call[k].then, call[k].base)
<1> DEFINE rec == [call[k] EXCEPT !.at = at]
<1>1. rec \in CallStates /\ rec.at = at /\ rec.then = call[k].then /\ rec.base = call[k].base /\ rec.event = call[k].event
  BY DEF TypeOK, CallStates
<1>2. call' = [call EXCEPT ![k] = rec]
  BY DEF Goto
<1>3. Move(k, rec.at, rec.then, rec.base)
  <2> HIDE DEF rec
  <2> QED
    BY <1>1, <1>2, Moves
<1> QED
  BY <1>1, <1>3

LEMMA Returns ==
    ASSUME TypeOK, NEW k \in Calls, Return(k)
    PROVE  Move(k, "idle", "answer", Missing)
<1>1. call' = [call EXCEPT ![k] = Idle]
  BY DEF Return
<1>2. Move(k, Idle.at, Idle.then, Idle.base)
  BY <1>1, Records, Moves
<1> QED
  BY <1>2, Records

LEMMA GoesWith ==
    ASSUME TypeOK, NEW k \in Calls, NEW at \in Points, NEW base \in Profiles,
           call' = [call EXCEPT ![k].at = at, ![k].base = base]
    PROVE  Move(k, at, call[k].then, base)
<1> DEFINE rec == [call[k] EXCEPT !.at = at, !.base = base]
<1>1. rec \in CallStates /\ rec.at = at /\ rec.then = call[k].then /\ rec.base = base /\ rec.event = call[k].event
  BY DEF TypeOK, CallStates
<1>2. call' = [call EXCEPT ![k] = rec]
  BY DEF TypeOK
<1>3. Move(k, rec.at, rec.then, rec.base)
  <2> HIDE DEF rec
  <2> QED
    BY <1>1, <1>2, Moves
<1> QED
  BY <1>1, <1>3

LEMMA Bases ==
    ASSUME TypeOK, NEW k \in Calls, NEW base \in Profiles, HasBase(k, base)
    PROVE  Based(k, base)
<1>1. call[k].then \in {"answer", "update"} /\ "merge" \in Points
  BY DEF TypeOK, CallStates, Points
<1>2. CASE call[k].then = "answer"
  BY <1>2, Returns DEF HasBase, Based
<1>3. CASE call[k].then = "update"
  BY <1>1, <1>3, GoesWith DEF HasBase, Based
<1> QED
  BY <1>1, <1>2, <1>3

LEMMA StepReads ==
    ASSUME TypeOK, NEW k \in Calls, Step(k)
    PROVE  StepEffect(k)
<1>1. Lands(k) /\ (Dedup(k) \/ GetBaseProfile(k) \/ UpdateProfile(k))
  BY DEF Step
<1>2. /\ call[k].base \in Profiles /\ cache \in Profiles /\ row \in Profiles
      /\ {"get", "select", "fill", "create", "delete", "delete_created", "merge"} \subseteq Points
  BY DEF TypeOK, CallStates, Points
<1>3. CASE Dedup(k)
  <2>1. call[k].at = "dedup" /\ MarkProcessed(k)
    BY <1>1, <1>3 DEF Dedup, Lands
  <2> QED
    BY <2>1, <1>2, <1>3, Returns, Goes DEF Dedup, Deduped, StepEffect
<1>4. CASE call[k].at = "get" /\ IF cache.there THEN HasBase(k, cache) ELSE Goto(k, "select")
  <2>1. GetLands(k)
    BY <1>1, <1>4 DEF Lands
  <2> QED
    BY <2>1, <1>2, <1>4, Bases, Goes DEF Got, StepEffect
<1>5. CASE /\ call[k].at = "select"
           /\ IF row.there THEN call' = [call EXCEPT ![k].at = "fill", ![k].base = row] ELSE HasBase(k, ColdStart)
  <2>1. Nothing
    BY <1>1, <1>5 DEF Lands
  <2> QED
    BY <2>1, <1>2, <1>5, Bases, GoesWith, Records DEF Selected, StepEffect
<1>6. CASE call[k].at = "fill" /\ HasBase(k, call[k].base)
  <2>1. Fill(k)
    BY <1>1, <1>6 DEF Lands
  <2> QED
    BY <2>1, <1>2, <1>6, Bases DEF Filled, StepEffect
<1>7. CASE call[k].at = "merge" /\ Goto(k, IF row.there THEN "delete" ELSE "create")
  <2>1. Merge(k)
    BY <1>1, <1>7 DEF Lands
  <2> QED
    BY <2>1, <1>2, <1>7, Goes DEF HasMerged, StepEffect
<1>8. CASE call[k].at = "create" /\ Goto(k, "delete_created")
  <2>1. CreateProfile
    BY <1>1, <1>8 DEF Lands
  <2> QED
    BY <2>1, <1>2, <1>8, Goes DEF Created, StepEffect
<1>9. CASE call[k].at = "delete_created" /\ Goto(k, "merge")
  <2>1. Invalidate
    BY <1>1, <1>9 DEF Lands
  <2> QED
    BY <2>1, <1>2, <1>9, Goes DEF Invalidated, StepEffect
<1>10. CASE call[k].at = "delete" /\ call' = [call EXCEPT ![k] = [Idle EXCEPT !.at = "get"]]
  <2>1. Invalidate
    BY <1>1, <1>10 DEF Lands
  <2>2. PICK rec \in CallStates : rec.at = "get" /\ rec.then = "answer" /\ rec.base = Missing /\ call' = [call EXCEPT ![k] = rec]
    BY <1>10, Records
  <2>3. Move(k, "get", "answer", Missing)
    BY <2>2, Moves
  <2> QED
    BY <2>1, <2>3, <1>10 DEF Invalidated, StepEffect
<1> QED
  BY <1>1, <1>3, <1>4, <1>5, <1>6, <1>7, <1>8, <1>9, <1>10 DEF GetBaseProfile, UpdateProfile

\* What a call does to the row, the copy and the keys, returned from or not.
LandEffect(k) ==
    \/ call[k].at = "dedup" /\ MarkProcessed(k)
    \/ call[k].at = "get" /\ GetLands(k)
    \/ Nothing
    \/ call[k].at = "fill" /\ Fill(k)
    \/ call[k].at = "merge" /\ Merge(k)
    \/ call[k].at = "create" /\ CreateProfile
    \/ call[k].at \in {"delete", "delete_created"} /\ Invalidate

LEMMA Landing ==
    ASSUME TypeOK, NEW k \in Calls, Step(k) \/ Raises(k)
    PROVE  LandEffect(k)
<1>1. call[k].at \in Points
  BY DEF TypeOK, CallStates
<1>2. (Lands(k) \/ Nothing) /\ call[k].at # "idle"
  BY DEF Step, Raises
<1> QED
  BY <1>1, <1>2 DEF Points, Lands, LandEffect

\* The calls' part of TypeInv.
CallTypes ==
    /\ call \in [Calls -> CallStates]
    /\ \A k \in Calls : call[k].at = "dedup" => k \in Consumers
    /\ \A c \in Consumers : call[c].then = "update" => call[c].event \in Keys(c)
    /\ Updating

LEMMA MoveTypes ==
    ASSUME TypeInv, NEW k \in Calls, NEW at, NEW then, NEW base, Move(k, at, then, base),
           UNCHANGED topic, at # "dedup", then = "update" => call[k].then = "update",
           at \in {"merge", "create", "delete", "delete_created"} => then = "update"
    PROVE  CallTypes'
<1>1. call' \in [Calls -> CallStates] /\ \A c \in Consumers : Keys(c)' = Keys(c)
  BY DEF Move, Keys
<1>2. \A j \in Calls : call'[j].at = "dedup" => j \in Consumers
  BY DEF Move, TypeInv, TypeOK
<1>3. \A c \in Consumers : call'[c].then = "update" => call'[c].event \in Keys(c)
  BY DEF Move, TypeInv, TypeOK, Consumers, Calls
<1>4. Updating'
  BY DEF Move, TypeInv, Updating
<1> QED
  BY <1>1, <1>2, <1>3, <1>4 DEF CallTypes

LEMMA BasedTypes ==
    ASSUME TypeInv, NEW k \in Calls, NEW base, Based(k, base), UNCHANGED topic
    PROVE  CallTypes'
BY MoveTypes DEF Based

LEMMA StepTypes ==
    ASSUME TypeInv, NEW k \in Calls, Step(k)
    PROVE  CallTypes'
<1>1. StepEffect(k) /\ UNCHANGED topic
  BY StepReads DEF TypeInv, Step, kafkaVars
<1>2. CASE Deduped(k)
  BY <1>1, <1>2, MoveTypes DEF Deduped
<1>3. CASE Got(k)
  BY <1>1, <1>3, MoveTypes, BasedTypes DEF Got
<1>4. CASE Selected(k)
  BY <1>1, <1>4, MoveTypes, BasedTypes DEF Selected
<1>5. CASE Filled(k)
  BY <1>1, <1>5, BasedTypes DEF Filled
<1>6. CASE HasMerged(k)
  <2>1. call[k].then = "update"
    BY <1>6 DEF HasMerged, TypeInv, Updating
  <2>2. CASE row.there
    BY <2>1, <2>2, <1>1, <1>6, MoveTypes DEF HasMerged
  <2>3. CASE ~row.there
    BY <2>1, <2>3, <1>1, <1>6, MoveTypes DEF HasMerged
  <2> QED
    BY <2>2, <2>3
<1>7. CASE Created(k)
  BY <1>1, <1>7, MoveTypes DEF Created, TypeInv, Updating
<1>8. CASE Invalidated(k)
  BY <1>1, <1>8, MoveTypes DEF Invalidated, TypeInv, Updating
<1> QED
  BY <1>1, <1>2, <1>3, <1>4, <1>5, <1>6, <1>7, <1>8 DEF StepEffect

\* What is merged is a profile, with the events of its own consumer one more.
LEMMA Merging ==
    ASSUME TypeOK, NEW k \in Calls
    PROVE  /\ Merged(k) \in Profiles /\ Merged(k).there = row.there
           /\ k = "errors" => /\ Merged(k).lengths = row.lengths
                              /\ \A t \in Types : Merged(k).errors[t] =
                                   LET asked == IF t = Key(k)[2] THEN call[k].base.errors[t] + 1 ELSE call[k].base.errors[t]
                                   IN  IF asked # 0 THEN asked ELSE row.errors[t]
           /\ k = "ends" => Merged(k).errors = row.errors /\ Merged(k).lengths = call[k].base.lengths + 1
           /\ k \notin Consumers => Merged(k).errors = row.errors /\ Merged(k).lengths = row.lengths
<1>1. row \in Profiles /\ call[k].base \in Profiles
  BY DEF TypeOK, CallStates
<1>2. row.errors \in [Types -> Nat] /\ call[k].base.errors \in [Types -> Nat] /\ call[k].base.lengths \in Nat
  BY <1>1 DEF Profiles
<1> DEFINE map == Over(ErrorMap(call[k].base, call[k].event[2]), row.errors)
<1>3. /\ map \in [Types -> Nat]
      /\ \A t \in Types : map[t] =
           LET asked == IF t = Key(k)[2] THEN call[k].base.errors[t] + 1 ELSE call[k].base.errors[t]
           IN  IF asked # 0 THEN asked ELSE row.errors[t]
  BY <1>2 DEF Over, ErrorMap, Key
<1> HIDE DEF map
<1>4. CASE k = "errors"
  <2>1. Merged(k) = [row EXCEPT !.errors = map]
    BY <1>4 DEF Merged, map
  <2> QED
    BY <2>1, <1>1, <1>3, <1>4 DEF Profiles, Consumers
<1>5. CASE k = "ends"
  BY <1>1, <1>2, <1>5 DEF Merged, Profiles, Consumers
<1>6. CASE k \notin Consumers
  BY <1>1, <1>2, <1>6 DEF Merged, Profiles, Consumers
<1> QED
  BY <1>4, <1>5, <1>6 DEF Consumers

\* The part of TypeOK about the dedup keys.
KeyTypes ==
    /\ processed \subseteq Events /\ lapses \in [Events -> Nat]
    /\ {e \in Events : Times(e) > 0} \subseteq Keys("errors") \cup Keys("ends")

LEMMA KeysAreEvents ==
    ASSUME TypeOK, NEW c \in Consumers
    PROVE  Keys(c) \subseteq EventKeys(c) /\ Keys(c) \subseteq Events
<1>1. topic[c] \in Seq(EventKeys(c))
  BY DEF TypeOK
<1>2. Keys(c) \subseteq EventKeys(c)
  BY <1>1, ElementOfSeq, LenProperties DEF Keys
<1> QED
  BY <1>2 DEF Events, Consumers

LEMMA TimesTypes ==
    ASSUME KeyTypes
    PROVE  \A e \in Events : lapses[e] \in Nat /\ Times(e) \in Nat /\ (e \in processed => Times(e) = lapses[e] + 1)
BY DEF KeyTypes, Times

\* No key is taken, or lost from view, beside those of events in the topics.
LEMMA KeysKept ==
    ASSUME TypeOK, processed' \subseteq Events, lapses' \in [Events -> Nat],
           \A c \in Consumers : Keys(c) \subseteq Keys(c)',
           \A e \in Events : Times(e)' = Times(e) \/ e \in Keys("errors") \cup Keys("ends")
    PROVE  KeyTypes'
<1>1. Events' = Events /\ Keys("errors") \subseteq Keys("errors")' /\ Keys("ends") \subseteq Keys("ends")'
  BY DEF Events, EventKeys, Consumers
<1>2. ASSUME NEW e \in Events, Times(e)' > 0 PROVE e \in Keys("errors") \cup Keys("ends")
  BY <1>2 DEF TypeOK
<1>3. {e \in Events' : Times(e)' > 0} \subseteq Keys("errors")' \cup Keys("ends")'
  BY <1>1, <1>2
<1> QED
  BY <1>1, <1>3 DEF KeyTypes

\* A call at the log has an event of its own topic.
LEMMA AtLog ==
    ASSUME TypeInv, NEW k \in Calls, call[k].at = "dedup"
    PROVE  k \in Consumers /\ call[k].then = "update" /\ Key(k) \in Keys(k) /\ Key(k) \in EventKeys(k) /\ Key(k) \in Events
BY KeysAreEvents DEF TypeInv, TypeOK, Updating, Key, Consumers

\* The key of an event expires: it has been set as often as before.
LEMMA ExpiryReads ==
    ASSUME TypeOK, NEW e \in Events, KeyExpires(e)
    PROVE  /\ KeyTypes' /\ \A f \in Events : Times(f)' = Times(f)
           /\ UNCHANGED <<row, cache, topic, position, committed, call, stale, reads, faults>>
           /\ drops' = drops + 1 /\ drops + faults < MaxTroubles
<1>1. /\ e \in processed /\ processed' = processed \ {e} /\ lapses' = [lapses EXCEPT ![e] = @ + 1]
      /\ processed \subseteq Events /\ lapses \in [Events -> Nat]
      /\ UNCHANGED <<row, cache, topic, position, committed, call, stale, reads, faults>>
      /\ drops' = drops + 1 /\ drops + faults < MaxTroubles
  BY DEF KeyExpires, Drop, kafkaVars, TypeOK
<1>2. \A f \in Events : Times(f)' = Times(f)
  <2> SUFFICES ASSUME NEW f \in Events PROVE Times(f)' = Times(f)
    OBVIOUS
  <2>1. lapses[f] \in Nat /\ lapses[e] \in Nat
    BY <1>1
  <2>2. CASE f = e
    <3>1. lapses'[e] = lapses[e] + 1 /\ e \notin processed' /\ e \in processed
      BY <1>1
    <3> QED
      BY <2>1, <2>2, <3>1 DEF Times
  <2>3. CASE f # e
    <3>1. lapses'[f] = lapses[f] /\ (f \in processed' <=> f \in processed)
      BY <1>1, <2>3
    <3> QED
      BY <3>1 DEF Times
  <2> QED
    BY <2>2, <2>3
<1>3. \A c \in Consumers : Keys(c)' = Keys(c)
  BY <1>1 DEF Keys
<1>4. KeyTypes'
  BY <1>1, <1>2, <1>3, KeysKept
<1> QED
  BY <1>1, <1>2, <1>4

LEMMA LandTypes ==
    ASSUME TypeInv, NEW k \in Calls, LandEffect(k), UNCHANGED topic
    PROVE  /\ row' \in Profiles /\ cache' \in Profiles /\ stale' \subseteq {"stored", "updated"}
           /\ KeyTypes'
<1>1. /\ TypeOK /\ row \in Profiles /\ cache \in Profiles /\ stale \subseteq {"stored", "updated"}
      /\ processed \subseteq Events /\ lapses \in [Events -> Nat]
      /\ call[k].base \in Profiles
      /\ \A c \in Consumers : Keys(c)' = Keys(c)
  BY DEF TypeInv, TypeOK, CallStates, Keys
<1>2. row' \in Profiles
  BY <1>1, Merging, Records DEF LandEffect, MarkProcessed, GetLands, Nothing, Fill, Merge, CreateProfile, Invalidate, dbVars
<1>3. cache' \in Profiles
  BY <1>1, Records DEF LandEffect, MarkProcessed, GetLands, Nothing, Fill, Merge, CreateProfile, Invalidate, dbVars
<1>4. stale' \subseteq {"stored", "updated"}
  BY <1>1 DEF LandEffect, MarkProcessed, GetLands, Nothing, Fill, Merge, CreateProfile, Invalidate
<1>5. KeyTypes'
  <2>1. lapses' = lapses
    BY DEF LandEffect, MarkProcessed, GetLands, Nothing, Fill, Merge, CreateProfile, Invalidate, dbVars
  <2>2. CASE call[k].at = "dedup" /\ processed' = processed \cup {Key(k)}
    <3>1. Key(k) \in Events /\ Key(k) \in Keys("errors") \cup Keys("ends")
      BY <2>2, AtLog DEF Consumers
    <3>2. \A e \in Events : e # Key(k) => Times(e)' = Times(e)
      BY <2>1, <2>2 DEF Times
    <3> QED
      BY <3>1, <3>2, <2>1, <2>2, <1>1, KeysKept
  <2>3. CASE UNCHANGED processed
    <3>1. \A e \in Events : Times(e)' = Times(e)
      BY <2>1, <2>3 DEF Times
    <3> QED
      BY <3>1, <2>1, <2>3, <1>1, KeysKept
  <2> QED
    BY <2>2, <2>3 DEF LandEffect, MarkProcessed, GetLands, Nothing, Fill, Merge, CreateProfile, Invalidate, dbVars
<1> QED
  BY <1>1, <1>2, <1>3, <1>4, <1>5

LEMMA RaiseTypes ==
    ASSUME TypeInv, NEW k \in Calls, Raises(k)
    PROVE  CallTypes' /\ Move(k, "idle", "answer", Missing)
<1>1. Move(k, "idle", "answer", Missing) /\ UNCHANGED topic
  BY Returns DEF TypeInv, Raises, kafkaVars
<1> QED
  BY <1>1, MoveTypes

\* The part of TypeOK about the topics.
KafkaTypes ==
    /\ topic \in [Consumers -> UNION {Seq(EventKeys(c)) : c \in Consumers}]
    /\ position \in [Consumers -> Nat] /\ committed \in [Consumers -> Nat]
    /\ \A c \in Consumers :
          topic[c] \in Seq(EventKeys(c)) /\ committed[c] <= position[c] /\ position[c] <= Len(topic[c])

\* An event more at the end of a topic.
Published1(c, event) ==
    /\ topic' \in [Consumers -> UNION {Seq(EventKeys(d)) : d \in Consumers}]
    /\ topic'[c] \in Seq(EventKeys(c)) /\ Len(topic'[c]) = Len(topic[c]) + 1
    /\ \A i \in 1 .. Len(topic[c]) : topic'[c][i] = topic[c][i]
    /\ \A d \in Consumers \ {c} : topic'[d] = topic[d]
    /\ Keys(c)' = Keys(c) \cup {event} /\ \A d \in Consumers \ {c} : Keys(d)' = Keys(d)

LEMMA PublishReads ==
    ASSUME TypeOK, NEW c \in Consumers, NEW event \in EventKeys(c), Publish(c, event)
    PROVE  Published1(c, event)
<1>1. topic[c] \in Seq(EventKeys(c)) /\ topic \in [Consumers -> UNION {Seq(EventKeys(d)) : d \in Consumers}]
  BY DEF TypeOK
<1>2. /\ Append(topic[c], event) \in Seq(EventKeys(c)) /\ Len(Append(topic[c], event)) = Len(topic[c]) + 1
      /\ Append(topic[c], event)[Len(topic[c]) + 1] = event
      /\ \A i \in 1 .. Len(topic[c]) : Append(topic[c], event)[i] = topic[c][i]
      /\ DOMAIN topic[c] = 1 .. Len(topic[c]) /\ DOMAIN Append(topic[c], event) = 1 .. Len(topic[c]) + 1
      /\ Len(topic[c]) \in Nat
  BY <1>1, AppendProperties, LenProperties
<1>3. topic'[c] = Append(topic[c], event) /\ \A d \in Consumers \ {c} : topic'[d] = topic[d]
  BY <1>1 DEF Publish
<1>4. topic' \in [Consumers -> UNION {Seq(EventKeys(d)) : d \in Consumers}]
  BY <1>1, <1>2 DEF Publish
<1>5. Keys(c)' = Keys(c) \cup {event}
  <2>1. ASSUME NEW e \in Keys(c)' PROVE e \in Keys(c) \cup {event}
    <3>1. PICK i \in DOMAIN topic'[c] : e = topic'[c][i]
      BY <2>1 DEF Keys
    <3>2. CASE i \in 1 .. Len(topic[c])
      BY <3>1, <3>2, <1>2, <1>3 DEF Keys
    <3>3. CASE i = Len(topic[c]) + 1
      BY <3>1, <3>3, <1>2, <1>3
    <3> QED
      BY <3>1, <3>2, <3>3, <1>2, <1>3
  <2>2. ASSUME NEW e \in Keys(c) PROVE e \in Keys(c)'
    <3>1. PICK i \in DOMAIN topic[c] : e = topic[c][i]
      BY <2>2 DEF Keys
    <3>2. i \in DOMAIN topic'[c] /\ topic'[c][i] = e
      BY <3>1, <1>2, <1>3
    <3> QED
      BY <3>2 DEF Keys
  <2>3. event \in Keys(c)'
    <3>1. Len(topic[c]) + 1 \in DOMAIN topic'[c] /\ topic'[c][Len(topic[c]) + 1] = event
      BY <1>2, <1>3
    <3> QED
      BY <3>1 DEF Keys
  <2> QED
    BY <2>1, <2>2, <2>3
<1>6. \A d \in Consumers \ {c} : Keys(d)' = Keys(d)
  BY <1>3 DEF Keys
<1> QED
  BY <1>2, <1>3, <1>4, <1>5, <1>6 DEF Published1

LEMMA PublishTypes ==
    ASSUME TypeInv, NEW c \in Consumers, NEW event \in EventKeys(c), Publish(c, event),
           UNCHANGED <<dbVars, position, committed, call, stale, bounds>>
    PROVE  TypeInv'
<1>1. TypeOK /\ Published1(c, event)
  BY PublishReads DEF TypeInv
<1>2. \A d \in Consumers : Keys(d) \subseteq Keys(d)'
  BY <1>1 DEF Published1
<1>3. KafkaTypes'
  <2>1. \A d \in Consumers : Len(topic[d]) \in Nat /\ position[d] \in Nat
    BY <1>1, LenProperties DEF TypeOK
  <2>2. UNCHANGED <<position, committed>>
    OBVIOUS
  <2>3. ASSUME NEW d \in Consumers
        PROVE  topic'[d] \in Seq(EventKeys(d)) /\ Len(topic[d]) <= Len(topic'[d])
    <3>1. CASE d = c
      BY <3>1, <2>1, <1>1 DEF Published1
    <3>2. CASE d # c
      BY <3>2, <2>1, <1>1 DEF Published1, TypeOK
    <3> QED
      BY <3>1, <3>2
  <2>4. ASSUME NEW d \in Consumers
        PROVE  committed[d] <= position[d] /\ position[d] <= Len(topic'[d])
    <3>1. committed[d] <= position[d] /\ position[d] <= Len(topic[d]) /\ position[d] \in Nat
      BY <1>1 DEF TypeOK
    <3>2. Len(topic'[d]) \in Nat
      BY <2>3, LenProperties
    <3> QED
      BY <3>1, <3>2, <2>1, <2>3
  <2>5. /\ topic' \in [Consumers -> UNION {Seq(EventKeys(d)) : d \in Consumers}]
        /\ position \in [Consumers -> Nat] /\ committed \in [Consumers -> Nat]
    BY <1>1 DEF TypeOK, Published1
  <2> QED
    BY <2>2, <2>3, <2>4, <2>5 DEF KafkaTypes
<1>4. CallTypes'
  BY <1>1, <1>2 DEF TypeInv, TypeOK, CallTypes, Updating
<1>5. row' \in Profiles /\ cache' \in Profiles /\ KeyTypes'
  <2>1. \A e \in Events : Times(e)' = Times(e)
    BY <1>1 DEF Times, dbVars
  <2>2. processed' \subseteq Events /\ lapses' \in [Events -> Nat] /\ row' \in Profiles /\ cache' \in Profiles
    BY <1>1 DEF TypeOK, dbVars
  <2> QED
    BY <2>1, <2>2, <1>1, <1>2, KeysKept
<1> QED
  BY <1>1, <1>3, <1>4, <1>5 DEF TypeInv, TypeOK, KafkaTypes, KeyTypes, CallTypes, bounds

\* The next event is one of its topic's.
LEMMA NextEvent ==
    ASSUME TypeOK, NEW c \in Consumers, Consume(c)
    PROVE  \E event \in Keys(c) :
              /\ event = topic[c][position[c] + 1]
              /\ [Idle EXCEPT !.at = "dedup", !.then = "update", !.event = event] \in CallStates
<1>1. topic[c] \in Seq(EventKeys(c)) /\ position[c] \in Nat /\ position[c] < Len(topic[c])
  BY DEF TypeOK, Consume
<1>2. position[c] + 1 \in DOMAIN topic[c] /\ topic[c][position[c] + 1] \in EventKeys(c)
  BY <1>1, LenProperties, ElementOfSeq
<1>3. topic[c][position[c] + 1] \in Keys(c)
  BY <1>2 DEF Keys
<1>4. topic[c][position[c] + 1] \in Events
  BY <1>2 DEF Consumers, Events
<1>5. \A e \in Events : [Idle EXCEPT !.at = "dedup", !.then = "update", !.event = e] \in CallStates
  BY Records DEF Idle, CallStates, Points
<1> QED
  BY <1>3, <1>4, <1>5

\* The consumer takes its next event.
Consumed(c) ==
    /\ call' \in [Calls -> CallStates] /\ \A j \in Calls \ {c} : call'[j] = call[j]
    /\ call[c].at = "idle" /\ call'[c].at = "dedup" /\ call'[c].then = "update" /\ call'[c].base = Missing
    /\ call'[c].event = topic[c][position[c] + 1] /\ call'[c].event \in Keys(c)
    /\ position' \in [Consumers -> Nat] /\ position'[c] = position[c] + 1 /\ position'[c] <= Len(topic[c])
    /\ \A d \in Consumers \ {c} : position'[d] = position[d]

LEMMA ConsumeReads ==
    ASSUME TypeOK, NEW c \in Consumers, Consume(c)
    PROVE  Consumed(c)
<1>1. c \in Calls /\ call \in [Calls -> CallStates] /\ position \in [Consumers -> Nat]
      /\ Len(topic[c]) \in Nat
  BY LenProperties DEF TypeOK, Calls
<1>2. PICK event \in Keys(c) :
         /\ event = topic[c][position[c] + 1]
         /\ [Idle EXCEPT !.at = "dedup", !.then = "update", !.event = event] \in CallStates
  BY NextEvent
<1> DEFINE rec == [Idle EXCEPT !.at = "dedup", !.then = "update", !.event = event]
<1>3. rec \in CallStates /\ rec.at = "dedup" /\ rec.then = "update" /\ rec.base = Missing /\ rec.event = event
  BY <1>2, Records DEF CallStates, Idle
<1>4. call' = [call EXCEPT ![c] = rec] /\ position' = [position EXCEPT ![c] = @ + 1]
      /\ call[c].at = "idle" /\ position[c] < Len(topic[c])
  BY <1>2 DEF Consume
<1> HIDE DEF rec
<1> QED
  BY <1>1, <1>2, <1>3, <1>4 DEF Consumed

LEMMA ConsumeTypes ==
    ASSUME TypeInv, NEW c \in Consumers, Consume(c)
    PROVE  TypeInv'
<1>1. TypeOK /\ Consumed(c) /\ UNCHANGED <<dbVars, topic, committed, stale, bounds>>
  BY ConsumeReads DEF TypeInv, Consume
<1>2. \A d \in Consumers : Keys(d)' = Keys(d)
  BY <1>1 DEF Keys
<1>3. KafkaTypes'
  <2>1. UNCHANGED <<topic, committed>>
    BY <1>1
  <2>2. \A d \in Consumers : /\ topic[d] \in Seq(EventKeys(d)) /\ committed[d] \in Nat /\ position[d] \in Nat
                            /\ committed[d] <= position[d] /\ position[d] <= Len(topic[d])
    BY <1>1 DEF TypeOK
  <2>3. position' \in [Consumers -> Nat] /\ \A d \in Consumers : position[d] <= position'[d] /\ position'[d] <= Len(topic[d])
    BY <1>1, <2>2 DEF Consumed
  <2>4. \A d \in Consumers : committed[d] <= position'[d]
    BY <2>2, <2>3
  <2>5. topic \in [Consumers -> UNION {Seq(EventKeys(d)) : d \in Consumers}] /\ committed \in [Consumers -> Nat]
    BY <1>1 DEF TypeOK
  <2> QED
    BY <2>1, <2>2, <2>3, <2>4, <2>5 DEF KafkaTypes
<1>4. CallTypes'
  <2>1. \A j \in Calls : call'[j].at = "dedup" => j \in Consumers
    BY <1>1 DEF TypeOK, Consumed
  <2>2. \A d \in Consumers : call'[d].then = "update" => call'[d].event \in Keys(d)
    BY <1>1 DEF TypeOK, Consumed, Consumers, Calls
  <2>3. Updating'
    BY <1>1 DEF TypeInv, Updating, Consumed
  <2> QED
    BY <2>1, <2>2, <2>3, <1>1, <1>2 DEF CallTypes, Consumed
<1>5. row' \in Profiles /\ cache' \in Profiles /\ KeyTypes'
  <2>1. \A e \in Events : Times(e)' = Times(e)
    BY <1>1 DEF Times, dbVars
  <2>2. processed' \subseteq Events /\ lapses' \in [Events -> Nat] /\ row' \in Profiles /\ cache' \in Profiles
    BY <1>1 DEF TypeOK, dbVars
  <2> QED
    BY <2>1, <2>2, <1>1, <1>2, KeysKept
<1> QED
  BY <1>1, <1>3, <1>4, <1>5 DEF TypeInv, TypeOK, KafkaTypes, KeyTypes, CallTypes, bounds

\* A consumer starts over somewhere behind.
LEMMA RestartTypes ==
    ASSUME TypeInv, UNCHANGED <<row, topic, stale>>, KeyTypes', cache' \in Profiles, CallTypes', {reads', drops', faults'} \subseteq Nat,
           reads' <= MaxReads, drops' + faults' <= MaxTroubles,
           position' \in [Consumers -> Nat], committed' \in [Consumers -> Nat],
           \A c \in Consumers : committed'[c] <= position'[c] /\ position'[c] <= position[c]
    PROVE  TypeInv'
<1>1. TypeOK
  BY DEF TypeInv
<1>2. \A d \in Consumers : Keys(d)' = Keys(d) /\ Len(topic[d]) \in Nat
  BY <1>1, LenProperties DEF Keys, TypeOK
<1>3. KafkaTypes'
  BY <1>1, <1>2 DEF TypeOK, KafkaTypes
<1>5. row' \in Profiles
  BY <1>1 DEF TypeOK
<1> QED
  BY <1>1, <1>3, <1>5 DEF TypeInv, TypeOK, KafkaTypes, KeyTypes, CallTypes

LEMMA SameKeys ==
    ASSUME UNCHANGED <<processed, lapses, topic>>
    PROVE  /\ \A c \in Consumers : Keys(c)' = Keys(c)
           /\ \A e \in Events : Times(e)' = Times(e)
           /\ TypeOK => KeyTypes'
<1>1. (\A c \in Consumers : Keys(c)' = Keys(c)) /\ \A e \in Events : Times(e)' = Times(e)
  BY DEF Keys, Times
<1>2. TypeOK => processed' \subseteq Events /\ lapses' \in [Events -> Nat]
  BY DEF TypeOK
<1> QED
  BY <1>1, <1>2, KeysKept

\* A request begins.
Begun(k) ==
    /\ call' \in [Calls -> CallStates] /\ \A j \in Calls \ {k} : call'[j] = call[j]
    /\ call[k].at = "idle" /\ call'[k].base \in {call[k].base, Missing}
    /\ \/ call'[k].at = "get"
       \/ call'[k].at = "create" /\ call'[k].then = "update"

LEMMA BeginReads ==
    ASSUME TypeOK, GetProfile \/ CreateLearnerProfile
    PROVE  \E k \in Calls \ Consumers : Begun(k)
<1>1. call \in [Calls -> CallStates] /\ {"get", "create"} \subseteq Points /\ {"get", "create"} \subseteq Calls \ Consumers
  BY DEF TypeOK, Points, Calls, Consumers
<1>2. CASE GetProfile
  <2>1. Goto("get", "get") /\ call["get"].at = "idle"
    BY <1>2 DEF GetProfile, Goto
  <2>2. Move("get", "get", call["get"].then, call["get"].base)
    BY <1>1, <2>1, Goes
  <2> QED
    BY <1>1, <2>1, <2>2 DEF Move, Begun
<1>3. CASE CreateLearnerProfile
  <2> DEFINE rec == [Idle EXCEPT !.at = "create", !.then = "update"]
  <2>1. rec \in CallStates /\ rec.at = "create" /\ rec.then = "update" /\ rec.base = Missing
    BY <1>1, Records DEF CallStates, Idle
  <2>2. call["create"].at = "idle" /\ call' = [call EXCEPT !["create"] = rec]
    BY <1>3 DEF CreateLearnerProfile
  <2> HIDE DEF rec
  <2> QED
    BY <1>1, <2>1, <2>2 DEF Begun
<1> QED
  BY <1>2, <1>3

LEMMA CrashReads ==
    ASSUME TypeOK, Crash
    PROVE  /\ call' = [k \in Calls |-> Idle] /\ faults' = faults + 1 /\ drops + faults < MaxTroubles
           /\ position' \in [Consumers -> Nat] /\ committed' = position'
           /\ \A c \in Consumers : position'[c] <= position[c]
           /\ UNCHANGED <<dbVars, topic, stale, reads, drops>>
<1>1. PICK n \in AutoCommitted("errors"), m \in AutoCommitted("ends") :
        committed' = [c \in Consumers |-> IF c = "errors" THEN n ELSE m]
  BY DEF Crash
<1>2. /\ position["errors"] \in Nat /\ position["ends"] \in Nat
      /\ committed["errors"] \in Nat /\ committed["ends"] \in Nat
  BY DEF TypeOK, Consumers
<1>3. n \in Nat /\ m \in Nat /\ n <= position["errors"] /\ m <= position["ends"]
  BY <1>2 DEF AutoCommitted
<1>4. position' = committed' /\ committed' \in [Consumers -> Nat]
  BY <1>1, <1>3 DEF Crash
<1> QED
  BY <1>1, <1>3, <1>4 DEF Crash, Fault, Consumers

LEMMA ReconnectReads ==
    ASSUME TypeOK, NEW c \in Consumers, Reconnect(c)
    PROVE  /\ call[c].at = "idle" /\ drops' = drops + 1 /\ drops + faults < MaxTroubles
           /\ position' \in [Consumers -> Nat] /\ committed' \in [Consumers -> Nat]
           /\ \A d \in Consumers : committed'[d] <= position'[d] /\ position'[d] <= position[d]
           /\ UNCHANGED <<dbVars, topic, call, stale, reads, faults>>
<1>1. PICK n \in AutoCommitted(c) :
        position' = [position EXCEPT ![c] = n] /\ committed' = [committed EXCEPT ![c] = n]
  BY DEF Reconnect
<1>2. \A d \in Consumers : position[d] \in Nat /\ committed[d] \in Nat /\ committed[d] <= position[d]
  BY DEF TypeOK
<1>3. n \in Nat /\ n <= position[c]
  BY <1>2 DEF AutoCommitted
<1>4. position' \in [Consumers -> Nat] /\ committed' \in [Consumers -> Nat]
  BY <1>1, <1>3 DEF TypeOK
<1>5. \A d \in Consumers : committed'[d] <= position'[d] /\ position'[d] <= position[d]
  <2> SUFFICES ASSUME NEW d \in Consumers
               PROVE  committed'[d] <= position'[d] /\ position'[d] <= position[d]
    OBVIOUS
  <2>1. CASE d = c
    BY <2>1, <1>1, <1>3 DEF TypeOK
  <2>2. CASE d # c
    BY <2>2, <1>1, <1>2 DEF TypeOK
  <2> QED
    BY <2>1, <2>2
<1> QED
  BY <1>4, <1>5 DEF Reconnect, Drop

LEMMA TypeInit == Init => TypeInv
<1> SUFFICES ASSUME Init PROVE TypeInv
  OBVIOUS
<1>1. /\ topic = [c \in Consumers |-> <<>>]
      /\ position = [c \in Consumers |-> 0] /\ committed = [c \in Consumers |-> 0]
      /\ \A k \in Calls : call[k] = Idle
  BY DEF Init
<1>2. KafkaTypes
  <2>1. \A c \in Consumers : <<>> \in Seq(EventKeys(c))
    BY EmptySeq
  <2>2. \A c \in Consumers : topic[c] = <<>> /\ position[c] = 0 /\ committed[c] = 0
    BY <1>1
  <2>3. topic \in [Consumers -> UNION {Seq(EventKeys(c)) : c \in Consumers}]
    BY <1>1, <2>1
  <2>4. position \in [Consumers -> Nat] /\ committed \in [Consumers -> Nat]
    BY <1>1
  <2> QED
    BY <2>1, <2>2, <2>3, <2>4, EmptySeq DEF KafkaTypes
<1>3. CallTypes
  BY <1>1, Records DEF Init, CallTypes, Updating, Consumers, Calls
<1>4. /\ row \in Profiles /\ cache \in Profiles /\ stale = {}
      /\ reads = 0 /\ drops = 0 /\ faults = 0
  BY Records DEF Init
<1>5. KeyTypes
  BY DEF Init, KeyTypes, Times
<1> QED
  BY <1>2, <1>3, <1>4, <1>5, ProfileAssumption DEF TypeInv, TypeOK, KafkaTypes, KeyTypes, CallTypes

LEMMA TypeNext == TypeInv /\ [Next]_vars => TypeInv'
<1> SUFFICES ASSUME TypeInv, [Next]_vars PROVE TypeInv'
  OBVIOUS
<1>0. /\ TypeOK /\ KafkaTypes /\ cache \in Profiles /\ {reads, drops, faults} \subseteq Nat /\ reads <= MaxReads /\ drops + faults <= MaxTroubles
      /\ CallTypes /\ MaxReads \in Nat /\ MaxTroubles \in Nat
  BY ProfileAssumption DEF TypeInv, TypeOK, KafkaTypes, CallTypes
<1>1. ASSUME NEW k \in Calls, Step(k) \/ Raises(k)
      PROVE  TypeInv'
  <2>1. UNCHANGED <<kafkaVars, reads>> /\ {drops', faults'} \subseteq Nat /\ drops' + faults' <= MaxTroubles
    BY <1>0, <1>1 DEF Step, Raises, Fault, bounds
  <2>2. LandEffect(k) /\ CallTypes'
    BY <1>0, <1>1, Landing, StepTypes, RaiseTypes
  <2>3. KafkaTypes'
    BY <1>0, <2>1 DEF KafkaTypes, kafkaVars
  <2>4. row' \in Profiles /\ cache' \in Profiles /\ stale' \subseteq {"stored", "updated"} /\ KeyTypes'
    BY <2>1, <2>2, LandTypes DEF kafkaVars
  <2> QED
    BY <1>0, <2>1, <2>2, <2>3, <2>4 DEF TypeInv, TypeOK, KafkaTypes, KeyTypes, CallTypes
<1>2. ASSUME NEW c \in Consumers, Consume(c)
      PROVE  TypeInv'
  BY <1>2, ConsumeTypes
<1>3. ASSUME NEW c \in Consumers, Reconnect(c)
      PROVE  TypeInv'
  <2>1. /\ UNCHANGED <<dbVars, topic, call, stale, reads, faults>> /\ drops' = drops + 1 /\ drops + faults < MaxTroubles
        /\ position' \in [Consumers -> Nat] /\ committed' \in [Consumers -> Nat]
        /\ \A d \in Consumers : committed'[d] <= position'[d] /\ position'[d] <= position[d]
    BY <1>0, <1>3, ReconnectReads
  <2>2. CallTypes'
    BY <1>0, <2>1 DEF CallTypes, Updating, Keys
  <2> QED
    BY <1>0, <2>1, <2>2, SameKeys, RestartTypes DEF dbVars
<1>4. ASSUME NEW s \in Sessions, SessionEnded(s) \/ \E t \in Types : ErrorRecorded(s, t)
      PROVE  TypeInv'
  <2>1. CASE SessionEnded(s)
    BY <2>1, PublishTypes DEF SessionEnded, EventKeys, Consumers
  <2>2. CASE \E t \in Types : ErrorRecorded(s, t)
    BY <2>2, PublishTypes DEF ErrorRecorded, EventKeys, Consumers
  <2> QED
    BY <1>4, <2>1, <2>2
<1>5. CASE Crash
  <2>1. /\ call' = [k \in Calls |-> Idle] /\ faults' = faults + 1 /\ drops + faults < MaxTroubles
        /\ position' \in [Consumers -> Nat] /\ committed' = position'
        /\ \A c \in Consumers : position'[c] <= position[c]
        /\ UNCHANGED <<dbVars, topic, stale, reads, drops>>
    BY <1>0, <1>5, CrashReads
  <2>2. CallTypes'
    BY <2>1, Records DEF CallTypes, Updating, Consumers, Calls
  <2> QED
    BY <1>0, <2>1, <2>2, SameKeys, RestartTypes DEF dbVars
<1>6. CASE GetProfile \/ CreateLearnerProfile
  <2>1. PICK k \in Calls \ Consumers : Begun(k)
    BY <1>0, <1>6, BeginReads
  <2>2. UNCHANGED <<dbVars, kafkaVars, stale, drops, faults>> /\ reads' \in Nat /\ reads' <= MaxReads
    BY <1>0, <1>6 DEF GetProfile, CreateLearnerProfile, bounds
  <2>3. CallTypes'
    <3>1. \A c \in Consumers : call'[c] = call[c] /\ Keys(c)' = Keys(c)
      BY <2>1, <2>2 DEF Begun, Keys, kafkaVars, Calls, Consumers
    <3>2. \A j \in Calls : call'[j].at = "dedup" => j \in Consumers
      BY <1>0, <2>1 DEF CallTypes, Begun
    <3>3. Updating'
      BY <1>0, <2>1 DEF CallTypes, Updating, Begun
    <3> QED
      BY <1>0, <2>1, <3>1, <3>2, <3>3 DEF CallTypes, Begun
  <2>4. UNCHANGED <<row, processed, lapses, topic, stale, cache, position, committed, drops, faults>>
    BY <2>2 DEF dbVars, kafkaVars
  <2>5. \A c \in Consumers : committed[c] <= position[c] /\ position[c] \in Nat
    BY <1>0 DEF KafkaTypes
  <2> QED
    BY <1>0, <2>2, <2>3, <2>4, <2>5, SameKeys, RestartTypes DEF KafkaTypes
<1>7. CASE CacheExpires
  <2>1. /\ cache' = Missing /\ UNCHANGED <<row, processed, lapses, topic, position, committed, call, stale, reads, faults>>
        /\ drops' = drops + 1 /\ drops + faults < MaxTroubles
    BY <1>7 DEF CacheExpires, Drop, kafkaVars
  <2>2. CallTypes'
    BY <1>0, <2>1 DEF CallTypes, Updating, Keys
  <2> QED
    BY <1>0, <2>1, <2>2, Records, SameKeys, RestartTypes DEF KafkaTypes
<1>8. ASSUME NEW e \in Events, KeyExpires(e)
      PROVE  TypeInv'
  <2>1. /\ KeyTypes' /\ UNCHANGED <<row, cache, topic, position, committed, call, stale, reads, faults>>
        /\ drops' = drops + 1 /\ drops + faults < MaxTroubles
    BY <1>0, <1>8, ExpiryReads
  <2>2. CallTypes'
    BY <1>0, <2>1 DEF CallTypes, Updating, Keys
  <2> QED
    BY <1>0, <2>1, <2>2, RestartTypes DEF KafkaTypes
<1>9. CASE UNCHANGED vars
  <2>1. UNCHANGED <<row, cache, processed, lapses, topic, position, committed, call, stale, reads, drops, faults>>
    BY <1>9 DEF vars, dbVars, kafkaVars, bounds
  <2>2. CallTypes'
    BY <1>0, <2>1 DEF CallTypes, Updating, Keys
  <2> QED
    BY <1>0, <2>1, <2>2, SameKeys, RestartTypes DEF KafkaTypes
<1> QED
  BY <1>1, <1>2, <1>3, <1>4, <1>5, <1>6, <1>7, <1>8, <1>9 DEF Next

\* The variables have their types: no consumer is ahead of its topic, and a key is
\* in the log, or in the hands of a handler, only if its event was published.
THEOREM TypeCorrect == Spec => []TypeOK
<1>1. TypeInv => TypeOK
  BY DEF TypeInv
<1> QED
  BY <1>1, TypeInit, TypeNext, PTL DEF Spec

-----------------------------------------------------------------------------
(* The cached copy.                                                         *)

LEMMA StepCache ==
    ASSUME TypeInv, CacheCurrent, NEW k \in Calls, Step(k)
    PROVE  CacheCurrent'
<1> SUFFICES ASSUME faults' = 0, "stored" \notin stale', Invalidating' = {}
             PROVE  cache' \in {Missing, row'}
  BY DEF CacheCurrent
<1>1. /\ StepEffect(k) /\ faults = 0 /\ k \notin Invalidating'
      /\ \A j \in Calls \ {k} : j \in Invalidating => j \in Invalidating'
  <2>1. StepEffect(k) /\ UNCHANGED bounds
    BY StepReads DEF TypeInv, Step
  <2>2. \A j \in Calls \ {k} : call'[j] = call[j]
    BY <2>1 DEF StepEffect, Deduped, Got, Selected, Filled, HasMerged, Created, Invalidated, Based, Move
  <2> QED
    BY <2>1, <2>2 DEF Invalidating, bounds
<1>2. call[k].at \notin {"delete", "delete_created"} => Invalidating = {}
  BY <1>1 DEF Invalidating
<1>3. CASE Deduped(k) \/ Got(k) \/ Selected(k)
  <2>1. UNCHANGED <<row, cache>> /\ stale \subseteq stale' /\ Invalidating = {}
    BY <1>2, <1>3 DEF Deduped, Got, Selected, MarkProcessed, GetLands, Nothing, dbVars
  <2> QED
    BY <2>1, <1>1 DEF CacheCurrent
<1>4. CASE Filled(k)
  BY <1>2, <1>4 DEF Filled, Fill
<1>5. CASE HasMerged(k)
  <2>1. ~row.there
    BY <1>1, <1>5 DEF HasMerged, Move, Invalidating
  <2>2. UNCHANGED <<row, cache, stale>> /\ Invalidating = {}
    BY <2>1, <1>2, <1>5 DEF HasMerged, Merge
  <2> QED
    BY <2>2, <1>1 DEF CacheCurrent
<1>6. CASE Created(k)
  BY <1>1, <1>6 DEF Created, Move, Invalidating
<1>7. CASE Invalidated(k)
  BY <1>7 DEF Invalidated, Invalidate
<1> QED
  BY <1>1, <1>3, <1>4, <1>5, <1>6, <1>7 DEF StepEffect

LEMMA CacheNext == TypeInv /\ CacheCurrent /\ [Next]_vars => CacheCurrent'
<1> SUFFICES ASSUME TypeInv, CacheCurrent, [Next]_vars PROVE CacheCurrent'
  OBVIOUS
<1>0. TypeOK /\ faults \in Nat
  BY DEF TypeInv, TypeOK
<1>1. ASSUME NEW k \in Calls, Step(k) PROVE CacheCurrent'
  BY <1>1, StepCache
<1>2. CASE (\E k \in Calls : Raises(k)) \/ Crash
  <2>1. faults' # 0
    BY <1>0, <1>2 DEF Raises, Crash, Fault
  <2> QED
    BY <2>1 DEF CacheCurrent
<1>3. ASSUME NEW c \in Consumers, Consume(c) PROVE CacheCurrent'
  <2>1. Consumed(c) /\ UNCHANGED <<row, cache, stale, faults>>
    BY <1>0, <1>3, ConsumeReads DEF Consume, dbVars, bounds
  <2>2. Invalidating' = Invalidating
    BY <2>1 DEF Invalidating, Consumed
  <2> QED
    BY <2>1, <2>2 DEF CacheCurrent
<1>4. CASE GetProfile \/ CreateLearnerProfile
  <2>1. PICK k \in Calls \ Consumers : Begun(k)
    BY <1>0, <1>4, BeginReads
  <2>2. Invalidating' = Invalidating
    BY <2>1 DEF Invalidating, Begun
  <2> QED
    BY <2>2, <1>4 DEF CacheCurrent, GetProfile, CreateLearnerProfile, dbVars, bounds
<1>5. CASE CacheExpires
  BY <1>5 DEF CacheExpires, CacheCurrent
<1>6. CASE \/ \E s \in Sessions : SessionEnded(s) \/ \E t \in Types : ErrorRecorded(s, t)
           \/ \E c \in Consumers : Reconnect(c)
           \/ \E e \in Events : KeyExpires(e)
           \/ UNCHANGED vars
  <2>1. UNCHANGED <<row, cache, stale, faults, call>>
    BY <1>6 DEF SessionEnded, ErrorRecorded, Reconnect, KeyExpires, Drop, vars, dbVars, bounds
  <2> QED
    BY <2>1 DEF CacheCurrent, Invalidating
<1> QED
  BY <1>1, <1>2, <1>3, <1>4, <1>5, <1>6 DEF Next

\* The copy in Redis is the row, or some call is about to delete it: whoever changes
\* the row goes on to the deletion, and only a reader that overtakes it leaves an
\* old copy behind.
THEOREM CopyIsCurrent == Spec => []CacheCurrent
<1>1. Init => CacheCurrent
  BY DEF Init, CacheCurrent
<1> QED
  BY <1>1, TypeInit, TypeNext, CacheNext, PTL DEF Spec

-----------------------------------------------------------------------------
(* What is counted.                                                         *)

LEMMA Grown ==
    ASSUME NEW E, NEW F, IsFiniteSet(F), E \subseteq F
    PROVE  /\ Cardinality(E) \in Nat /\ Cardinality(F) \in Nat /\ Cardinality(E) <= Cardinality(F)
           /\ \A t \in Types : OfType(E, t) \in Nat /\ OfType(F, t) \in Nat /\ OfType(E, t) <= OfType(F, t)
<1>1. ASSUME NEW A, NEW B, IsFiniteSet(B), A \subseteq B
      PROVE  Cardinality(A) \in Nat /\ Cardinality(B) \in Nat /\ Cardinality(A) <= Cardinality(B)
  <2>1. IsFiniteSet(A) /\ Cardinality(A) <= Cardinality(B)
    BY <1>1, FS_Subset
  <2> QED
    BY <2>1, <1>1, FS_CardinalityType
<1>2. ASSUME NEW t \in Types
      PROVE  OfType(E, t) \in Nat /\ OfType(F, t) \in Nat /\ OfType(E, t) <= OfType(F, t)
  <2>1. IsFiniteSet({g \in F : g[1][2] = t})
    BY FS_Subset
  <2>2. {g \in E : g[1][2] = t} \subseteq {g \in F : g[1][2] = t}
    OBVIOUS
  <2> QED
    BY <2>1, <2>2, <1>1 DEF OfType
<1> QED
  BY <1>1, <1>2

\* A key more counts once, under its type.
LEMMA OneMore ==
    ASSUME NEW E, IsFiniteSet(E), NEW taken, taken \notin E
    PROVE  /\ Cardinality(E \cup {taken}) = Cardinality(E) + 1
           /\ \A t \in Types : OfType(E \cup {taken}, t) = IF t = taken[1][2] THEN OfType(E, t) + 1 ELSE OfType(E, t)
<1>1. Cardinality(E \cup {taken}) = Cardinality(E) + 1
  BY FS_AddElement
<1>2. ASSUME NEW t \in Types
      PROVE  OfType(E \cup {taken}, t) = IF t = taken[1][2] THEN OfType(E, t) + 1 ELSE OfType(E, t)
  <2> DEFINE S == {g \in E : g[1][2] = t}
  <2>1. IsFiniteSet(S) /\ taken \notin S
    BY FS_Subset
  <2>2. CASE t = taken[1][2]
    <3>1. {g \in E \cup {taken} : g[1][2] = t} = S \cup {taken}
      BY <2>2
    <3>2. Cardinality(S \cup {taken}) = Cardinality(S) + 1
      BY <2>1, FS_AddElement
    <3> QED
      BY <3>1, <3>2, <2>2 DEF OfType
  <2>3. CASE t # taken[1][2]
    <3>1. {g \in E \cup {taken} : g[1][2] = t} = S
      BY <2>3
    <3> QED
      BY <3>1, <2>3 DEF OfType
  <2> QED
    BY <2>2, <2>3
<1> QED
  BY <1>1, <1>2

\* Consumer c has taken a key and not merged its event yet.
Pending(c) ==
    call[c].then = "update" /\ call[c].at \in {"get", "select", "fill", "merge", "create", "delete_created"}
\* The key it has in its hands, with the number of times it was set.
Grant(c) == <<Key(c), Times(Key(c))>>
Done(c) == {g \in Taken(c) : ~(Pending(c) /\ g = Grant(c))}

\* No more is counted than has been merged.
Within(profile, errors, ends) ==
    /\ \A t \in Types : profile.errors[t] <= OfType(errors, t)
    /\ profile.lengths <= Cardinality(ends)
AtMost(profile) == Within(profile, Done("errors"), Done("ends"))
TakenFirst == \A c \in Consumers : IsFiniteSet(Taken(c)) /\ (Pending(c) => Times(Key(c)) > 0)
OnceInv == TakenFirst /\ AtMost(row) /\ AtMost(cache) /\ \A k \in Calls : AtMost(call[k].base)

LEMMA WithinMore ==
    ASSUME NEW profile \in Profiles, NEW E, NEW F, NEW X, NEW Y, IsFiniteSet(F), IsFiniteSet(Y),
           E \subseteq F, X \subseteq Y, Within(profile, E, X)
    PROVE  Within(profile, F, Y)
<1>1. /\ Cardinality(X) \in Nat /\ Cardinality(Y) \in Nat /\ Cardinality(X) <= Cardinality(Y)
      /\ \A t \in Types : OfType(E, t) \in Nat /\ OfType(F, t) \in Nat /\ OfType(E, t) <= OfType(F, t)
  BY Grown
<1>2. profile.lengths \in Nat /\ \A t \in Types : profile.errors[t] \in Nat
  BY DEF Profiles
<1> QED
  BY <1>1, <1>2 DEF Within

LEMMA NoneWithin ==
    ASSUME NEW E, NEW X, IsFiniteSet(E), IsFiniteSet(X)
    PROVE  Within(Missing, E, X) /\ Within(ColdStart, E, X)
<1>1. Cardinality(X) \in Nat /\ \A t \in Types : OfType(E, t) \in Nat
  BY Grown
<1> QED
  BY <1>1, Records DEF Within

LEMMA TakenMembers ==
    ASSUME NEW c \in Consumers
    PROVE  \A g : g \in Taken(c) <=> \E e \in Keys(c) : \E n \in 1 .. Times(e) : g = <<e, n>>
BY DEF Taken

\* What has been taken depends on how often the keys of the topic have been set.
LEMMA SameTaken ==
    ASSUME TypeOK, NEW c \in Consumers, Keys(c)' = Keys(c), \A e \in Keys(c) : Times(e)' = Times(e)
    PROVE  Taken(c)' = Taken(c)
BY DEF Taken

LEMMA EventKinds == EventKeys("errors") \cap EventKeys("ends") = {}
BY DEF EventKeys

\* What a call does to the keys: a handler that does not find its own key sets it once more.
KeyTaken(k) ==
    /\ call[k].at = "dedup" /\ Key(k) \notin processed
    /\ \A e \in Events : Times(e)' = IF e = Key(k) THEN Times(e) + 1 ELSE Times(e)
NoneTaken == \A e \in Events : Times(e)' = Times(e)

LEMMA LandKeys ==
    ASSUME TypeInv, NEW k \in Calls, LandEffect(k)
    PROVE  \/ KeyTaken(k)
           \/ NoneTaken /\ (call[k].at = "dedup" /\ MarkProcessed(k) => Key(k) \in processed)
<1>1. KeyTypes /\ lapses' = lapses
  BY DEF TypeInv, TypeOK, KeyTypes, LandEffect, MarkProcessed, GetLands, Nothing, Fill, Merge, CreateProfile, Invalidate, dbVars
<1>2. CASE call[k].at = "dedup" /\ MarkProcessed(k) /\ Key(k) \notin processed
  <2>1. Key(k) \in Events /\ processed' = processed \cup {Key(k)}
    BY <1>2, AtLog DEF MarkProcessed
  <2>2. ASSUME NEW e \in Events PROVE Times(e)' = IF e = Key(k) THEN Times(e) + 1 ELSE Times(e)
    <3>1. lapses[e] \in Nat /\ (e \in processed' <=> e = Key(k) \/ e \in processed)
      BY <1>1, <2>1 DEF KeyTypes
    <3>2. CASE e = Key(k)
      BY <3>1, <3>2, <1>1, <1>2 DEF Times
    <3>3. CASE e # Key(k)
      BY <3>1, <3>3, <1>1 DEF Times
    <3> QED
      BY <3>2, <3>3
  <2> QED
    BY <1>2, <2>2 DEF KeyTaken
<1>3. CASE UNCHANGED processed \/ (call[k].at = "dedup" /\ MarkProcessed(k) /\ Key(k) \in processed)
  <2>1. processed' = processed
    BY <1>3 DEF MarkProcessed
  <2>2. NoneTaken
    BY <2>1, <1>1 DEF NoneTaken, Times
  <2>3. call[k].at = "dedup" /\ MarkProcessed(k) => Key(k) \in processed
    BY <2>1 DEF MarkProcessed
  <2> QED
    BY <2>2, <2>3
<1> QED
  BY <1>2, <1>3 DEF LandEffect, GetLands, Nothing, Fill, Merge, CreateProfile, Invalidate, dbVars

LEMMA LandTaken ==
    ASSUME TypeInv, NEW k \in Calls, LandEffect(k), UNCHANGED topic, NEW c \in Consumers
    PROVE  \/ Taken(c)' = Taken(c) /\ \A e \in Keys(c) : Times(e)' = Times(e)
           \/ /\ c = k /\ KeyTaken(k)
              /\ Taken(c)' = Taken(c) \cup {<<Key(k), Times(Key(k)) + 1>>}
              /\ <<Key(k), Times(Key(k)) + 1>> \notin Taken(c)
<1>1. /\ TypeOK /\ KeyTypes /\ Keys(c)' = Keys(c) /\ Keys(c) \subseteq Events /\ Keys(c) \subseteq EventKeys(c)
      /\ \A e \in Events : Times(e) \in Nat
  BY KeysAreEvents, TimesTypes DEF TypeInv, TypeOK, KeyTypes, Keys
<1>2. CASE NoneTaken
  BY <1>1, <1>2, SameTaken DEF NoneTaken
<1>3. CASE KeyTaken(k) /\ c # k
  <2>1. k \in Consumers /\ Key(k) \in EventKeys(k)
    BY <1>3, AtLog DEF KeyTaken
  <2>2. Key(k) \notin Keys(c)
    BY <1>1, <1>3, <2>1, EventKinds DEF Consumers
  <2>3. \A e \in Keys(c) : Times(e)' = Times(e)
    BY <1>1, <1>3, <2>2 DEF KeyTaken
  <2> QED
    BY <1>1, <2>3, SameTaken
<1>4. CASE KeyTaken(k) /\ c = k
  <2> DEFINE key == Key(k)
             new == <<key, Times(key) + 1>>
  <2>1. key \in Keys(c) /\ key \in Events /\ Times(key) \in Nat
    BY <1>1, <1>4, AtLog DEF KeyTaken
  <2>2. PICK f, before, after : /\ f = key /\ before = [e \in Keys(c) |-> Times(e)] /\ after = [e \in Keys(c) |-> Times(e)']
    OBVIOUS
  <2>3. /\ Taken(c) = UNION {{<<e, n>> : n \in 1 .. before[e]} : e \in Keys(c)}
        /\ Taken(c)' = UNION {{<<e, n>> : n \in 1 .. after[e]} : e \in Keys(c)}
    BY <2>2, <1>1 DEF Taken
  <2>4. before[f] \in Nat /\ after[f] = before[f] + 1 /\ f \in Keys(c) /\ \A e \in Keys(c) : e # f => after[e] = before[e]
    BY <2>1, <2>2, <1>1, <1>4 DEF KeyTaken
  <2>5. new = <<f, before[f] + 1>>
    BY <2>1, <2>2
  <2> HIDE DEF key, new
  <2>6. ASSUME NEW g PROVE g \in Taken(c)' <=> g \in Taken(c) \cup {<<f, before[f] + 1>>}
    <3>1. g \in Taken(c)' <=> \E e \in Keys(c) : \E n \in 1 .. after[e] : g = <<e, n>>
      BY <2>3
    <3>2. g \in Taken(c) <=> \E e \in Keys(c) : \E n \in 1 .. before[e] : g = <<e, n>>
      BY <2>3
    <3>3. \A n : n \in 1 .. after[f] <=> n \in 1 .. before[f] \/ n = before[f] + 1
      BY <2>4
    <3> QED
      BY <3>1, <3>2, <3>3, <2>4
  <2>7. <<f, before[f] + 1>> \notin Taken(c)
    <3>1. before[f] + 1 \notin 1 .. before[f]
      BY <2>4
    <3> QED
      BY <2>3, <3>1
  <2>8. Taken(c)' = Taken(c) \cup {new}
    BY <2>5, <2>6
  <2> QED
    BY <1>4, <2>5, <2>7, <2>8 DEF key, new
<1> QED
  BY <1>2, <1>3, <1>4, LandKeys

LEMMA LandFinite ==
    ASSUME TypeInv, TakenFirst, NEW k \in Calls, LandEffect(k), UNCHANGED topic, NEW c \in Consumers
    PROVE  Taken(c) \subseteq Taken(c)' /\ IsFiniteSet(Taken(c)')
<1>1. IsFiniteSet(Taken(c)) /\ (Taken(c)' = Taken(c) \/ \E g : Taken(c)' = Taken(c) \cup {g})
  <2>1. CASE Taken(c)' = Taken(c)
    BY <2>1 DEF TakenFirst
  <2>2. CASE Taken(c)' = Taken(c) \cup {<<Key(k), Times(Key(k)) + 1>>}
    BY <2>2 DEF TakenFirst
  <2> QED
    BY <2>1, <2>2, LandTaken
<1> QED
  BY <1>1, FS_AddElement

LEMMA SameGrant ==
    ASSUME NEW c \in Consumers, NEW e, Key(c) = e, Key(c)' = e, Times(e)' = Times(e)
    PROVE  Grant(c)' = Grant(c) /\ Times(Key(c))' = Times(Key(c))
BY DEF Grant, Times, Key

\* A consumer that does not move, while no key of its topic is set.
LEMMA StillDone ==
    ASSUME TypeOK, NEW c \in Consumers, Keys(c)' = Keys(c), \A e \in Keys(c) : Times(e)' = Times(e), call'[c] = call[c]
    PROVE  /\ Taken(c)' = Taken(c) /\ Done(c)' = Done(c) /\ Pending(c)' = Pending(c) /\ Key(c)' = Key(c)
           /\ Pending(c) => Grant(c)' = Grant(c) /\ Times(Key(c))' = Times(Key(c))
<1>1. Taken(c)' = Taken(c) /\ Pending(c)' = Pending(c) /\ Key(c)' = Key(c)
  BY SameTaken DEF Pending, Key
<1>2. Pending(c) => Grant(c)' = Grant(c) /\ Times(Key(c))' = Times(Key(c))
  <2> SUFFICES ASSUME Pending(c) PROVE Grant(c)' = Grant(c) /\ Times(Key(c))' = Times(Key(c))
    OBVIOUS
  <2>1. PICK e \in Keys(c) : Key(c) = e
    BY DEF Pending, TypeOK, Key
  <2> QED
    BY <2>1, <1>1, SameGrant
<1>3. Done(c)' = Done(c)
  BY <1>1, <1>2 DEF Done
<1> QED
  BY <1>1, <1>2, <1>3

\* The other consumer's keys are no concern of call k.
LEMMA OthersDone ==
    ASSUME TypeInv, NEW k \in Calls, LandEffect(k), UNCHANGED topic, NEW c \in Consumers, c # k, call'[c] = call[c]
    PROVE  /\ Taken(c)' = Taken(c) /\ Done(c)' = Done(c) /\ Pending(c)' = Pending(c)
           /\ Pending(c) => Times(Key(c))' = Times(Key(c))
<1>1. TypeOK /\ Keys(c)' = Keys(c)
  BY DEF TypeInv, Keys
<1>2. \A e \in Keys(c) : Times(e)' = Times(e)
  BY LandTaken
<1> QED
  BY <1>1, <1>2, StillDone

\* Step by step, a key is done with when its event is merged, and not before.
DoneSteps(k) ==
    \A c \in Consumers :
        /\ Done(c)' = IF c = k /\ call[k].at = "merge" /\ row.there THEN Done(c) \cup {Grant(c)} ELSE Done(c)
        /\ Pending(c)' => Times(Key(c))' > 0

LEMMA StepDone ==
    ASSUME TypeInv, TakenFirst, NEW k \in Calls, Step(k)
    PROVE  DoneSteps(k)
<1> SUFFICES ASSUME NEW c \in Consumers
             PROVE  /\ Done(c)' = IF c = k /\ call[k].at = "merge" /\ row.there THEN Done(c) \cup {Grant(c)} ELSE Done(c)
                    /\ Pending(c)' => Times(Key(c))' > 0
  BY DEF DoneSteps
<1>1. StepEffect(k) /\ LandEffect(k) /\ UNCHANGED topic /\ c \in Calls
  BY StepReads, Landing DEF TypeInv, Step, kafkaVars, Calls
<1>2. /\ KeyTypes /\ Keys(c)' = Keys(c) /\ Keys(c) \subseteq Events /\ \A e \in Events : Times(e) \in Nat
      /\ TypeOK /\ (call[c].then = "update" => Key(c) \in Keys(c))
  BY <1>1, KeysAreEvents, TimesTypes DEF TypeInv, TypeOK, KeyTypes, Keys, Key
<1>3. CASE c # k
  <2>1. call'[c] = call[c]
    BY <1>1, <1>3 DEF StepEffect, Deduped, Got, Selected, Filled, HasMerged, Created, Invalidated, Based, Move
  <2>2. /\ Done(c)' = Done(c) /\ Pending(c)' = Pending(c)
        /\ Pending(c) => Times(Key(c))' = Times(Key(c))
    BY <2>1, <1>1, <1>3, OthersDone
  <2>3. Pending(c) => Times(Key(c)) > 0
    BY DEF TakenFirst
  <2> QED
    BY <2>2, <2>3, <1>3
<1>4. CASE c = k
  <2>0. Pending(k) => Times(Key(k)) > 0
    BY <1>4 DEF TakenFirst
  <2>1. CASE Deduped(k)
    <3>1. ~Pending(k) /\ call[k].at = "dedup" /\ MarkProcessed(k) /\ call[k].then = "update" /\ Done(k) = Taken(k)
      BY <2>1 DEF Deduped, Pending, TypeInv, Updating, Done
    <3>2. CASE Key(k) \in processed /\ Move(k, "idle", "answer", Missing)
      <4>1. ~Pending(k)' /\ Taken(k)' = Taken(k)
        BY <3>2, <1>1, <1>4, LandTaken DEF Move, Pending, KeyTaken
      <4> QED
        BY <4>1, <3>1, <1>4 DEF Done
    <3>3. CASE Key(k) \notin processed /\ Move(k, "get", call[k].then, call[k].base)
      <4>1. Pending(k)' /\ Key(k)' = Key(k)
        BY <3>1, <3>3 DEF Move, Pending, Key
      <4>2. PICK e \in Events : e = Key(k)
        BY <1>2, <1>4, <3>1
      <4>3. KeyTaken(k)
        BY <3>1, <3>3, <1>1, LandKeys
      <4>4. Taken(k)' = Taken(k) \cup {<<e, Times(e) + 1>>} /\ <<e, Times(e) + 1>> \notin Taken(k) /\ Times(e)' = Times(e) + 1
        <5>1. ~(\A f \in Keys(k) : Times(f)' = Times(f))
          <6>1. e \in Keys(k) /\ Times(e) \in Nat /\ Times(e)' = Times(e) + 1
            BY <1>2, <1>4, <3>1, <4>2, <4>3 DEF KeyTaken
          <6> QED
            BY <6>1
        <5> QED
          BY <5>1, <1>1, <1>4, <4>2, <4>3, LandTaken DEF KeyTaken
      <4>5. Grant(k)' = <<e, Times(e) + 1>> /\ Times(Key(k))' = Times(e) + 1
        <5>1. Key(k)' = e
          BY <4>1, <4>2
        <5> QED
          BY <5>1, <4>4 DEF Grant, Times, Key
      <4>6. Done(k)' = Taken(k)
        BY <4>1, <4>4, <4>5 DEF Done
      <4>7. Times(e) \in Nat
        BY <1>2
      <4> QED
        BY <4>5, <4>6, <4>7, <3>1, <1>4
    <3> QED
      BY <2>1, <3>2, <3>3 DEF Deduped
  <2>2. CASE HasMerged(k) /\ row.there
    <3>1. call[k].at = "merge" /\ call[k].then = "update" /\ Taken(k)' = Taken(k)
      BY <2>2, <1>1, <1>4, LandTaken DEF HasMerged, TypeInv, Updating, KeyTaken
    <3>2. Pending(k) /\ ~Pending(k)'
      BY <3>1, <2>2 DEF HasMerged, Move, Pending
    <3>3. Grant(k) \in Taken(k)
      <4>1. Key(k) \in Keys(k) /\ Times(Key(k)) \in Nat /\ Times(Key(k)) > 0
        BY <3>1, <3>2, <2>0, <1>2, <1>4
      <4>2. Times(Key(k)) \in 1 .. Times(Key(k))
        BY <4>1
      <4> QED
        BY <4>1, <4>2, <1>4 DEF Taken, Grant
    <3> QED
      BY <3>1, <3>2, <3>3, <2>2, <1>4 DEF Done
  <2>3. CASE Got(k) \/ Selected(k) \/ Filled(k) \/ (HasMerged(k) /\ ~row.there) \/ Created(k) \/ Invalidated(k)
    <3>1. call[k].at # "dedup" /\ ~(call[k].at = "merge" /\ row.there)
      BY <2>3 DEF Got, Selected, Filled, HasMerged, Created, Invalidated
    <3>2. Pending(k)' = Pending(k) /\ (Pending(k) => Key(k)' = Key(k))
      BY <2>3 DEF Got, Selected, Filled, HasMerged, Created, Invalidated, Based, Move, Pending, Key, TypeInv, Updating
    <3>3. Taken(k)' = Taken(k) /\ \A e \in Keys(k) : Times(e)' = Times(e)
      BY <3>1, <1>1, <1>4, LandTaken DEF KeyTaken
    <3>4. Pending(k) => Grant(k)' = Grant(k) /\ Times(Key(k))' = Times(Key(k))
      <4> SUFFICES ASSUME Pending(k) PROVE Grant(k)' = Grant(k) /\ Times(Key(k))' = Times(Key(k))
        OBVIOUS
      <4>1. PICK e \in Keys(k) : Key(k) = e
        BY <1>2, <1>4 DEF Pending
      <4> QED
        BY <4>1, <3>2, <3>3, <1>4, SameGrant
    <3> QED
      BY <3>1, <3>2, <3>3, <3>4, <2>0, <1>4 DEF Done
  <2> QED
    BY <1>1, <2>1, <2>2, <2>3 DEF StepEffect
<1> QED
  BY <1>3, <1>4

\* Where the profiles of the next state come from, but for the merged one.
Source(profile) ==
    \/ profile \in {row, cache, Missing, ColdStart}
    \/ \E k \in Calls : profile = call[k].base

LEMMA SourceTypes ==
    ASSUME TypeOK, NEW profile, Source(profile)
    PROVE  profile \in Profiles
BY Records DEF Source, TypeOK, CallStates

LEMMA DoneFinite ==
    ASSUME TakenFirst
    PROVE  \A c \in Consumers : IsFiniteSet(Done(c))
BY FS_Subset DEF TakenFirst, Done

LEMMA SourceWithin ==
    ASSUME TypeOK, OnceInv, NEW profile, Source(profile), NEW E, NEW X, IsFiniteSet(E), IsFiniteSet(X),
           Done("errors") \subseteq E, Done("ends") \subseteq X
    PROVE  Within(profile, E, X)
<1>1. profile \in Profiles
  BY SourceTypes
<1>2. CASE profile \in {Missing, ColdStart}
  BY <1>2, NoneWithin
<1>3. CASE profile \notin {Missing, ColdStart}
  <2>1. AtMost(profile)
    BY <1>3 DEF OnceInv, Source
  <2>2. Within(profile, Done("errors"), Done("ends"))
    BY <2>1 DEF AtMost
  <2> QED
    BY <1>1, <2>2, WithinMore
<1> QED
  BY <1>2, <1>3

LEMMA OnceGrows ==
    ASSUME TypeOK, OnceInv, TakenFirst', \A c \in Consumers : Done(c) \subseteq Done(c)',
           Within(row', Done("errors")', Done("ends")'), Source(cache'), \A k \in Calls : Source(call'[k].base)
    PROVE  OnceInv'
<1>1. \A c \in Consumers : IsFiniteSet(Done(c)')
  BY FS_Subset DEF TakenFirst, Done
<1>2. PICK E, X : E = Done("errors")' /\ X = Done("ends")'
  OBVIOUS
<1>3. IsFiniteSet(E) /\ IsFiniteSet(X) /\ Done("errors") \subseteq E /\ Done("ends") \subseteq X
  BY <1>1, <1>2 DEF Consumers
<1>4. Within(cache', E, X) /\ \A k \in Calls : Within(call'[k].base, E, X)
  BY <1>3, SourceWithin
<1> QED
  BY <1>2, <1>4 DEF OnceInv, AtMost

\* What a call leaves in the row and in the copy.
LEMMA LandSources ==
    ASSUME NEW k \in Calls, LandEffect(k)
    PROVE  /\ Source(cache')
           /\ \/ Source(row') /\ ~(call[k].at = "merge" /\ row.there /\ row' # row)
              \/ call[k].at = "merge" /\ row.there /\ row' = Merged(k)
BY DEF LandEffect, MarkProcessed, GetLands, Nothing, Fill, Merge, CreateProfile, Invalidate, dbVars, Source

LEMMA MoveSources ==
    ASSUME NEW k \in Calls, NEW at, NEW then, NEW base, Move(k, at, then, base), Source(base)
    PROVE  \A j \in Calls : Source(call'[j].base)
BY DEF Move, Source

LEMMA CallSources ==
    ASSUME TypeInv, NEW k \in Calls, Step(k) \/ Raises(k)
    PROVE  \A j \in Calls : Source(call'[j].base)
<1>1. Source(Missing) /\ Source(ColdStart) /\ Source(row) /\ Source(cache) /\ Source(call[k].base)
  BY DEF Source
<1>2. CASE Raises(k)
  BY <1>1, <1>2, RaiseTypes, MoveSources
<1>3. CASE Step(k)
  <2>1. StepEffect(k)
    BY <1>3, StepReads DEF TypeInv
  <2>2. \E at, then, base : Source(base) /\ Move(k, at, then, base)
    BY <2>1, <1>1 DEF StepEffect, Deduped, Got, Selected, Filled, HasMerged, Created, Invalidated, Based
  <2> QED
    BY <2>2, MoveSources
<1> QED
  BY <1>2, <1>3

\* The merge counts the one event more that is done with.
LEMMA MergedWithin ==
    ASSUME TypeOK, NEW k \in Calls, NEW E, NEW X, IsFiniteSet(E), IsFiniteSet(X),
           Within(row, E, X), Within(call[k].base, E, X),
           NEW taken, taken[1] = Key(k),
           k = "errors" => taken \notin E, k = "ends" => taken \notin X
    PROVE  Within(Merged(k), IF k = "errors" THEN E \cup {taken} ELSE E, IF k = "ends" THEN X \cup {taken} ELSE X)
<1>1. /\ row \in Profiles /\ call[k].base \in Profiles
      /\ Cardinality(X) \in Nat /\ \A t \in Types : OfType(E, t) \in Nat
  BY Grown DEF TypeOK, CallStates
<1>2. /\ row.lengths \in Nat /\ call[k].base.lengths \in Nat
      /\ \A t \in Types : row.errors[t] \in Nat /\ call[k].base.errors[t] \in Nat
  BY <1>1 DEF Profiles
<1>3. CASE k = "errors"
  <2>1. \A t \in Types : OfType(E \cup {taken}, t) = IF t = taken[1][2] THEN OfType(E, t) + 1 ELSE OfType(E, t)
    BY <1>3, OneMore
  <2>2. Merged(k).lengths <= Cardinality(X)
    BY <1>3, Merging DEF Within
  <2>3. ASSUME NEW t \in Types PROVE Merged(k).errors[t] <= OfType(E \cup {taken}, t)
    <3>1. Merged(k).errors[t] = LET asked == IF t = Key(k)[2] THEN call[k].base.errors[t] + 1 ELSE call[k].base.errors[t]
                                IN  IF asked # 0 THEN asked ELSE row.errors[t]
      BY <1>3, Merging
    <3>2. row.errors[t] <= OfType(E, t) /\ call[k].base.errors[t] <= OfType(E, t)
      BY DEF Within
    <3>3. /\ OfType(E \cup {taken}, t) = IF t = Key(k)[2] THEN OfType(E, t) + 1 ELSE OfType(E, t)
          /\ OfType(E, t) \in Nat /\ row.errors[t] \in Nat /\ call[k].base.errors[t] \in Nat
      BY <2>1, <1>1, <1>2
    <3>4. CASE t = Key(k)[2]
      <4>1. Merged(k).errors[t] = call[k].base.errors[t] + 1
        BY <3>1, <3>3, <3>4
      <4> QED
        BY <4>1, <3>2, <3>3, <3>4
    <3>5. CASE t # Key(k)[2]
      <4>1. Merged(k).errors[t] \in {call[k].base.errors[t], row.errors[t]}
        BY <3>1, <3>5
      <4> QED
        BY <4>1, <3>2, <3>3, <3>5
    <3> QED
      BY <3>4, <3>5
  <2> QED
    BY <2>2, <2>3, <1>3 DEF Within
<1>4. CASE k = "ends"
  <2>1. Cardinality(X \cup {taken}) = Cardinality(X) + 1
    BY <1>4, OneMore
  <2>2. Merged(k).errors = row.errors /\ Merged(k).lengths = call[k].base.lengths + 1
    BY <1>4, Merging
  <2> QED
    BY <2>1, <2>2, <1>1, <1>2, <1>4 DEF Within
<1>5. CASE k \notin Consumers
  <2>1. Merged(k).errors = row.errors /\ Merged(k).lengths = row.lengths
    BY <1>5, Merging
  <2> QED
    BY <2>1, <1>5 DEF Within, Consumers
<1> QED
  BY <1>3, <1>4, <1>5 DEF Consumers

\* What is pending has been taken.
LEMMA GrantTaken ==
    ASSUME TypeOK, TakenFirst, NEW c \in Consumers, Pending(c)
    PROVE  Grant(c) \in Taken(c)
<1>1. Key(c) \in Keys(c) /\ Key(c) \in Events
  BY KeysAreEvents DEF TypeOK, Pending, Key
<1>2. Times(Key(c)) \in Nat /\ Times(Key(c)) > 0
  BY <1>1, TimesTypes DEF TypeOK, KeyTypes, TakenFirst
<1>3. Times(Key(c)) \in 1 .. Times(Key(c))
  BY <1>2
<1> QED
  BY <1>1, <1>3 DEF Taken, Grant

\* A call that goes on, or raises, before or behind what it does to the row.
LEMMA CallOnce ==
    ASSUME TypeInv, OnceInv, NEW k \in Calls, Step(k) \/ Raises(k)
    PROVE  OnceInv'
<1>1. /\ TypeOK /\ TakenFirst /\ LandEffect(k) /\ UNCHANGED topic
      /\ \A c \in Consumers : IsFiniteSet(Done(c)) /\ Taken(c) \subseteq Taken(c)' /\ IsFiniteSet(Taken(c)')
  <2>1. LandEffect(k) /\ UNCHANGED topic
    BY Landing DEF TypeInv, Step, Raises, kafkaVars
  <2> QED
    BY <2>1, DoneFinite, LandFinite DEF TypeInv, OnceInv
<1>2. /\ \A c \in Consumers : Done(c) \subseteq Done(c)' /\ (Pending(c)' => Times(Key(c))' > 0)
      /\ \A g : call[k].at = "merge" /\ row.there /\ k \in Consumers /\ g = Grant(k) /\ g \in Taken(k) => g \in Done(k)'
  <2>1. CASE Step(k)
    BY <2>1, <1>1, StepDone DEF DoneSteps
  <2>2. CASE Raises(k)
    <3>1. Move(k, "idle", "answer", Missing)
      BY <2>2, RaiseTypes
    <3>2. ~Pending(k)' /\ \A j \in Calls \ {k} : call'[j] = call[j]
      BY <3>1 DEF Move, Pending
    <3>3. ASSUME NEW c \in Consumers, c # k
          PROVE  Done(c)' = Done(c) /\ (Pending(c)' => Times(Key(c))' > 0)
      <4>1. /\ Done(c)' = Done(c) /\ Pending(c)' = Pending(c)
            /\ Pending(c) => Times(Key(c))' = Times(Key(c))
        BY <3>2, <3>3, <1>1, OthersDone DEF Calls
      <4>2. Pending(c) => Times(Key(c)) > 0
        BY <1>1 DEF TakenFirst
      <4> QED
        BY <4>1, <4>2
    <3>4. k \in Consumers => Done(k)' = Taken(k)'
      BY <3>2 DEF Done
    <3>5. \A c \in Consumers : Done(c) \subseteq Done(c)'
      <4>1. \A c \in Consumers : Done(c) \subseteq Taken(c)
        BY DEF Done
      <4> QED
        BY <4>1, <3>3, <3>4, <1>1
    <3> QED
      BY <3>2, <3>3, <3>4, <3>5, <1>1
  <2> QED
    BY <2>1, <2>2
<1>3. TakenFirst'
  BY <1>1, <1>2 DEF TakenFirst
<1>4. \A c \in Consumers : IsFiniteSet(Done(c)')
  BY <1>3, FS_Subset DEF TakenFirst, Done
<1>5. PICK E, X : E = Done("errors")' /\ X = Done("ends")'
  OBVIOUS
<1>6. IsFiniteSet(E) /\ IsFiniteSet(X) /\ Done("errors") \subseteq E /\ Done("ends") \subseteq X
  BY <1>2, <1>4, <1>5 DEF Consumers
<1>7. Within(row', E, X)
  <2>1. CASE Source(row')
    BY <2>1, <1>1, <1>6, SourceWithin
  <2>2. CASE call[k].at = "merge" /\ row.there /\ row' = Merged(k)
    <3>1. Within(row, Done("errors"), Done("ends")) /\ Within(call[k].base, Done("errors"), Done("ends"))
      BY DEF OnceInv, AtMost
    <3> DEFINE g == Grant(k)
    <3>2. k \in Consumers => Pending(k) /\ g \in Taken(k)
      BY <1>1, <2>2, GrantTaken DEF TypeInv, Updating, Pending
    <3>3. k \in Consumers => g \notin Done(k) /\ g \in Done(k)'
      BY <3>2, <1>2, <2>2 DEF Done
    <3>8. g[1] = Key(k)
      BY DEF Grant
    <3> HIDE DEF g
    <3>4. IsFiniteSet(Done("errors")) /\ IsFiniteSet(Done("ends"))
      BY <1>1 DEF Consumers
    <3> DEFINE Es == IF k = "errors" THEN Done("errors") \cup {g} ELSE Done("errors")
               Xs == IF k = "ends" THEN Done("ends") \cup {g} ELSE Done("ends")
    <3>5. Within(Merged(k), Es, Xs)
      BY <1>1, <3>1, <3>3, <3>4, <3>8, MergedWithin DEF Consumers
    <3>6. Es \subseteq E /\ Xs \subseteq X
      BY <1>5, <1>6, <3>3 DEF Consumers
    <3>7. Merged(k) \in Profiles
      BY <1>1, Merging
    <3> HIDE DEF Es, Xs
    <3> QED
      BY <3>5, <3>6, <3>7, <1>6, <2>2, WithinMore
  <2> QED
    BY <2>1, <2>2, <1>1, LandSources
<1>8. Source(cache') /\ \A j \in Calls : Source(call'[j].base)
  BY <1>1, LandSources, CallSources
<1> QED
  BY <1>1, <1>2, <1>3, <1>5, <1>7, <1>8, OnceGrows

\* Nothing is taken, and what is pending was pending before.
Calm(c) == Taken(c)' = Taken(c) /\ (Pending(c)' => Pending(c) /\ Grant(c)' = Grant(c))

\* Whatever leaves the row alone and sets no key.
LEMMA ElseOnce ==
    ASSUME TypeInv, OnceInv, UNCHANGED row, Source(cache'), \A k \in Calls : Source(call'[k].base),
           \A c \in Consumers : Calm(c)
    PROVE  OnceInv'
<1>1. TakenFirst'
  <2>1. ASSUME NEW c \in Consumers, Pending(c)' PROVE Times(Key(c))' > 0
    <3>1. Pending(c) /\ Grant(c)' = Grant(c) /\ Times(Key(c)) > 0
      BY <2>1 DEF OnceInv, TakenFirst, Calm
    <3>2. Times(Key(c))' = Times(Key(c))
      BY <3>1 DEF Grant
    <3> QED
      BY <3>1, <3>2
  <2> QED
    BY <2>1 DEF OnceInv, TakenFirst, Calm
<1>2. \A c \in Consumers : Done(c) \subseteq Done(c)'
  BY DEF Done, Calm
<1>3. \A c \in Consumers : IsFiniteSet(Done(c)')
  BY <1>1, FS_Subset DEF TakenFirst, Done
<1>4. PICK E, X : E = Done("errors")' /\ X = Done("ends")'
  OBVIOUS
<1>5. IsFiniteSet(E) /\ IsFiniteSet(X) /\ Done("errors") \subseteq E /\ Done("ends") \subseteq X
  BY <1>2, <1>3, <1>4 DEF Consumers
<1>6. Source(row) /\ row' = row /\ TypeOK
  BY DEF Source, TypeInv
<1>7. Within(row', E, X)
  BY <1>5, <1>6, SourceWithin
<1> QED
  BY <1>1, <1>2, <1>4, <1>6, <1>7, OnceGrows

\* An event that was not in its topic before has had no key.
LEMMA PublishTaken ==
    ASSUME TypeOK, NEW c \in Consumers, NEW event \in EventKeys(c), Publish(c, event),
           UNCHANGED <<processed, lapses, call>>, NEW d \in Consumers
    PROVE  /\ Taken(d)' = Taken(d) /\ Pending(d)' = Pending(d) /\ Key(d)' = Key(d)
           /\ Pending(d) => Grant(d)' = Grant(d)
           /\ \A e \in Events : Times(e)' = Times(e)
<1>1. Published1(c, event) /\ event \in Events /\ \A e \in Events : Times(e)' = Times(e)
  BY PublishReads DEF Times, Events, Consumers
<1>2. KeyTypes /\ \A b \in Consumers : Keys(b) \subseteq EventKeys(b) /\ Keys(b) \subseteq Events
  BY KeysAreEvents DEF TypeOK, KeyTypes
<1>3. Pending(d)' = Pending(d) /\ Key(d)' = Key(d)
  BY DEF Pending, Key
<1>4. Pending(d) => Grant(d)' = Grant(d)
  <2> SUFFICES ASSUME Pending(d) PROVE Grant(d)' = Grant(d)
    OBVIOUS
  <2>1. PICK e \in Keys(d) : Key(d) = e
    BY DEF Pending, TypeOK, Key
  <2> QED
    BY <2>1, <1>1, <1>2, <1>3, SameGrant
<1>5. Taken(d)' = Taken(d)
  <2>1. CASE d # c \/ event \in Keys(c)
    <3>1. Keys(d)' = Keys(d)
      BY <2>1, <1>1 DEF Published1
    <3> QED
      BY <3>1, <1>1, <1>2, SameTaken
  <2>2. CASE d = c /\ event \notin Keys(c)
    <3>1. event \notin Keys("errors") \cup Keys("ends")
      BY <2>2, <1>2, EventKinds DEF Consumers
    <3>2. Times(event) = 0
      <4>1. Times(event) \in Nat /\ ~(Times(event) > 0)
        BY <3>1, <1>1, <1>2, TimesTypes DEF KeyTypes
      <4> QED
        BY <4>1
    <3> DEFINE T == [e \in Events |-> Times(e)]
    <3>3. /\ Taken(d) = UNION {{<<e, n>> : n \in 1 .. T[e]} : e \in Keys(d)}
          /\ Taken(d)' = UNION {{<<e, n>> : n \in 1 .. T[e]} : e \in Keys(d) \cup {event}}
      <4>1. Keys(d)' = Keys(d) \cup {event}
        BY <2>2, <1>1 DEF Published1
      <4>2. \A e \in Keys(d) \cup {event} : T[e] = Times(e) /\ T[e] = Times(e)'
        BY <1>1, <1>2
      <4> HIDE DEF T
      <4> QED
        BY <4>1, <4>2 DEF Taken
    <3>4. T[event] = 0
      BY <3>2, <1>1
    <3> HIDE DEF T
    <3>5. {<<event, n>> : n \in 1 .. T[event]} = {}
      BY <3>4
    <3> QED
      BY <3>3, <3>5
  <2> QED
    BY <2>1, <2>2
<1> QED
  BY <1>1, <1>3, <1>4, <1>5

LEMMA OnceNext == TypeInv /\ OnceInv /\ [Next]_vars => OnceInv'
<1> SUFFICES ASSUME TypeInv, OnceInv, [Next]_vars PROVE OnceInv'
  OBVIOUS
<1>0. /\ TypeOK /\ Source(cache) /\ Source(Missing) /\ \A k \in Calls : Source(call[k].base)
      /\ \A c \in Consumers : c \in Calls
  BY DEF TypeInv, Source, Calls
<1>1. ASSUME NEW k \in Calls, Step(k) \/ Raises(k)
      PROVE  OnceInv'
  BY <1>1, CallOnce
<1>2. ASSUME NEW c \in Consumers, Consume(c)
      PROVE  OnceInv'
  <2>1. Consumed(c) /\ UNCHANGED <<row, processed, lapses, cache, topic>>
    BY <1>0, <1>2, ConsumeReads DEF Consume, dbVars
  <2>2. \A d \in Consumers : Taken(d)' = Taken(d)
    BY <2>1, <1>0, SameKeys, SameTaken, KeysAreEvents
  <2>3. ASSUME NEW d \in Consumers, Pending(d)' PROVE Pending(d) /\ Grant(d)' = Grant(d)
    <3>1. call'[d] = call[d]
      BY <2>1, <2>3, <1>0 DEF Consumed, Pending
    <3>2. Pending(d)
      BY <2>3, <3>1 DEF Pending
    <3>3. Keys(d)' = Keys(d) /\ \A e \in Keys(d) : Times(e)' = Times(e)
      BY <2>1, <1>0, SameKeys, KeysAreEvents
    <3> QED
      BY <3>1, <3>2, <3>3, <1>0, StillDone
  <2>4. \A d \in Consumers : Calm(d)
    BY <2>2, <2>3 DEF Calm
  <2>5. \A k \in Calls : Source(call'[k].base)
    BY <2>1, <1>0 DEF Consumed
  <2> QED
    BY <2>1, <2>4, <2>5, <1>0, ElseOnce
<1>3. ASSUME NEW s \in Sessions, SessionEnded(s) \/ \E t \in Types : ErrorRecorded(s, t)
      PROVE  OnceInv'
  <2>1. PICK c, event : c \in Consumers /\ event \in EventKeys(c) /\ Publish(c, event)
    BY <1>3 DEF SessionEnded, ErrorRecorded, Consumers, EventKeys
  <2>2. UNCHANGED <<row, processed, lapses, cache, call>>
    BY <1>3 DEF SessionEnded, ErrorRecorded, dbVars
  <2>3. \A d \in Consumers : Calm(d)
    BY <2>1, <2>2, <1>0, PublishTaken DEF Calm
  <2> QED
    BY <2>2, <2>3, <1>0, ElseOnce
<1>4. CASE GetProfile \/ CreateLearnerProfile
  <2>1. PICK k \in Calls \ Consumers : Begun(k)
    BY <1>0, <1>4, BeginReads
  <2>2. UNCHANGED <<row, processed, lapses, cache, topic>>
    BY <1>4 DEF GetProfile, CreateLearnerProfile, dbVars, kafkaVars
  <2>3. \A d \in Consumers : call'[d] = call[d]
    BY <2>1, <1>0 DEF Begun
  <2>4. \A d \in Consumers : Calm(d)
    BY <2>2, <2>3, <1>0, SameKeys, KeysAreEvents, StillDone DEF Calm
  <2>5. \A j \in Calls : Source(call'[j].base)
    BY <2>1, <1>0 DEF Begun
  <2> QED
    BY <2>2, <2>4, <2>5, <1>0, ElseOnce
<1>5. CASE Crash
  <2>1. call' = [k \in Calls |-> Idle] /\ UNCHANGED <<row, processed, lapses, cache, topic>>
    BY <1>0, <1>5, CrashReads DEF dbVars
  <2>2. \A d \in Consumers : ~Pending(d)'
    <3>1. \A d \in Consumers : call'[d] = Idle
      BY <2>1, <1>0
    <3> QED
      BY <3>1, Records DEF Pending
  <2>3. \A d \in Consumers : Calm(d)
    BY <2>1, <2>2, <1>0, SameKeys, SameTaken, KeysAreEvents DEF Calm
  <2>4. \A j \in Calls : Source(call'[j].base)
    BY <2>1, <1>0, Records
  <2> QED
    BY <2>1, <2>3, <2>4, <1>0, ElseOnce
<1>6. CASE \/ CacheExpires \/ \E e \in Events : KeyExpires(e)
           \/ \E c \in Consumers : Reconnect(c)
           \/ UNCHANGED vars
  <2>1. UNCHANGED <<row, topic, call>> /\ cache' \in {Missing, cache}
    BY <1>6 DEF CacheExpires, KeyExpires, Reconnect, vars, dbVars, kafkaVars
  <2>2. \A e \in Events : Times(e)' = Times(e)
    <3>1. CASE UNCHANGED <<processed, lapses, topic>>
      BY <3>1, SameKeys
    <3>2. CASE \E e \in Events : KeyExpires(e)
      BY <3>2, <1>0, ExpiryReads
    <3> QED
      BY <3>1, <3>2, <1>6 DEF CacheExpires, Reconnect, vars, dbVars, kafkaVars
  <2>3. \A d \in Consumers : Keys(d)' = Keys(d) /\ Keys(d) \subseteq Events /\ call'[d] = call[d]
    BY <2>1, <1>0, KeysAreEvents DEF Keys
  <2>4. \A d \in Consumers : Calm(d)
    BY <2>2, <2>3, <1>0, StillDone DEF Calm
  <2> QED
    BY <2>1, <2>4, <1>0, ElseOnce
<1> QED
  BY <1>1, <1>2, <1>3, <1>4, <1>5, <1>6 DEF Next

LEMMA OnceInit == Init => OnceInv
<1> SUFFICES ASSUME Init PROVE OnceInv
  OBVIOUS
<1>1. /\ row = Missing /\ cache = Missing /\ \A k \in Calls : call[k] = Idle
      /\ \A c \in Consumers : topic[c] = <<>>
  BY DEF Init
<1>2. \A c \in Consumers : Taken(c) = {} /\ ~Pending(c) /\ IsFiniteSet(Done(c))
  <2>1. \A c \in Consumers : Keys(c) = {} /\ ~Pending(c)
    BY <1>1, Records DEF Keys, Pending, Calls
  <2> QED
    BY <2>1, FS_EmptySet DEF Done, Taken
<1>3. AtMost(Missing)
  BY <1>2, NoneWithin DEF AtMost, Consumers
<1> QED
  BY <1>1, <1>2, <1>3, Records, FS_EmptySet DEF OnceInv, TakenFirst

\* An error counts at most once for its session and type, a session at most once, for every
\* time its key was set, in the row and in the copy, however the events are repeated, the keys
\* expire, the calls overlap and the processes die: no update is built on a profile that
\* counts its own event already.
THEOREM CountsOnce == Spec => []CountedOnce
<1>1. TypeInv /\ OnceInv => CountedOnce
  <2> SUFFICES ASSUME TypeInv, OnceInv, NEW profile \in {row, cache}
               PROVE  Within(profile, Taken("errors"), Taken("ends"))
    BY DEF CountedOnce, Within
  <2>1. \A c \in Consumers : IsFiniteSet(Taken(c)) /\ Done(c) \subseteq Taken(c)
    BY FS_Subset DEF OnceInv, TakenFirst, Done
  <2>2. profile \in Profiles /\ Within(profile, Done("errors"), Done("ends"))
    BY DEF TypeInv, TypeOK, OnceInv, AtMost
  <2> QED
    BY <2>1, <2>2, WithinMore DEF Consumers
<1> QED
  BY <1>1, TypeInit, TypeNext, OnceInit, OnceNext, PTL DEF Spec

-----------------------------------------------------------------------------
(* Nothing is lost.                                                         *)

\* All that has been merged is counted.
Exact ==
    /\ \A t \in Types : row.errors[t] = OfType(Done("errors"), t)
    /\ row.lengths = Cardinality(Done("ends"))
    /\ row.there \/ row = Missing
\* What was handed to the consumer has its key taken, or is about to.
HandedOn(c) ==
    \A i \in 1 .. position[c] : Times(topic[c][i]) > 0 \/ (call[c].at = "dedup" /\ topic[c][i] = Key(c))
\* The base of an update is, in the consumer's own part, what the row says.
FreshBase(c) ==
    Pending(c) /\ call[c].at \notin {"get", "select"} => Own(c, call[c].base) = Own(c, row)
Unlost == Exact /\ \A c \in Consumers : HandedOn(c) /\ FreshBase(c)
LossInv == faults = 0 /\ "updated" \notin stale => Unlost

\* A profile's own part is changed by its own consumer.
LEMMA OwnParts ==
    ASSUME TypeInv, Exact, NEW k \in Calls, LandEffect(k), NEW c \in Consumers, c # k \/ call[k].at # "merge" \/ ~row.there
    PROVE  Own(c, row') = Own(c, row)
<1>1. CASE call[k].at = "merge" /\ Merge(k) /\ row.there
  <2>1. c # k /\ row' = Merged(k) /\ TypeOK
    BY <1>1 DEF Merge, TypeInv
  <2>2. k = "errors" => c = "ends" /\ Merged(k).lengths = row.lengths
    BY <2>1, Merging DEF Consumers
  <2>3. k = "ends" => c = "errors" /\ Merged(k).errors = row.errors
    BY <2>1, Merging DEF Consumers
  <2>4. k \notin Consumers => Merged(k).errors = row.errors /\ Merged(k).lengths = row.lengths
    BY <2>1, Merging
  <2> QED
    BY <2>1, <2>2, <2>3, <2>4 DEF Own, Consumers
<1>2. CASE call[k].at = "create" /\ CreateProfile /\ ~row.there
  <2>1. row = Missing /\ row' = ColdStart
    BY <1>2 DEF CreateProfile, Exact
  <2> QED
    BY <2>1, Records DEF Own
<1>3. CASE UNCHANGED row
  BY <1>3
<1> QED
  BY <1>1, <1>2, <1>3 DEF LandEffect, MarkProcessed, GetLands, Nothing, Fill, Merge, CreateProfile, Invalidate, dbVars

LEMMA StepExact ==
    ASSUME TypeInv, OnceInv, Unlost, NEW k \in Calls, Step(k)
    PROVE  Exact'
<1>1. /\ TypeOK /\ LandEffect(k) /\ DoneSteps(k) /\ Exact /\ \A c \in Consumers : IsFiniteSet(Done(c))
      /\ {"errors", "ends"} = Consumers
  BY Landing, StepDone, DoneFinite DEF TypeInv, OnceInv, Unlost, Consumers
<1>2. CASE k \notin Consumers \/ call[k].at # "merge" \/ ~row.there
  <2>1. Done("errors")' = Done("errors") /\ Done("ends")' = Done("ends")
    BY <1>1, <1>2 DEF DoneSteps
  <2>2. Own("errors", row') = Own("errors", row) /\ Own("ends", row') = Own("ends", row)
    BY <1>1, <1>2, OwnParts DEF Consumers
  <2>3. row'.errors = row.errors /\ row'.lengths = row.lengths
    BY <2>2 DEF Own
  <2>4. row'.there \/ row' = Missing
    <3>1. row.there \/ row = Missing
      BY <1>1 DEF Exact
    <3>2. row' = row \/ row' = ColdStart \/ (row.there /\ row' = Merged(k))
      BY <1>1 DEF LandEffect, MarkProcessed, GetLands, Nothing, Fill, Merge, CreateProfile, Invalidate, dbVars
    <3> QED
      BY <3>1, <3>2, <1>1, Merging, Records
  <2> QED
    BY <2>1, <2>3, <2>4, <1>1 DEF Exact
<1>3. CASE k \in Consumers /\ call[k].at = "merge" /\ row.there
  <2>1. row' = Merged(k) /\ Merged(k).there
    <3>1. Merge(k)
      BY <1>1, <1>3, StepReads DEF StepEffect, Deduped, Got, Selected, Filled, HasMerged, Created, Invalidated
    <3> QED
      BY <3>1, <1>1, <1>3, Merging DEF Merge
  <2> DEFINE g == Grant(k)
  <2>2. Pending(k) /\ g[1] = Key(k)
    BY <1>1, <1>3 DEF TypeInv, Updating, Pending, Grant
  <2>3. g \notin Done(k) /\ Own(k, call[k].base) = Own(k, row)
    BY <2>2, <1>3 DEF Done, Unlost, FreshBase
  <2>4. Done(k)' = Done(k) \cup {g} /\ \A c \in Consumers \ {k} : Done(c)' = Done(c)
    BY <1>1, <1>3 DEF DoneSteps
  <2>5. /\ Cardinality(Done(k)') = Cardinality(Done(k)) + 1
        /\ \A t \in Types : OfType(Done(k)', t) = IF t = Key(k)[2] THEN OfType(Done(k), t) + 1 ELSE OfType(Done(k), t)
    <3> HIDE DEF g
    <3> QED
      BY <2>2, <2>3, <2>4, <1>1, <1>3, OneMore
  <2>6. CASE k = "errors"
    <3>1. call[k].base.errors = row.errors /\ \A t \in Types : row.errors[t] = OfType(Done(k), t) /\ row.errors[t] \in Nat
      BY <2>3, <2>6, <1>1 DEF Own, Exact, TypeOK, Profiles
    <3>2. ASSUME NEW t \in Types PROVE row'.errors[t] = OfType(Done(k)', t)
      <4>1. row'.errors[t] = LET asked == IF t = Key(k)[2] THEN row.errors[t] + 1 ELSE row.errors[t]
                             IN  IF asked # 0 THEN asked ELSE row.errors[t]
        BY <2>1, <2>6, <1>1, <3>1, Merging
      <4>2. CASE t = Key(k)[2]
        BY <4>1, <4>2, <3>1, <2>5
      <4>3. CASE t # Key(k)[2]
        BY <4>1, <4>3, <3>1, <2>5
      <4> QED
        BY <4>2, <4>3
    <3>3. row'.lengths = row.lengths /\ Done("ends")' = Done("ends")
      BY <2>1, <2>4, <2>6, <1>1, Merging
    <3>4. row'.lengths = Cardinality(Done("ends")')
      BY <3>3, <1>1 DEF Exact
    <3> QED
      BY <3>2, <3>4, <2>1, <2>6 DEF Exact
  <2>7. CASE k = "ends"
    <3>1. row'.errors = row.errors /\ Done("errors")' = Done("errors")
      BY <2>1, <2>4, <2>7, <1>1, Merging
    <3>2. row'.lengths = row.lengths + 1
      <4>1. row'.lengths = call[k].base.lengths + 1
        BY <2>1, <2>7, <1>1, Merging
      <4> QED
        BY <4>1, <2>3, <2>7 DEF Own
    <3>3. \A t \in Types : row'.errors[t] = OfType(Done("errors")', t)
      BY <3>1, <1>1 DEF Exact
    <3>4. row'.lengths = Cardinality(Done("ends")')
      BY <3>2, <2>5, <2>7, <1>1 DEF Exact
    <3> QED
      BY <3>3, <3>4, <2>1 DEF Exact
  <2> QED
    BY <2>6, <2>7, <1>3 DEF Consumers
<1> QED
  BY <1>2, <1>3

LEMMA StepHanded ==
    ASSUME TypeInv, OnceInv, NEW k \in Calls, Step(k), NEW c \in Consumers, HandedOn(c)
    PROVE  HandedOn(c)'
<1>1. /\ StepEffect(k) /\ LandEffect(k) /\ UNCHANGED <<topic, position>> /\ TypeOK /\ c \in Calls
      /\ position[c] \in Nat /\ position[c] <= Len(topic[c]) /\ DOMAIN topic[c] = 1 .. Len(topic[c]) /\ Len(topic[c]) \in Nat
  BY StepReads, Landing, LenProperties DEF TypeInv, TypeOK, Step, kafkaVars, Calls
<1>2. ASSUME NEW e \in Events, Times(e) > 0 \/ (call[k].at = "dedup" /\ Key(k) = e)
      PROVE  Times(e)' > 0
  <2>1. Times(e) \in Nat /\ (e \in processed => Times(e) > 0)
    <3>1. KeyTypes
      BY <1>1 DEF TypeOK, KeyTypes
    <3>2. lapses[e] \in Nat /\ Times(e) \in Nat /\ (e \in processed => Times(e) = lapses[e] + 1)
      BY <3>1, TimesTypes
    <3> QED
      BY <3>2
  <2>2. CASE KeyTaken(k)
    BY <2>1, <2>2, <1>2 DEF KeyTaken
  <2>3. CASE NoneTaken /\ (call[k].at = "dedup" /\ MarkProcessed(k) => Key(k) \in processed)
    <3>1. call[k].at = "dedup" => MarkProcessed(k)
      BY <1>1 DEF StepEffect, Deduped, Got, Selected, Filled, HasMerged, Created, Invalidated
    <3> QED
      BY <2>1, <2>3, <3>1, <1>2 DEF NoneTaken
  <2> QED
    BY <2>2, <2>3, <1>1, LandKeys
<1>3. call'[c] = call[c] \/ c = k
  BY <1>1 DEF StepEffect, Deduped, Got, Selected, Filled, HasMerged, Created, Invalidated, Based, Move
<1>4. ASSUME NEW i \in 1 .. position[c]
      PROVE  Times(topic[c][i])' > 0 \/ (call'[c].at = "dedup" /\ topic'[c][i] = Key(c)')
  <2>1. PICK e \in Events : e = topic[c][i]
    BY <1>1, KeysAreEvents DEF Keys
  <2>2. Times(e) > 0 \/ (call[c].at = "dedup" /\ e = Key(c))
    BY <2>1 DEF HandedOn
  <2>3. Times(e)' > 0 \/ (call'[c].at = "dedup" /\ e = Key(c)')
    BY <2>2, <1>2, <1>3 DEF Key
  <2>4. topic'[c][i] = e
    BY <2>1, <1>1
  <2> QED
    BY <2>3, <2>4 DEF Times
<1> QED
  BY <1>1, <1>4 DEF HandedOn

LEMMA StepFresh ==
    ASSUME TypeInv, Unlost, NEW k \in Calls, Step(k), "updated" \notin stale', NEW c \in Consumers
    PROVE  FreshBase(c)'
<1> SUFFICES ASSUME Pending(c)', call'[c].at \notin {"get", "select"}
             PROVE  Own(c, call'[c].base) = Own(c, row')
  BY DEF FreshBase, Own
<1>1. /\ StepEffect(k) /\ LandEffect(k) /\ Exact /\ c \in Calls
      /\ Pending(c) /\ call[c].at \notin {"get", "select"} => Own(c, call[c].base) = Own(c, row)
  BY StepReads, Landing DEF TypeInv, Unlost, FreshBase, Calls
<1>2. CASE c # k
  <2>1. call'[c] = call[c]
    BY <1>1, <1>2 DEF StepEffect, Deduped, Got, Selected, Filled, HasMerged, Created, Invalidated, Based, Move
  <2>2. Pending(c) /\ Own(c, row') = Own(c, row)
    BY <2>1, <1>1, <1>2, OwnParts DEF Pending
  <2> QED
    BY <2>1, <2>2, <1>1
<1>3. CASE c = k
  <2>1. call'[k].then = "update" /\ call'[k].at \in {"fill", "merge", "create", "delete_created"}
    BY <1>3 DEF Pending
  <2>2. CASE Got(k)
    <3>1. cache.there /\ call[k].then = "update" /\ Move(k, "merge", "update", cache)
      BY <2>1, <2>2 DEF Got, Based, Move
    <3>2. Own(k, cache) = Own(k, row) /\ UNCHANGED row
      BY <2>2, <3>1 DEF Got, GetLands, dbVars
    <3> QED
      BY <3>1, <3>2, <1>3 DEF Move
  <2>3. CASE Selected(k)
    <3>1. UNCHANGED row /\ (call'[k].base = row \/ (~row.there /\ call'[k].base = ColdStart))
      BY <2>1, <2>3 DEF Selected, Based, Move, Nothing, dbVars
    <3>2. ~row.there => row.errors = ColdStart.errors /\ row.lengths = ColdStart.lengths
      BY <1>1, Records DEF Exact
    <3> QED
      BY <3>1, <3>2, <1>3 DEF Own
  <2>4. CASE Filled(k) \/ (HasMerged(k) /\ ~row.there) \/ Created(k) \/ Invalidated(k)
    <3>1. /\ call[k].then = "update" /\ call[k].at \in {"fill", "merge", "create", "delete_created"}
          /\ call'[k].base = call[k].base /\ (call[k].at # "merge" \/ ~row.there)
      BY <2>1, <2>4 DEF Filled, HasMerged, Created, Invalidated, Based, Move
    <3>2. Own(k, call[k].base) = Own(k, row)
      BY <3>1, <1>1, <1>3 DEF Pending
    <3>3. Own(k, row') = Own(k, row)
      BY <3>1, <1>1, <1>3, OwnParts
    <3> QED
      BY <3>1, <3>2, <3>3, <1>3
  <2>5. ~Deduped(k) /\ ~(HasMerged(k) /\ row.there)
    BY <2>1 DEF Deduped, HasMerged, Move
  <2> QED
    BY <1>1, <2>2, <2>3, <2>4, <2>5 DEF StepEffect
<1> QED
  BY <1>2, <1>3

\* Whatever leaves the row, the keys taken and what is pending alone.
LEMMA ElseExact ==
    ASSUME Exact, UNCHANGED row, \A c \in Consumers : Done(c)' = Done(c)
    PROVE  Exact'
BY DEF Exact, Consumers

LEMMA StillHanded ==
    ASSUME TypeOK, NEW c \in Consumers, HandedOn(c), \A e \in Events : Times(e)' = Times(e),
           position'[c] \in Nat, position'[c] <= position[c], \A i \in 1 .. position[c] : topic'[c][i] = topic[c][i],
           call'[c] = call[c]
    PROVE  HandedOn(c)'
<1>1. /\ position[c] \in Nat /\ position[c] <= Len(topic[c]) /\ DOMAIN topic[c] = 1 .. Len(topic[c]) /\ Len(topic[c]) \in Nat
  BY LenProperties DEF TypeOK
<1>2. ASSUME NEW i \in 1 .. position'[c]
      PROVE  Times(topic[c][i])' > 0 \/ (call'[c].at = "dedup" /\ topic'[c][i] = Key(c)')
  <2>1. i \in 1 .. position[c] /\ i \in DOMAIN topic[c]
    BY <1>1
  <2>2. PICK e \in Events : e = topic[c][i]
    BY <2>1, KeysAreEvents DEF Keys
  <2>3. Times(e) > 0 \/ (call[c].at = "dedup" /\ e = Key(c))
    BY <2>1, <2>2 DEF HandedOn
  <2>4. Times(e)' > 0 \/ (call'[c].at = "dedup" /\ e = Key(c)')
    BY <2>3 DEF Key
  <2>5. topic'[c][i] = e
    BY <2>1, <2>2
  <2> QED
    BY <2>4, <2>5 DEF Times
<1> QED
  BY <1>2 DEF HandedOn

LEMMA PublishLoss ==
    ASSUME TypeInv, Unlost, NEW c \in Consumers, NEW event \in EventKeys(c), Publish(c, event),
           UNCHANGED <<dbVars, position, committed, call, stale, bounds>>
    PROVE  Unlost'
<1>1. TypeOK /\ Published1(c, event) /\ Exact /\ UNCHANGED <<row, processed, lapses, position, call>>
  BY PublishReads DEF TypeInv, Unlost, dbVars
<1>2. ASSUME NEW d \in Consumers
      PROVE  Done(d)' = Done(d) /\ HandedOn(d)' /\ FreshBase(d)'
  <2>1. /\ Taken(d)' = Taken(d) /\ Pending(d)' = Pending(d) /\ Key(d)' = Key(d)
        /\ Pending(d) => Grant(d)' = Grant(d)
        /\ \A e \in Events : Times(e)' = Times(e)
    BY <1>1, PublishTaken
  <2>2. Done(d)' = Done(d)
    BY <2>1 DEF Done
  <2>3. position[d] \in Nat /\ \A i \in 1 .. position[d] : topic'[d][i] = topic[d][i]
    <3>1. position[d] \in Nat /\ position[d] <= Len(topic[d]) /\ Len(topic[d]) \in Nat
      BY <1>1, LenProperties DEF TypeOK
    <3>2. CASE d = c
      BY <3>1, <3>2, <1>1 DEF Published1
    <3>3. CASE d # c
      BY <3>1, <3>3, <1>1 DEF Published1
    <3> QED
      BY <3>2, <3>3
  <2>4. HandedOn(d) /\ FreshBase(d)
    BY DEF Unlost
  <2>5. HandedOn(d)'
    BY <2>1, <2>3, <2>4, <1>1, StillHanded
  <2>6. FreshBase(d)'
    BY <2>1, <2>4, <1>1 DEF FreshBase, Own
  <2> QED
    BY <2>2, <2>5, <2>6
<1>3. Exact'
  BY <1>1, <1>2, ElseExact
<1> QED
  BY <1>2, <1>3 DEF Unlost

LEMMA ConsumeLoss ==
    ASSUME TypeInv, Unlost, NEW c \in Consumers, Consume(c)
    PROVE  Unlost'
<1>1. /\ TypeOK /\ Consumed(c) /\ Exact /\ UNCHANGED <<row, processed, lapses, topic>>
      /\ \A d \in Consumers : d \in Calls /\ position[d] \in Nat
  BY ConsumeReads DEF TypeInv, TypeOK, Unlost, dbVars, Consume, Calls
<1>2. ASSUME NEW d \in Consumers
      PROVE  Done(d)' = Done(d) /\ HandedOn(d)' /\ FreshBase(d)'
  <2>1. /\ Keys(d)' = Keys(d) /\ Keys(d) \subseteq Events /\ HandedOn(d) /\ FreshBase(d)
        /\ \A e \in Events : Times(e)' = Times(e)
    BY <1>1, SameKeys, KeysAreEvents DEF Unlost
  <2>2. CASE d # c
    <3>1. call'[d] = call[d] /\ position'[d] = position[d]
      BY <2>2, <1>1 DEF Consumed
    <3>2. Done(d)' = Done(d) /\ Pending(d)' = Pending(d)
      BY <2>1, <3>1, <1>1, StillDone
    <3>3. HandedOn(d)'
      BY <2>1, <3>1, <1>1, StillHanded
    <3>4. FreshBase(d)'
      BY <2>1, <3>1, <3>2, <1>1 DEF FreshBase, Own
    <3> QED
      BY <3>2, <3>3, <3>4
  <2>3. CASE d = c
    <3>1. ~Pending(c) /\ ~Pending(c)'
      BY <1>1 DEF Pending, Consumed
    <3>2. Taken(c)' = Taken(c)
      BY <2>1, <2>3, <1>1, SameTaken
    <3>3. Done(c)' = Done(c) /\ FreshBase(c)'
      BY <3>1, <3>2 DEF Done, FreshBase
    <3>4. ASSUME NEW i \in 1 .. position'[c]
          PROVE  Times(topic[c][i])' > 0 \/ topic[c][i] = Key(c)'
      <4>1. i \in 1 .. position[c] \/ i = position[c] + 1
        BY <1>1 DEF Consumed
      <4>2. CASE i \in 1 .. position[c]
        <5>1. Times(topic[c][i]) > 0
          BY <4>2, <2>1, <2>3, <1>1 DEF HandedOn, Consumed
        <5> QED
          BY <5>1, <1>1 DEF Times
      <4>3. CASE i = position[c] + 1
        BY <4>3, <1>1 DEF Consumed, Key
      <4> QED
        BY <4>1, <4>2, <4>3
    <3>5. HandedOn(c)'
      BY <3>4, <1>1 DEF HandedOn, Consumed
    <3> QED
      BY <2>3, <3>3, <3>5
  <2> QED
    BY <2>2, <2>3
<1>3. Exact'
  BY <1>1, <1>2, ElseExact
<1> QED
  BY <1>2, <1>3 DEF Unlost

\* A consumer starts over further back, or nothing happens to the consumers at all.
LEMMA ElseLoss ==
    ASSUME TypeInv, Unlost, UNCHANGED <<row, topic>>, \A e \in Events : Times(e)' = Times(e),
           \A c \in Consumers : call'[c] = call[c] /\ position[c] \in Nat /\ position'[c] \in Nat /\ position'[c] <= position[c]
    PROVE  Unlost'
<1>1. ASSUME NEW d \in Consumers
      PROVE  Done(d)' = Done(d) /\ HandedOn(d)' /\ FreshBase(d)'
  <2>1. TypeOK /\ Keys(d)' = Keys(d) /\ Keys(d) \subseteq Events
    BY KeysAreEvents DEF TypeInv, Keys
  <2>2. Done(d)' = Done(d) /\ Pending(d)' = Pending(d)
    BY <2>1, StillDone
  <2>3. HandedOn(d) /\ FreshBase(d)
    BY DEF Unlost
  <2>4. HandedOn(d)'
    BY <2>1, <2>3, StillHanded
  <2>5. FreshBase(d)'
    BY <2>2, <2>3 DEF FreshBase, Own
  <2> QED
    BY <2>2, <2>4, <2>5
<1>2. Exact'
  BY <1>1, ElseExact DEF Unlost
<1> QED
  BY <1>1, <1>2 DEF Unlost

LEMMA LossNext == TypeInv /\ OnceInv /\ LossInv /\ [Next]_vars => LossInv'
<1> SUFFICES ASSUME TypeInv, OnceInv, LossInv, [Next]_vars, faults' = 0, "updated" \notin stale'
             PROVE  Unlost'
  BY DEF LossInv
<1>0. TypeOK /\ faults \in Nat /\ \A c \in Consumers : position[c] \in Nat /\ c \in Calls
  BY DEF TypeInv, TypeOK, Calls
<1>1. ASSUME NEW k \in Calls, Step(k)
      PROVE  Unlost'
  <2>1. LandEffect(k) /\ faults = 0
    BY <1>0, <1>1, Landing DEF Step, bounds
  <2>2. "updated" \notin stale
    BY <2>1 DEF LandEffect, MarkProcessed, GetLands, Nothing, Fill, Merge, CreateProfile, Invalidate
  <2>3. Unlost
    BY <2>1, <2>2 DEF LossInv
  <2> QED
    BY <2>3, <1>1, StepExact, StepHanded, StepFresh DEF Unlost
<1>2. ~(\E k \in Calls : Raises(k)) /\ ~Crash
  BY <1>0 DEF Raises, Crash, Fault
<1>3. ASSUME NEW c \in Consumers, Consume(c)
      PROVE  Unlost'
  BY <1>3, ConsumeLoss DEF LossInv, Consume, bounds
<1>4. ASSUME NEW s \in Sessions, SessionEnded(s) \/ \E t \in Types : ErrorRecorded(s, t)
      PROVE  Unlost'
  <2>1. PICK c, event : c \in Consumers /\ event \in EventKeys(c) /\ Publish(c, event)
    BY <1>4 DEF SessionEnded, ErrorRecorded, Consumers, EventKeys
  <2>2. UNCHANGED <<dbVars, position, committed, call, stale, bounds>>
    BY <1>4 DEF SessionEnded, ErrorRecorded
  <2>3. Unlost /\ c \in Consumers /\ event \in EventKeys(c)
    BY <2>1, <2>2 DEF LossInv, bounds
  <2> QED
    BY <2>1, <2>2, <2>3, PublishLoss
<1>5. ASSUME NEW c \in Consumers, Reconnect(c)
      PROVE  Unlost'
  <2>1. /\ UNCHANGED <<row, processed, lapses, topic, call, stale, faults>>
        /\ \A d \in Consumers : position'[d] \in Nat /\ position'[d] <= position[d]
    BY <1>0, <1>5, ReconnectReads DEF dbVars
  <2>2. Unlost
    BY <2>1 DEF LossInv
  <2> QED
    BY <2>1, <2>2, <1>0, SameKeys, ElseLoss
<1>6. CASE GetProfile \/ CreateLearnerProfile
  <2>1. PICK k \in Calls \ Consumers : Begun(k)
    BY <1>0, <1>6, BeginReads
  <2>2. UNCHANGED <<row, processed, lapses, topic, position, stale, faults>>
    BY <1>6 DEF GetProfile, CreateLearnerProfile, dbVars, kafkaVars, bounds
  <2>3. \A c \in Consumers : call'[c] = call[c] /\ position'[c] <= position[c]
    BY <2>1, <2>2, <1>0 DEF Begun
  <2>4. Unlost
    BY <2>2 DEF LossInv
  <2> QED
    BY <2>2, <2>3, <2>4, <1>0, SameKeys, ElseLoss
<1>7. CASE CacheExpires \/ UNCHANGED vars
  <2>1. UNCHANGED <<row, processed, lapses, topic, position, call, stale, faults>>
    BY <1>7 DEF CacheExpires, Drop, vars, dbVars, kafkaVars, bounds
  <2>2. Unlost
    BY <2>1 DEF LossInv
  <2> QED
    BY <2>1, <2>2, <1>0, SameKeys, ElseLoss
<1>8. ASSUME NEW e \in Events, KeyExpires(e)
      PROVE  Unlost'
  <2>1. UNCHANGED <<row, topic, position, call, stale, faults>> /\ \A f \in Events : Times(f)' = Times(f)
    BY <1>0, <1>8, ExpiryReads
  <2>2. Unlost
    BY <2>1 DEF LossInv
  <2> QED
    BY <2>1, <2>2, <1>0, ElseLoss
<1> QED
  BY <1>1, <1>2, <1>3, <1>4, <1>5, <1>6, <1>7, <1>8 DEF Next

LEMMA LossInit == Init => LossInv
<1> SUFFICES ASSUME Init PROVE Unlost
  BY DEF LossInv
<1>1. /\ row = Missing
      /\ \A c \in Consumers : call[c] = Idle /\ topic[c] = <<>> /\ position[c] = 0
  BY DEF Init, Calls
<1>2. \A c \in Consumers : HandedOn(c) /\ FreshBase(c) /\ Done(c) = {}
  BY <1>1, Records DEF HandedOn, FreshBase, Pending, Done, Taken, Keys
<1>3. Exact
  <2>1. \A t \in Types : OfType({}, t) = 0
    BY FS_EmptySet DEF OfType
  <2>2. \A t \in Types : row.errors[t] = 0
    BY <1>1, Records
  <2>3. row.lengths = 0 /\ Cardinality({}) = 0 /\ Done("errors") = {} /\ Done("ends") = {}
    BY <1>1, <1>2, Records, FS_EmptySet DEF Consumers
  <2> QED
    BY <2>1, <2>2, <2>3, <1>1 DEF Exact
<1> QED
  BY <1>2, <1>3 DEF Unlost

\* Nothing published is lost to the update of another part of the profile, to a broken
\* connection or to two creations at once, and a key that expires changes no count: what a
\* handler had in its hands is taken and, but for the one it is at, merged on top of what the
\* row says.
THEOREM NothingIsLost == Spec => []NothingLost
<1>1. TypeInv /\ LossInv => NothingLost
  <2> SUFFICES ASSUME TypeInv, Unlost, \A c \in Consumers : position[c] = Len(topic[c]) /\ call[c].at = "idle"
               PROVE  /\ \A c \in Consumers : \A e \in Keys(c) : Times(e) > 0
                      /\ \A t \in Types : row.errors[t] = OfType(Taken("errors"), t)
                      /\ row.lengths = Cardinality(Taken("ends"))
    BY DEF NothingLost, LossInv
  <2>1. \A c \in Consumers : Done(c) = Taken(c)
    BY DEF Done, Pending
  <2>2. ASSUME NEW c \in Consumers, NEW e \in Keys(c) PROVE Times(e) > 0
    <3>1. PICK i \in DOMAIN topic[c] : topic[c][i] = e
      BY DEF Keys
    <3>2. i \in 1 .. position[c]
      BY <3>1, LenProperties DEF TypeInv, TypeOK
    <3> QED
      BY <3>1, <3>2 DEF Unlost, HandedOn
  <2> QED
    BY <2>1, <2>2 DEF Unlost, Exact, Consumers
<1> QED
  BY <1>1, TypeInit, TypeNext, OnceInit, OnceNext, LossInit, LossNext, PTL DEF Spec
=============================================================================
