# TLA+ verification of the English-learning platform

A set of TLA+ modules, TLC configurations and TLAPS proofs about the programs in `src/`: eleven
Python agents with an orchestrator (`src/agents`), three TypeScript services (`src/services`), a
shared TypeScript package (`src/packages/shared`) and a Next.js client (`src/apps/web`). They talk
over HTTP and Kafka, and keep state in Redis and Postgres. Every agent is an asyncio program: a
handler runs alone between two `await`s and interleaves with all others at each of them. That, lost
replies, at-least-once events and failures between two writes are what the models are about.

## 1. Inventory

| component | state it keeps | operations | what makes it correct |
|---|---|---|---|
| AGT-06 consolidation (`agt06_memory`) | Redis lists of a session, Postgres record of it | append, read all, create, close, insert, announce, embed | nothing stored twice; one reading; announced only when stored; nothing lost |
| AGT-03 tutor (`agt03_tutor`) | meta record and turn counter in AGT-06; a `started` flag per socket | start, turn, end; WebSocket handler and HTTP routes | one `session.end` per session, in order, only for real sessions; a lost socket ends its session |
| AGT-03 tickets | Redis key per ticket | issue, consume | a ticket admits one socket, to its own session |
| AGT-04 feedback | none (dual write to AGT-06 and Kafka) | analyse a turn, score, summarise | an error reaches both sides or the turn fails |
| AGT-01 profiling | profile row, cached copy, dedup keys | read, create, update, two consumers | no update lost, none applied twice, no stale copy |
| AGT-02 learning path | plan rows, catalogue cache | generate, sync to LMS, replan on a pattern | one active plan, that names the active path |
| Learning-materials service | learning paths, catalogue | create path, read, score assessment | one active path per user; the routes serve what the rows say |
| Catalogue scripts | none (six files, loaded into the catalogue) | seed, load a new version | a run that ended has served its file, whatever died before |
| AGT-05 assessment | result rows, item cache (the client carries the test) | start, answer, terminate | no item twice, always terminates, one result |
| AGT-07 review + web queue | `offline_review_log`, SM-2 columns, IndexedDB queue | rate, replay, queue, flush | each review applied exactly once, in the order of rating |
| AGT-08 analysis | latest result | analyse | a pattern is what the counted errors say |
| AGT-09 recommendation | cached list | read, compute, invalidate | no result older than the plan it answers to |
| AGT-10 habit | streak hash, dedup keys | record a session | a day counts once; a milestone is announced once |
| AGT-11 translation | cache | translate, explain | zone boundaries |
| Orchestrator | none | onboarding, grading | a retry after a partial failure does not double its effects; a grade is that of the answer sent |
| User service | users, settings | Clerk webhooks, settings | the row and what follows from its events end where Clerk is |
| Notification service | processed events, reminder runs, subscriptions | consume, hourly tick | a notification at most once, a failing user harms no other |
| Shared libraries | lazy producer, pool and client; event bus | emit, consume, fetch | an event is processed at least once; one producer |
| Web speaking hook | status, pending turn, recorder, socket, speech | send, record, end, receive | one turn at a time; the microphone off; the chat never waits for ever |
| Web onboarding pages | draft profile, test, plan page, Clerk's mark | answer, place, ask for a plan | a plan is asked for once, from what the learner entered |
| Web practice pages | page, question panel, audio cache | open, answer, check, translate, listen | what is graded or translated is what is shown |

How they interact: a browser takes a ticket, opens a WebSocket to AGT-03, which keeps the session in
AGT-06 and asks AGT-01, 02, 04 and 11 on the way. AGT-04 logs errors to AGT-06 (HTTP) and
`agent.errors` (Kafka). At the end AGT-03 asks AGT-06 to consolidate and publishes `session.end`,
which AGT-06 (consolidates again), AGT-01 (profile) and AGT-10 (streak) consume. AGT-06 announces
`agent.consolidation.complete` to AGT-08, which publishes `agent.pattern.events` to AGT-02, which
replans and publishes `agent.plan.events` to AGT-09. The web client reaches the orchestrator (onboarding,
grading) and the services through its own API routes; the orchestrator creates the profile (AGT-01)
and asks AGT-02 for a plan, which stores its path in the learning-materials service. Clerk's webhooks
feed the user service, whose events the notification and learning-materials services consume. `PROJECT.json` lists every component with its
files, and under `hazards` every place where one of these interactions is hard to test.

## 2. Modules and runs

| module | about | state it models |
|---|---|---|
| `Consolidation` | AGT-06: the lists of a session and `consolidate_session` | Redis lists, rows of four tables, topic, the coroutine of every running call |
| `SessionArchive` | what LTM promises of a session: a record written once, in one direction | phase, errors, words, transcript |
| `MCConsolidation` | constants of the runs of `Consolidation` | |
| `TutorSession` | AGT-03: `start_session`, `process_turn`, `end_session` and `handle_session` for one session id | meta record, turn counter, context, late requests, connections, coroutines, topics |
| `MCTutorSession` | the runs of `TutorSession` | |
| `LearnerProfile` | AGT-01 and the consumer loop of all agents | row, cached copy, dedup keys, topics with offsets, coroutines |
| `SpeakingClient` | the speaking chat: `useSpeakingRealtimeSession`, with the ticket and an outline of AGT-03 | refs and status of the hook, socket, recorder, speech, frames under way |
| `OfflineReview` | due page, queue, service worker and AGT-07's replay | IndexedDB, page, sync event, flushes, requests, `offline_review_log`, stability |
| `Notifications` | user service, Clerk, event bus, notification service, push prompt | rows, webhooks, topics, processed events, jobs, subscriptions |
| `Placement` | scoring of the placement test and the request for a plan, as functions | |
| `Onboarding` | onboarding pages and gate, orchestrator, AGT-02, learning paths | pages, draft, test, calls, paths, plans |
| `Catalogue` | the six scripts and the routes that serve what they load | rows with a key, children without, runs of scripts |
| `Practice` | the practice page and question panel on that catalogue | page, panel, checks, translations, audio requests |
| `MCLearnerProfile`, `MCSpeakingClient`, `MCOfflineReview`, `MCNotifications`, `MCOnboarding`, `MCPractice` | constants of the runs | |
| `Consolidation_proofs`, `TutorSession_proofs`, `LearnerProfile_proofs`, `OfflineReview_proofs`, `SpeakingClient_proofs`, `Notifications_proofs`, `Onboarding_proofs`, `Practice_proofs` | the theorems about these modules (section 3; `Practice_proofs` has those about `Catalogue` too) | |

### Consolidation

`call[c]` is a running `consolidate_session`: `at` names the await it is about to make, `got` what it
has read. One action stands for one await with the code up to the next: `Read` (one of the
concurrent round trips of `get_all_session_keys`), `CreateSession`, `CloseSessionWins` and
`CloseSessionLoses` (the two outcomes of the conditional UPDATE), `InsertErrorEvents`,
`UpsertVocabBatch` or `SwallowVocabFailure`, `InsertConversation` (with the creation of the background task),
`EmitComplete`. `StatementFails` is a statement that fails before it takes effect; the `Raise`
alternative of a statement is one that took effect and whose reply was lost. The HTTP route and the
consumer are one action, `Request`: they differ only in what they do with the answer. A list entry is
its ordinal, so "which entries" is a set of numbers and the circular buffer a condition on them. The
pipeline of `append_context_turn` is no transaction, so its RPUSH (`AppendContextTurn`) and its LTRIM
(`TrimContext`) are served one by one, and a consolidation may read the context between them: what it
archives is the last turns of some moment after the end was asked for, longer than the buffer by at most
the pipelines that were open at once (`Windows`). The EXPIRE behind them changes no list. The
contents of an entry, the metadata of the row and the four single-value keys are left out: nothing a
property speaks of depends on them. A vocabulary encounter is counted per encounter, not per word.
`snapshot`, `ending`, `atEnd`, `count`, `expired` and `overrun` are history: no action's guard reads
them, except that `count` numbers and bounds the pushes.

| run | question | bounds |
|---|---|---|
| `consolidation` | `TypeOK`, `NothingTwice`, `OneReading`, `CompleteIsBacked`, `NothingForgotten` | one session, two overlapping calls, a buffer of one turn with two pushed, one error, one fault |
| `consolidation_archive` | `ImplementsArchive` (refinement) and `RequestedIsArchived` (liveness, under `FairSpec`) | as above, with one turn and one vocabulary encounter instead |
| `consolidation_retry` | finding: `RetryCompletes` is violated | one call at a time, one entry for each list, one fault |

Why the bounds are enough: nothing links two sessions, so one is all a counterexample needs; a third
call meets the same row as the second, and slots are reused, so any number of calls in sequence
is covered; two turns overflow a buffer of one; one fault is the smallest that separates a
close from what it should be followed by (the proofs cover any number). The slots are symmetric in the
safety run only. `MaxPushed` and `MaxFaults` are the only bounds; both sit in guards.

### TutorSession

One session id, because the code shares no state between sessions. `op[a]` is the coroutine that
serves actor `a`: a WebSocket, whose handler takes its messages one after the other and has the
`started` flag and a `finally` block, or an HTTP client. `meta = k` means the meta record written by
the k-th `start_session`. Awaits that neither write nor decide anything here (profile, plan, state,
LLM, grammar, translation) are part of the await after them, so their failure is `CallFails` at that
point. `CallFails` covers the requests that are checked (`raise_for_status`), `CallIgnored` the error
statuses nobody looks at and the exceptions that are caught, `TimesOut` a request AGT-03 gives up on
while AGT-06 may still serve it: it stays in `late` and lands at any later time, or never. `Expire`
is the TTL of the meta record or of the counter. `turnsOf`, `seal` and `raced` are history.

`raced` holds the starts for which calls overlapped: an `end_session` that shared the meta record
with another call, that deleted (or failed to delete) another start's record, or a start over a live
record. `EndedOnceUnlessRaced` says that everything else is right: however often an id is ended, with
failures, timeouts and late requests, a start that was not raced has one `session.end`. `EndedOnce`,
without the exception, is what the comment and the test of the code claim, and is refuted.

| run | question | bounds |
|---|---|---|
| `tutor_session` | `TypeOK`, `EndedOnceUnlessRaced`, `EndedForReal`, `NothingAfterEnd`, `DisconnectClosesOut` (action property), `DisconnectEnds` (liveness, under `FairSpec`) | a socket and an HTTP client, two starts, one turn, one fault, any number of ends |
| `double_end` | finding: `EndedOnce` is violated | one start, one turn, no fault |

Two starts let an id be reused after an end, which the turn counter and late requests need to do
harm; an actor of each kind gives every overlap of two calls. With two turns (7.9 million states)
the invariants hold as well. `EndedForReal` and `NothingAfterEnd` are stated for behaviours without
faults: with a lost `session.start`, a delete that fails or a late append the code makes no such
promise. A handler whose client is gone comes to its end (`DisconnectEnds`), and at that moment the
session it found has lost its meta record, is consolidated and announced (`DisconnectClosesOut`).

Deadlock is not checked, here or in any run: when users have acted as often as the bounds allow, a
system rightly stops, and nothing forces a user to act.

### LearnerProfile

`call[k]` is the coroutine of a consumer or of a request, `at` the await it is about to make: the SET NX
of the dedup key, GET of the copy, SELECT of the row, SET of the copy, the transaction that merges
(SELECT FOR UPDATE and UPDATE are one step, the lock sees to that), the INSERT of a new row, the DELs.
The profile is cut down to what the handlers compute from: a count per error type, the number of
sessions in averages and abilities, whether goals are set. Each handler reads a base through the cache
and sends absolute values, which the model keeps. A consumer hands out one event at a time;
`enable_auto_commit` commits at moments the code does not choose, so after a broken connection or a
death the group is at any offset between its last start and the last event handed out, before or behind
what was handled. The dedup keys are set with `ex=86400`: `KeyExpires` lets the day of a key pass at any
moment, and `lapses` counts how often one did. What comes again after that, redelivered, published
a second time or as a further error of the type, is applied again, which the docstring of the consumers
accepts as drift (`consumers.py:16-18`). So `CountedOnce` and `NothingLost` count a key as often as it was set: once in
each of its lives, and never less.

| run | question | bounds |
|---|---|---|
| `learner_profile` | `TypeOK`, `CountedOnce`, `CacheCurrent`, `NothingLost` | two events, each an error of a session in one of two types or its end, the same one twice included; one reader, the creation of the profile as often as it fails, two troubles (a broken connection, a key that expires, a failing call, a death) |

`CountedOnce` holds whatever fails. `CacheCurrent` and `NothingLost` are for behaviours without failing
calls; `stale` records the two harms of the read-through cache that the code has no remedy for: a copy
stored behind the deletion (for five minutes), and an update that a consumer bases on such a copy.
Two events are enough for each of the interplays: one type twice, two types of one map, an error and an
end, an event and its redelivery; two troubles are what a redelivery behind an expired key takes. A type counts
more than once as soon as a key has expired, so one session is enough for the sums; with two
sessions and one trouble (1 143 773 states) the invariants hold as well. An error counts once for its
session and type while the key is kept, which is what the key says; that a second error of a type is
dropped meanwhile is a property of the key, listed as a hazard.

### SpeakingClient

One action is one callback of the hook, run to its next await: the socket's events, clicks, the
resolution of `getUserMedia`, the recorder's stop event, the reading of the blob, the events of the
speech engine and the two timers of its fallback. The controls are guarded by what the chat disables.
AGT-03 is an outline of `handle_session` that answers frames in order; `TutorSession` has the detail.
A ticket may expire, be refused or fail; its use is single.

| run | question | bounds |
|---|---|---|
| `speaking_client` | `TypeOK`, `OneTurnUnlessRefused`, `AnswersFollowTurns`, `MicOffUnlessLate`, `ChatSettles`, `WordsShown` | two turns, replies of two words, one recording, one fault |
| `speaking_end` | finding: `EndedStaysEnded` is violated | one turn, one word, no fault |

`late` holds the microphones granted when the recording had lost its place, `refused` that an error
frame came: in those cases the code does let a stream run or a second turn leave, and the properties say
that these are the only ones. `WordsShown` is what a step may never do (a word on the screen goes away)
with what a state may never be (two entries half shown); that every word is shown in the end is part of
`ChatSettles`. Two turns are what an answer can be mistaken for another by; two words
what a reveal can be left halfway in.

### OfflineReview

The stability of an item is the sequence of the reviews in it: SM-2 computes the new value from the old
one, so an order or a repetition shows. A request of AGT-07 has one coroutine per item
(`asyncio.gather`), each at a statement: claim, read, write, or the release of a claim. `flush[f]` is a
call of `flushPendingReviews` from its reading of the queue to its deletes; the page and the service
worker have one each, and nothing keeps them apart.

| run | question | bounds |
|---|---|---|
| `offline_review` | `TypeOK`, `CountedOnce`, `LeavesWhenHandled`, `OrderKept`, `Delivered` | a due list of two items, two ratings, two requests, the page opened twice, one failure, restart or change of account |

`interrupted`, `misled`, `overwritten` and `mixed` are the cases in which the code does lose or reorder a
review: a claim whose request died, a claim held by another account's request, two requests in one
item. `Delivered` takes a browser with Background Sync that fires a registered event in the end; a real
browser gives up after some attempts, which the bound on requests stands for (`RequestsSpent`).

### Notifications

Clerk's changes make webhooks, delivered in any order and repeated until answered; the user service writes
its row, then publishes; the producer keeps its first connection, failed or not, until the service is
restarted; four consumer positions; the hourly tick, whose jobs work in batches; the push prompt of a
browser. The number of an address is the number of the change at Clerk it comes from.
A user's zone is read once, when a job lists its users.

| run | question | bounds |
|---|---|---|
| `notifications` | `TypeOK`, `InStep`, `NoticesOnce`, `EveryoneReminded`, `DeletionCompletes` | two learners, one browser, one optional job, batches of one, a clock that shows one hour twice, three stimuli |

Two users and a batch of one let a failure in the first batch meet somebody in a second. `crossed` holds
the users for whom something older came after something newer, which nothing in the code prevents;
`spoilt` the notices whose handler failed behind the inbox. Assumed: one replica of the notification
service, the jobs of one hour over before the next, and somebody who restarts a user service that
publishes nothing.

### Placement and Onboarding

`Placement` is the scorer (per skill the climb through the levels with its threshold, the fallback) and
the conversions from levels to a score, to a level and to ability estimates, with the rounding of the
code. `Onboarding` has the pages with the gate around them, the test, the plan page, and behind them the
orchestrator's two calls with their timeouts, AGT-02's look at the catalogue, its synchronisation of
the path in the background and its plan under the advisory lock, and the two statements with which the
learning-materials service replaces a path. A client may give up on a call that goes on at the servers.

| run | question | bounds |
|---|---|---|
| `onboarding` | `TypeOK`, `PlacementSound`, `NothingUnasked`, `InStep`, `PlanPageSettles` | two skills, three questions that place and one that does not, one self-assessed level, two calls, two faults |

Two calls are the page's own and its retry, another tab's, or the settings'. `overlapped` and `torn` are
the exemptions: calls at once, and a failed statement, after which two paths or none may be in force. The
test and the self-assessment are taken before the first plan is asked for; other tabs appear only as
further calls. The storage keys that are written and never read are left out.

### Catalogue and Practice

A script is the sequence of statements that follows from its file, with no transaction around them: it
may die between any two, be run again on the same or the next version, and overlap another run. The
routes are operators on the rows, so what is served in the middle of a run is what the readers see.
`Practice` is a tab on top of it: the page with its seven reads, each of which sees the catalogue of its
moment, and the panel with choice or text, checks (several may be under way), translation, and the audio
hook with the module-level cache it shares with other mounts.

| run | question | bounds |
|---|---|---|
| `practice` | `Converges`, `PanelSound` (which includes the types) | three runs of scripts over two versions of each file, read by requests with every limit up to one more than the greatest (1 by default, 2 at most); or a tab beside one run: two visits, two moves in the panel, one failure |

The files are constants; what the code takes for granted of them is said by assumptions.
`FilesAssumption`: a file names a thing once, what the generator made never moves to another lesson or module
(its ids begin with theirs) and never has the id of a fixture. `ProgramsAssumption`: no file is
without a record that may be loaded. `ListsAssumption`: no two lemmas have the same place in the alphabet, the
greatest limit is positive and the default one within it.

Most lists have no limit and serve all there is. The internal lists of words, grammar and passages and the two of flashcards serve 50 rows
unless the request names a limit, and 200 at most. Such a route is the set of the answers it may give
(`Take`): so many rows, the first ones in the order of the route if it has one (flashcards by level and lemma, those
of a topic by lemma), any if it has none. The limits of the run are 1 and 2, so that a list of two or three
rows is cut or fits. `Converges` says of each answer to each request that what it tells of a thing in
the file is what the file says; that the thing is there if the list is no longer than the limit; and, of a
topic that is longer, that the cards in the answer are as many as the limit and precede the missing one. It does not say
that everything in the file is served: the repository's 292 grammar points and its words are more than one answer holds.

The families of tables share nothing, so one behaviour is about one of them. With a tab, the tables start
empty or loaded from the first version, and the script is not that of the fixtures, which never touches
a row that is there. A deep link names a skill of some module; a module has one lesson. The filters of the
lists, the order of those without a limit, and the event of an attempt are left out. `settled` and `raced` are history:
`Converges` is about runs that had no other beside them; the second half of `PanelSound` about panels
whose answer did not change during a check and whose exercise was not rewritten since it was read.

### Fairness

Weak fairness of every coroutine's next await and of every background task (`Consolidation`), of every
coroutine and of the notice of a lost connection (`TutorSession`): the asyncio event loop runs ready
tasks in turn, every request has a timeout, and the WebSocket server reports a lost peer to
`receive_json`. No fairness is assumed of clients, writers, Kafka deliveries, failures or expiry. In
`TutorSession` a socket may be disconnected in the middle of a call: the call runs to its end first, as
the handler is not cancelled.

`SpeakingClient`: events that have happened are delivered, timers expire, the handler answers, and a
speech engine that has reported a start ends; the user, the permission prompt and a mute engine owe
nothing. `OfflineReview`: requests are served, promises settle, the network comes back, a registered sync
event fires. `Notifications`: webhooks and messages are repeated until they are answered or committed,
requests end. `Onboarding`: effects run, requests end. `LearnerProfile` and `Practice` state no fairness:
what they promise at rest (`NothingLost`, `Converges`) or at any moment are invariants.

## 3. What is proved

Each proof module proves its theorems for all values of the constants that satisfy the named assumption
of the module it is about, so for any number of sessions, callers, events, items, turns and failures: the
bounds of the runs are constants, and the assumptions say of them only that they are natural numbers, some
of them at least 1. Of the data they say that names kept for "none" are not names of users or sessions,
that sockets are not clients, nor the worker a tab, that `Cards` is a sequence, that some skill is placed
and there are finitely many, that some zone has a clock, that levels lie between A1 and C2, that the question
bank is finite, that every exercise has a content, and what `Catalogue` assumes of its files, the limits and the
alphabet. No other
assumption is made.

| module | theorem | statement |
|---|---|---|
| `Consolidation_proofs` | `TypeCorrect` | `Spec => []TypeOK` |
| | `RecordWrittenOnce` | `Spec => [](TypeInv /\ WriteOnce)`, the inductive invariant |
| | `NothingWrittenTwice` | `Spec => []NothingTwice` |
| | `OneReadingKept` | `Spec => []OneReading` |
| | `CompletionBacked` | `Spec => []CompleteIsBacked` |
| | `ConsolidationImplementsArchive` | `Spec => ImplementsArchive` |
| | `NothingIsForgotten` | `Spec => []NothingForgotten` |
| `TutorSession_proofs` | `TypeCorrect` | `Spec => []TypeOK` |
| | `EndsOnce` | `Spec => []EndedOnceUnlessRaced` |
| | `EndsForReal` | `Spec => []EndedForReal` |
| | `NothingFollows` | `Spec => []NothingAfterEnd` |
| | `DisconnectsCloseOut` | `Spec => DisconnectClosesOut`, an action property |
| `LearnerProfile_proofs` | `TypeCorrect` | `Spec => []TypeOK` |
| | `CopyIsCurrent` | `Spec => []CacheCurrent` |
| | `CountsOnce` | `Spec => []CountedOnce` |
| | `NothingIsLost` | `Spec => []NothingLost` |
| `OfflineReview_proofs` | `TypeCorrect` | `Spec => []TypeOK` |
| | `CountsOnce` | `Spec => []CountedOnce` |
| | `LeavesTheQueue` | `Spec => []LeavesWhenHandled` |
| | `OrderIsKept` | `Spec => []OrderKept` |
| `SpeakingClient_proofs` | `TypeCorrect` | `Spec => []TypeOK` |
| | `OneTurn` | `Spec => []OneTurnUnlessRefused` |
| | `AnswersFollow` | `Spec => []AnswersFollowTurns` |
| | `MicOff` | `Spec => []MicOffUnlessLate` |
| | `WordsStay` | `Spec => WordsShown`, an action property and an invariant |
| `Notifications_proofs` | `TypeCorrect` | `Spec => []TypeOK` |
| | `RemindsEveryone` | `Spec => []EveryoneReminded` |
| | `NoticesGoOnce` | `Spec => []NoticesOnce` |
| | `StaysInStep` | `Spec => []InStep` |
| `Onboarding_proofs` | `TypeCorrect` | `Spec => []TypeOK` |
| | `StaysInStep` | `Spec => []InStep` |
| | `NoPathUnasked` | `Spec => []NothingUnasked` |
| | `PlacesSoundly` | `Spec => []PlacementSound` |
| `Practice_proofs` | `PanelIsSound` | `Spec => []PanelSound` |
| | `CatalogueConverges` | `Spec => []Converges` |

None of these properties is inductive as it stands. Every proof module begins with the strengthening it
needs, which TLC checked as an invariant of a run before it was proved; then one lemma per action
or group of actions, and the theorems at the end. In `Notifications_proofs`,
`Onboarding_proofs` and `Practice_proofs` the parts are proved one after the other, each resting on those
before it.

**Consolidation.** That an error is stored once depends on which coroutines may still store it.
`WriteOnce` says so in four parts. *OwnerInv*: a call at one of the points behind the close owns its
session, the session's row is closed, and what the call holds is the recorded reading. *UniqueInv*: no two
calls own a session. *PhaseInv*: what the owner has stored is exactly what its point has reached: nothing
before the errors, the errors before the vocabulary, and so on. *KeptInv*: owned or not, a session's
record is one of the states an owner can leave behind when it raises or dies in a crash, and a session that
is not closed has none. The conditional UPDATE is the only way in, and needs an open row. From `WriteOnce`
the three properties follow by the definition of the phases, and every step of the concurrent system is a
step of `SessionArchive` or leaves its variables alone. The typing invariant is part of the
induction because tallies are functions that are updated pointwise. `NothingForgotten` rests on a second
invariant, `RecallInv`: what was pushed is in Redis until a key expires, of the turns the last ones, up to one more than the
buffer holds for every LTRIM outstanding (*Held*), what a call has read it
read after the end of its session had been asked for (*Heard*), and so had the call that closed it
(*Sealed*). The subtle step is a read of one list while others are unread: it sees at least what was there
at the end, and whatever came later only adds to it.

**TutorSession.** `TypeInv` needs a budget: every increment of the turn counter, made, due or still under
way in a request given up on, is paid for by one turn a client took. `EndInv` is about the numbers of the
starts. *Numbering*: a number that is not given yet occurs nowhere. *PendingOnce*: a start's record is
written by one request, due or late, and until then nobody knows the number, so a late write cannot revive an
ended start. *OneEnd*: a start that was not raced is held by one ending call at most, which has the record
out of the way before it publishes; once the end is published the record is gone for good. `CalmInv` is about
behaviours without failures: what is published is in order, the turn counter is that of the start whose
record is there and the ending call has read all of it (*Counting*, *CountingOwn*), and behind a
quiet consolidation nobody is at a point that appends (*Silence*). `CleanupEnds` says that the `finally`
block is at `end_session` and nothing else, which makes the action property follow from the other parts.

**LearnerProfile.** A call that is in the middle of a handler is there to update the row (*Updating*, with the
types). `OnceInv` is about grants, a key with the number of the time it was set, which stay when the key expires: the key
is set before its update, and neither the row, the copy, nor any base
that a coroutine carries counts more than the grants that are no longer pending. A merge makes
one pending key count, and the two consumers write disjoint parts of the profile.
`LossInv`, for behaviours without failing calls and without an old copy taken for a base: the row counts
exactly the grants that are not pending (*Exact*), the key of everything handed to a consumer has been set or is about
to be (*HandedOn*), and the base of an update says, in the consumer's own part, what the row says (*FreshBase*).
`CacheCurrent` is inductive with the types. TLC checked the invariants on 557 222 states (the run with one trouble).

**OfflineReview.** `CountInv`: a review is in one hand at most, the hand's review is claimed in
`offline_review_log`, counted nowhere yet and in no history a coroutine has read (*HeldOnce*); what the row
holds or a coroutine has read contains only claimed reviews of the item, each once (*Histories*); only the
learner's own requests get to write (*OwnWrites*). `QueueInv`: a claim stands for a review that counts,
is in a hand, or met one of the ends the model names (*ClaimsKept*); two flushes never wait for one request,
and the batch of a flush is in its request's work or its errors until it is safe (*Posted*). `OrderInv`, for
an item that no two requests worked on at once: what is older than something that counts, or than what the
request still has to do, is settled; what is in hand is newer than all that counts, and that is what was read.

**SpeakingClient.** `TypeOK` itself needs `VoiceInv` (the entry being spoken exists, and all others are
shown in full) and `FlowInv`: a turn is at one place at a time on its way to the server, back and into the
transcript (*OneWay*), the frames in a queue and the entries of the transcript are distinct
(*Distinct*, *Conversation*), and nothing is under way before the socket is open (*Opening*). `PendInv`: before an
error frame, a turn on its way is the pending one. `FreshInv`: until the session has started, nothing is
recorded or sent. `MicInv`: so long as no stream was granted late, the streams and recorders that run are
the ones the refs hold (*OneStream*), and one recording is at work at a time, only while nothing is on its
way that would offer the chat for another turn (*OneRecording*). A first form of it was not inductive: that
at most one start or turn is on its way had to be said as well, or a second answer could re-enable the
controls under a recording. TLC checked the invariants on 1 553 101 states (two turns, two microphones).

**Notifications.** `IdInv`: an id is given to one event of a topic, and the only one of a queue that may be
recorded already is the first, at which its consumer is. `HookInv`: the last webhook of a user says what
Clerk has, deletions are published of deleted users only, and of whom there is no webhook is as the start
left them. `ReadyInv` and `RunInv`: what has been sent, unless spoilt, is recorded or on its way to be; with
the ids it makes `NoticesOnce` inductive. `RemindInv`: of those due, each is still to do, at work, failed,
or was notified, and a job that is over has nobody at work. `InStep` is built up along the way an account
goes: the row says what the last webhook said once that was handled (`RowInv`); the last event of a
user says the same, and with no event left Novu does (`Caught`, with `HandledInv` for the event that has been
handled and not committed); what a deletion has passed is gone (`Removing`), and what is left of a deleted
user awaits the event of the deletion (`Removed`). The users in `crossed` are those for whom the
order of webhooks or events breaks this. TLC checked the invariants on 398 003 states, and with two
time zones on 1 177 269.

**Onboarding.** `QuizInv`: what the learner has passed is answered, an answer that is erased later is the one
the page shows. `PageInv`: one call at most is waited for, on the plan page. `WorkInv`: the servers' side of a
call, from the moment it is looked at to the statement on its path; a version is at most the number of
paths made, which bounds it. `CalmInv` is about behaviours in which no two calls were at work at once and no
statement failed. *OneAtWork*: there is one call at work, and unless it is about to insert a path, one is
in force. *InForce*: which, at each point between the two statements, in either order. *PlanInForce*: if all
plans have their paths, the last one's is in force, or the next is on its way. *Replans*: who is at work
while another path is in force came from the settings page, so no plan page is open. *Shown*: the page shows
the call that is in force, or one whose request to the learning-materials service goes on behind an
answer already given. *Unasked*: a call made in passing, as the profile is cleared, finds a path, or a plan
was stored before whose path was not kept. *Shown* first said that the path shown is made, which a timed
out synchronisation refutes. TLC checked the invariants on 988 361 states (two calls, two faults) and
3 321 867 (three calls, one fault).

The first half of `PlacementSound` is `QuizInv`. The second is about numbers: the level asked for is the rounded
mean of as many scores as skills were placed. That a sum of n numbers lies between n times their least and n
times their greatest is shown along the definition of the fold, by taking one element of the set after the
other, and rounding half up leaves a mean between its bounds.

**Practice.** `CatalogueSound` says of the tables only what every step needs: whatever scripts have run,
overlapped or died, a row is of the set that its table and key say, carries a version some file has, and is the
only one with its key; so every answer of a route is a module, lesson or exercise that was asked for. On
it `PanelInv` is built. *Visiting*: at which of its reads the page is, and that the exercise it wants is one it was
given. *Screened*: the exercise of the panel is among those of the page and still has its row. *Waiting*: what is
shown as pending has a check or a load on its way, the checks are of this panel, and without a panel there is
nothing. *Counted*: moves, visits and failures stay within their bounds.
*Steady*, for panels whose answer did not change during a check and whose exercise was not
rewritten: the catalogue has the version that is shown, and the checks on their way, the grade and the translation are of
it and of the answer that stands.

**Catalogue.** `Converges` speaks of what routes serve, the runs of statements. Between them is the notion of a
statement that *stands*: the row it puts is there with its content, and the children it deletes or inserts are
those of the program up to here, each once. `LoadInv`: what a run that is alone has done so far stands
(*AloneStands*), and it has no rival; what a script has settled stands, and no run of it goes on
(*SettledStands*). One statement later all that stood still stands, for a program names a row
once, and clears the children of a thing before it creates them (*ProgramOrder*). A crash needs no case:
nothing is said of what a run left behind, and the first statements of the next one for a thing undo it.
The fixtures are another matter, as their script writes only what is missing. Therefore *Exact*: the rows it
makes are those of the first n of its statements, in their order, and nobody else touches them; a run
of the seed that is at its k-th statement has found or made all before (*SeededTo*). The way from
statements to answers is a calculation on lists: filtering, mapping and flattening keep order and
multiplicity (the lemmas about `Kept` and `Made`), so that what is found under a word is the numbered list of
its senses, and under a module the list of its lessons. For the routes with a limit it has to be shown that there is an
answer at all (of a finite set of rows whose places differ, so many come first: `TakeBy`, `TakeThere`), and that a set of the
size of the list is the list; that the rows of words have a level and a place, *WordsKnown* says: a row of a word is of
a version that has it.

These two proofs need induction over lists of any length, and the library's induction theorems cannot be
instantiated here. The sets of numbers and of lists with a property take the place of the predicates (`AllNumbers`,
`AllLists`, from the least element of a set of naturals), and `FlattenSeq`, a fold in the community module, is
shown to satisfy its recursion. Both hold for files of any length, not for a bound on them.
TLC checked `PanelInv`, `LoadInv` and *WordsKnown* on 2 070 348 states (the run `practice` with one move in the panel).

What is only model-checked is liveness under fairness (`RequestedIsArchived`, `DisconnectEnds`, `Delivered`,
`ChatSettles`, `DeletionCompletes`, `PlanPageSettles`): it needs ENABLED, which is outside the proof system.

## 4. Findings

* `consolidation_retry`: `consolidate_session` says "callers should retry" after an error behind
  partial writes; a retry finds the row closed by its predecessor and answers "already done". The
  errors and the conversation of the session are never written.
* `double_end`: `end_session` reads the meta record and deletes it in two requests; a socket that
  ends and `POST /sessions/end` can both own the session and both publish `session.end`.
* `speaking_end`: the integration guide says that an explicit end sends `{ type: 'end' }`. While the
  ticket is being fetched `endSession` only sets the status; `connect` goes on, opens the socket and
  starts the session, which becomes ready again, and no end is ever sent.

## 5. Plan

Every invariant and action property of the passing runs is a theorem; the liveness properties would need
a prover that knows ENABLED.

Models that would follow: the dual write of AGT-04 between `Consolidation` and `LearnerProfile`; the
streak of AGT-10 (its dedup key is set before the streak is written, and the streak is read and
written by two requests) and the cache of AGT-09 (a computation may store its result behind an
invalidation); `TutorSession` and `Consolidation` composed; the adaptive test of AGT-05 (the client carries
its state: a repeated last answer inserts a second result), CUSUM and SM-2 intervals as functions.

Places the models cover without a property, because nothing in the code promises one: a time zone that
`Intl` does not know ends the reminder job; a push subscription that could not be saved is not asked for
again; an empty catalogue is cached for its hour; a path that could not be stored leaves a plan with an id
nobody has; an audio that moves to another title makes every later run of the passage script fail; the
TTL of a session's keys runs from their first write, not from the end; a topic of flashcards announces all its cards, but
a request gets 200 at most and there is no second page; the internal lists of words, grammar and passages come in no stated
order, so that AGT-07's request for one row of a word with several parts of speech may get any of them, and
the slices that the ETL tool cuts out of two answers need not be disjoint.

## 6. Not modelled

Besides what the plan names: the pages that show what one call returns (dashboard, progress, history,
review), gateway and infrastructure configuration, load tests and ETL tools; the optimizer of AGT-02;
AGT-08's statistics; AGT-11, a classification and a cache of immutable values; the third-party
change-point detection, speech recognition, embedding and language models, which appear, where they matter, as
awaits that may fail. Clerk, Kafka, Redis and Postgres are modelled by what the code relies on: atomic
single commands and statements, at-least-once delivery, expiry, and failures before or after the effect.
