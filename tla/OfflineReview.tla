----------------------------- MODULE OfflineReview -----------------------------
(***************************************************************************)
(* Ratings of due vocabulary: the page that takes them, the queue in       *)
(* IndexedDB, the page and the service worker that flush it, and AGT-07,   *)
(* which replays a batch onto vocabulary_mastery.                          *)
(*                                                                         *)
(* Reviews are numbered in the order of their ratings (reviewed_at).  The  *)
(* stability of an item is the sequence of the reviews it accounts for:    *)
(* SM-2 computes the new value from the old one and the rating, so two     *)
(* histories that differ give different values.                            *)
(***************************************************************************)
EXTENDS Integers, Sequences, FiniteSetsExt

CONSTANTS
    Cards,       \* the due list, in its order: a sequence of distinct items
    TabFlushes,  \* calls of flushPendingReviews the page may have under way
    Worker,      \* the call the service worker makes for a sync event
    HasSync,     \* the browser has Background Sync and a controlling worker
    MaxReviews,  \* bound: ratings
    MaxRequests, \* bound: requests to /offline/{user}/sync
    MaxOpens,    \* bound: times the page is opened
    MaxFaults    \* bound: failures, lost connections, crashes, other accounts

ASSUME OfflineReviewAssumption ==
    /\ Cards \in Seq({Cards[n] : n \in DOMAIN Cards})
    /\ Worker \notin TabFlushes
    /\ HasSync \in BOOLEAN
    /\ {MaxReviews, MaxRequests, MaxOpens, MaxFaults} \subseteq Nat

VARIABLES
    queue,       \* pendingReviews in IndexedDB: the reviews not yet deleted
    dueCards,    \* dueCards in IndexedDB
    rated,       \* ratings so far
    item,        \* item[r]: what review r rated
    tab,         \* the due page is open
    opens,       \* times it was opened
    owner,       \* the learner is signed in, and not another one
    online,      \* navigator.onLine
    page,        \* what the page shows
    package,     \* its request for the offline package
    registering, \* registerBackgroundSync is waiting
    sync,        \* the registration of the sync event
    flush,       \* flush[f]: a call of flushPendingReviews
    request,     \* request[q]: AGT-07 at work on a batch
    requests,    \* requests so far
    claimed,     \* offline_review_log
    stability,   \* vocabulary_mastery.sm_stability
    interrupted, \* claimed reviews whose request died (history)
    misled,      \* reviews skipped while another account's request held them (history)
    overwritten, \* reviews whose effect a later write undid (history)
    mixed,       \* items that two requests worked on at once (history)
    faults       \* failures so far

clientVars == <<queue, dueCards, rated, item, owner>>
pageVars == <<tab, opens, online, page, package, registering>>
serverVars == <<request, requests, claimed, stability>>
history == <<interrupted, misled, overwritten, mixed>>
vars == <<clientVars, pageVars, sync, flush, serverVars, history, faults>>

Items == {Cards[n] : n \in DOMAIN Cards}
Flushes == TabFlushes \cup {Worker}
Reviews == 1 .. MaxReviews
Requests == 1 .. MaxRequests

\* The lists of cards: some of them, in their order.
Lists == {list \in UNION {[1 .. n -> Items] : n \in 0 .. Len(Cards)} :
             \A m, n \in DOMAIN list :
                 m < n => \E p, q \in DOMAIN Cards : p < q /\ Cards[p] = list[m] /\ Cards[q] = list[n]}

\* DueReviewPage: items is empty unless status is "success".
Pages == [status : {"loading", "success", "error"}, items : Lists, index : Nat]
Loading == [status |-> "loading", items |-> <<>>, index |-> 0]

\* A call of flushPendingReviews, from its reading of the queue to its deletes.
Idle == [at |-> "idle", batch |-> {}, request |-> 0, failed |-> {}]
FlushStates == [at : {"idle", "posting", "answered", "refused"}, batch : SUBSET Reviews,
                request : 0 .. MaxRequests, failed : SUBSET Reviews]

\* apply_offline_sync: one coroutine per item, each on the first of the item's
\* reviews still to do.
Coroutines == {"claim", "read", "write", "release", "dead"}
NoRequest == [own |-> TRUE, todo |-> {}, at |-> [i \in Items |-> "claim"], seen |-> [i \in Items |-> <<>>], errors |-> {}]
RequestStates == [own : BOOLEAN, todo : SUBSET Reviews, at : [Items -> Coroutines], seen : [Items -> Seq(Reviews)],
                  errors : SUBSET Reviews]

TypeOK ==
    /\ queue \subseteq 1 .. rated /\ rated \in 0 .. MaxReviews
    /\ dueCards \in Lists
    /\ item \in [1 .. rated -> Items]
    /\ {tab, owner, online, registering} \subseteq BOOLEAN /\ opens \in 0 .. MaxOpens
    /\ page \in Pages /\ (page.status # "success" => page.items = <<>>)
    /\ package \in {[at |-> "none", list |-> <<>>], [at |-> "asked", list |-> <<>>]} \cup [at : {"got"}, list : Lists]
    /\ sync \in {"none", "registered", "firing", "again"}
    /\ flush \in [Flushes -> FlushStates]
    /\ request \in [Requests -> RequestStates] /\ requests \in 0 .. MaxRequests
    /\ claimed \subseteq 1 .. rated
    /\ stability \in [Items -> Seq(1 .. rated)]
    /\ interrupted \cup overwritten \subseteq claimed
    /\ misled \subseteq 1 .. rated /\ mixed \subseteq Items
    /\ faults \in 0 .. MaxFaults

NoPackage == [at |-> "none", list |-> <<>>]

Init ==
    /\ queue = {} /\ rated = 0 /\ item = <<>>
    /\ dueCards = Cards
    /\ tab = FALSE /\ opens = 0 /\ owner = TRUE /\ online \in BOOLEAN /\ registering = FALSE
    /\ page = Loading /\ package = NoPackage
    /\ sync = "none"
    /\ flush = [f \in Flushes |-> Idle]
    /\ request = [q \in Requests |-> NoRequest] /\ requests = 0
    /\ claimed = {} /\ stability = [i \in Items |-> <<>>]
    /\ interrupted = {} /\ misled = {} /\ overwritten = {} /\ mixed = {}
    /\ faults = 0

Fault == /\ faults < MaxFaults
         /\ faults' = faults + 1

-----------------------------------------------------------------------------
(* AGT-07.                                                                  *)

\* The reviews of item i still to do in request q, and the one at work.
TodoOf(q, i) == {r \in request[q].todo : item[r] = i}

\* (mutant) The batch is replayed in the order it came in, the newest first.
CurrentLatest(q, i) == Max(TodoOf(q, i))

Current(q, i) == Min(TodoOf(q, i))
Working(q, i) == TodoOf(q, i) # {} /\ request[q].at[i] # "dead"
Broken(q) == \E i \in Items : request[q].at[i] = "dead"

\* What may be due: the learner's items, those rated before if they were
\* forgotten.  Another account has none of them.
Due(forgotten) == {i \in Items : owner /\ (forgotten \/ stability[i] = <<>>)}

agentFrame == <<clientVars, pageVars, sync, flush, requests, faults>>

\* (mutant) The log is written without looking at what it holds.
ClaimAlways(q, i) ==
    /\ Working(q, i) /\ request[q].at[i] = "claim"
    /\ request' = [request EXCEPT ![q].at[i] = "read"]
    /\ claimed' = claimed \cup {Current(q, i)}
    /\ UNCHANGED <<agentFrame, stability, history>>

\* Another account's request has the review in the log, and will give it back.
HeldByStranger(r) ==
    \E q \in Requests : ~request[q].own /\ Working(q, item[r]) /\ Current(q, item[r]) = r /\ request[q].at[item[r]] # "claim"

\* INSERT ... ON CONFLICT DO NOTHING: a review that is in the log is skipped.
\* The log is keyed by the review alone.
Claim(q, i) ==
    /\ Working(q, i) /\ request[q].at[i] = "claim"
    /\ LET r == Current(q, i)
       IN IF r \in claimed
          THEN /\ request' = [request EXCEPT ![q].todo = @ \ {r}]
               /\ misled' = IF HeldByStranger(r) THEN misled \cup {r} ELSE misled
               /\ UNCHANGED claimed
          ELSE /\ request' = [request EXCEPT ![q].at[i] = "read"]
               /\ claimed' = claimed \cup {r}
               /\ UNCHANGED misled
    /\ UNCHANGED <<agentFrame, stability, interrupted, overwritten, mixed>>

\* rate_item: the row of this account, or ValueError.
ReadStability(q, i) ==
    /\ Working(q, i) /\ request[q].at[i] = "read"
    /\ request' = IF ~request[q].own THEN [request EXCEPT ![q].at[i] = "release"]
                  ELSE [request EXCEPT ![q].at[i] = "write", ![q].seen[i] = stability[i]]
    /\ UNCHANGED <<agentFrame, claimed, stability, history>>

\* The UPDATE: computed from the value read, whatever the row holds by now.
WriteStability(q, i) ==
    /\ Working(q, i) /\ request[q].at[i] = "write"
    /\ LET r == Current(q, i)
           seen == request[q].seen[i]
       IN /\ stability' = [stability EXCEPT ![i] = Append(seen, r)]
          /\ overwritten' = overwritten \cup ({stability[i][n] : n \in DOMAIN stability[i]} \ {seen[n] : n \in DOMAIN seen})
          /\ request' = [request EXCEPT ![q].todo = @ \ {r}, ![q].at[i] = "claim", ![q].seen[i] = <<>>]
    /\ UNCHANGED <<agentFrame, claimed, interrupted, misled, mixed>>

\* The claim is given back and the review reported.
Release(q, i) ==
    /\ Working(q, i) /\ request[q].at[i] = "release"
    /\ LET r == Current(q, i)
       IN /\ claimed' = claimed \ {r}
          /\ request' = [request EXCEPT ![q].todo = @ \ {r}, ![q].at[i] = "claim", ![q].errors = @ \cup {r}]
    /\ UNCHANGED <<agentFrame, stability, history>>

\* Any other exception ends the item's coroutine; gather passes it on, and the
\* other items' coroutines run on.
StatementFails(q, i) ==
    /\ Working(q, i) /\ Fault
    /\ request' = [request EXCEPT ![q].at[i] = "dead"]
    /\ interrupted' = IF request[q].at[i] = "claim" THEN interrupted ELSE interrupted \cup {Current(q, i)}
    /\ UNCHANGED <<clientVars, pageVars, sync, flush, requests, claimed, stability, misled, overwritten, mixed>>

\* AGT-07 is restarted: every request is lost, with the claims it holds.
AgentCrashes ==
    /\ \E q \in Requests, i \in Items : Working(q, i)
    /\ Fault
    /\ request' = [q \in Requests |->
                     [request[q] EXCEPT !.at = [i \in Items |-> IF Working(q, i) THEN "dead" ELSE request[q].at[i]]]]
    /\ interrupted' = interrupted \cup
          {Current(p[1], p[2]) : p \in {p \in Requests \X Items : Working(p[1], p[2]) /\ request[p[1]].at[p[2]] # "claim"}}
    /\ UNCHANGED <<clientVars, pageVars, sync, flush, requests, claimed, stability, misled, overwritten, mixed>>

-----------------------------------------------------------------------------
(* flushPendingReviews.                                                     *)

\* The items of a batch that another request has work on.
Mixing(itemOf, batch) == {i \in Items : (\E r \in batch : itemOf[r] = i) /\ \E p \in Requests : Working(p, i)}

\* The queue is read and posted.  pending: what it holds; itemOf: of which items.
Post(f, pending, itemOf) ==
    /\ flush[f].at = "idle"
    /\ requests < MaxRequests
    /\ LET q == requests + 1
       IN /\ requests' = q
          /\ flush' = [flush EXCEPT ![f] = [Idle EXCEPT !.at = "posting", !.batch = pending, !.request = q]]
          /\ request' = [request EXCEPT ![q].own = owner, ![q].todo = pending]
          /\ mixed' = mixed \cup Mixing(itemOf, pending)

\* The reply: a list of errors, or a failure as soon as one coroutine has one.
Reply(f) ==
    /\ flush[f].at = "posting"
    /\ LET q == flush[f].request
       IN \/ /\ ~Broken(q) /\ request[q].todo = {}
             /\ flush' = [flush EXCEPT ![f].at = "answered", ![f].failed = request[q].errors]
             /\ request' = [request EXCEPT ![q] = NoRequest]
          \/ /\ Broken(q)
             /\ flush' = [flush EXCEPT ![f].at = "refused"]
             /\ UNCHANGED request
    /\ UNCHANGED <<clientVars, pageVars, sync, requests, claimed, stability, history, faults>>

\* The connection fails before or after AGT-07 has the batch; what it has, it
\* goes on with.
RequestLost(f) ==
    /\ flush[f].at = "posting" /\ Fault
    /\ flush' = [flush EXCEPT ![f].at = "refused"]
    /\ \/ UNCHANGED request
       \/ /\ request[flush[f].request] \in [own : BOOLEAN, todo : {flush[f].batch}, at : {NoRequest.at}, seen : {NoRequest.seen}, errors : {{}}]
          /\ request' = [request EXCEPT ![flush[f].request] = NoRequest]
    /\ UNCHANGED <<clientVars, pageVars, sync, requests, claimed, stability, history>>

\* What the end of a sync event does to its registration: kept for a retry, or
\* gone unless it was made again meanwhile.
SyncEnds(success) == IF success /\ sync = "firing" THEN "none" ELSE "registered"

\* (mutant) The whole batch is deleted.
DeleteBatch(f) ==
    /\ flush[f].at = "answered"
    /\ queue' = queue \ flush[f].batch
    /\ flush' = [flush EXCEPT ![f] = Idle]
    /\ sync' = IF f = Worker THEN SyncEnds(TRUE) ELSE sync
    /\ UNCHANGED <<dueCards, rated, item, owner, pageVars, serverVars, history, faults>>

DeleteHandled(f) ==
    /\ flush[f].at = "answered"
    /\ queue' = queue \ (flush[f].batch \ flush[f].failed)
    /\ flush' = [flush EXCEPT ![f] = Idle]
    /\ sync' = IF f = Worker THEN SyncEnds(TRUE) ELSE sync
    /\ UNCHANGED <<dueCards, rated, item, owner, pageVars, serverVars, history, faults>>

\* (mutant) A failed sync event is taken for done.
ThrowAsDone(f) ==
    /\ flush[f].at = "refused"
    /\ flush' = [flush EXCEPT ![f] = Idle]
    /\ sync' = IF f = Worker THEN SyncEnds(TRUE) ELSE sync
    /\ UNCHANGED <<clientVars, pageVars, serverVars, history, faults>>

\* The page swallows the exception; the worker's sync event fails with it.
Throw(f) ==
    /\ flush[f].at = "refused"
    /\ flush' = [flush EXCEPT ![f] = Idle]
    /\ sync' = IF f = Worker THEN SyncEnds(FALSE) ELSE sync
    /\ UNCHANGED <<clientVars, pageVars, serverVars, history, faults>>

-----------------------------------------------------------------------------
(* What flushes the queue: a rating, the return of the network, the opening  *)
(* of the app, and the sync event.                                           *)

NoFlush == UNCHANGED <<flush, request, requests, mixed>>

\* A call of the page's; with nothing pending it returns at once.
TabFlush(pending, itemOf) ==
    IF pending = {} THEN NoFlush
    ELSE \E f \in TabFlushes : Post(f, pending, itemOf)

SyncFires ==
    /\ online /\ sync = "registered" /\ flush[Worker].at = "idle"
    /\ IF queue = {} THEN sync' = "none" /\ NoFlush
       ELSE sync' = "firing" /\ Post(Worker, queue, item)
    /\ UNCHANGED <<clientVars, pageVars, claimed, stability, interrupted, misled, overwritten, faults>>

\* registerBackgroundSync, behind its await.
RegisterBackgroundSync ==
    /\ registering
    /\ registering' = FALSE
    /\ sync' = IF sync = "none" THEN "registered" ELSE IF sync = "firing" THEN "again" ELSE sync
    /\ UNCHANGED <<clientVars, tab, opens, online, page, package, flush, serverVars, history, faults>>

\* OfflineSyncListener is mounted with the app and the page loads its cards.
OpenTab ==
    /\ ~tab /\ opens < MaxOpens
    /\ tab' = TRUE /\ opens' = opens + 1
    /\ page' = IF dueCards = <<>> THEN Loading ELSE [Loading EXCEPT !.status = "success", !.items = dueCards]
    /\ IF online THEN package' = [NoPackage EXCEPT !.at = "asked"] /\ TabFlush(queue, item)
       ELSE package' = NoPackage /\ NoFlush
    /\ UNCHANGED <<clientVars, online, registering, sync, claimed, stability, interrupted, misled, overwritten, faults>>

CloseTab ==
    /\ tab
    /\ tab' = FALSE /\ registering' = FALSE
    /\ page' = Loading /\ package' = NoPackage
    /\ flush' = [f \in Flushes |-> IF f = Worker THEN flush[f] ELSE Idle]
    /\ UNCHANGED <<clientVars, opens, online, sync, serverVars, history, faults>>

\* Another learner signs in on this browser, or the learner is back.
SwitchAccount ==
    /\ ~tab
    /\ owner' = ~owner
    /\ IF owner THEN Fault ELSE UNCHANGED faults
    /\ UNCHANGED <<queue, dueCards, rated, item, pageVars, sync, flush, serverVars, history>>

GoOffline ==
    /\ online /\ Fault
    /\ online' = FALSE
    /\ UNCHANGED <<clientVars, tab, opens, page, package, registering, sync, flush, serverVars, history>>

\* The online event.
GoOnline ==
    /\ ~online
    /\ online' = TRUE
    /\ IF tab THEN TabFlush(queue, item) ELSE NoFlush
    /\ UNCHANGED <<clientVars, tab, opens, page, package, registering, sync, claimed, stability, interrupted, misled, overwritten, faults>>

-----------------------------------------------------------------------------
(* The due page.                                                            *)

pageFrame == <<queue, rated, item, owner, tab, opens, online, registering, sync, flush, serverVars, history>>

\* Offline with nothing stored, there is nothing to show.
LoadsNothing ==
    /\ tab /\ ~online /\ page.status = "loading" /\ package.at = "none"
    /\ page' = [page EXCEPT !.status = "error"]
    /\ UNCHANGED <<pageFrame, dueCards, package, faults>>

\* AGT-07 answers with what is due now.
PackageAnswered ==
    /\ package.at = "asked"
    /\ \E forgotten \in BOOLEAN, list \in Lists :
         /\ {list[n] : n \in DOMAIN list} = Due(forgotten)
         /\ package' = [at |-> "got", list |-> list]
    /\ UNCHANGED <<pageFrame, dueCards, page, faults>>

\* syncPackageToIndexedDb: the stored cards are replaced and the list on the
\* page with them; the index stays.
PackageStored ==
    /\ package.at = "got"
    /\ dueCards' = package.list
    /\ page' = [page EXCEPT !.status = "success", !.items = package.list]
    /\ package' = NoPackage
    /\ UNCHANGED <<pageFrame, faults>>

\* (mutant) A failed refresh always shows the error, over the cards it had.
PackageFailsLoudly ==
    /\ package.at # "none" /\ Fault
    /\ package' = NoPackage
    /\ page' = [page EXCEPT !.status = "error"]
    /\ UNCHANGED <<pageFrame, dueCards>>

PackageFails ==
    /\ package.at # "none" /\ Fault
    /\ package' = NoPackage
    /\ page' = IF page.status = "success" THEN page ELSE [page EXCEPT !.status = "error"]
    /\ UNCHANGED <<pageFrame, dueCards>>

\* The card shown, if the list is not finished.
Shown == page.status = "success" /\ page.index < Len(page.items)

\* submitRating: queueReview, the next card, and a flush if online.
SubmitRating ==
    /\ tab /\ Shown /\ rated < MaxReviews
    /\ LET r == rated + 1
       IN /\ rated' = r
          /\ item' = Append(item, page.items[page.index + 1])
          /\ queue' = queue \cup {r}
          /\ IF online THEN TabFlush(queue \cup {r}, item') ELSE NoFlush
    /\ page' = [page EXCEPT !.index = @ + 1]
    /\ registering' = HasSync
    /\ UNCHANGED <<dueCards, owner, tab, opens, online, package, sync, claimed, stability, interrupted, misled, overwritten, faults>>

-----------------------------------------------------------------------------
Agent ==
    \E q \in Requests, i \in Items :
        Claim(q, i) \/ ReadStability(q, i) \/ WriteStability(q, i) \/ Release(q, i)
Flushing == \E f \in Flushes : Reply(f) \/ DeleteHandled(f) \/ Throw(f)
User == OpenTab \/ CloseTab \/ SwitchAccount \/ SubmitRating
PageLoads == LoadsNothing \/ PackageAnswered \/ PackageStored
Failures ==
    \/ AgentCrashes \/ GoOffline \/ PackageFails
    \/ \E q \in Requests, i \in Items : StatementFails(q, i)
    \/ \E f \in Flushes : RequestLost(f)

Next == Agent \/ Flushing \/ User \/ PageLoads \/ Failures \/ SyncFires \/ RegisterBackgroundSync \/ GoOnline

Spec == Init /\ [][Next]_vars

\* Requests are served, promises settle, the network comes back, and the
\* browser fires a registered sync event.  Nobody has to open or use the page.
Fairness ==
    /\ WF_vars(Agent) /\ WF_vars(Flushing) /\ WF_vars(PageLoads)
    /\ WF_vars(RegisterBackgroundSync) /\ WF_vars(GoOnline) /\ WF_vars(SyncFires)
FairSpec == Spec /\ Fairness

-----------------------------------------------------------------------------
(* Properties.                                                              *)

Counted(i) == {stability[i][n] : n \in DOMAIN stability[i]}
InHand == {r \in 1 .. rated :
              \E q \in Requests : /\ request[q].own /\ Working(q, item[r]) /\ Current(q, item[r]) = r
                                 /\ request[q].at[item[r]] \in {"read", "write"}}

\* However often a review is posted, by the page and the worker, again after a
\* lost answer, it moves the stability of its item once.
CountedOnce ==
    \A i \in Items : \A m, n \in DOMAIN stability[i] : stability[i][m] = stability[i][n] => m = n

\* A review leaves the queue because it counts or is about to.  The exceptions
\* are a failure behind the claim, which the retry takes for done, a claim that
\* another account's request holds for a moment, and another request on the
\* item, whose write undoes it.
LeavesWhenHandled ==
    \A r \in (1 .. rated) \ queue :
        r \in Counted(item[r]) \cup InHand \cup interrupted \cup misled \cup overwritten

\* The reviews of an item count in the order of the ratings, so long as no two
\* requests have worked on the item at once (flushes are not serialised).
OrderKept ==
    \A i \in Items \ mixed : \A m, n \in DOMAIN stability[i] : m < n => stability[i][m] < stability[i][n]

\* With Background Sync a rating that is queued and registered reaches AGT-07
\* though the page is never opened again, unless another account takes over.
RequestsSpent(r) == requests = MaxRequests /\ \A f \in Flushes : r \notin flush[f].batch
Delivered ==
    \A r \in Reviews :
        r \in queue /\ owner /\ sync = "registered" ~> (r \notin queue \/ ~owner \/ RequestsSpent(r))
=============================================================================
