----------------------------- MODULE Notifications -----------------------------
(***************************************************************************)
(* Accounts and what follows them: Clerk's webhooks, the rows of           *)
(* user-service, its events, the consumers of notification-service and of  *)
(* learning-materials-service, the hourly reminders, and the push          *)
(* subscriptions of browsers.                                              *)
(*                                                                         *)
(* An address (email, name) is the number of the change of the profile it  *)
(* comes from; 0 means no row.  A notice is what a learner should get once *)
(* in the inbox: one per event, one per type of reminder and local day.    *)
(***************************************************************************)
EXTENDS Integers, Sequences, FiniteSetsExt

CONSTANTS
    Users,
    Browsers,
    None,        \* no user, no reminder time
    Types,       \* the jobs: daily-reminder, vocab-of-the-day
    Optional,    \* the jobs that may have nothing to say
    Clock,       \* Clock[z]: the [day, hour] of zone z at each hourly tick
    UnknownZone, \* a time zone Intl.DateTimeFormat does not know
    ReminderTimes,
    Starts,      \* the accounts there may be at the start
    BatchSize,   \* REMINDER_CONCURRENCY
    MaxAddress,  \* bound: addresses of a user
    MaxStimuli   \* bound: what Clerk, learners, the clock and failures do

ASSUME NotificationsAssumption ==
    /\ None \notin Users /\ "ready" \notin Types
    /\ DOMAIN Clock # {} /\ UnknownZone \notin DOMAIN Clock
    /\ Optional \subseteq Types /\ Starts \subseteq [Users -> {"none", "account", "reminder"}]
    /\ BatchSize \in Nat \ {0} /\ MaxAddress \in Nat \ {0} /\ MaxStimuli \in Nat

VARIABLES
    clerk,       \* clerk[u]: the account at Clerk and its address
    hooks,       \* webhooks in the order Clerk made them
    bus,         \* the Kafka producer of user-service
    row,         \* row[u]: the address in user-service, 0 without a row
    settings,    \* settings[u]: reminder time and zone of the row
    queue,       \* queue[t]: what a consumer has still to commit on topic t
    events,      \* events published so far: their ids
    consumer,    \* the message notification-service is at
    processed,   \* ProcessedEvent
    subscriber,  \* subscriber[u]: the address Novu has, 0 without a subscriber
    paths,       \* users with rows in LearningPath
    runs,        \* ScheduledReminderRun
    hour,        \* hourly ticks so far
    jobs,        \* jobs[ty]: the work of the last tick
    subs,        \* subs[b]: whose PushSubscription the endpoint of b is
    browser,     \* browser[b]: account, permission, prompt, live endpoint
    sent,        \* notices in the inbox (history)
    twice,       \* those sent again (history)
    spoilt,      \* those whose handler failed behind the inbox (history)
    crossed,     \* users for whom something older came after something newer (history)
    stimuli

accountVars == <<clerk, hooks, bus, row, settings>>
kafkaVars == <<queue, events, consumer, processed>>
jobVars == <<runs, hour, jobs>>
pushVars == <<subs, browser>>
noticeVars == <<sent, twice, spoilt>>
vars == <<accountVars, kafkaVars, subscriber, paths, jobVars, pushVars, noticeVars, crossed, stimuli>>

Topics == {"user.upserted", "user.deleted", "ready", "user.deleted of learning-materials"}
Zones == DOMAIN Clock
Days == {Clock[z][k].day : z \in Zones, k \in 1 .. hour}
Settings == [reminder : ReminderTimes \cup {None}, zone : Zones \cup {UnknownZone}]
DefaultSettings == [reminder |-> None, zone |-> CHOOSE z \in Zones : TRUE]

Hooks == [kind : {"upsert", "delete"}, user : Users, address : 0 .. MaxAddress, at : {"sent", "wrote", "done"}]
Events == [id : 1 .. events, user : Users, address : 0 .. MaxAddress]
Consumers == [at : {"idle", "handle", "rows", "novu", "push", "record", "commit"}, topic : Topics]
Steps == {"none", "lookup", "notify", "push", "record", "done", "dead"}
Jobs == [at : {"idle", "listing", "sending", "over"}, due : SUBSET Users, todo : SUBSET Users,
         zone : [Users -> Zones], absent : SUBSET Users, step : [Users -> Steps]]
Notices == ({"ready"} \X (1 .. events)) \cup (Types \X Users \X Days)
BrowserStates == [account : Users \cup {None}, permission : {"default", "granted", "denied"},
                  prompt : {"hidden", "visible", "asking", "posting"}, recent : BOOLEAN, alive : BOOLEAN]

TypeOK ==
    /\ clerk \in [Users -> [state : {"none", "active", "deleted"}, address : 0 .. MaxAddress]]
    /\ \A d \in DOMAIN hooks : hooks[d] \in Hooks
    /\ bus \in {"new", "connected", "failed"}
    /\ row \in [Users -> 0 .. MaxAddress] /\ settings \in [Users -> Settings]
    /\ \A t \in Topics : \A n \in DOMAIN queue[t] : queue[t][n] \in Events
    /\ consumer \in Consumers /\ (consumer.at # "idle" => queue[consumer.topic] # <<>>)
    /\ processed \subseteq 1 .. events
    /\ subscriber \in [Users -> 0 .. MaxAddress] /\ paths \subseteq Users
    /\ runs \subseteq Users \X Types \X Days
    /\ jobs \in [Types -> Jobs]
    /\ subs \in [Browsers -> Users \cup {None}] /\ browser \in [Browsers -> BrowserStates]
    /\ twice \cup spoilt \subseteq sent /\ sent \subseteq Notices
    /\ crossed \subseteq Users /\ stimuli \in 0 .. MaxStimuli

IdleJob == [at |-> "idle", due |-> {}, todo |-> {}, zone |-> [u \in Users |-> DefaultSettings.zone],
            absent |-> {}, step |-> [u \in Users |-> "none"]]
Idle == [at |-> "idle", topic |-> "ready"]

\* Some users have their account, and with it a row and a subscriber; some of
\* those have set a reminder and generated a path.
Init ==
    /\ \E start \in Starts :
          /\ clerk = [u \in Users |-> IF start[u] = "none" THEN [state |-> "none", address |-> 0] ELSE [state |-> "active", address |-> 1]]
          /\ paths = {u \in Users : start[u] = "reminder"}
          /\ settings \in [Users -> {s \in Settings : s.zone # UnknownZone}]
          /\ \A u \in Users : settings[u].reminder = None <=> u \notin paths
    /\ row = [u \in Users |-> clerk[u].address]
    /\ subscriber = row
    /\ hooks = <<>> /\ bus = "new"
    /\ queue = [t \in Topics |-> <<>>] /\ events = 0 /\ consumer = Idle /\ processed = {}
    /\ runs = {} /\ hour = 0 /\ jobs = [ty \in Types |-> IdleJob]
    /\ subs = [b \in Browsers |-> None]
    /\ browser = [b \in Browsers |-> [account |-> None, permission |-> "default", prompt |-> "hidden",
                                      recent |-> FALSE, alive |-> FALSE]]
    /\ sent = {} /\ twice = {} /\ spoilt = {} /\ crossed = {} /\ stimuli = 0

Stimulus == /\ stimuli < MaxStimuli
            /\ stimuli' = stimuli + 1

-----------------------------------------------------------------------------
(* Clerk and user-service.                                                  *)

clerkFrame == <<bus, row, settings, kafkaVars, subscriber, paths, jobVars, pushVars, noticeVars, crossed>>
Hook(kind, u, address) == Append(hooks, [kind |-> kind, user |-> u, address |-> address, at |-> "sent"])

Register(u) ==
    /\ clerk[u].state = "none" /\ Stimulus
    /\ clerk' = [clerk EXCEPT ![u] = [state |-> "active", address |-> 1]]
    /\ hooks' = Hook("upsert", u, 1)
    /\ UNCHANGED clerkFrame

ChangeProfile(u) ==
    /\ clerk[u].state = "active" /\ clerk[u].address < MaxAddress /\ Stimulus
    /\ clerk' = [clerk EXCEPT ![u].address = @ + 1]
    /\ hooks' = Hook("upsert", u, clerk[u].address + 1)
    /\ UNCHANGED clerkFrame

DeleteAccount(u) ==
    /\ clerk[u].state = "active" /\ Stimulus
    /\ clerk' = [clerk EXCEPT ![u].state = "deleted"]
    /\ hooks' = Hook("delete", u, 0)
    /\ UNCHANGED clerkFrame

\* Whether what webhook d says is older than what others of the user have done.
Outdated(d, done) ==
    \E e \in DOMAIN hooks : e > d /\ hooks[e].user = hooks[d].user /\ hooks[e].at \in done

\* The webhook is handled as it comes, in any order: the row is written.
WriteUser(d) ==
    /\ hooks[d].at = "sent"
    /\ LET u == hooks[d].user
       IN /\ row' = [row EXCEPT ![u] = hooks[d].address]
          /\ settings' = IF row[u] = 0 \/ hooks[d].kind = "delete" THEN [settings EXCEPT ![u] = DefaultSettings] ELSE settings
          /\ crossed' = IF Outdated(d, {"wrote", "done"}) THEN crossed \cup {u} ELSE crossed
    /\ hooks' = [hooks EXCEPT ![d].at = "wrote"]
    /\ UNCHANGED <<clerk, bus, kafkaVars, subscriber, paths, jobVars, pushVars, noticeVars, stimuli>>

\* Then the event is published and the webhook answered.
PublishUser(d) ==
    /\ hooks[d].at = "wrote" /\ bus # "failed"
    /\ LET u == hooks[d].user
           event == [id |-> events + 1, user |-> u, address |-> hooks[d].address]
       IN /\ queue' = IF hooks[d].kind = "upsert" THEN [queue EXCEPT !["user.upserted"] = Append(@, event)]
                      ELSE [queue EXCEPT !["user.deleted"] = Append(@, event),
                                         !["user.deleted of learning-materials"] = Append(@, event)]
          /\ crossed' = IF Outdated(d, {"done"}) THEN crossed \cup {u} ELSE crossed
    /\ events' = events + 1
    /\ bus' = "connected"
    /\ hooks' = [hooks EXCEPT ![d].at = "done"]
    /\ UNCHANGED <<clerk, row, settings, consumer, processed, subscriber, paths, jobVars, pushVars, noticeVars, stimuli>>

\* (mutant) The webhook is answered though the event was not published.
PublishFailsQuietly(d) ==
    /\ hooks[d].at = "wrote"
    /\ IF bus = "failed" THEN UNCHANGED <<bus, stimuli>>
       ELSE Stimulus /\ bus' = IF bus = "new" THEN "failed" ELSE bus
    /\ hooks' = [hooks EXCEPT ![d].at = "done"]
    /\ UNCHANGED <<clerk, row, settings, kafkaVars, subscriber, paths, jobVars, pushVars, noticeVars, crossed>>

\* A failed publication is answered with an error, and Clerk tries again.  The
\* promise of a first connection that failed is kept: no later one succeeds.
PublishFails(d) ==
    /\ hooks[d].at = "wrote"
    /\ IF bus = "failed" THEN UNCHANGED <<bus, stimuli>>
       ELSE Stimulus /\ bus' = IF bus = "new" THEN "failed" ELSE bus
    /\ hooks' = [hooks EXCEPT ![d].at = "sent"]
    /\ UNCHANGED <<clerk, row, settings, kafkaVars, subscriber, paths, jobVars, pushVars, noticeVars, crossed>>

\* The answer does not reach Clerk.
AnswerLost(d) ==
    /\ hooks[d].at = "done" /\ Stimulus
    /\ hooks' = [hooks EXCEPT ![d].at = "sent"]
    /\ UNCHANGED <<clerk, bus, row, settings, kafkaVars, subscriber, paths, jobVars, pushVars, noticeVars, crossed>>

\* user-service is restarted: webhooks at work go unanswered.
RestartUserService ==
    /\ bus = "failed"
    /\ bus' = "new"
    /\ hooks' = [d \in DOMAIN hooks |-> IF hooks[d].at = "wrote" THEN [hooks[d] EXCEPT !.at = "sent"] ELSE hooks[d]]
    /\ UNCHANGED <<clerk, row, settings, kafkaVars, subscriber, paths, jobVars, pushVars, noticeVars, crossed, stimuli>>

\* Any non-empty string will do for a time zone.
Valid(s) == s.reminder \in ReminderTimes \cup {None} /\ s.zone \in Zones \cup {UnknownZone}

\* PATCH /users/me/settings.
UpdateSettings(u, s) ==
    /\ row[u] # 0 /\ Valid(s) /\ s # settings[u] /\ Stimulus
    /\ settings' = [settings EXCEPT ![u] = s]
    /\ UNCHANGED <<clerk, hooks, bus, row, kafkaVars, subscriber, paths, jobVars, pushVars, noticeVars, crossed>>

-----------------------------------------------------------------------------
(* The consumers.                                                           *)

consumerFrame == <<accountVars, events, paths, hour, jobs, browser, stimuli>>

\* A path is ready or an achievement unlocked.
EmitReady(u) ==
    /\ Stimulus
    /\ queue' = [queue EXCEPT !["ready"] = Append(@, [id |-> events + 1, user |-> u, address |-> 0])]
    /\ events' = events + 1
    /\ UNCHANGED <<accountVars, consumer, processed, subscriber, paths, jobVars, pushVars, noticeVars, crossed>>

Message == queue[consumer.topic][1]
At(step) == consumer.at = step /\ consumer.topic # "user.deleted of learning-materials"
GoTo(step) == consumer' = [consumer EXCEPT !.at = step]

\* (mutant) The event is recorded before its handler has run.
TakeRecorded(t) ==
    /\ consumer.at = "idle" /\ t # "user.deleted of learning-materials" /\ queue[t] # <<>>
    /\ consumer' = [topic |-> t, at |-> IF queue[t][1].id \in processed THEN "commit" ELSE "handle"]
    /\ processed' = processed \cup {queue[t][1].id}
    /\ UNCHANGED <<consumerFrame, queue, subscriber, runs, subs, noticeVars, crossed>>

\* withDedup looks the event up.
Take(t) ==
    /\ consumer.at = "idle" /\ t # "user.deleted of learning-materials" /\ queue[t] # <<>>
    /\ consumer' = [topic |-> t, at |-> IF queue[t][1].id \in processed THEN "commit" ELSE "handle"]
    /\ UNCHANGED <<consumerFrame, queue, processed, subscriber, runs, subs, noticeVars, crossed>>

\* The user's deletion has been handled already.
Buried(u) == clerk[u].state = "deleted" /\ subscriber[u] = 0

HandleUserUpserted ==
    /\ At("handle") /\ consumer.topic = "user.upserted"
    /\ subscriber' = [subscriber EXCEPT ![Message.user] = Message.address]
    /\ crossed' = IF Buried(Message.user) THEN crossed \cup {Message.user} ELSE crossed
    /\ GoTo("record")
    /\ UNCHANGED <<consumerFrame, queue, processed, runs, subs, noticeVars>>

DeleteRuns ==
    /\ At("handle") /\ consumer.topic = "user.deleted"
    /\ runs' = {r \in runs : r[1] # Message.user}
    /\ GoTo("rows")
    /\ UNCHANGED <<consumerFrame, queue, processed, subscriber, subs, noticeVars, crossed>>

DeleteSubscriptions ==
    /\ At("rows")
    /\ subs' = [b \in Browsers |-> IF subs[b] = Message.user THEN None ELSE subs[b]]
    /\ GoTo("novu")
    /\ UNCHANGED <<consumerFrame, queue, processed, subscriber, runs, noticeVars, crossed>>

DeleteSubscriber ==
    /\ At("novu")
    /\ subscriber' = [subscriber EXCEPT ![Message.user] = 0]
    /\ GoTo("record")
    /\ UNCHANGED <<consumerFrame, queue, processed, runs, subs, noticeVars, crossed>>

\* triggerNotification.
Send(notice) == sent' = sent \cup {notice} /\ twice' = twice \cup (sent \cap {notice})

\* sendToUser: endpoints that are gone lose their row, other failures are noted.
SendToUser(u) == subs' = [b \in Browsers |-> IF subs[b] = u /\ ~browser[b].alive THEN None ELSE subs[b]]

HandleReady ==
    /\ At("handle") /\ consumer.topic = "ready"
    /\ Send(<<"ready", Message.id>>)
    /\ GoTo("push")
    /\ UNCHANGED <<consumerFrame, queue, processed, subscriber, runs, subs, spoilt, crossed>>

PushReady ==
    /\ At("push")
    /\ SendToUser(Message.user)
    /\ GoTo("record")
    /\ UNCHANGED <<consumerFrame, queue, processed, subscriber, runs, noticeVars, crossed>>

\* (mutant) The handler commits the offset, and the consumer does so again.
RecordAndCommit ==
    /\ At("record")
    /\ processed' = processed \cup {Message.id}
    /\ queue' = [queue EXCEPT ![consumer.topic] = Tail(@)]
    /\ GoTo("commit")
    /\ UNCHANGED <<consumerFrame, subscriber, runs, subs, noticeVars, crossed>>

RecordEvent ==
    /\ At("record")
    /\ processed' = processed \cup {Message.id}
    /\ GoTo("commit")
    /\ UNCHANGED <<consumerFrame, queue, subscriber, runs, subs, noticeVars, crossed>>

Commit ==
    /\ At("commit")
    /\ queue' = [queue EXCEPT ![consumer.topic] = Tail(@)]
    /\ consumer' = Idle
    /\ UNCHANGED <<consumerFrame, processed, subscriber, runs, subs, noticeVars, crossed>>

\* The handler throws, or notification-service is restarted under it: the
\* offset is not committed and the message comes again.
SpoiltEvent == IF At("push") \/ (At("record") /\ consumer.topic = "ready") THEN {<<"ready", Message.id>>} ELSE {}
HandlerFails ==
    /\ consumer.at # "idle" /\ Stimulus
    /\ consumer' = Idle
    /\ spoilt' = spoilt \cup SpoiltEvent
    /\ UNCHANGED <<accountVars, events, paths, hour, jobs, browser, queue, processed, subscriber, runs, subs, sent, twice, crossed>>

\* The consumer of learning-materials-service, without a log of its own.
DeletePaths ==
    LET t == "user.deleted of learning-materials"
    IN /\ queue[t] # <<>>
       /\ paths' = paths \ {queue[t][1].user}
       /\ queue' = [queue EXCEPT ![t] = Tail(@)]
       /\ UNCHANGED <<accountVars, events, consumer, processed, subscriber, jobVars, pushVars, noticeVars, crossed, stimuli>>

-----------------------------------------------------------------------------
(* The hourly jobs.                                                         *)

jobFrame == <<accountVars, kafkaVars, subscriber, paths, browser, crossed>>

Now(u) == Clock[settings[u].zone][hour]
Working(ty) == {u \in Users : jobs[ty].step[u] \in {"lookup", "notify", "push", "record"}}
Settled(ty) == jobs[ty].at \in {"idle", "over"} /\ Working(ty) = {}

Tick ==
    /\ \A z \in Zones : hour < Len(Clock[z])
    /\ \A ty \in Types : Settled(ty)
    /\ Stimulus
    /\ hour' = hour + 1
    /\ jobs' = [ty \in Types |-> [IdleJob EXCEPT !.at = "listing"]]
    /\ UNCHANGED <<jobFrame, runs, subs, noticeVars>>

\* Those with a row and a reminder time; one with a zone nobody knows makes the
\* filter throw.  What the list says of a user's zone holds for the whole job.
Remindable == {u \in Users : row[u] # 0 /\ settings[u].reminder # None}
ListUsers(ty) ==
    /\ jobs[ty].at = "listing"
    /\ IF \E u \in Remindable : settings[u].zone = UnknownZone
       THEN jobs' = [jobs EXCEPT ![ty].at = "idle"]
       ELSE LET due == {u \in Remindable : Now(u).hour = settings[u].reminder}
            IN jobs' = [jobs EXCEPT ![ty].at = "sending", ![ty].due = due, ![ty].todo = due,
                                    ![ty].zone = [u \in Users |-> IF u \in due THEN settings[u].zone ELSE @[u]]]
    /\ UNCHANGED <<jobFrame, runs, hour, subs, noticeVars, stimuli>>

ListFails(ty) ==
    /\ jobs[ty].at = "listing" /\ Stimulus
    /\ jobs' = [jobs EXCEPT ![ty].at = "idle"]
    /\ UNCHANGED <<jobFrame, runs, hour, subs, noticeVars>>

Dead(ty) == {u \in Users : jobs[ty].step[u] = "dead"}

\* The users are taken in batches, the next when all of one are done.
StartBatch(ty) ==
    /\ jobs[ty].at = "sending" /\ Working(ty) = {} /\ Dead(ty) = {} /\ jobs[ty].todo # {}
    /\ \E batch \in kSubset(Min({BatchSize, Cardinality(jobs[ty].todo)}), jobs[ty].todo) :
          jobs' = [jobs EXCEPT ![ty].todo = @ \ batch,
                               ![ty].step = [u \in Users |-> IF u \in batch THEN "lookup" ELSE @[u]]]
    /\ UNCHANGED <<jobFrame, runs, hour, subs, noticeVars, stimuli>>

\* (mutant) The last of the users is not looked at.
JobIsOverEarly(ty) ==
    /\ jobs[ty].at = "sending"
    /\ (Working(ty) = {} /\ Cardinality(jobs[ty].todo) <= 1) \/ Dead(ty) # {}
    /\ jobs' = [jobs EXCEPT ![ty].at = "over"]
    /\ UNCHANGED <<jobFrame, runs, hour, subs, noticeVars, stimuli>>

\* The job is over with the last batch, or with the first user to fail: the
\* others of the batch go on, the batches behind it never start.
JobIsOver(ty) ==
    /\ jobs[ty].at = "sending"
    /\ (Working(ty) = {} /\ jobs[ty].todo = {}) \/ Dead(ty) # {}
    /\ jobs' = [jobs EXCEPT ![ty].at = "over"]
    /\ UNCHANGED <<jobFrame, runs, hour, subs, noticeVars, stimuli>>

\* The local day of a user, by the zone in the list.
Day(ty, u) == Clock[jobs[ty].zone[u]][hour].day
Notice(ty, u) == <<ty, u, Day(ty, u)>>
Step(ty, u, step) == jobs' = [jobs EXCEPT ![ty].step[u] = step]

\* (mutant) Nobody looks whether the reminder went out already.
LookupNothing(ty, u) ==
    /\ jobs[ty].step[u] = "lookup"
    /\ Step(ty, u, "notify")
    /\ UNCHANGED <<jobFrame, runs, hour, subs, noticeVars, stimuli>>

Lookup(ty, u) ==
    /\ jobs[ty].step[u] = "lookup"
    /\ Step(ty, u, IF <<u, ty, Day(ty, u)>> \in runs THEN "done" ELSE "notify")
    /\ UNCHANGED <<jobFrame, runs, hour, subs, noticeVars, stimuli>>

\* The context is fetched and the workflow triggered.
Notify(ty, u) ==
    /\ jobs[ty].step[u] = "notify"
    /\ Send(Notice(ty, u))
    /\ Step(ty, u, "push")
    /\ UNCHANGED <<jobFrame, runs, hour, subs, spoilt, stimuli>>

\* There is no word of the day: the handler returns false, nothing is recorded.
NothingToSay(ty, u) ==
    /\ ty \in Optional /\ jobs[ty].step[u] = "notify"
    /\ jobs' = [jobs EXCEPT ![ty].step[u] = "done", ![ty].absent = @ \cup {u}]
    /\ UNCHANGED <<jobFrame, runs, hour, subs, noticeVars, stimuli>>

PushReminder(ty, u) ==
    /\ jobs[ty].step[u] = "push"
    /\ SendToUser(u)
    /\ Step(ty, u, "record")
    /\ UNCHANGED <<jobFrame, runs, hour, noticeVars, stimuli>>

\* A run recorded for an account already deleted stays.
RecordRun(ty, u) ==
    /\ jobs[ty].step[u] = "record"
    /\ runs' = runs \cup {<<u, ty, Day(ty, u)>>}
    /\ crossed' = IF clerk[u].state = "deleted" THEN crossed \cup {u} ELSE crossed
    /\ Step(ty, u, "done")
    /\ UNCHANGED <<accountVars, kafkaVars, subscriber, paths, browser, hour, subs, noticeVars, stimuli>>

Unrecorded(ty) == {Notice(ty, u) : u \in {u \in Users : jobs[ty].step[u] \in {"push", "record"}}}

ReminderFails(ty, u) ==
    /\ jobs[ty].step[u] \in {"lookup", "notify", "push", "record"} /\ Stimulus
    /\ Step(ty, u, "dead")
    /\ spoilt' = IF jobs[ty].step[u] \in {"push", "record"} THEN spoilt \cup {Notice(ty, u)} ELSE spoilt
    /\ UNCHANGED <<jobFrame, runs, hour, subs, sent, twice>>

\* notification-service is restarted under its jobs.
Restart ==
    /\ \E ty \in Types : ~Settled(ty)
    /\ Stimulus
    /\ spoilt' = spoilt \cup SpoiltEvent \cup UNION {Unrecorded(ty) : ty \in Types}
    /\ consumer' = Idle
    /\ jobs' = [ty \in Types |-> IdleJob]
    /\ UNCHANGED <<accountVars, queue, events, processed, subscriber, paths, runs, hour, pushVars, sent, twice, crossed>>

-----------------------------------------------------------------------------
(* The push prompt of a browser.                                            *)

pushFrame == <<accountVars, kafkaVars, subscriber, paths, jobVars, noticeVars>>

\* The app is opened by a learner: the prompt shows until it has been answered.
OpenApp(b, u) ==
    /\ clerk[u].state = "active" /\ browser[b].prompt \in {"hidden", "visible"} /\ Stimulus
    /\ browser' = [browser EXCEPT ![b].account = u,
                                  ![b].prompt = IF browser[b].permission = "default" /\ ~browser[b].recent THEN "visible" ELSE "hidden"]
    /\ UNCHANGED <<pushFrame, subs, crossed>>

Dismiss(b) ==
    /\ browser[b].prompt = "visible"
    /\ browser' = [browser EXCEPT ![b].prompt = "hidden", ![b].recent = TRUE]
    /\ UNCHANGED <<pushFrame, subs, crossed, stimuli>>

\* The prompt is accepted and the browser asks in turn.
Accept(b) ==
    /\ browser[b].prompt = "visible"
    /\ browser' = [browser EXCEPT ![b].prompt = "asking"]
    /\ UNCHANGED <<pushFrame, subs, crossed, stimuli>>

\* A browser that was granted before grants again without asking.
PermissionAnswered(b) ==
    /\ browser[b].prompt = "asking"
    /\ \/ browser' = [browser EXCEPT ![b].permission = "granted", ![b].alive = TRUE, ![b].prompt = "posting"]
       \/ /\ browser[b].permission = "default"
          /\ \E answer \in {"default", "denied"} :
                browser' = [browser EXCEPT ![b].permission = answer, ![b].recent = TRUE, ![b].prompt = "hidden"]
    /\ UNCHANGED <<pushFrame, subs, crossed, stimuli>>

\* POST /push-subscriptions: the endpoint is the learner's now, whoever had it.
Subscribed(b, u) == [subs EXCEPT ![b] = u]

SaveSubscription(b) ==
    /\ browser[b].prompt = "posting"
    /\ subs' = Subscribed(b, browser[b].account)
    /\ browser' = [browser EXCEPT ![b].prompt = "hidden"]
    /\ crossed' = IF clerk[browser[b].account].state = "deleted" THEN crossed \cup {browser[b].account} ELSE crossed
    /\ UNCHANGED <<pushFrame, stimuli>>

\* No worker, no subscription, or no answer: the prompt stays.
SubscribeFails(b) ==
    /\ browser[b].prompt \in {"asking", "posting"} /\ Stimulus
    /\ browser' = [browser EXCEPT ![b].prompt = "visible"]
    /\ UNCHANGED <<pushFrame, subs, crossed>>

\* DELETE /push-subscriptions, for one's own endpoint only.
Unsubscribed(b, u) == [subs EXCEPT ![b] = IF @ = u THEN None ELSE @]

RemoveSubscription(b, u) ==
    /\ subs[b] # None /\ Stimulus
    /\ subs' = Unsubscribed(b, u)
    /\ UNCHANGED <<pushFrame, browser, crossed>>

\* The endpoint is gone, with the browser's data.
ClearBrowser(b) ==
    /\ browser[b].alive /\ browser[b].prompt \in {"hidden", "visible"} /\ Stimulus
    /\ browser' = [browser EXCEPT ![b].alive = FALSE, ![b].permission = "default", ![b].recent = FALSE]
    /\ UNCHANGED <<pushFrame, subs, crossed>>

\* Fourteen days after a refusal.
MayAskAgain(b) ==
    /\ browser[b].recent /\ Stimulus
    /\ browser' = [browser EXCEPT ![b].recent = FALSE]
    /\ UNCHANGED <<pushFrame, subs, crossed>>

-----------------------------------------------------------------------------
Clerk == \E u \in Users : Register(u) \/ ChangeProfile(u) \/ DeleteAccount(u)
UserService == \E d \in DOMAIN hooks : WriteUser(d) \/ PublishUser(d)
Consuming ==
    \/ \E t \in Topics : Take(t)
    \/ HandleUserUpserted \/ DeleteRuns \/ DeleteSubscriptions \/ DeleteSubscriber
    \/ HandleReady \/ PushReady \/ RecordEvent \/ Commit
JobRuns(ty) ==
    \/ ListUsers(ty) \/ StartBatch(ty) \/ JobIsOver(ty)
    \/ \E u \in Users : Lookup(ty, u) \/ Notify(ty, u) \/ NothingToSay(ty, u) \/ PushReminder(ty, u) \/ RecordRun(ty, u)
Learner ==
    \/ \E u \in Users : (\E s \in Settings : UpdateSettings(u, s)) \/ EmitReady(u)
    \/ \E b \in Browsers : Dismiss(b) \/ Accept(b) \/ ClearBrowser(b) \/ MayAskAgain(b)
    \/ \E b \in Browsers, u \in Users : OpenApp(b, u) \/ RemoveSubscription(b, u)
Prompt == \E b \in Browsers : PermissionAnswered(b) \/ SaveSubscription(b)
Failures ==
    \/ \E d \in DOMAIN hooks : PublishFails(d) \/ AnswerLost(d)
    \/ HandlerFails \/ Restart
    \/ \E ty \in Types : ListFails(ty) \/ \E u \in Users : ReminderFails(ty, u)
    \/ \E b \in Browsers : SubscribeFails(b)

Next ==
    \/ Clerk \/ UserService \/ RestartUserService \/ Consuming \/ DeletePaths
    \/ Tick \/ (\E ty \in Types : JobRuns(ty)) \/ Learner \/ Prompt \/ Failures

Spec == Init /\ [][Next]_vars

\* Clerk repeats a webhook until it is answered, a message is delivered until it
\* is committed, somebody restarts a user-service that publishes nothing, and
\* requests come to an end.
Fairness ==
    /\ WF_vars(UserService) /\ WF_vars(RestartUserService)
    /\ WF_vars(Consuming) /\ WF_vars(DeletePaths)
    /\ \A ty \in Types : WF_vars(JobRuns(ty))
FairSpec == Spec /\ Fairness

-----------------------------------------------------------------------------
(* Properties.                                                              *)

Quiet ==
    /\ \A d \in DOMAIN hooks : hooks[d].at = "done"
    /\ \A t \in Topics : queue[t] = <<>>
    /\ consumer.at = "idle"

\* When the webhooks and events have been worked off, user-service and Novu have
\* the address Clerk has, and nothing is left of a deleted account.  Exempt is a
\* user for whom an older webhook, event or request came after a newer one:
\* nothing in the code orders them.
InStep ==
    Quiet =>
        \A u \in Users \ crossed :
            /\ row[u] = IF clerk[u].state = "active" THEN clerk[u].address ELSE 0
            /\ subscriber[u] = row[u]
            /\ clerk[u].state = "deleted" =>
                  /\ u \notin paths /\ \A r \in runs : r[1] # u
                  /\ \A b \in Browsers : subs[b] # u

\* A notice reaches the inbox once, though events come again and the clock may
\* show an hour twice.  Exempt is one whose handler failed after it was sent, and
\* a reminder of an account that is deleted, whose runs are forgotten.
NoticesOnce == \A n \in twice \ spoilt : n[1] \in Types /\ clerk[n[2]].state = "deleted"

\* A job that came to its end without a failure has reminded everyone due, on
\* the day it is for them, unless there was nothing to say.
EveryoneReminded ==
    \A ty \in Types :
        jobs[ty].at = "over" /\ Dead(ty) = {} =>
            \A u \in jobs[ty].due \ jobs[ty].absent : Notice(ty, u) \in sent

\* A deletion at Clerk gets through to user-service and to Novu, whatever fails
\* on the way.
DeletionCompletes ==
    \A u \in Users : clerk[u].state = "deleted" ~> ((row[u] = 0 /\ subscriber[u] = 0) \/ u \in crossed)
=============================================================================
