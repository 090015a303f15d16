------------------------ MODULE Notifications_proofs ------------------------
(***************************************************************************)
(* Proofs about accounts, notices and reminders, for any number of users,  *)
(* browsers, webhooks, events, jobs and failures, and for every clock.     *)
(***************************************************************************)
EXTENDS Notifications, SequenceTheorems, TLAPS

-----------------------------------------------------------------------------
(* Types, with what the consumer and the jobs hold.                         *)

Upserts == "user.upserted"
Deletes == "user.deleted"
Paths == "user.deleted of learning-materials"
Consumed == Topics \ {Paths}

AccountTypes ==
    /\ clerk \in [Users -> [state : {"none", "active", "deleted"}, address : 0 .. MaxAddress]]
    /\ hooks \in Seq(Hooks) /\ bus \in {"new", "connected", "failed"}
    /\ row \in [Users -> 0 .. MaxAddress] /\ settings \in [Users -> Settings]
    /\ subscriber \in [Users -> 0 .. MaxAddress] /\ paths \subseteq Users
    /\ crossed \subseteq Users /\ stimuli \in 0 .. MaxStimuli

\* The message at work is on its topic, and its handler at a point of that topic.
KafkaTypes ==
    /\ events \in Nat /\ queue \in [Topics -> Seq(Events)]
    /\ consumer \in Consumers /\ consumer.topic # Paths
    /\ consumer.at # "idle" => queue[consumer.topic] # <<>>
    /\ consumer.at \in {"rows", "novu"} => consumer.topic = Deletes
    /\ consumer.at = "push" => consumer.topic = "ready"
    /\ processed \subseteq 1 .. events

\* A job has nobody at work before it has its list, nor before the first tick.
JobTypes ==
    /\ hour \in Nat /\ runs \subseteq Users \X Types \X Days /\ jobs \in [Types -> Jobs]
    /\ \A ty \in Types : \A u \in Users :
          hour = 0 \/ jobs[ty].at = "listing" => jobs[ty].step[u] = "none"
    /\ \A ty \in Types : hour = 0 => jobs[ty].at = "idle"

\* The prompt is somebody's.
PushTypes ==
    /\ subs \in [Browsers -> Users \cup {None}] /\ browser \in [Browsers -> BrowserStates]
    /\ \A b \in Browsers : browser[b].prompt # "hidden" => browser[b].account \in Users

\* Who is behind the inbox has sent a notice.
Behind(ty, u) == jobs[ty].step[u] \in {"push", "record"}
ReadyBehind == consumer.at = "push" \/ (consumer.at = "record" /\ consumer.topic = "ready")
NoticeTypes ==
    /\ sent \subseteq Notices /\ twice \cup spoilt \subseteq sent
    /\ ReadyBehind => <<"ready", Message.id>> \in sent
    /\ \A ty \in Types, u \in Users : Behind(ty, u) => Notice(ty, u) \in sent

TypeInv == AccountTypes /\ KafkaTypes /\ JobTypes /\ PushTypes /\ NoticeTypes

LEMMA DefaultZone == NotificationsAssumption => DefaultSettings \in Settings /\ DefaultSettings.zone \in Zones
BY DEF NotificationsAssumption, DefaultSettings, Settings, Zones

\* What is not touched keeps its types.
LEMMA SameKafka == ASSUME KafkaTypes, UNCHANGED kafkaVars PROVE KafkaTypes'
BY DEF KafkaTypes, kafkaVars, Consumers, Events, Topics

LEMMA SameJobs == ASSUME JobTypes, UNCHANGED jobVars PROVE JobTypes'
BY DEF JobTypes, jobVars, Days, Jobs, Zones

LEMMA SamePush == ASSUME PushTypes, UNCHANGED pushVars PROVE PushTypes'
BY DEF PushTypes, pushVars

LEMMA SameNotices ==
    ASSUME NoticeTypes, UNCHANGED noticeVars, UNCHANGED kafkaVars, UNCHANGED jobVars
    PROVE  NoticeTypes'
BY DEF NoticeTypes, noticeVars, kafkaVars, jobVars, Notices, Days, ReadyBehind, Message, Behind, Notice, Day

LEMMA OneHook ==
    ASSUME AccountTypes, NEW hook \in Hooks, hooks' = Append(hooks, hook)
    PROVE  hooks' \in Seq(Hooks)
BY DEF AccountTypes

LEMMA HookMoves ==
    ASSUME AccountTypes, NEW d \in DOMAIN hooks, NEW at \in {"sent", "wrote", "done"}, hooks' = [hooks EXCEPT ![d].at = at]
    PROVE  /\ hooks[d] \in Hooks /\ hooks' \in Seq(Hooks)
           /\ DOMAIN hooks' = DOMAIN hooks /\ hooks'[d].at = at
           /\ \A e \in DOMAIN hooks : hooks'[e].user = hooks[e].user /\ hooks'[e].kind = hooks[e].kind
                                      /\ hooks'[e].address = hooks[e].address /\ (e # d => hooks'[e] = hooks[e])
<1>1. hooks \in Seq(Hooks) /\ \A e \in DOMAIN hooks : hooks[e] \in Hooks
  BY DEF AccountTypes
<1>2. [hooks[d] EXCEPT !.at = at] \in Hooks
  BY <1>1 DEF Hooks
<1>3. hooks' = [hooks EXCEPT ![d] = [hooks[d] EXCEPT !.at = at]] /\ DOMAIN hooks' = DOMAIN hooks
  BY <1>1
<1>4. hooks' \in Seq(Hooks)
  BY <1>1, <1>2, <1>3, ExceptSeq
<1> QED
  BY <1>1, <1>3, <1>4 DEF Hooks

\* Clerk, the handlers of the webhooks up to the event, and the settings.
LEMMA AccountStepTypes ==
    ASSUME TypeInv, NotificationsAssumption,
           \/ \E u \in Users : Register(u) \/ ChangeProfile(u) \/ DeleteAccount(u) \/ \E s \in Settings : UpdateSettings(u, s)
           \/ \E d \in DOMAIN hooks : WriteUser(d) \/ PublishFails(d) \/ AnswerLost(d)
           \/ RestartUserService
    PROVE  TypeInv'
<1>1. UNCHANGED <<kafkaVars, jobVars, pushVars, noticeVars, subscriber, paths>>
  BY DEF Register, ChangeProfile, DeleteAccount, UpdateSettings, WriteUser, PublishFails, AnswerLost, RestartUserService, clerkFrame
<1>2. KafkaTypes' /\ JobTypes' /\ PushTypes' /\ NoticeTypes'
  BY <1>1, SameKafka, SameJobs, SamePush, SameNotices DEF TypeInv
<1>a. AccountTypes /\ MaxAddress \in Nat \ {0} /\ MaxStimuli \in Nat
  BY DEF TypeInv, NotificationsAssumption
<1>s. Stimulus => stimuli' \in 0 .. MaxStimuli
  BY <1>a DEF Stimulus, AccountTypes
<1>3. ASSUME NEW u \in Users, Register(u) \/ ChangeProfile(u) \/ DeleteAccount(u) PROVE AccountTypes'
  <2> DEFINE Account == [state : {"none", "active", "deleted"}, address : 0 .. MaxAddress]
             hook(kind, address) == [kind |-> kind, user |-> u, address |-> address, at |-> "sent"]
  <2>0. clerk \in [Users -> Account] /\ clerk[u] \in Account /\ clerk[u].address \in 0 .. MaxAddress
    BY <1>a DEF AccountTypes
  <2> DEFINE Done == clerk' \in [Users -> Account] /\ \E h \in Hooks : hooks' = Append(hooks, h)
  <2>a. ASSUME Register(u) PROVE Done
    <3>1. [state |-> "active", address |-> 1] \in Account /\ hook("upsert", 1) \in Hooks
      BY <1>a DEF Hooks
    <3>2. clerk' \in [Users -> Account]
      BY <2>0, <2>a, <3>1 DEF Register
    <3>3. hooks' = Append(hooks, hook("upsert", 1))
      BY <2>a DEF Register, Hook
    <3> QED
      BY <3>1, <3>2, <3>3
  <2>b. ASSUME ChangeProfile(u) PROVE Done
    <3>1. clerk[u].address + 1 \in 0 .. MaxAddress
      BY <1>a, <2>0, <2>b DEF ChangeProfile
    <3>2. [clerk[u] EXCEPT !.address = clerk[u].address + 1] \in Account /\ hook("upsert", clerk[u].address + 1) \in Hooks
      BY <2>0, <3>1 DEF Hooks
    <3>3. clerk' \in [Users -> Account]
      BY <2>0, <2>b, <3>2 DEF ChangeProfile
    <3>4. hooks' = Append(hooks, hook("upsert", clerk[u].address + 1))
      BY <2>b DEF ChangeProfile, Hook
    <3> QED
      BY <3>2, <3>3, <3>4
  <2>c. ASSUME DeleteAccount(u) PROVE Done
    <3>1. [clerk[u] EXCEPT !.state = "deleted"] \in Account /\ hook("delete", 0) \in Hooks
      BY <1>a, <2>0 DEF Hooks
    <3>2. clerk' \in [Users -> Account]
      BY <2>0, <2>c, <3>1 DEF DeleteAccount
    <3>3. hooks' = Append(hooks, hook("delete", 0))
      BY <2>c DEF DeleteAccount, Hook
    <3> QED
      BY <3>1, <3>2, <3>3
  <2>3. Done
    BY <1>3, <2>a, <2>b, <2>c
  <2>4. hooks' \in Seq(Hooks)
    BY <1>a, <2>3, OneHook
  <2> QED
    BY <1>a, <1>s, <1>1, <1>3, <2>3, <2>4 DEF Register, ChangeProfile, DeleteAccount, AccountTypes, clerkFrame
<1>4. ASSUME NEW u \in Users, NEW s \in Settings, UpdateSettings(u, s) PROVE AccountTypes'
  BY <1>a, <1>s, <1>4 DEF UpdateSettings, AccountTypes
<1>5. ASSUME NEW d \in DOMAIN hooks, WriteUser(d) PROVE AccountTypes'
  <2>1. hooks[d] \in Hooks /\ hooks' \in Seq(Hooks)
    BY <1>a, <1>5, HookMoves DEF WriteUser
  <2>2. hooks[d].user \in Users /\ hooks[d].address \in 0 .. MaxAddress
    BY <2>1 DEF Hooks
  <2>3. settings' \in [Users -> Settings]
    BY <1>a, <1>5, <2>2, DefaultZone DEF WriteUser, AccountTypes
  <2>4. row' \in [Users -> 0 .. MaxAddress] /\ crossed' \subseteq Users
    BY <1>a, <1>5, <2>2 DEF WriteUser, AccountTypes
  <2> QED
    BY <1>a, <1>5, <2>1, <2>3, <2>4 DEF WriteUser, AccountTypes
<1>6. ASSUME NEW d \in DOMAIN hooks, PublishFails(d) \/ AnswerLost(d) PROVE AccountTypes'
  <2>1. hooks' \in Seq(Hooks)
    BY <1>a, <1>6, HookMoves DEF PublishFails, AnswerLost
  <2>2. bus' \in {"new", "connected", "failed"} /\ stimuli' \in 0 .. MaxStimuli
    BY <1>a, <1>s, <1>6 DEF PublishFails, AnswerLost, AccountTypes
  <2> QED
    BY <1>a, <1>1, <1>6, <2>1, <2>2 DEF PublishFails, AnswerLost, AccountTypes, clerkFrame
<1>7. ASSUME RestartUserService PROVE AccountTypes'
  <2>0. hooks \in Seq(Hooks) /\ Len(hooks) \in Nat /\ DOMAIN hooks = 1 .. Len(hooks) /\ \A d \in DOMAIN hooks : hooks[d] \in Hooks
    BY <1>a DEF AccountTypes
  <2>1. /\ hooks \in Seq(Hooks) /\ Len(hooks) \in Nat /\ DOMAIN hooks = 1 .. Len(hooks)
        /\ \A d \in DOMAIN hooks : hooks[d] \in Hooks /\ [hooks[d] EXCEPT !.at = "sent"] \in Hooks
    BY <2>0 DEF Hooks
  <2>2. hooks' \in [1 .. Len(hooks) -> Hooks]
    BY <1>7, <2>1 DEF RestartUserService
  <2>3. hooks' \in Seq(Hooks)
    BY <2>1, <2>2
  <2> QED
    BY <1>a, <1>7, <2>3 DEF RestartUserService, AccountTypes
<1> QED
  BY <1>2, <1>3, <1>4, <1>5, <1>6, <1>7 DEF TypeInv

\* A browser's state changes to another.
LEMMA OneBrowser ==
    ASSUME PushTypes, NEW b \in Browsers, NEW state \in BrowserStates, browser' = [browser EXCEPT ![b] = state],
           state.prompt # "hidden" => state.account \in Users, subs' \in [Browsers -> Users \cup {None}]
    PROVE  PushTypes'
BY DEF PushTypes

LEMMA SentToUser ==
    ASSUME PushTypes, NEW u \in Users, SendToUser(u)
    PROVE  /\ subs' \in [Browsers -> Users \cup {None}]
           /\ \A b \in Browsers : subs'[b] \in {subs[b], None}
BY DEF PushTypes, SendToUser

LEMMA PromptTypes ==
    ASSUME TypeInv, NotificationsAssumption, NEW b \in Browsers,
           \/ Dismiss(b) \/ Accept(b) \/ ClearBrowser(b) \/ MayAskAgain(b)
           \/ PermissionAnswered(b) \/ SaveSubscription(b) \/ SubscribeFails(b)
           \/ \E u \in Users : OpenApp(b, u) \/ RemoveSubscription(b, u)
    PROVE  TypeInv'
<1>1. UNCHANGED pushFrame
  BY DEF Dismiss, Accept, ClearBrowser, MayAskAgain, PermissionAnswered, SaveSubscription, SubscribeFails, OpenApp, RemoveSubscription
<1>2. KafkaTypes' /\ JobTypes' /\ NoticeTypes'
  BY <1>1, SameKafka, SameJobs, SameNotices DEF TypeInv, pushFrame
<1>a. AccountTypes /\ PushTypes /\ MaxStimuli \in Nat
  BY DEF TypeInv, NotificationsAssumption
<1>s. Stimulus => stimuli' \in 0 .. MaxStimuli
  BY <1>a DEF Stimulus, AccountTypes
<1>b. browser[b] \in BrowserStates /\ (browser[b].prompt # "hidden" => browser[b].account \in Users)
  BY <1>a DEF PushTypes
<1>3. crossed' \subseteq Users /\ stimuli' \in 0 .. MaxStimuli
  BY <1>a, <1>s, <1>b
     DEF Dismiss, Accept, ClearBrowser, MayAskAgain, PermissionAnswered, SaveSubscription, SubscribeFails, OpenApp, RemoveSubscription,
         AccountTypes
<1>4. AccountTypes'
  BY <1>a, <1>1, <1>3 DEF AccountTypes, pushFrame, accountVars
<1>c. /\ DOMAIN browser[b] = {"account", "permission", "prompt", "recent", "alive"} /\ browser \in [Browsers -> BrowserStates]
      /\ subs \in [Browsers -> Users \cup {None}]
  BY <1>a, <1>b DEF BrowserStates, PushTypes
<1>5. ASSUME Dismiss(b) \/ Accept(b) \/ SubscribeFails(b) PROVE PushTypes'
  <2>1. PICK p \in {"hidden", "visible", "asking"} :
           browser' = [browser EXCEPT ![b].prompt = p] \/ browser' = [browser EXCEPT ![b].prompt = p, ![b].recent = TRUE]
    BY <1>5 DEF Dismiss, Accept, SubscribeFails
  <2>2. browser[b].account \in Users /\ subs' = subs
    BY <1>5, <1>b DEF Dismiss, Accept, SubscribeFails
  <2>3. CASE browser' = [browser EXCEPT ![b].prompt = p]
    <3> DEFINE state == [browser[b] EXCEPT !.prompt = p]
    <3>1. state \in BrowserStates /\ state.account = browser[b].account
      BY <1>b DEF BrowserStates
    <3>2. browser' = [browser EXCEPT ![b] = state]
      BY <2>3
    <3> HIDE DEF state
    <3> QED
      BY <1>a, <1>c, <2>2, <3>1, <3>2, OneBrowser
  <2>4. CASE browser' = [browser EXCEPT ![b].prompt = p, ![b].recent = TRUE]
    <3> DEFINE state == [browser[b] EXCEPT !.prompt = p, !.recent = TRUE]
    <3>1. state \in BrowserStates /\ state.account = browser[b].account
      BY <1>b DEF BrowserStates
    <3>2. browser' = [browser EXCEPT ![b] = state]
      BY <2>4, <1>c
    <3> HIDE DEF state
    <3> QED
      BY <1>a, <1>c, <2>2, <3>1, <3>2, OneBrowser
  <2> QED
    BY <2>1, <2>3, <2>4
<1>6. ASSUME ClearBrowser(b) PROVE PushTypes'
  <2> DEFINE state == [browser[b] EXCEPT !.alive = FALSE, !.permission = "default", !.recent = FALSE]
  <2>1. state \in BrowserStates /\ state.account = browser[b].account /\ state.prompt = browser[b].prompt
    BY <1>b DEF BrowserStates
  <2>2. browser' = [browser EXCEPT ![b] = state] /\ subs' = subs
    BY <1>6, <1>c DEF ClearBrowser
  <2> HIDE DEF state
  <2> QED
    BY <1>a, <1>b, <1>c, <2>1, <2>2, OneBrowser
<1>7. ASSUME MayAskAgain(b) PROVE PushTypes'
  <2> DEFINE state == [browser[b] EXCEPT !.recent = FALSE]
  <2>1. state \in BrowserStates /\ state.account = browser[b].account /\ state.prompt = browser[b].prompt
    BY <1>b DEF BrowserStates
  <2>2. browser' = [browser EXCEPT ![b] = state] /\ subs' = subs
    BY <1>7, <1>c DEF MayAskAgain
  <2> HIDE DEF state
  <2> QED
    BY <1>a, <1>b, <1>c, <2>1, <2>2, OneBrowser
<1>8. ASSUME PermissionAnswered(b) PROVE PushTypes'
  <2>1. PICK permission \in {"default", "granted", "denied"}, alive \in BOOLEAN, recent \in BOOLEAN, prompt \in {"posting", "hidden"} :
           \/ browser' = [browser EXCEPT ![b].permission = permission, ![b].alive = alive, ![b].prompt = prompt]
           \/ browser' = [browser EXCEPT ![b].permission = permission, ![b].recent = recent, ![b].prompt = prompt]
    BY <1>8 DEF PermissionAnswered
  <2>2. browser[b].account \in Users /\ subs' = subs
    BY <1>8, <1>b DEF PermissionAnswered
  <2> DEFINE granted == [browser[b] EXCEPT !.permission = permission, !.alive = alive, !.prompt = prompt]
             refused == [browser[b] EXCEPT !.permission = permission, !.recent = recent, !.prompt = prompt]
  <2>3. granted \in BrowserStates /\ granted.account = browser[b].account /\ refused \in BrowserStates /\ refused.account = browser[b].account
    BY <1>b DEF BrowserStates
  <2>4. browser' = [browser EXCEPT ![b] = granted] \/ browser' = [browser EXCEPT ![b] = refused]
    BY <2>1, <1>c
  <2> HIDE DEF granted, refused
  <2> QED
    BY <1>a, <1>c, <2>2, <2>3, <2>4, OneBrowser
<1>9. ASSUME SaveSubscription(b) PROVE PushTypes'
  <2> DEFINE state == [browser[b] EXCEPT !.prompt = "hidden"]
  <2>1. state \in BrowserStates /\ state.prompt = "hidden" /\ browser[b].account \in Users
    BY <1>9, <1>b DEF BrowserStates, SaveSubscription
  <2>2. browser' = [browser EXCEPT ![b] = state] /\ subs' \in [Browsers -> Users \cup {None}]
    BY <1>9, <1>c, <2>1 DEF SaveSubscription, Subscribed
  <2> HIDE DEF state
  <2> QED
    BY <1>a, <2>1, <2>2, OneBrowser
<1>10. ASSUME NEW u \in Users, OpenApp(b, u) PROVE PushTypes'
  <2>1. PICK p \in {"visible", "hidden"} : browser' = [browser EXCEPT ![b].account = u, ![b].prompt = p]
    BY <1>10 DEF OpenApp
  <2> DEFINE state == [browser[b] EXCEPT !.account = u, !.prompt = p]
  <2>2. state \in BrowserStates /\ state.account = u
    BY <1>b DEF BrowserStates
  <2>3. browser' = [browser EXCEPT ![b] = state] /\ subs' = subs
    BY <1>10, <1>c, <2>1 DEF OpenApp
  <2> HIDE DEF state
  <2> QED
    BY <1>a, <1>c, <2>2, <2>3, OneBrowser
<1>11. ASSUME NEW u \in Users, RemoveSubscription(b, u) PROVE PushTypes'
  BY <1>11, <1>a, <1>c DEF RemoveSubscription, Unsubscribed, PushTypes
<1> QED
  BY <1>2, <1>4, <1>5, <1>6, <1>7, <1>8, <1>9, <1>10, <1>11 DEF TypeInv

-----------------------------------------------------------------------------
(* Events.                                                                  *)

\* The event e is published on the topics ts.
Published(e, ts) ==
    /\ ts \subseteq Topics /\ e \in [id : {events + 1}, user : Users, address : 0 .. MaxAddress]
    /\ queue' = [t \in Topics |-> IF t \in ts THEN Append(queue[t], e) ELSE queue[t]]
    /\ events' = events + 1 /\ UNCHANGED <<consumer, processed>>

LEMMA Publication ==
    ASSUME KafkaTypes, NEW e, NEW ts, Published(e, ts)
    PROVE  /\ KafkaTypes'
           /\ \A t \in Topics : queue[t] # <<>> => queue'[t] # <<>> /\ queue'[t][1] = queue[t][1]
<1>0. events \in Nat /\ events' = events + 1 /\ ts \subseteq Topics /\ queue \in [Topics -> Seq(Events)]
  BY DEF KafkaTypes, Published
<1>e. 1 .. events \subseteq 1 .. events' /\ events + 1 \in 1 .. events'
  BY <1>0
<1>1. /\ events \in Nat /\ e \in Events' /\ Events \subseteq Events'
      /\ ts \subseteq Topics /\ queue \in [Topics -> Seq(Events)]
  BY <1>0, <1>e DEF Published, Events
<1>2. \A t \in Topics : queue[t] \in Seq(Events)
  BY <1>1
<1>3. \A t \in Topics : queue[t] \in Seq(Events')
  BY <1>1, <1>2
<1>4. \A t \in Topics : Append(queue[t], e) \in Seq(Events')
  BY <1>1, <1>3
<1>5. queue' \in [Topics -> Seq(Events')]
  BY <1>3, <1>4 DEF Published
<1>6. \A t \in Topics : queue[t] # <<>> => queue'[t] # <<>> /\ queue'[t][1] = queue[t][1]
  BY <1>2 DEF Published
<1>7. consumer' = consumer /\ consumer \in Consumers /\ Consumers' = Consumers /\ consumer.topic \in Topics
  BY DEF Published, KafkaTypes, Consumers, Topics
<1>8. events' \in Nat /\ processed' \subseteq 1 .. events'
  BY <1>1 DEF Published, KafkaTypes
<1> QED
  BY <1>5, <1>6, <1>7, <1>8 DEF KafkaTypes, Topics

LEMMA Publishers ==
    ASSUME TypeInv, NotificationsAssumption
    PROVE  /\ \A d \in DOMAIN hooks : PublishUser(d) =>
                Published([id |-> events + 1, user |-> hooks[d].user, address |-> hooks[d].address],
                          IF hooks[d].kind = "upsert" THEN {Upserts} ELSE {Deletes, Paths})
           /\ \A u \in Users : EmitReady(u) => Published([id |-> events + 1, user |-> u, address |-> 0], {"ready"})
<1>1. /\ events \in Nat /\ queue \in [Topics -> Seq(Events)] /\ DOMAIN queue = Topics
      /\ \A d \in DOMAIN hooks : hooks[d] \in Hooks
  BY DEF TypeInv, AccountTypes, KafkaTypes
<1>2. ASSUME NEW d \in DOMAIN hooks, PublishUser(d)
      PROVE  Published([id |-> events + 1, user |-> hooks[d].user, address |-> hooks[d].address],
                       IF hooks[d].kind = "upsert" THEN {Upserts} ELSE {Deletes, Paths})
  <2> DEFINE e == [id |-> events + 1, user |-> hooks[d].user, address |-> hooks[d].address]
  <2>1. e \in [id : {events + 1}, user : Users, address : 0 .. MaxAddress]
    BY <1>1 DEF Hooks
  <2>2. IF hooks[d].kind = "upsert" THEN queue' = [queue EXCEPT ![Upserts] = Append(@, e)]
        ELSE queue' = [queue EXCEPT ![Deletes] = Append(@, e), ![Paths] = Append(@, e)]
    BY <1>2 DEF PublishUser, Upserts, Deletes, Paths
  <2> HIDE DEF e
  <2>3. queue' = [t \in Topics |-> IF t \in (IF hooks[d].kind = "upsert" THEN {Upserts} ELSE {Deletes, Paths})
                                   THEN Append(queue[t], e) ELSE queue[t]]
    BY <1>1, <2>2 DEF Upserts, Deletes, Paths, Topics
  <2>4. events' = events + 1 /\ UNCHANGED <<consumer, processed>>
    BY <1>2 DEF PublishUser
  <2> QED
    BY <2>1, <2>3, <2>4 DEF Published, Upserts, Deletes, Paths, Topics, e
<1>3. ASSUME NEW u \in Users, EmitReady(u) PROVE Published([id |-> events + 1, user |-> u, address |-> 0], {"ready"})
  <2> DEFINE e == [id |-> events + 1, user |-> u, address |-> 0]
  <2>1. e \in [id : {events + 1}, user : Users, address : 0 .. MaxAddress]
    BY DEF NotificationsAssumption
  <2>2. queue' = [queue EXCEPT !["ready"] = Append(@, e)]
    BY <1>3 DEF EmitReady
  <2> HIDE DEF e
  <2>3. queue' = [t \in Topics |-> IF t \in {"ready"} THEN Append(queue[t], e) ELSE queue[t]]
    BY <1>1, <2>2 DEF Topics
  <2> QED
    BY <1>3, <2>1, <2>3 DEF EmitReady, Published, Topics, e
<1> QED
  BY <1>2, <1>3

\* What the consumer is at stays where it is.
LEMMA MessageStays ==
    ASSUME KafkaTypes, consumer.at # "idle", consumer' = consumer,
           \A t \in Topics : queue[t] # <<>> => queue'[t] # <<>> /\ queue'[t][1] = queue[t][1]
    PROVE  Message' = Message
BY DEF KafkaTypes, Consumers, Message

LEMMA MoreNotices ==
    ASSUME events \in Nat, hour \in Nat, events' \in Nat, hour' \in Nat, events <= events', hour <= hour'
    PROVE  Days \subseteq Days' /\ Notices \subseteq Notices'
<1>1. 1 .. events \subseteq 1 .. events' /\ 1 .. hour \subseteq 1 .. hour'
  OBVIOUS
<1>2. Days \subseteq Days'
  BY <1>1 DEF Days, Zones
<1> QED
  BY <1>1, <1>2 DEF Notices

LEMMA PublisherTypes ==
    ASSUME TypeInv, NotificationsAssumption,
           (\E d \in DOMAIN hooks : PublishUser(d)) \/ (\E u \in Users : EmitReady(u))
    PROVE  TypeInv'
<1>1. PICK e, ts : Published(e, ts)
  BY Publishers
<1>2. UNCHANGED <<clerk, row, settings, subscriber, paths, jobVars, pushVars, noticeVars>>
  BY DEF PublishUser, EmitReady, accountVars
<1>3. /\ KafkaTypes' /\ KafkaTypes
      /\ \A t \in Topics : queue[t] # <<>> => queue'[t] # <<>> /\ queue'[t][1] = queue[t][1]
  BY <1>1, Publication DEF TypeInv
<1>4. JobTypes' /\ PushTypes'
  BY <1>2, SameJobs, SamePush DEF TypeInv
<1>a. AccountTypes /\ NoticeTypes /\ events \in Nat /\ hour \in Nat /\ events' = events + 1 /\ hour' = hour /\ consumer' = consumer
  BY <1>1, <1>2 DEF TypeInv, KafkaTypes, JobTypes, Published, jobVars
<1>5. NoticeTypes'
  <2>1. sent' \subseteq Notices' /\ twice' \cup spoilt' \subseteq sent'
    BY <1>2, <1>a, MoreNotices DEF NoticeTypes, noticeVars
  <2>2. ReadyBehind' => <<"ready", Message.id>>' \in sent'
    <3> SUFFICES ASSUME ReadyBehind' PROVE Message' = Message /\ ReadyBehind /\ sent' = sent
      BY <1>a DEF NoticeTypes
    <3> QED
      BY <1>2, <1>3, <1>a, MessageStays DEF ReadyBehind, noticeVars
  <2>3. \A ty \in Types, u \in Users : Behind(ty, u)' => Notice(ty, u)' \in sent'
    BY <1>2, <1>a DEF NoticeTypes, Behind, Notice, Day, jobVars, noticeVars
  <2> QED
    BY <2>1, <2>2, <2>3 DEF NoticeTypes
<1>6. AccountTypes'
  <2>1. ASSUME NEW d \in DOMAIN hooks, PublishUser(d) PROVE AccountTypes'
    <3>1. hooks[d] \in Hooks /\ hooks' \in Seq(Hooks)
      BY <1>a, <2>1, HookMoves DEF PublishUser
    <3>2. crossed' \subseteq Users
      BY <1>a, <2>1, <3>1 DEF PublishUser, AccountTypes, Hooks
    <3> QED
      BY <1>a, <2>1, <3>1, <3>2 DEF PublishUser, AccountTypes
  <2>2. ASSUME NEW u \in Users, EmitReady(u) PROVE AccountTypes'
    BY <1>a, <2>2 DEF EmitReady, AccountTypes, accountVars, Stimulus, NotificationsAssumption
  <2> QED
    BY <2>1, <2>2
<1> QED
  BY <1>3, <1>4, <1>5, <1>6 DEF TypeInv

-----------------------------------------------------------------------------
(* The consumer.                                                            *)

\* The event at the head of a topic.
LEMMA Head1 ==
    ASSUME KafkaTypes, NEW t \in Topics, queue[t] # <<>>
    PROVE  /\ queue[t] \in Seq(Events) /\ 1 \in DOMAIN queue[t] /\ queue[t][1] \in Events
           /\ queue[t][1].id \in 1 .. events /\ queue[t][1].user \in Users /\ queue[t][1].address \in 0 .. MaxAddress
<1>1. queue[t] \in Seq(Events)
  BY DEF KafkaTypes
<1>2. queue[t][1] \in Events /\ 1 \in DOMAIN queue[t]
  BY <1>1
<1> QED
  BY <1>1, <1>2 DEF Events

\* The message at work.
LEMMA AtWork ==
    ASSUME KafkaTypes, consumer.at # "idle"
    PROVE  /\ consumer.topic \in Consumed /\ consumer.topic \in Topics /\ queue[consumer.topic] # <<>>
           /\ Message \in Events /\ Message.id \in 1 .. events /\ Message.user \in Users /\ Message.address \in 0 .. MaxAddress
<1>1. consumer.topic \in Topics /\ consumer.topic # Paths /\ queue[consumer.topic] # <<>>
  BY DEF KafkaTypes, Consumers
<1> QED
  BY <1>1, Head1 DEF Message, Consumed

\* A topic loses its head.
LEMMA HeadGone ==
    ASSUME KafkaTypes, NEW t \in Topics, queue[t] # <<>>, queue' = [queue EXCEPT ![t] = Tail(@)], events' = events
    PROVE  queue' \in [Topics -> Seq(Events')]
<1>1. Tail(queue[t]) \in Seq(Events)
  BY DEF KafkaTypes
<1>2. Events' = Events /\ queue \in [Topics -> Seq(Events)]
  BY DEF Events, KafkaTypes
<1> QED
  BY <1>1, <1>2

LEMMA GoesTo ==
    ASSUME KafkaTypes, NEW step \in {"rows", "novu", "push", "record", "commit"}, GoTo(step)
    PROVE  consumer' \in Consumers /\ consumer'.at = step /\ consumer'.topic = consumer.topic
BY DEF KafkaTypes, Consumers, GoTo

Consumes ==
    \/ \E t \in Topics : Take(t)
    \/ HandleUserUpserted \/ DeleteRuns \/ DeleteSubscriptions \/ DeleteSubscriber
    \/ HandleReady \/ PushReady \/ RecordEvent \/ Commit \/ HandlerFails \/ DeletePaths

LEMMA ConsumingKafka ==
    ASSUME TypeInv, Consumes
    PROVE  KafkaTypes' /\ events' = events
<1>a. KafkaTypes /\ events \in Nat /\ queue \in [Topics -> Seq(Events)] /\ consumer \in Consumers
  BY DEF TypeInv, KafkaTypes
<1>0. events' = events /\ Events' = Events
  BY DEF Consumes, Take, HandleUserUpserted, DeleteRuns, DeleteSubscriptions, DeleteSubscriber, HandleReady, PushReady, RecordEvent,
         Commit, HandlerFails, DeletePaths, consumerFrame, Events
<1>1. ASSUME NEW t \in Topics, Take(t) PROVE KafkaTypes'
  <2>1. consumer' \in Consumers /\ consumer'.topic = t /\ consumer'.at \in {"handle", "commit"} /\ t # Paths /\ queue[t] # <<>>
    BY <1>1 DEF Take, Consumers, Paths
  <2> QED
    BY <1>a, <1>0, <1>1, <2>1 DEF KafkaTypes, Take
<1>2. ASSUME HandleUserUpserted \/ DeleteRuns \/ DeleteSubscriptions \/ DeleteSubscriber \/ HandleReady \/ PushReady
      PROVE  KafkaTypes'
  <2>1. PICK step \in {"rows", "novu", "push", "record"} :
           /\ GoTo(step) /\ UNCHANGED <<queue, processed>> /\ consumer.at # "idle"
           /\ step \in {"rows", "novu"} => consumer.topic = Deletes
           /\ step = "push" => consumer.topic = "ready"
    BY <1>a, <1>2
       DEF HandleUserUpserted, DeleteRuns, DeleteSubscriptions, DeleteSubscriber, HandleReady, PushReady, At, KafkaTypes, Deletes
  <2>2. consumer' \in Consumers /\ consumer'.at = step /\ consumer'.topic = consumer.topic
    BY <1>a, <2>1, GoesTo
  <2> QED
    BY <1>a, <1>0, <2>1, <2>2 DEF KafkaTypes
<1>3. ASSUME RecordEvent PROVE KafkaTypes'
  <2>1. consumer.at # "idle" /\ GoTo("commit") /\ queue' = queue /\ processed' = processed \cup {Message.id}
    BY <1>3 DEF RecordEvent, At
  <2>2. consumer' \in Consumers /\ consumer'.at = "commit" /\ consumer'.topic = consumer.topic /\ Message.id \in 1 .. events
    BY <1>a, <2>1, GoesTo, AtWork
  <2> QED
    BY <1>a, <1>0, <2>1, <2>2 DEF KafkaTypes
<1>i. Idle \in Consumers /\ Idle.at = "idle" /\ Idle.topic # Paths
  BY DEF Idle, Consumers, Topics, Paths
<1>4. ASSUME Commit PROVE KafkaTypes'
  <2>1. consumer.at # "idle" /\ queue' = [queue EXCEPT ![consumer.topic] = Tail(@)] /\ consumer' = Idle /\ processed' = processed
    BY <1>4 DEF Commit, At
  <2>2. queue' \in [Topics -> Seq(Events')]
    BY <1>a, <1>0, <2>1, AtWork, HeadGone
  <2> QED
    BY <1>a, <1>0, <1>i, <2>1, <2>2 DEF KafkaTypes
<1>5. ASSUME HandlerFails PROVE KafkaTypes'
  BY <1>a, <1>0, <1>i, <1>5 DEF KafkaTypes, HandlerFails
<1>6. ASSUME DeletePaths PROVE KafkaTypes'
  <2>1. queue[Paths] # <<>> /\ queue' = [queue EXCEPT ![Paths] = Tail(@)] /\ UNCHANGED <<consumer, processed>> /\ Paths \in Topics
    BY <1>6 DEF DeletePaths, Paths, Topics
  <2>2. queue' \in [Topics -> Seq(Events')]
    BY <1>a, <1>0, <2>1, HeadGone
  <2>3. consumer.at # "idle" => queue'[consumer.topic] = queue[consumer.topic]
    BY <1>a, <2>1 DEF KafkaTypes, Consumers
  <2> QED
    BY <1>a, <1>0, <2>1, <2>2, <2>3 DEF KafkaTypes
<1> QED
  BY <1>0, <1>1, <1>2, <1>3, <1>4, <1>5, <1>6 DEF Consumes

LEMMA ConsumingTypes ==
    ASSUME TypeInv, NotificationsAssumption, Consumes
    PROVE  TypeInv'
<1>a. AccountTypes /\ KafkaTypes /\ JobTypes /\ PushTypes /\ NoticeTypes
  BY DEF TypeInv
<1>1. KafkaTypes' /\ events' = events
  BY ConsumingKafka
<1>2. UNCHANGED <<clerk, hooks, bus, row, settings, hour, jobs, browser>>
  BY DEF Consumes, Take, HandleUserUpserted, DeleteRuns, DeleteSubscriptions, DeleteSubscriber, HandleReady, PushReady, RecordEvent,
         Commit, HandlerFails, DeletePaths, consumerFrame, accountVars, jobVars, pushVars
<1>3. AccountTypes'
  <2>1. consumer.at # "idle" => Message.user \in Users /\ Message.address \in 0 .. MaxAddress
    BY <1>a, AtWork
  <2>2. subscriber' \in [Users -> 0 .. MaxAddress] /\ crossed' \subseteq Users
    <3>1. CASE HandleUserUpserted
      BY <1>a, <2>1, <3>1 DEF HandleUserUpserted, At, AccountTypes
    <3>2. CASE DeleteSubscriber
      <4>1. subscriber' = [subscriber EXCEPT ![Message.user] = 0] /\ crossed' = crossed
        BY <3>2 DEF DeleteSubscriber
      <4>2. 0 \in 0 .. MaxAddress
        BY DEF NotificationsAssumption
      <4> QED
        BY <1>a, <4>1, <4>2 DEF AccountTypes
    <3>3. CASE UNCHANGED <<subscriber, crossed>>
      BY <1>a, <3>3 DEF AccountTypes
    <3> QED
      BY <3>1, <3>2, <3>3
         DEF Consumes, Take, DeleteRuns, DeleteSubscriptions, HandleReady, PushReady, RecordEvent, Commit, HandlerFails, DeletePaths
  <2>3. paths' \subseteq Users /\ stimuli' \in 0 .. MaxStimuli
    <3>1. CASE DeletePaths
      BY <1>a, <3>1 DEF DeletePaths, AccountTypes
    <3>2. CASE HandlerFails
      BY <1>a, <3>2 DEF HandlerFails, AccountTypes, Stimulus, NotificationsAssumption
    <3>3. CASE UNCHANGED <<paths, stimuli>>
      BY <1>a, <3>3 DEF AccountTypes
    <3> QED
      BY <3>1, <3>2, <3>3
         DEF Consumes, Take, HandleUserUpserted, DeleteRuns, DeleteSubscriptions, DeleteSubscriber, HandleReady, PushReady,
             RecordEvent, Commit, consumerFrame
  <2> QED
    BY <1>a, <1>2, <2>2, <2>3 DEF AccountTypes
<1>4. JobTypes'
  <2>1. runs' \subseteq runs
    BY DEF Consumes, Take, HandleUserUpserted, DeleteRuns, DeleteSubscriptions, DeleteSubscriber, HandleReady, PushReady, RecordEvent,
           Commit, HandlerFails, DeletePaths, jobVars
  <2> QED
    BY <1>a, <1>2, <2>1 DEF JobTypes, Days, Jobs, Zones
<1>5. PushTypes'
  <2>1. subs' \in [Browsers -> Users \cup {None}]
    <3>1. CASE PushReady
      BY <1>a, <3>1, AtWork, SentToUser DEF PushReady, At
    <3>2. CASE DeleteSubscriptions
      BY <1>a, <3>2 DEF DeleteSubscriptions, PushTypes
    <3>3. CASE subs' = subs
      BY <1>a, <3>3 DEF PushTypes
    <3> QED
      BY <3>1, <3>2, <3>3
         DEF Consumes, Take, HandleUserUpserted, DeleteRuns, DeleteSubscriber, HandleReady, RecordEvent,
             Commit, HandlerFails, DeletePaths, pushVars
  <2> QED
    BY <1>a, <1>2, <2>1 DEF PushTypes
<1>6. NoticeTypes'
  <2>1. Notices' = Notices /\ \A ty \in Types, u \in Users : Behind(ty, u)' = Behind(ty, u) /\ Notice(ty, u)' = Notice(ty, u)
    BY <1>1, <1>2 DEF Notices, Days, Behind, Notice, Day
  <2>2. CASE HandleReady
    <3>1. consumer.at # "idle" /\ sent' = sent \cup {<<"ready", Message.id>>} /\ twice' = twice \cup (sent \cap {<<"ready", Message.id>>})
          /\ spoilt' = spoilt /\ UNCHANGED queue /\ consumer'.topic = consumer.topic
      BY <1>a, <2>2, GoesTo DEF HandleReady, At, Send
    <3>2. <<"ready", Message.id>> \in Notices /\ Message' = Message
      BY <1>a, <3>1, AtWork DEF Notices, Message
    <3> QED
      BY <1>a, <2>1, <3>1, <3>2 DEF NoticeTypes
  <2>3. CASE HandlerFails
    <3>1. UNCHANGED <<sent, twice>> /\ spoilt' \subseteq spoilt \cup SpoiltEvent /\ consumer'.at = "idle"
      BY <2>3 DEF HandlerFails, Idle
    <3>2. SpoiltEvent \subseteq sent
      BY <1>a DEF SpoiltEvent, At, NoticeTypes, ReadyBehind
    <3> QED
      BY <1>a, <2>1, <3>1, <3>2 DEF NoticeTypes, ReadyBehind
  <2>4. ASSUME UNCHANGED noticeVars, ReadyBehind' => ReadyBehind /\ Message' = Message PROVE NoticeTypes'
    BY <1>a, <2>1, <2>4 DEF NoticeTypes, noticeVars
  <2>5. CASE PushReady
    <3>1. GoTo("record") /\ consumer.at = "push" /\ UNCHANGED <<queue, noticeVars>>
      BY <2>5 DEF PushReady, At
    <3>2. consumer'.topic = consumer.topic
      BY <1>a, <3>1, GoesTo
    <3> QED
      BY <2>4, <3>1, <3>2 DEF ReadyBehind, Message
  <2>6. CASE DeletePaths
    <3>1. UNCHANGED <<consumer, noticeVars>> /\ queue' = [queue EXCEPT ![Paths] = Tail(@)]
      BY <2>6 DEF DeletePaths, Paths
    <3>2. queue \in [Topics -> Seq(Events)] /\ consumer.topic \in Topics /\ consumer.topic # Paths
      BY <1>a DEF KafkaTypes, Consumers
    <3>3. queue'[consumer.topic] = queue[consumer.topic]
      BY <3>1, <3>2
    <3> QED
      BY <2>4, <3>1, <3>3 DEF ReadyBehind, Message
  <2>7. CASE (\E t \in Topics : Take(t)) \/ RecordEvent \/ Commit
    <3>1. UNCHANGED noticeVars
      BY <2>7 DEF Take, RecordEvent, Commit
    <3>2. consumer'.at \notin {"push", "record"}
      <4>1. CASE RecordEvent
        BY <4>1, <1>a, GoesTo DEF RecordEvent
      <4>2. CASE Commit
        BY <4>2 DEF Commit, Idle
      <4>3. ASSUME NEW t \in Topics, Take(t) PROVE consumer'.at \notin {"push", "record"}
        <5>1. consumer' = [topic |-> t, at |-> "commit"] \/ consumer' = [topic |-> t, at |-> "handle"]
          BY <4>3 DEF Take
        <5> QED
          BY <5>1
      <4> QED
        BY <2>7, <4>1, <4>2, <4>3
    <3> QED
      BY <2>4, <3>1, <3>2 DEF ReadyBehind
  <2>8. CASE HandleUserUpserted \/ DeleteRuns \/ DeleteSubscriptions \/ DeleteSubscriber
    <3>1. UNCHANGED noticeVars
      BY <2>8 DEF HandleUserUpserted, DeleteRuns, DeleteSubscriptions, DeleteSubscriber
    <3>2. consumer.topic # "ready" /\ consumer'.topic = consumer.topic /\ consumer'.at # "push"
      BY <2>8, <1>a, GoesTo DEF HandleUserUpserted, DeleteRuns, DeleteSubscriptions, DeleteSubscriber, At, KafkaTypes, Deletes
    <3> QED
      BY <2>4, <3>1, <3>2 DEF ReadyBehind
  <2> QED
    BY <2>2, <2>3, <2>5, <2>6, <2>7, <2>8 DEF Consumes
<1> QED
  BY <1>1, <1>3, <1>4, <1>5, <1>6 DEF TypeInv

-----------------------------------------------------------------------------
(* The jobs.                                                                *)

\* Only job ty changes, to j.
LEMMA OneJob ==
    ASSUME jobs \in [Types -> Jobs], NEW ty \in Types, NEW j \in Jobs, jobs' = [jobs EXCEPT ![ty] = j]
    PROVE  jobs' \in [Types -> Jobs] /\ jobs'[ty] = j /\ \A o \in Types : o # ty => jobs'[o] = jobs[o]
OBVIOUS

\* Only the work for user u moves.
Moved(ty, u, step) ==
    /\ jobs' \in [Types -> Jobs]
    /\ \A o \in Types : o # ty => jobs'[o] = jobs[o]
    /\ \A o \in Types : jobs'[o].at = jobs[o].at /\ jobs'[o].due = jobs[o].due /\ jobs'[o].todo = jobs[o].todo /\ jobs'[o].zone = jobs[o].zone
    /\ jobs'[ty].step[u] = step
    /\ \A v \in Users : v # u => jobs'[ty].step[v] = jobs[ty].step[v]

LEMMA Stepped ==
    ASSUME jobs \in [Types -> Jobs], NEW ty \in Types, NEW u \in Users, NEW step \in Steps, Step(ty, u, step)
    PROVE  Moved(ty, u, step) /\ \A o \in Types : jobs'[o].absent = jobs[o].absent
<1> DEFINE j == [jobs[ty] EXCEPT !.step[u] = step]
<1>1. jobs[ty] \in Jobs /\ [jobs[ty].step EXCEPT ![u] = step] \in [Users -> Steps]
  BY DEF Jobs
<1>2. /\ j \in Jobs /\ j.at = jobs[ty].at /\ j.due = jobs[ty].due /\ j.todo = jobs[ty].todo /\ j.zone = jobs[ty].zone
      /\ j.absent = jobs[ty].absent /\ j.step = [jobs[ty].step EXCEPT ![u] = step]
  BY <1>1 DEF Jobs
<1>3. jobs' = [jobs EXCEPT ![ty] = j]
  BY DEF Step
<1> HIDE DEF j
<1>4. jobs' \in [Types -> Jobs] /\ jobs'[ty] = j /\ \A o \in Types : o # ty => jobs'[o] = jobs[o]
  BY <1>2, <1>3, OneJob
<1>5. j.step[u] = step /\ \A v \in Users : v # u => j.step[v] = jobs[ty].step[v]
  BY <1>1, <1>2 DEF Jobs
<1> QED
  BY <1>2, <1>4, <1>5 DEF Moved

LEMMA Absented ==
    ASSUME jobs \in [Types -> Jobs], NEW ty \in Types, NEW u \in Users, NothingToSay(ty, u)
    PROVE  /\ Moved(ty, u, "done") /\ jobs'[ty].absent = jobs[ty].absent \cup {u}
           /\ \A o \in Types : o # ty => jobs'[o].absent = jobs[o].absent
<1> DEFINE j == [jobs[ty] EXCEPT !.step[u] = "done", !.absent = @ \cup {u}]
<1>1. jobs[ty] \in Jobs /\ [jobs[ty].step EXCEPT ![u] = "done"] \in [Users -> Steps]
  BY DEF Jobs, Steps
<1>2. /\ j \in Jobs /\ j.at = jobs[ty].at /\ j.due = jobs[ty].due /\ j.todo = jobs[ty].todo /\ j.zone = jobs[ty].zone
      /\ j.absent = jobs[ty].absent \cup {u} /\ j.step = [jobs[ty].step EXCEPT ![u] = "done"]
  BY <1>1 DEF Jobs
<1>3. jobs' = [jobs EXCEPT ![ty] = j]
  BY DEF NothingToSay
<1> HIDE DEF j
<1>4. jobs' \in [Types -> Jobs] /\ jobs'[ty] = j /\ \A o \in Types : o # ty => jobs'[o] = jobs[o]
  BY <1>2, <1>3, OneJob
<1>5. j.step[u] = "done" /\ \A v \in Users : v # u => j.step[v] = jobs[ty].step[v]
  BY <1>1, <1>2 DEF Jobs
<1> QED
  BY <1>2, <1>4, <1>5 DEF Moved

\* The list, a batch and the end of a job.
Listed(ty, at, due, todo) ==
    /\ jobs' \in [Types -> Jobs] /\ \A o \in Types : o # ty => jobs'[o] = jobs[o]
    /\ jobs'[ty].at = at /\ jobs'[ty].due = due /\ jobs'[ty].todo = todo /\ jobs'[ty].absent = jobs[ty].absent
Untouched(ty) == jobs'[ty].zone = jobs[ty].zone /\ jobs'[ty].step = jobs[ty].step

LEMMA AtOnly ==
    ASSUME jobs \in [Types -> Jobs], NEW ty \in Types, NEW at \in {"idle", "listing", "sending", "over"},
           jobs' = [jobs EXCEPT ![ty].at = at]
    PROVE  Listed(ty, at, jobs[ty].due, jobs[ty].todo) /\ Untouched(ty)
<1> DEFINE j == [jobs[ty] EXCEPT !.at = at]
<1>1. jobs[ty] \in Jobs
  OBVIOUS
<1>2. /\ j \in Jobs /\ j.at = at /\ j.due = jobs[ty].due /\ j.todo = jobs[ty].todo /\ j.zone = jobs[ty].zone
      /\ j.absent = jobs[ty].absent /\ j.step = jobs[ty].step
  BY <1>1 DEF Jobs
<1>3. jobs' = [jobs EXCEPT ![ty] = j]
  OBVIOUS
<1> HIDE DEF j
<1> QED
  BY <1>2, <1>3, OneJob DEF Listed, Untouched

LEMMA ListedUsers ==
    ASSUME AccountTypes, NotificationsAssumption, jobs \in [Types -> Jobs], NEW ty \in Types, ListUsers(ty)
    PROVE  \/ Listed(ty, "idle", jobs[ty].due, jobs[ty].todo) /\ Untouched(ty)
           \/ \E due \in SUBSET Users : Listed(ty, "sending", due, due) /\ jobs'[ty].step = jobs[ty].step
<1>1. CASE \E u \in Remindable : settings[u].zone = UnknownZone
  <2>1. jobs' = [jobs EXCEPT ![ty].at = "idle"]
    BY <1>1 DEF ListUsers
  <2> QED
    BY <2>1, AtOnly
<1>2. CASE ~\E u \in Remindable : settings[u].zone = UnknownZone
  <2> DEFINE due == {u \in Remindable : Now(u).hour = settings[u].reminder}
             zone == [u \in Users |-> IF u \in due THEN settings[u].zone ELSE jobs[ty].zone[u]]
             j == [jobs[ty] EXCEPT !.at = "sending", !.due = due, !.todo = due, !.zone = zone]
  <2>1. jobs[ty] \in Jobs /\ DOMAIN jobs[ty] = {"at", "due", "todo", "zone", "absent", "step"}
    BY DEF Jobs
  <2>2. due \subseteq Users
    BY DEF Remindable
  <2>3. ASSUME NEW u \in Users PROVE zone[u] \in Zones
    <3>1. settings[u].zone \in Zones \cup {UnknownZone} /\ jobs[ty].zone[u] \in Zones
      BY <2>1 DEF AccountTypes, Settings, Jobs
    <3> QED
      BY <1>2, <3>1
  <2>4. zone \in [Users -> Zones]
    BY <2>3
  <2>5. jobs' = [jobs EXCEPT ![ty] = j]
    <3>1. jobs' = [jobs EXCEPT ![ty].at = "sending", ![ty].due = due, ![ty].todo = due,
                               ![ty].zone = [u \in Users |-> IF u \in due THEN settings[u].zone ELSE @[u]]]
      BY <1>2 DEF ListUsers
    <3> HIDE DEF due
    <3> QED
      BY <3>1, <2>1
  <2> HIDE DEF due, zone
  <2>6. j \in Jobs /\ j.at = "sending" /\ j.due = due /\ j.todo = due /\ j.absent = jobs[ty].absent /\ j.step = jobs[ty].step
    BY <2>1, <2>2, <2>4 DEF Jobs
  <2> HIDE DEF j
  <2>7. Listed(ty, "sending", due, due) /\ jobs'[ty].step = jobs[ty].step
    BY <2>5, <2>6, OneJob DEF Listed
  <2> QED
    BY <2>2, <2>7
<1> QED
  BY <1>1, <1>2

LEMMA BatchStarted ==
    ASSUME jobs \in [Types -> Jobs], NEW ty \in Types, StartBatch(ty)
    PROVE  \E batch \in SUBSET jobs[ty].todo :
              /\ Listed(ty, "sending", jobs[ty].due, jobs[ty].todo \ batch) /\ jobs'[ty].zone = jobs[ty].zone
              /\ \A u \in Users : jobs'[ty].step[u] = IF u \in batch THEN "lookup" ELSE jobs[ty].step[u]
<1>1. PICK batch \in SUBSET jobs[ty].todo :
         jobs' = [jobs EXCEPT ![ty].todo = @ \ batch, ![ty].step = [u \in Users |-> IF u \in batch THEN "lookup" ELSE @[u]]]
  BY DEF StartBatch, kSubset
<1> DEFINE step == [u \in Users |-> IF u \in batch THEN "lookup" ELSE jobs[ty].step[u]]
           j == [jobs[ty] EXCEPT !.todo = @ \ batch, !.step = step]
<1>2. jobs[ty] \in Jobs /\ DOMAIN jobs[ty] = {"at", "due", "todo", "zone", "absent", "step"} /\ jobs[ty].at = "sending"
  BY DEF Jobs, StartBatch
<1>3. step \in [Users -> Steps]
  BY <1>2 DEF Jobs, Steps
<1>4. jobs' = [jobs EXCEPT ![ty] = j]
  BY <1>1, <1>2
<1>5. \A u \in Users : step[u] = IF u \in batch THEN "lookup" ELSE jobs[ty].step[u]
  OBVIOUS
<1> HIDE DEF step
<1>6. /\ j \in Jobs /\ j.at = "sending" /\ j.due = jobs[ty].due /\ j.todo = jobs[ty].todo \ batch /\ j.zone = jobs[ty].zone
      /\ j.absent = jobs[ty].absent /\ j.step = step
  BY <1>2, <1>3 DEF Jobs
<1> HIDE DEF j
<1>7. Listed(ty, "sending", jobs[ty].due, jobs[ty].todo \ batch) /\ jobs'[ty].zone = jobs[ty].zone /\ jobs'[ty].step = step
  BY <1>4, <1>6, OneJob DEF Listed
<1> QED
  BY <1>5, <1>7

LEMMA FreshJobs ==
    ASSUME NotificationsAssumption
    PROVE  /\ IdleJob \in Jobs /\ [IdleJob EXCEPT !.at = "listing"] \in Jobs
           /\ \A u \in Users : IdleJob.step[u] = "none" /\ [IdleJob EXCEPT !.at = "listing"].step[u] = "none"
           /\ IdleJob.at = "idle" /\ [IdleJob EXCEPT !.at = "listing"].at = "listing"
BY DefaultZone DEF IdleJob, Jobs, Steps

\* The work for one user.
Reminds(ty, u) ==
    Lookup(ty, u) \/ Notify(ty, u) \/ NothingToSay(ty, u) \/ PushReminder(ty, u) \/ RecordRun(ty, u) \/ ReminderFails(ty, u)
JobSteps ==
    \/ \E ty \in Types : ListUsers(ty) \/ ListFails(ty) \/ StartBatch(ty) \/ JobIsOver(ty) \/ \E u \in Users : Reminds(ty, u)
    \/ Tick

LEMMA Reminding ==
    ASSUME jobs \in [Types -> Jobs], NEW ty \in Types, NEW u \in Users, Reminds(ty, u)
    PROVE  /\ jobs[ty].step[u] \in {"lookup", "notify", "push", "record"} /\ hour' = hour
           /\ \E step \in {"notify", "push", "record", "done", "dead"} :
                 /\ Moved(ty, u, step)
                 /\ step = "notify" => Lookup(ty, u)
                 /\ step = "push" => Notify(ty, u)
                 /\ step = "record" => PushReminder(ty, u)
<1>1. jobs[ty].step[u] \in {"lookup", "notify", "push", "record"} /\ hour' = hour
  BY DEF Reminds, Lookup, Notify, NothingToSay, PushReminder, RecordRun, ReminderFails
<1>2. CASE NothingToSay(ty, u)
  BY <1>1, <1>2, Absented
<1>3. PICK step \in {"notify", "push", "record", "done", "dead"} :
         /\ NothingToSay(ty, u) \/ Step(ty, u, step)
         /\ ~NothingToSay(ty, u) =>
               (step = "notify" => Lookup(ty, u)) /\ (step = "push" => Notify(ty, u)) /\ (step = "record" => PushReminder(ty, u))
  BY DEF Reminds, Lookup, Notify, PushReminder, RecordRun, ReminderFails
<1>4. CASE ~NothingToSay(ty, u)
  BY <1>1, <1>3, <1>4, Stepped DEF Steps
<1> QED
  BY <1>2, <1>4

LEMMA MovedTypes ==
    ASSUME JobTypes, NEW ty \in Types, NEW u \in Users, NEW step, Moved(ty, u, step),
           jobs[ty].step[u] # "none", hour' = hour, runs' \subseteq Users \X Types \X Days
    PROVE  JobTypes'
<1>1. Days' = Days /\ Jobs' = Jobs
  BY DEF Days, Jobs
<1>2. hour # 0 /\ jobs[ty].at # "listing"
  BY DEF JobTypes
<1> QED
  BY <1>1, <1>2 DEF JobTypes, Moved

LEMMA ListedTypes ==
    ASSUME JobTypes, NEW ty \in Types, NEW at \in {"idle", "sending", "over"}, NEW due, NEW todo, Listed(ty, at, due, todo),
           jobs[ty].at # "idle", UNCHANGED <<hour, runs>>
    PROVE  JobTypes'
<1>1. Days' = Days /\ Jobs' = Jobs
  BY DEF Days, Jobs
<1>2. hour # 0
  BY DEF JobTypes
<1> QED
  BY <1>1, <1>2 DEF JobTypes, Listed

LEMMA TodayIsADay ==
    ASSUME JobTypes, hour # 0, NEW ty \in Types, NEW u \in Users
    PROVE  Day(ty, u) \in Days /\ Notice(ty, u) \in Notices
<1>1. hour \in 1 .. hour /\ jobs[ty].zone[u] \in Zones
  BY DEF JobTypes, Jobs
<1> QED
  BY <1>1 DEF Days, Day, Notice, Notices

LEMMA JobStepTypes ==
    ASSUME TypeInv, NotificationsAssumption, JobSteps
    PROVE  JobTypes'
<1>a. JobTypes /\ AccountTypes /\ jobs \in [Types -> Jobs] /\ hour \in Nat
  BY DEF TypeInv, JobTypes
<1>1. ASSUME NEW ty \in Types, NEW u \in Users, Reminds(ty, u) PROVE JobTypes'
  <2>1. /\ jobs[ty].step[u] \in {"lookup", "notify", "push", "record"} /\ hour' = hour
        /\ \E step : Moved(ty, u, step)
    BY <1>a, <1>1, Reminding
  <2>2. hour # 0
    BY <1>a, <2>1 DEF JobTypes
  <2>3. runs' \subseteq Users \X Types \X Days
    <3>1. runs' \subseteq runs \cup {<<u, ty, Day(ty, u)>>}
      BY <1>1 DEF Reminds, Lookup, Notify, NothingToSay, PushReminder, RecordRun, ReminderFails
    <3> QED
      BY <1>a, <2>2, <3>1, TodayIsADay DEF JobTypes
  <2> QED
    BY <1>a, <2>1, <2>3, MovedTypes
<1>2. ASSUME NEW ty \in Types, ListUsers(ty) \/ ListFails(ty) \/ StartBatch(ty) \/ JobIsOver(ty) PROVE JobTypes'
  <2>1. jobs[ty].at \in {"listing", "sending"} /\ UNCHANGED <<hour, runs>>
    BY <1>2 DEF ListUsers, ListFails, StartBatch, JobIsOver
  <2>2. \E at \in {"idle", "sending", "over"}, due \in SUBSET Users, todo \in SUBSET Users : Listed(ty, at, due, todo)
    <3>0. jobs[ty].due \in SUBSET Users /\ jobs[ty].todo \in SUBSET Users
      BY <1>a DEF Jobs
    <3>1. CASE ListUsers(ty)
      BY <1>a, <3>0, <3>1, ListedUsers
    <3>2. CASE ListFails(ty) \/ JobIsOver(ty)
      BY <1>a, <3>0, <3>2, AtOnly DEF ListFails, JobIsOver
    <3>3. CASE StartBatch(ty)
      BY <1>a, <3>0, <3>3, BatchStarted
    <3> QED
      BY <1>2, <3>1, <3>2, <3>3
  <2> QED
    BY <1>a, <2>1, <2>2, ListedTypes
<1>3. ASSUME Tick PROVE JobTypes'
  <2> DEFINE j == [IdleJob EXCEPT !.at = "listing"]
  <2>1. j \in Jobs /\ j.at = "listing" /\ \A u \in Users : j.step[u] = "none"
    BY FreshJobs
  <2>2. jobs' = [ty \in Types |-> j] /\ hour' = hour + 1 /\ runs' = runs
    BY <1>3 DEF Tick
  <2> HIDE DEF j
  <2>3. Jobs' = Jobs /\ Days \subseteq Days'
    <3>1. 1 .. hour \subseteq 1 .. hour'
      BY <1>a, <2>2
    <3> QED
      BY <3>1 DEF Jobs, Days
  <2> QED
    BY <1>a, <2>1, <2>2, <2>3 DEF JobTypes
<1> QED
  BY <1>1, <1>2, <1>3 DEF JobSteps

\* What the jobs leave alone, and what they add to the notices.
LEMMA JobStepFrame ==
    ASSUME TypeInv, NotificationsAssumption, JobSteps
    PROVE  /\ UNCHANGED <<accountVars, kafkaVars, subscriber, paths, browser>>
           /\ stimuli' \in 0 .. MaxStimuli /\ crossed \subseteq crossed' /\ crossed' \subseteq Users
           /\ subs' \in [Browsers -> Users \cup {None}] /\ \A b \in Browsers : subs'[b] \in {subs[b], None}
<1>a. AccountTypes /\ PushTypes /\ MaxStimuli \in Nat
  BY DEF TypeInv, NotificationsAssumption
<1>1. /\ UNCHANGED <<accountVars, kafkaVars, subscriber, paths, browser>>
      /\ stimuli' = stimuli \/ Stimulus
      /\ crossed' = crossed \/ \E u \in Users : crossed' = crossed \cup {u}
      /\ subs' = subs \/ \E u \in Users : SendToUser(u)
  <2>1. CASE Tick
    BY <2>1 DEF Tick, jobFrame
  <2>2. ASSUME NEW ty \in Types, ListUsers(ty) \/ ListFails(ty) \/ StartBatch(ty) \/ JobIsOver(ty)
        PROVE  UNCHANGED <<jobFrame, subs>> /\ (stimuli' = stimuli \/ Stimulus)
    BY <2>2 DEF ListUsers, ListFails, StartBatch, JobIsOver
  <2>3. ASSUME NEW ty \in Types, NEW u \in Users,
               Lookup(ty, u) \/ Notify(ty, u) \/ NothingToSay(ty, u) \/ PushReminder(ty, u) \/ ReminderFails(ty, u)
        PROVE  UNCHANGED jobFrame /\ (stimuli' = stimuli \/ Stimulus) /\ (subs' = subs \/ SendToUser(u))
    BY <2>3 DEF Lookup, Notify, NothingToSay, PushReminder, ReminderFails
  <2>4. ASSUME NEW ty \in Types, NEW u \in Users, RecordRun(ty, u)
        PROVE  /\ UNCHANGED <<accountVars, kafkaVars, subscriber, paths, browser, subs, stimuli>>
               /\ crossed' = crossed \/ crossed' = crossed \cup {u}
    BY <2>4 DEF RecordRun
  <2>5. UNCHANGED jobFrame => UNCHANGED <<accountVars, kafkaVars, subscriber, paths, browser>> /\ crossed' = crossed
    BY DEF jobFrame
  <2> QED
    BY <2>1, <2>2, <2>3, <2>4, <2>5 DEF JobSteps, Reminds
<1>2. stimuli' \in 0 .. MaxStimuli
  BY <1>a, <1>1 DEF Stimulus, AccountTypes
<1>3. crossed \subseteq crossed' /\ crossed' \subseteq Users
  BY <1>a, <1>1 DEF AccountTypes
<1>4. subs' \in [Browsers -> Users \cup {None}] /\ \A b \in Browsers : subs'[b] \in {subs[b], None}
  BY <1>a, <1>1, SentToUser DEF PushTypes
<1> QED
  BY <1>1, <1>2, <1>3, <1>4

\* What the work for a user does to the inbox.
LEMMA Reminded ==
    ASSUME NEW ty \in Types, NEW u \in Users, Reminds(ty, u)
    PROVE  \/ UNCHANGED <<sent, twice>> /\ spoilt' = spoilt
           \/ UNCHANGED <<sent, twice>> /\ Behind(ty, u) /\ spoilt' = spoilt \cup {Notice(ty, u)} /\ ReminderFails(ty, u)
           \/ /\ Notify(ty, u) /\ spoilt' = spoilt
              /\ sent' = sent \cup {Notice(ty, u)} /\ twice' = twice \cup (sent \cap {Notice(ty, u)})
BY DEF Reminds, Lookup, Notify, NothingToSay, PushReminder, RecordRun, ReminderFails, Send, Behind, noticeVars

LEMMA MovedNotice ==
    ASSUME NEW ty \in Types, NEW u \in Users, NEW step, Moved(ty, u, step), hour' = hour
    PROVE  /\ \A o \in Types, v \in Users : Notice(o, v)' = Notice(o, v) /\ Day(o, v)' = Day(o, v)
           /\ \A o \in Types, v \in Users : o # ty \/ v # u => jobs'[o].step[v] = jobs[o].step[v]
BY DEF Moved, Notice, Day

LEMMA JobStepNotices ==
    ASSUME TypeInv, NotificationsAssumption, JobSteps
    PROVE  NoticeTypes'
<1>a. /\ NoticeTypes /\ JobTypes /\ jobs \in [Types -> Jobs] /\ hour \in Nat /\ UNCHANGED kafkaVars
      /\ events \in Nat /\ events' = events /\ hour' \in {hour, hour + 1}
  <2>1. NoticeTypes /\ JobTypes /\ jobs \in [Types -> Jobs] /\ hour \in Nat /\ events \in Nat
    BY DEF TypeInv, JobTypes, KafkaTypes
  <2>2. UNCHANGED kafkaVars /\ events' = events
    BY JobStepFrame DEF kafkaVars
  <2>3. hour' \in {hour, hour + 1}
    <3>1. CASE Tick
      BY <3>1 DEF Tick
    <3>2. ASSUME NEW ty \in Types, ListUsers(ty) \/ ListFails(ty) \/ StartBatch(ty) \/ JobIsOver(ty) PROVE hour' = hour
      BY <3>2 DEF ListUsers, ListFails, StartBatch, JobIsOver
    <3>3. ASSUME NEW ty \in Types, NEW u \in Users, Reminds(ty, u) PROVE hour' = hour
      BY <2>1, <3>3, Reminding
    <3> QED
      BY <3>1, <3>2, <3>3 DEF JobSteps
  <2> QED
    BY <2>1, <2>2, <2>3
<1>b. Notices \subseteq Notices'
  BY <1>a, MoreNotices
<1>c. (ReadyBehind => <<"ready", Message.id>> \in sent') => (ReadyBehind => <<"ready", Message.id>> \in sent)'
  BY <1>a DEF ReadyBehind, Message, kafkaVars
<1>1. ASSUME NEW ty \in Types, NEW u \in Users, Reminds(ty, u) PROVE NoticeTypes'
  <2>1. /\ jobs[ty].step[u] \in {"lookup", "notify", "push", "record"} /\ hour' = hour
        /\ \E step \in {"notify", "push", "record", "done", "dead"} :
              /\ Moved(ty, u, step)
              /\ step = "push" => Notify(ty, u)
              /\ step = "record" => PushReminder(ty, u)
    BY <1>a, <1>1, Reminding
  <2>2. PICK step \in {"notify", "push", "record", "done", "dead"} :
           Moved(ty, u, step) /\ (step = "push" => Notify(ty, u)) /\ (step = "record" => PushReminder(ty, u))
    BY <2>1
  <2>3. hour # 0
    BY <1>a, <2>1 DEF JobTypes
  <2>4. Notice(ty, u) \in Notices
    BY <1>a, <2>3, TodayIsADay
  <2>5. /\ sent \subseteq sent' /\ sent' \subseteq Notices /\ twice' \cup spoilt' \subseteq sent'
        /\ Notify(ty, u) => Notice(ty, u) \in sent'
    <3>1. Behind(ty, u) => Notice(ty, u) \in sent
      BY <1>a DEF NoticeTypes
    <3>2. Notify(ty, u) => Notice(ty, u) \in sent'
      BY DEF Notify, Send
    <3> QED
      BY <1>a, <1>1, <2>4, <3>1, <3>2, Reminded DEF NoticeTypes
  <2>6. PushReminder(ty, u) => Notice(ty, u) \in sent
    BY <1>a DEF PushReminder, NoticeTypes, Behind
  <2>7. ASSUME NEW o \in Types, NEW v \in Users, Behind(o, v)' PROVE Notice(o, v)' \in sent'
    <3>1. Notice(o, v)' = Notice(o, v) /\ (o # ty \/ v # u => jobs'[o].step[v] = jobs[o].step[v]) /\ jobs'[ty].step[u] = step
      BY <2>1, <2>2, MovedNotice DEF Moved
    <3>2. CASE o # ty \/ v # u
      BY <1>a, <2>5, <2>7, <3>1, <3>2 DEF Behind, NoticeTypes
    <3>3. CASE o = ty /\ v = u
      BY <2>2, <2>5, <2>6, <2>7, <3>1, <3>3 DEF Behind
    <3> QED
      BY <3>2, <3>3
  <2> QED
    BY <1>a, <1>b, <1>c, <2>5, <2>7 DEF NoticeTypes
<1>2. ASSUME NEW ty \in Types, ListUsers(ty) \/ ListFails(ty) \/ StartBatch(ty) \/ JobIsOver(ty) PROVE NoticeTypes'
  <2>1. jobs[ty].at \in {"listing", "sending"} /\ hour' = hour /\ UNCHANGED noticeVars
    BY <1>2 DEF ListUsers, ListFails, StartBatch, JobIsOver
  <2>2. ASSUME NEW o \in Types, NEW v \in Users, Behind(o, v)' PROVE Behind(o, v) /\ Notice(o, v)' = Notice(o, v)
    <3>1. CASE ListUsers(ty)
      <4>1. /\ \A x \in Types : x # ty => jobs'[x] = jobs[x]
            /\ jobs'[ty].step = jobs[ty].step
        BY <1>a, <3>1, ListedUsers DEF Listed, Untouched, TypeInv
      <4>2. jobs[ty].step[v] = "none"
        BY <1>a, <3>1 DEF ListUsers, JobTypes
      <4> QED
        BY <2>1, <2>2, <4>1, <4>2 DEF Behind, Notice, Day
    <3>2. CASE ListFails(ty) \/ JobIsOver(ty)
      <4>1. /\ \A x \in Types : x # ty => jobs'[x] = jobs[x]
            /\ jobs'[ty].step = jobs[ty].step /\ jobs'[ty].zone = jobs[ty].zone
        BY <1>a, <3>2, AtOnly DEF Listed, Untouched, ListFails, JobIsOver
      <4> QED
        BY <2>1, <2>2, <4>1 DEF Behind, Notice, Day
    <3>3. CASE StartBatch(ty)
      <4>1. /\ \A x \in Types : x # ty => jobs'[x] = jobs[x]
            /\ jobs'[ty].zone = jobs[ty].zone /\ jobs'[ty].step[v] \in {"lookup", jobs[ty].step[v]}
        BY <1>a, <3>3, BatchStarted DEF Listed
      <4> QED
        BY <2>1, <2>2, <4>1 DEF Behind, Notice, Day
    <3> QED
      BY <1>2, <3>1, <3>2, <3>3
  <2> QED
    BY <1>a, <1>b, <1>c, <2>1, <2>2 DEF NoticeTypes, noticeVars
<1>3. ASSUME Tick PROVE NoticeTypes'
  <2>1. UNCHANGED noticeVars /\ \A ty \in Types, u \in Users : jobs'[ty].step[u] = "none"
    BY <1>3, FreshJobs DEF Tick
  <2> QED
    BY <1>a, <1>b, <1>c, <2>1 DEF NoticeTypes, noticeVars, Behind
<1> QED
  BY <1>1, <1>2, <1>3 DEF JobSteps

LEMMA RestartTypes ==
    ASSUME TypeInv, NotificationsAssumption, Restart
    PROVE  TypeInv'
<1>a. AccountTypes /\ KafkaTypes /\ JobTypes /\ PushTypes /\ NoticeTypes
  BY DEF TypeInv
<1>1. /\ UNCHANGED <<accountVars, queue, events, processed, subscriber, paths, runs, hour, pushVars, sent, twice, crossed>>
      /\ consumer' = Idle /\ jobs' = [ty \in Types |-> IdleJob]
  BY DEF Restart
<1>2. KafkaTypes'
  BY <1>a, <1>1 DEF KafkaTypes, Idle, Consumers, Events, Topics, Paths
<1>3. JobTypes'
  <2>1. Days' = Days /\ Jobs' = Jobs
    BY <1>1 DEF Days, Jobs
  <2>2. \A ty \in Types : jobs'[ty] = IdleJob
    BY <1>1
  <2>3. jobs' \in [Types -> Jobs]
    BY <1>1, FreshJobs
  <2>4. \A ty \in Types : jobs'[ty].at = "idle" /\ \A u \in Users : jobs'[ty].step[u] = "none"
    BY <2>2, FreshJobs
  <2> QED
    BY <1>a, <1>1, <2>1, <2>3, <2>4 DEF JobTypes
<1>4. PushTypes'
  BY <1>a, <1>1, SamePush
<1>5. NoticeTypes'
  <2>1. SpoiltEvent \subseteq sent
    BY <1>a DEF SpoiltEvent, At, NoticeTypes, ReadyBehind
  <2>2. ASSUME NEW ty \in Types PROVE Unrecorded(ty) \subseteq sent
    BY <1>a DEF Unrecorded, NoticeTypes, Behind
  <2>3. spoilt' \subseteq sent
    BY <1>a, <2>1, <2>2 DEF Restart, NoticeTypes
  <2>4. Notices' = Notices
    BY <1>1 DEF Notices, Days
  <2>5. \A ty \in Types, u \in Users : ~Behind(ty, u)'
    BY <1>1, FreshJobs DEF Behind
  <2>6. ~ReadyBehind'
    BY <1>1 DEF ReadyBehind, Idle
  <2> QED
    BY <1>a, <1>1, <2>3, <2>4, <2>5, <2>6 DEF NoticeTypes
<1>6. AccountTypes'
  BY <1>a, <1>1 DEF AccountTypes, accountVars, Restart, Stimulus, NotificationsAssumption
<1> QED
  BY <1>2, <1>3, <1>4, <1>5, <1>6 DEF TypeInv

LEMMA JobStepsKeepTypes ==
    ASSUME TypeInv, NotificationsAssumption, JobSteps
    PROVE  TypeInv'
<1>1. /\ UNCHANGED <<accountVars, kafkaVars, subscriber, paths, browser>>
      /\ stimuli' \in 0 .. MaxStimuli /\ crossed' \subseteq Users /\ subs' \in [Browsers -> Users \cup {None}]
  BY JobStepFrame
<1>2. AccountTypes' /\ KafkaTypes' /\ PushTypes'
  BY <1>1, SameKafka DEF TypeInv, AccountTypes, PushTypes, accountVars
<1> QED
  BY <1>2, JobStepTypes, JobStepNotices DEF TypeInv

-----------------------------------------------------------------------------
(* Types of all steps.                                                      *)

\* The steps by the part of the system they are of.
AccountSteps ==
    \/ \E u \in Users : Register(u) \/ ChangeProfile(u) \/ DeleteAccount(u) \/ \E s \in Settings : UpdateSettings(u, s)
    \/ \E d \in DOMAIN hooks : WriteUser(d) \/ PublishFails(d) \/ AnswerLost(d)
    \/ RestartUserService
PublisherSteps == (\E d \in DOMAIN hooks : PublishUser(d)) \/ (\E u \in Users : EmitReady(u))
PromptSteps ==
    \E b \in Browsers :
        \/ Dismiss(b) \/ Accept(b) \/ ClearBrowser(b) \/ MayAskAgain(b)
        \/ PermissionAnswered(b) \/ SaveSubscription(b) \/ SubscribeFails(b)
        \/ \E u \in Users : OpenApp(b, u) \/ RemoveSubscription(b, u)

LEMMA AllSteps ==
    ASSUME Next
    PROVE  AccountSteps \/ PublisherSteps \/ PromptSteps \/ Consumes \/ JobSteps \/ Restart
<1>1. Clerk => AccountSteps
  BY DEF Clerk, AccountSteps
<1>2. UserService => AccountSteps \/ PublisherSteps
  BY DEF UserService, AccountSteps, PublisherSteps
<1>3. RestartUserService => AccountSteps
  BY DEF AccountSteps
<1>4. Consuming \/ DeletePaths => Consumes
  BY DEF Consuming, Consumes
<1>5. Tick \/ (\E ty \in Types : JobRuns(ty)) => JobSteps
  BY DEF JobRuns, JobSteps, Reminds
<1>6. Learner => AccountSteps \/ PublisherSteps \/ PromptSteps
  BY DEF Learner, AccountSteps, PublisherSteps, PromptSteps
<1>7. Prompt => PromptSteps
  BY DEF Prompt, PromptSteps
<1>8. Failures => AccountSteps \/ Consumes \/ JobSteps \/ Restart \/ PromptSteps
  BY DEF Failures, AccountSteps, Consumes, JobSteps, Reminds, PromptSteps
<1> QED
  BY <1>1, <1>2, <1>3, <1>4, <1>5, <1>6, <1>7, <1>8 DEF Next

LEMMA TypeStep == ASSUME TypeInv, NotificationsAssumption, [Next]_vars PROVE TypeInv'
<1>1. CASE UNCHANGED vars
  <2>1. UNCHANGED <<accountVars, kafkaVars, subscriber, paths, jobVars, pushVars, noticeVars, crossed, stimuli>>
    BY <1>1 DEF vars
  <2> QED
    BY <2>1, SameKafka, SameJobs, SamePush, SameNotices DEF TypeInv, AccountTypes, accountVars
<1>2. ASSUME NEW b \in Browsers,
             \/ Dismiss(b) \/ Accept(b) \/ ClearBrowser(b) \/ MayAskAgain(b)
             \/ PermissionAnswered(b) \/ SaveSubscription(b) \/ SubscribeFails(b)
             \/ \E u \in Users : OpenApp(b, u) \/ RemoveSubscription(b, u)
      PROVE  TypeInv'
  BY <1>2, PromptTypes
<1> QED
  BY <1>1, <1>2, AllSteps, AccountStepTypes, PublisherTypes, ConsumingTypes, JobStepsKeepTypes, RestartTypes
     DEF AccountSteps, PublisherSteps, PromptSteps

LEMMA TypeInit == ASSUME NotificationsAssumption, Init PROVE TypeInv
<1>1. PICK start \in Starts :
         /\ clerk = [u \in Users |-> IF start[u] = "none" THEN [state |-> "none", address |-> 0] ELSE [state |-> "active", address |-> 1]]
         /\ paths = {u \in Users : start[u] = "reminder"}
         /\ settings \in [Users -> {s \in Settings : s.zone # UnknownZone}]
  BY DEF Init
<1>2. clerk \in [Users -> [state : {"none", "active", "deleted"}, address : 0 .. MaxAddress]]
  BY <1>1 DEF NotificationsAssumption
<1>3. row \in [Users -> 0 .. MaxAddress] /\ subscriber = row
  BY <1>2 DEF Init
<1>4. settings \in [Users -> Settings]
  BY <1>1
<1>5. AccountTypes
  BY <1>1, <1>2, <1>3, <1>4 DEF Init, AccountTypes, NotificationsAssumption
<1>6. KafkaTypes
  <2>1. queue = [t \in Topics |-> <<>>] /\ events = 0 /\ consumer = Idle /\ processed = {}
    BY DEF Init
  <2>2. <<>> \in Seq(Events)
    OBVIOUS
  <2>3. Idle \in Consumers /\ Idle.at = "idle" /\ Idle.topic = "ready"
    BY DEF Idle, Consumers, Topics
  <2> QED
    BY <2>1, <2>2, <2>3 DEF KafkaTypes, Paths
<1>7. JobTypes
  BY FreshJobs DEF Init, JobTypes
<1>8. PushTypes
  BY DEF Init, PushTypes, BrowserStates
<1>9. NoticeTypes
  BY FreshJobs DEF Init, NoticeTypes, ReadyBehind, Behind, Idle
<1> QED
  BY <1>5, <1>6, <1>7, <1>8, <1>9 DEF TypeInv

LEMMA TypesOK == TypeInv => TypeOK
<1> SUFFICES ASSUME TypeInv PROVE TypeOK
  OBVIOUS
<1>1. \A d \in DOMAIN hooks : hooks[d] \in Hooks
  BY DEF TypeInv, AccountTypes
<1>2. \A t \in Topics : \A n \in DOMAIN queue[t] : queue[t][n] \in Events
  <2> SUFFICES ASSUME NEW t \in Topics, NEW n \in DOMAIN queue[t] PROVE queue[t][n] \in Events
    OBVIOUS
  <2>1. queue[t] \in Seq(Events)
    BY DEF TypeInv, KafkaTypes
  <2> QED
    BY <2>1
<1> QED
  BY <1>1, <1>2 DEF TypeInv, AccountTypes, KafkaTypes, JobTypes, PushTypes, NoticeTypes, TypeOK

-----------------------------------------------------------------------------
(* Events have ids of their own.                                            *)

\* On the topics of notification-service.  An event is recorded at the head of its
\* topic only, by the end of its handler.
IdInv ==
    /\ \A t, s \in Consumed : \A m \in DOMAIN queue[t], n \in DOMAIN queue[s] :
          queue[t][m].id = queue[s][n].id => t = s /\ m = n
    /\ \A t \in Consumed : \A n \in DOMAIN queue[t] : queue[t][n].id \in processed => n = 1
    /\ consumer.at = "commit" => Message.id \in processed
    /\ consumer.at \notin {"idle", "commit"} => Message.id \notin processed

LEMMA SameIds ==
    ASSUME IdInv, UNCHANGED <<queue, processed>>,
           \/ consumer'.at = "idle"
           \/ consumer'.topic = consumer.topic /\ consumer'.at = consumer.at
    PROVE  IdInv'
<1>1. (\A t, s \in Consumed : \A m \in DOMAIN queue[t], n \in DOMAIN queue[s] :
          queue[t][m].id = queue[s][n].id => t = s /\ m = n)'
  <2>1. \A t, s \in Consumed : \A m \in DOMAIN queue[t], n \in DOMAIN queue[s] :
           queue[t][m].id = queue[s][n].id => t = s /\ m = n
    BY DEF IdInv
  <2>2. queue' = queue /\ Consumed' = Consumed
    BY DEF Consumed, Topics
  <2>3. SUFFICES ASSUME NEW t \in Consumed, NEW s \in Consumed, NEW m \in DOMAIN queue[t], NEW n \in DOMAIN queue[s],
                        queue[t][m].id = queue[s][n].id
                 PROVE  t = s /\ m = n
    BY <2>2
  <2> QED
    BY <2>1, <2>3
<1>2. (\A t \in Consumed : \A n \in DOMAIN queue[t] : queue[t][n].id \in processed => n = 1)'
  BY DEF IdInv, Consumed, Topics
<1>3. /\ (consumer.at = "commit" => Message.id \in processed)'
      /\ (consumer.at \notin {"idle", "commit"} => Message.id \notin processed)'
  BY DEF IdInv, Message
<1> QED
  BY <1>1, <1>2, <1>3 DEF IdInv

LEMMA Appended ==
    ASSUME NEW S, NEW q \in Seq(S), NEW e
    PROVE  /\ DOMAIN Append(q, e) = 1 .. Len(q) + 1 /\ DOMAIN q = 1 .. Len(q) /\ Len(q) \in Nat
           /\ \A n \in DOMAIN Append(q, e) :
                 \/ n \in DOMAIN q /\ Append(q, e)[n] = q[n]
                 \/ n = Len(q) + 1 /\ Append(q, e)[n] = e
           /\ \A n \in DOMAIN q : n \in DOMAIN Append(q, e) /\ Append(q, e)[n] = q[n]
OBVIOUS

LEMMA Tailed ==
    ASSUME NEW S, NEW q \in Seq(S), q # <<>>
    PROVE  /\ DOMAIN q = 1 .. Len(q) /\ Len(q) \in Nat \ {0} /\ DOMAIN Tail(q) = 1 .. Len(q) - 1
           /\ \A n \in DOMAIN Tail(q) : n \in Nat \ {0} /\ n + 1 \in DOMAIN q /\ Tail(q)[n] = q[n + 1]
           /\ \A n \in DOMAIN q : n # 1 => n - 1 \in DOMAIN Tail(q) /\ Tail(q)[n - 1] = q[n]
OBVIOUS

\* Ids on a topic are those of events published so far.
LEMMA KnownIds ==
    ASSUME KafkaTypes, NEW t \in Topics, NEW n \in DOMAIN queue[t]
    PROVE  /\ queue[t][n] \in Events /\ queue[t][n].id \in 1 .. events /\ queue[t][n].user \in Users /\ n \in Nat \ {0}
           /\ queue[t] # <<>> /\ queue[t] \in Seq(Events)
<1>1. queue[t] \in Seq(Events)
  BY DEF KafkaTypes
<1>2. queue[t][n] \in Events /\ n \in Nat \ {0} /\ queue[t] # <<>>
  BY <1>1
<1> QED
  BY <1>1, <1>2 DEF Events

LEMMA PublishedIds ==
    ASSUME KafkaTypes, IdInv, NEW e, NEW ts, Published(e, ts), \A t, s \in ts \cap Consumed : t = s
    PROVE  IdInv'
<1>a. /\ events \in Nat /\ queue \in [Topics -> Seq(Events)] /\ Consumed \subseteq Topics /\ processed \subseteq 1 .. events
      /\ e.id = events + 1 /\ processed' = processed /\ consumer' = consumer
  BY DEF KafkaTypes, Published, Consumed
<1>1. ASSUME NEW t \in Consumed, NEW n \in DOMAIN queue'[t]
      PROVE  \/ n \in DOMAIN queue[t] /\ queue'[t][n] = queue[t][n] /\ queue'[t][n].id \in 1 .. events
             \/ t \in ts /\ n = Len(queue[t]) + 1 /\ queue'[t][n] = e
  <2>1. t \in Topics /\ queue[t] \in Seq(Events) /\ queue'[t] = IF t \in ts THEN Append(queue[t], e) ELSE queue[t]
    BY <1>a DEF Published
  <2>2. \/ n \in DOMAIN queue[t] /\ queue'[t][n] = queue[t][n]
        \/ t \in ts /\ n = Len(queue[t]) + 1 /\ queue'[t][n] = e
    BY <1>1, <2>1, Appended
  <2> QED
    BY <2>1, <2>2, KnownIds
<1>2. \A t, s \in Consumed : \A m \in DOMAIN queue'[t], n \in DOMAIN queue'[s] : queue'[t][m].id = queue'[s][n].id => t = s /\ m = n
  <2> SUFFICES ASSUME NEW t \in Consumed, NEW s \in Consumed, NEW m \in DOMAIN queue'[t], NEW n \in DOMAIN queue'[s],
                      queue'[t][m].id = queue'[s][n].id
               PROVE  t = s /\ m = n
    OBVIOUS
  <2>1. \/ m \in DOMAIN queue[t] /\ queue'[t][m] = queue[t][m] /\ queue'[t][m].id \in 1 .. events
        \/ t \in ts /\ m = Len(queue[t]) + 1 /\ queue'[t][m].id = events + 1
    BY <1>1, <1>a
  <2>2. \/ n \in DOMAIN queue[s] /\ queue'[s][n] = queue[s][n] /\ queue'[s][n].id \in 1 .. events
        \/ s \in ts /\ n = Len(queue[s]) + 1 /\ queue'[s][n].id = events + 1
    BY <1>1, <1>a
  <2>3. events + 1 \notin 1 .. events
    BY <1>a
  <2> QED
    BY <2>1, <2>2, <2>3 DEF IdInv
<1>3. \A t \in Consumed : \A n \in DOMAIN queue'[t] : queue'[t][n].id \in processed' => n = 1
  <2>1. events + 1 \notin processed
    BY <1>a
  <2> QED
    BY <1>1, <1>a, <2>1 DEF IdInv
<1>4. consumer.at # "idle" => Message' = Message
  BY <1>a, Publication, MessageStays
<1> QED
  BY <1>2, <1>3, <1>4, <1>a DEF IdInv, Consumed, Topics

LEMMA ConsumingIds ==
    ASSUME TypeInv, IdInv, Consumes
    PROVE  IdInv'
<1>a. KafkaTypes /\ queue \in [Topics -> Seq(Events)] /\ Consumed \subseteq Topics /\ Consumed' = Consumed
  BY DEF TypeInv, KafkaTypes, Consumed, Topics
<1>1. ASSUME NEW t \in Topics, Take(t) PROVE IdInv'
  <2>1. UNCHANGED <<queue, processed>> /\ t \in Consumed /\ consumer'.topic = t
        /\ consumer'.at = IF queue[t][1].id \in processed THEN "commit" ELSE "handle"
    BY <1>1 DEF Take, Consumed, Paths
  <2> QED
    BY <1>a, <2>1 DEF IdInv, Message
<1>2. ASSUME HandleUserUpserted \/ DeleteRuns \/ DeleteSubscriptions \/ DeleteSubscriber \/ HandleReady \/ PushReady
      PROVE  IdInv'
  <2>1. UNCHANGED <<queue, processed>> /\ consumer.at \notin {"idle", "commit"} /\ \E step \in {"rows", "novu", "push", "record"} : GoTo(step)
    BY <1>2 DEF HandleUserUpserted, DeleteRuns, DeleteSubscriptions, DeleteSubscriber, HandleReady, PushReady, At
  <2>2. consumer'.at \notin {"idle", "commit"} /\ consumer'.topic = consumer.topic
    BY <1>a, <2>1, GoesTo
  <2> QED
    BY <1>a, <2>1, <2>2 DEF IdInv, Message
<1>3. ASSUME RecordEvent PROVE IdInv'
  <2>1. queue' = queue /\ consumer.at = "record" /\ GoTo("commit") /\ processed' = processed \cup {Message.id}
    BY <1>3 DEF RecordEvent, At
  <2>2. consumer'.at = "commit" /\ consumer'.topic = consumer.topic
    BY <1>a, <2>1, GoesTo
  <2>3. consumer.topic \in Consumed /\ queue[consumer.topic] # <<>> /\ 1 \in DOMAIN queue[consumer.topic]
    BY <1>a, <2>1, AtWork, Head1
  <2>4. \A t \in Consumed : \A n \in DOMAIN queue[t] : queue[t][n].id = Message.id => n = 1
    BY <2>3 DEF IdInv, Message
  <2>5. \A t \in Consumed : \A n \in DOMAIN queue[t] : queue[t][n].id \in processed' => n = 1
    BY <2>1, <2>4 DEF IdInv
  <2> QED
    BY <1>a, <2>1, <2>2, <2>5 DEF IdInv, Message
<1>t. ASSUME NEW t \in Topics, queue[t] # <<>>, queue' = [queue EXCEPT ![t] = Tail(@)]
      PROVE  \A s \in Topics : \A n \in DOMAIN queue'[s] :
                \/ s = t /\ n \in Nat /\ n + 1 \in DOMAIN queue[s] /\ queue'[s][n] = queue[s][n + 1]
                \/ s # t /\ n \in DOMAIN queue[s] /\ queue'[s][n] = queue[s][n]
  <2> SUFFICES ASSUME NEW s \in Topics, NEW n \in DOMAIN queue'[s]
               PROVE  \/ s = t /\ n \in Nat /\ n + 1 \in DOMAIN queue[s] /\ queue'[s][n] = queue[s][n + 1]
                      \/ s # t /\ n \in DOMAIN queue[s] /\ queue'[s][n] = queue[s][n]
    OBVIOUS
  <2>1. queue[t] \in Seq(Events) /\ queue'[s] = IF s = t THEN Tail(queue[t]) ELSE queue[s]
    BY <1>a, <1>t
  <2>2. CASE s = t
    <3>1. n \in DOMAIN Tail(queue[t]) /\ queue'[s][n] = Tail(queue[t])[n]
      BY <2>1, <2>2
    <3>2. n \in Nat /\ n + 1 \in DOMAIN queue[t] /\ Tail(queue[t])[n] = queue[t][n + 1]
      BY <1>t, <2>1, <3>1, Tailed
    <3> QED
      BY <2>2, <3>1, <3>2
  <2>3. CASE s # t
    BY <2>1, <2>3
  <2> QED
    BY <2>2, <2>3
<1>d. ASSUME NEW t \in Topics, queue[t] # <<>>, queue' = [queue EXCEPT ![t] = Tail(@)]
      PROVE  \A u, s \in Consumed : \A m \in DOMAIN queue'[u], n \in DOMAIN queue'[s] :
                queue'[u][m].id = queue'[s][n].id => u = s /\ m = n
  <2> SUFFICES ASSUME NEW u \in Consumed, NEW s \in Consumed, NEW m \in DOMAIN queue'[u], NEW n \in DOMAIN queue'[s],
                      queue'[u][m].id = queue'[s][n].id
               PROVE  u = s /\ m = n
    OBVIOUS
  <2>1. PICK i \in DOMAIN queue[u] : queue'[u][m] = queue[u][i] /\ (u = t => m \in Nat /\ i = m + 1) /\ (u # t => i = m)
    BY <1>a, <1>d, <1>t
  <2>2. PICK j \in DOMAIN queue[s] : queue'[s][n] = queue[s][j] /\ (s = t => n \in Nat /\ j = n + 1) /\ (s # t => j = n)
    BY <1>a, <1>d, <1>t
  <2>3. u = s /\ i = j
    BY <2>1, <2>2 DEF IdInv
  <2> QED
    BY <2>1, <2>2, <2>3
<1>4. ASSUME Commit PROVE IdInv'
  <2>1. /\ consumer.at = "commit" /\ queue' = [queue EXCEPT ![consumer.topic] = Tail(@)]
        /\ consumer' = Idle /\ processed' = processed
    BY <1>4 DEF Commit, At
  <2>2. consumer.topic \in Consumed /\ consumer.topic \in Topics /\ queue[consumer.topic] # <<>> /\ 1 \in DOMAIN queue[consumer.topic]
    BY <1>a, <2>1, AtWork, Head1
  <2>3. \A s \in Consumed : \A n \in DOMAIN queue'[s] : queue'[s][n].id \in processed => n = 1
    <3> SUFFICES ASSUME NEW s \in Consumed, NEW n \in DOMAIN queue'[s], queue'[s][n].id \in processed PROVE n = 1
      OBVIOUS
    <3>1. CASE s = consumer.topic
      <4>1. n \in Nat /\ n + 1 \in DOMAIN queue[s] /\ queue'[s][n] = queue[s][n + 1]
        BY <1>a, <1>t, <2>1, <2>2, <3>1
      <4>2. n + 1 = 1
        BY <4>1 DEF IdInv
      <4>3. n = 0 /\ n \in Nat \ {0}
        <5>1. KafkaTypes' /\ queue'[s] \in Seq(Events')
          BY ConsumingKafka, <1>a DEF KafkaTypes
        <5> QED
          BY <4>1, <4>2, <5>1
      <4> QED
        BY <4>3
    <3>2. CASE s # consumer.topic
      BY <1>a, <1>t, <2>1, <2>2, <3>2 DEF IdInv
    <3> QED
      BY <3>1, <3>2
  <2>4. consumer'.at = "idle"
    BY <2>1 DEF Idle
  <2> QED
    BY <1>a, <1>d, <2>1, <2>2, <2>3, <2>4 DEF IdInv
<1>5. ASSUME HandlerFails PROVE IdInv'
  BY <1>a, <1>5 DEF IdInv, HandlerFails, Idle
<1>6. ASSUME DeletePaths PROVE IdInv'
  <2>1. /\ Paths \in Topics /\ queue[Paths] # <<>> /\ queue' = [queue EXCEPT ![Paths] = Tail(@)]
        /\ UNCHANGED <<consumer, processed>>
    BY <1>6 DEF DeletePaths, Paths, Topics
  <2>2. \A s \in Consumed : queue'[s] = queue[s]
    BY <1>a, <2>1 DEF Consumed
  <2>3. consumer.topic \in Consumed
    BY <1>a DEF KafkaTypes, Consumers, Consumed
  <2>4. \A s, t \in Consumed : \A m \in DOMAIN queue'[s], n \in DOMAIN queue'[t] : queue'[s][m].id = queue'[t][n].id => s = t /\ m = n
    BY <2>2 DEF IdInv
  <2>5. \A t \in Consumed : \A n \in DOMAIN queue'[t] : queue'[t][n].id \in processed' => n = 1
    BY <2>1, <2>2 DEF IdInv
  <2>6. Message' = Message
    BY <2>1, <2>2, <2>3 DEF Message
  <2> QED
    BY <1>a, <2>1, <2>4, <2>5, <2>6 DEF IdInv
<1> QED
  BY <1>1, <1>2, <1>3, <1>4, <1>5, <1>6 DEF Consumes

LEMMA IdStep == ASSUME TypeInv, NotificationsAssumption, IdInv, [Next]_vars PROVE IdInv'
<1>1. CASE UNCHANGED kafkaVars
  <2>1. UNCHANGED <<queue, consumer, processed>>
    BY <1>1 DEF kafkaVars
  <2> QED
    BY <2>1, SameIds
<1>2. CASE PublisherSteps
  <2>1. PICK e, ts : Published(e, ts) /\ \A t, s \in ts \cap Consumed : t = s
    <3>1. ASSUME NEW d \in DOMAIN hooks, PublishUser(d)
          PROVE  \E e, ts : Published(e, ts) /\ \A t, s \in ts \cap Consumed : t = s
      <4> DEFINE e == [id |-> events + 1, user |-> hooks[d].user, address |-> hooks[d].address]
                 ts == IF hooks[d].kind = "upsert" THEN {Upserts} ELSE {Deletes, Paths}
      <4>1. Published(e, ts)
        BY <3>1, Publishers
      <4>2. \A t, s \in ts \cap Consumed : t = s
        BY DEF Consumed
      <4> HIDE DEF e, ts
      <4> QED
        BY <4>1, <4>2
    <3>2. ASSUME NEW u \in Users, EmitReady(u)
          PROVE  \E e, ts : Published(e, ts) /\ \A t, s \in ts \cap Consumed : t = s
      <4>1. Published([id |-> events + 1, user |-> u, address |-> 0], {"ready"})
        BY <3>2, Publishers
      <4>2. \A t, s \in {"ready"} \cap Consumed : t = s
        OBVIOUS
      <4> QED
        BY <4>1, <4>2
    <3> QED
      BY <1>2, <3>1, <3>2 DEF PublisherSteps
  <2> QED
    BY <2>1, PublishedIds DEF TypeInv
<1>3. CASE Consumes
  BY <1>3, ConsumingIds
<1>4. CASE Restart
  <2>1. UNCHANGED <<queue, processed>> /\ consumer'.at = "idle"
    BY <1>4 DEF Restart, Idle
  <2> QED
    BY <2>1, SameIds
<1>5. AccountSteps \/ PromptSteps \/ JobSteps => UNCHANGED kafkaVars
  <2>1. AccountSteps => UNCHANGED kafkaVars
    BY DEF AccountSteps, Register, ChangeProfile, DeleteAccount, UpdateSettings, WriteUser, PublishFails, AnswerLost,
           RestartUserService, clerkFrame
  <2>2. PromptSteps => UNCHANGED kafkaVars
    BY DEF PromptSteps, pushFrame, Dismiss, Accept, ClearBrowser, MayAskAgain, PermissionAnswered, SaveSubscription, SubscribeFails,
           OpenApp, RemoveSubscription
  <2> QED
    BY <2>1, <2>2, JobStepFrame
<1>6. CASE UNCHANGED vars
  BY <1>1, <1>6 DEF vars
<1> QED
  BY <1>1, <1>2, <1>3, <1>4, <1>5, <1>6, AllSteps

LEMMA IdInit == ASSUME Init PROVE IdInv
BY DEF Init, IdInv, Idle, Consumed

-----------------------------------------------------------------------------
(* Webhooks in order.                                                       *)

Deleted(u) == clerk[u].state = "deleted"
HasHook(u) == \E d \in DOMAIN hooks : hooks[d].user = u
LastHook(d, u) ==
    /\ d \in DOMAIN hooks /\ hooks[d].user = u
    /\ \A e \in DOMAIN hooks : e > d => hooks[e].user # u
ClerkAddress(u) == IF clerk[u].state = "active" THEN clerk[u].address ELSE 0
About(q, u) == \E n \in DOMAIN q : q[n].user = u

\* The last webhook of a user says what Clerk has; only deleted users are said to
\* be; one without a webhook is where the start left it.
HookInv ==
    /\ \A u \in Users : HasHook(u) => clerk[u].state # "none" /\ \E d \in DOMAIN hooks : LastHook(d, u)
    /\ \A u \in Users : \A d \in DOMAIN hooks : LastHook(d, u) =>
          hooks[d].address = ClerkAddress(u) /\ hooks[d].kind = IF Deleted(u) THEN "delete" ELSE "upsert"
    /\ \A u \in Users : \A d \in DOMAIN hooks : hooks[d].kind = "delete" /\ hooks[d].user = u => Deleted(u)
    /\ \A u \in Users : About(queue[Deletes], u) \/ About(queue[Paths], u) => Deleted(u)
    /\ \A u \in Users : About(queue[Upserts], u) => HasHook(u)
    /\ \A u \in Users : ~HasHook(u) => ~Deleted(u) /\ row[u] = ClerkAddress(u) /\ subscriber[u] = row[u]

\* Clerk makes a webhook of what it now has.
NewHook(u, hook) ==
    /\ hook \in Hooks /\ hook.user = u /\ hook.at = "sent" /\ hooks' = Append(hooks, hook)
    /\ hook.address = ClerkAddress(u)' /\ hook.kind = IF Deleted(u)' THEN "delete" ELSE "upsert"
    /\ ~Deleted(u) /\ clerk'[u].state # "none"
    /\ \A v \in Users : v # u => clerk'[v] = clerk[v]
    /\ UNCHANGED clerkFrame

LEMMA ClerkSteps ==
    ASSUME TypeInv, NotificationsAssumption, NEW u \in Users, Register(u) \/ ChangeProfile(u) \/ DeleteAccount(u)
    PROVE  \E hook : NewHook(u, hook)
<1>a. /\ clerk \in [Users -> [state : {"none", "active", "deleted"}, address : 0 .. MaxAddress]]
      /\ MaxAddress \in Nat \ {0}
  BY DEF TypeInv, AccountTypes, NotificationsAssumption
<1>1. CASE Register(u)
  <2> DEFINE hook == [kind |-> "upsert", user |-> u, address |-> 1, at |-> "sent"]
  <2>1. hook \in Hooks /\ hook.user = u /\ hook.at = "sent" /\ hook.address = 1 /\ hook.kind = "upsert"
    BY <1>a DEF Hooks
  <2>2. hooks' = Append(hooks, hook) /\ clerk' = [clerk EXCEPT ![u] = [state |-> "active", address |-> 1]]
        /\ clerk[u].state = "none" /\ UNCHANGED clerkFrame
    BY <1>1 DEF Register, Hook
  <2> HIDE DEF hook
  <2> QED
    BY <1>a, <2>1, <2>2 DEF NewHook, ClerkAddress, Deleted
<1>2. CASE ChangeProfile(u)
  <2> DEFINE hook == [kind |-> "upsert", user |-> u, address |-> clerk[u].address + 1, at |-> "sent"]
  <2>0. clerk[u].address + 1 \in 0 .. MaxAddress
    BY <1>a, <1>2 DEF ChangeProfile
  <2>1. hook \in Hooks /\ hook.user = u /\ hook.at = "sent" /\ hook.address = clerk[u].address + 1 /\ hook.kind = "upsert"
    BY <2>0 DEF Hooks
  <2>2. hooks' = Append(hooks, hook) /\ clerk' = [clerk EXCEPT ![u].address = @ + 1]
        /\ clerk[u].state = "active" /\ UNCHANGED clerkFrame
    BY <1>2 DEF ChangeProfile, Hook
  <2> HIDE DEF hook
  <2>3. clerk'[u].state = "active" /\ clerk'[u].address = clerk[u].address + 1 /\ \A v \in Users : v # u => clerk'[v] = clerk[v]
    BY <1>a, <2>2
  <2> QED
    BY <2>1, <2>2, <2>3 DEF NewHook, ClerkAddress, Deleted
<1>3. CASE DeleteAccount(u)
  <2> DEFINE hook == [kind |-> "delete", user |-> u, address |-> 0, at |-> "sent"]
  <2>1. hook \in Hooks /\ hook.user = u /\ hook.at = "sent" /\ hook.address = 0 /\ hook.kind = "delete"
    BY <1>a DEF Hooks
  <2>2. hooks' = Append(hooks, hook) /\ clerk' = [clerk EXCEPT ![u].state = "deleted"]
        /\ clerk[u].state = "active" /\ UNCHANGED clerkFrame
    BY <1>3 DEF DeleteAccount, Hook
  <2> HIDE DEF hook
  <2>3. clerk'[u].state = "deleted" /\ \A v \in Users : v # u => clerk'[v] = clerk[v]
    BY <1>a, <2>2
  <2> QED
    BY <2>1, <2>2, <2>3 DEF NewHook, ClerkAddress, Deleted
<1> QED
  BY <1>1, <1>2, <1>3

\* A new webhook is the last of its user, and changes nothing for the others.
LEMMA LastOfAppended ==
    ASSUME hooks \in Seq(Hooks), NEW u \in Users, NEW hook \in Hooks, hook.user = u, hooks' = Append(hooks, hook)
    PROVE  /\ \A d : LastHook(d, u)' => d \in DOMAIN hooks' /\ hooks'[d] = hook
           /\ \E d \in DOMAIN hooks' : LastHook(d, u)'
           /\ \A v \in Users : v # u => \A d : LastHook(d, v)' <=> LastHook(d, v)
           /\ \A d \in DOMAIN hooks : d \in DOMAIN hooks' /\ hooks'[d] = hooks[d]
           /\ \A d \in DOMAIN hooks' : d \in DOMAIN hooks \/ hooks'[d] = hook
           /\ \A v \in Users : v # u => (HasHook(v)' <=> HasHook(v))
<1>1. /\ DOMAIN hooks' = 1 .. Len(hooks) + 1 /\ DOMAIN hooks = 1 .. Len(hooks) /\ Len(hooks) \in Nat
      /\ \A d \in DOMAIN hooks' : \/ d \in DOMAIN hooks /\ hooks'[d] = hooks[d]
                                  \/ d = Len(hooks) + 1 /\ hooks'[d] = hook
      /\ \A d \in DOMAIN hooks : d \in DOMAIN hooks' /\ hooks'[d] = hooks[d]
  BY Appended
<1>2. \A d : LastHook(d, u)' => d \in DOMAIN hooks' /\ hooks'[d] = hook
  <2> SUFFICES ASSUME NEW d \in DOMAIN hooks', \A e \in DOMAIN hooks' : e > d => hooks'[e].user # u PROVE hooks'[d] = hook
    BY DEF LastHook
  <2>1. Len(hooks) + 1 \in DOMAIN hooks' /\ hooks'[Len(hooks) + 1] = hook
    BY <1>1
  <2>2. ~(Len(hooks) + 1 > d)
    BY <2>1
  <2> QED
    BY <1>1, <2>2
<1>3. \E d \in DOMAIN hooks' : LastHook(d, u)'
  <2>1. PICK n : n = Len(hooks) + 1
    OBVIOUS
  <2>2. n \in DOMAIN hooks' /\ hooks'[n] = hook /\ \A e \in DOMAIN hooks' : ~(e > n)
    BY <1>1, <2>1
  <2>3. LastHook(n, u)'
    BY <2>2 DEF LastHook
  <2> QED
    BY <2>2, <2>3
<1>4. ASSUME NEW v \in Users, v # u PROVE \A d : LastHook(d, v)' <=> LastHook(d, v)
  BY <1>1, <1>4 DEF LastHook
<1>5. \A v \in Users : v # u => (HasHook(v)' <=> HasHook(v))
  BY <1>1 DEF HasHook
<1> QED
  BY <1>1, <1>2, <1>3, <1>4, <1>5


\* The webhooks are the same, be they handled or not.
SameHooks ==
    /\ DOMAIN hooks' = DOMAIN hooks /\ hooks' \in Seq(Hooks)
    /\ \A d \in DOMAIN hooks : hooks'[d].user = hooks[d].user /\ hooks'[d].kind = hooks[d].kind /\ hooks'[d].address = hooks[d].address

LEMMA LastStays ==
    ASSUME SameHooks
    PROVE  /\ \A d, u : LastHook(d, u)' <=> LastHook(d, u)
           /\ \A u : HasHook(u)' <=> HasHook(u)
BY DEF SameHooks, LastHook, HasHook

LEMMA HookFrame ==
    ASSUME TypeInv, NotificationsAssumption, Next
    PROVE  (\E u \in Users : \E hook : NewHook(u, hook)) \/ (SameHooks /\ clerk' = clerk)
<1>a. AccountTypes /\ hooks \in Seq(Hooks)
  BY DEF TypeInv, AccountTypes
<1>1. ASSUME NEW u \in Users, Register(u) \/ ChangeProfile(u) \/ DeleteAccount(u) PROVE \E hook : NewHook(u, hook)
  BY <1>1, ClerkSteps
<1>2. ASSUME NEW d \in DOMAIN hooks, WriteUser(d) \/ PublishUser(d) \/ PublishFails(d) \/ AnswerLost(d) PROVE SameHooks /\ clerk' = clerk
  <2>1. clerk' = clerk /\ \E at \in {"sent", "wrote", "done"} : hooks' = [hooks EXCEPT ![d].at = at]
    BY <1>2 DEF WriteUser, PublishUser, PublishFails, AnswerLost
  <2> QED
    BY <1>a, <2>1, HookMoves DEF SameHooks
<1>3. ASSUME RestartUserService PROVE SameHooks /\ clerk' = clerk
  <2>1. /\ clerk' = clerk
        /\ hooks' = [d \in DOMAIN hooks |-> IF hooks[d].at = "wrote" THEN [hooks[d] EXCEPT !.at = "sent"] ELSE hooks[d]]
    BY <1>3 DEF RestartUserService
  <2>2. AccountTypes'
    BY <1>3, AccountStepTypes DEF TypeInv
  <2>3. \A d \in DOMAIN hooks : hooks[d] \in Hooks
    BY <1>a
  <2> QED
    BY <2>1, <2>2, <2>3 DEF SameHooks, AccountTypes, Hooks
<1>4. hooks' = hooks => SameHooks
  BY <1>a DEF SameHooks
<1>5. ASSUME NEW u \in Users, NEW s \in Settings, UpdateSettings(u, s) \/ EmitReady(u) PROVE hooks' = hooks /\ clerk' = clerk
  BY <1>5 DEF UpdateSettings, EmitReady, accountVars
<1>6. PromptSteps \/ Consumes \/ JobSteps \/ Restart => hooks' = hooks /\ clerk' = clerk
  <2>1. PromptSteps => UNCHANGED accountVars
    BY DEF PromptSteps, pushFrame, Dismiss, Accept, ClearBrowser, MayAskAgain, PermissionAnswered, SaveSubscription, SubscribeFails,
           OpenApp, RemoveSubscription
  <2>2. Consumes => UNCHANGED accountVars
    BY DEF Consumes, Take, HandleUserUpserted, DeleteRuns, DeleteSubscriptions, DeleteSubscriber, HandleReady, PushReady, RecordEvent,
           Commit, HandlerFails, DeletePaths, consumerFrame
  <2>3. Restart => UNCHANGED accountVars
    BY DEF Restart
  <2> QED
    BY <2>1, <2>2, <2>3, JobStepFrame DEF accountVars
<1>7. Settings # {}
  BY DefaultZone
<1>8. AccountSteps \/ PublisherSteps => (\E u \in Users : \E hook : NewHook(u, hook)) \/ (SameHooks /\ clerk' = clerk)
  BY <1>1, <1>2, <1>3, <1>4, <1>5, <1>7 DEF AccountSteps, PublisherSteps
<1> QED
  BY <1>4, <1>6, <1>8, AllSteps


\* A topic holds what it held, less its head perhaps, or one event more.
QueueMoves ==
    \/ queue' = queue
    \/ \E t \in Topics :
          /\ queue[t] # <<>> /\ queue' = [queue EXCEPT ![t] = Tail(@)]
          /\ (t # Paths /\ Commit /\ consumer.topic = t) \/ (t = Paths /\ DeletePaths)
    \/ \E u \in Users : EmitReady(u)
    \/ \E d \in DOMAIN hooks : PublishUser(d)

LEMMA QueueFrame ==
    ASSUME TypeInv, NotificationsAssumption, Next
    PROVE  QueueMoves
<1>1. AccountSteps => queue' = queue
  BY DEF AccountSteps, Register, ChangeProfile, DeleteAccount, UpdateSettings, WriteUser, PublishFails, AnswerLost,
         RestartUserService, clerkFrame, kafkaVars
<1>2. PromptSteps => queue' = queue
  BY DEF PromptSteps, pushFrame, Dismiss, Accept, ClearBrowser, MayAskAgain, PermissionAnswered, SaveSubscription, SubscribeFails,
         OpenApp, RemoveSubscription, kafkaVars
<1>3. Restart => queue' = queue
  BY DEF Restart
<1>4. JobSteps => queue' = queue
  BY JobStepFrame DEF kafkaVars
<1>5. Consumes => QueueMoves
  <2>1. CASE Commit
    <3>1. /\ consumer.topic \in Topics /\ queue[consumer.topic] # <<>> /\ queue' = [queue EXCEPT ![consumer.topic] = Tail(@)]
          /\ consumer.topic # Paths
      BY <2>1, AtWork DEF TypeInv, Commit, At, Paths
    <3> QED
      BY <2>1, <3>1 DEF QueueMoves
  <2>2. CASE DeletePaths
    <3>1. Paths \in Topics /\ queue[Paths] # <<>> /\ queue' = [queue EXCEPT ![Paths] = Tail(@)]
      BY <2>2 DEF DeletePaths, Paths, Topics
    <3> QED
      BY <2>2, <3>1 DEF QueueMoves
  <2>3. CASE ~Commit /\ ~DeletePaths
    <3>1. ASSUME Consumes PROVE queue' = queue
      BY <2>3, <3>1 DEF Consumes, Take, HandleUserUpserted, DeleteRuns, DeleteSubscriptions, DeleteSubscriber, HandleReady, PushReady,
         RecordEvent, HandlerFails
    <3> QED
      BY <3>1 DEF QueueMoves
  <2> QED
    BY <2>1, <2>2, <2>3
<1> QED
  BY <1>1, <1>2, <1>3, <1>4, <1>5, AllSteps DEF QueueMoves, PublisherSteps

\* Every event on a topic was there before, or is that of the webhook answered.
LEMMA EventsFrom ==
    ASSUME TypeInv, NotificationsAssumption, Next, NEW t \in {Upserts, Deletes, Paths}, NEW n \in DOMAIN queue'[t]
    PROVE  \/ \E m \in DOMAIN queue[t] : queue'[t][n] = queue[t][m]
           \/ \E d \in DOMAIN hooks :
                 /\ PublishUser(d) /\ queue'[t][n].user = hooks[d].user /\ queue'[t][n].address = hooks[d].address
                 /\ hooks[d].kind = "upsert" <=> t = Upserts
<1>a. KafkaTypes /\ t \in Topics /\ queue[t] \in Seq(Events) /\ queue \in [Topics -> Seq(Events)] /\ t # "ready"
  BY DEF TypeInv, KafkaTypes, Topics, Upserts, Deletes, Paths
<1>1. CASE queue' = queue
  BY <1>1
<1>2. ASSUME NEW s \in Topics, queue[s] # <<>>, queue' = [queue EXCEPT ![s] = Tail(@)]
      PROVE  \E m \in DOMAIN queue[t] : queue'[t][n] = queue[t][m]
  <2>1. CASE s # t
    BY <1>a, <1>2, <2>1
  <2>2. CASE s = t
    <3>1. n \in DOMAIN Tail(queue[t]) /\ queue'[t][n] = Tail(queue[t])[n]
      BY <1>a, <1>2, <2>2
    <3> QED
      BY <1>a, <1>2, <2>2, <3>1, Tailed
  <2> QED
    BY <2>1, <2>2
<1>p. ASSUME NEW e, NEW ts, Published(e, ts)
      PROVE  (\E m \in DOMAIN queue[t] : queue'[t][n] = queue[t][m]) \/ (t \in ts /\ queue'[t][n] = e)
  <2>1. queue'[t] = IF t \in ts THEN Append(queue[t], e) ELSE queue[t]
    BY <1>a, <1>p DEF Published
  <2> QED
    BY <1>a, <2>1, Appended
<1>3. ASSUME NEW u \in Users, EmitReady(u) PROVE \E m \in DOMAIN queue[t] : queue'[t][n] = queue[t][m]
  BY <1>a, <1>3, <1>p, Publishers
<1>4. ASSUME NEW d \in DOMAIN hooks, PublishUser(d)
      PROVE  \/ \E m \in DOMAIN queue[t] : queue'[t][n] = queue[t][m]
             \/ /\ queue'[t][n].user = hooks[d].user /\ queue'[t][n].address = hooks[d].address
                /\ hooks[d].kind = "upsert" <=> t = Upserts
  <2> DEFINE e == [id |-> events + 1, user |-> hooks[d].user, address |-> hooks[d].address]
             ts == IF hooks[d].kind = "upsert" THEN {Upserts} ELSE {Deletes, Paths}
  <2>1. Published(e, ts)
    BY <1>4, Publishers
  <2>2. e.user = hooks[d].user /\ e.address = hooks[d].address
    OBVIOUS
  <2>3. t \in ts => (hooks[d].kind = "upsert" <=> t = Upserts)
    BY DEF Upserts, Deletes, Paths
  <2> HIDE DEF e, ts
  <2> QED
    BY <1>p, <2>1, <2>2, <2>3
<1> QED
  BY <1>1, <1>2, <1>3, <1>4, QueueFrame DEF QueueMoves


\* Rows are written by webhooks, subscribers by two handlers.
LEMMA RowFrame ==
    ASSUME TypeInv, NotificationsAssumption, Next, NEW u \in Users
    PROVE  row'[u] = row[u] \/ \E d \in DOMAIN hooks : WriteUser(d) /\ hooks[d].user = u
<1>1. ASSUME ~\E d \in DOMAIN hooks : WriteUser(d) PROVE row' = row
  <2>1. AccountSteps => row' = row
    BY <1>1 DEF AccountSteps, Register, ChangeProfile, DeleteAccount, UpdateSettings, PublishFails, AnswerLost, RestartUserService, clerkFrame
  <2>2. PublisherSteps => row' = row
    BY DEF PublisherSteps, PublishUser, EmitReady, accountVars
  <2>3. PromptSteps => row' = row
    BY DEF PromptSteps, pushFrame, Dismiss, Accept, ClearBrowser, MayAskAgain, PermissionAnswered, SaveSubscription, SubscribeFails,
           OpenApp, RemoveSubscription, accountVars
  <2>4. Consumes => row' = row
    BY DEF Consumes, Take, HandleUserUpserted, DeleteRuns, DeleteSubscriptions, DeleteSubscriber, HandleReady, PushReady, RecordEvent,
           Commit, HandlerFails, DeletePaths, consumerFrame, accountVars
  <2>5. Restart \/ JobSteps => row' = row
    BY JobStepFrame DEF Restart, accountVars
  <2> QED
    BY <2>1, <2>2, <2>3, <2>4, <2>5, AllSteps
<1>2. ASSUME NEW d \in DOMAIN hooks, WriteUser(d), hooks[d].user # u PROVE row'[u] = row[u]
  BY <1>2 DEF WriteUser, TypeInv, AccountTypes
<1> QED
  BY <1>1, <1>2

LEMMA SubscriberFrame ==
    ASSUME TypeInv, NotificationsAssumption, Next
    PROVE  HandleUserUpserted \/ DeleteSubscriber \/ subscriber' = subscriber
<1>1. AccountSteps => subscriber' = subscriber
  BY DEF AccountSteps, Register, ChangeProfile, DeleteAccount, UpdateSettings, WriteUser, PublishFails, AnswerLost, RestartUserService, clerkFrame
<1>2. PublisherSteps => subscriber' = subscriber
  BY DEF PublisherSteps, PublishUser, EmitReady
<1>3. PromptSteps => subscriber' = subscriber
  BY DEF PromptSteps, pushFrame, Dismiss, Accept, ClearBrowser, MayAskAgain, PermissionAnswered, SaveSubscription, SubscribeFails,
         OpenApp, RemoveSubscription
<1>4. Consumes => HandleUserUpserted \/ DeleteSubscriber \/ subscriber' = subscriber
  BY DEF Consumes, Take, DeleteRuns, DeleteSubscriptions, HandleReady, PushReady, RecordEvent, Commit, HandlerFails, DeletePaths
<1>5. Restart \/ JobSteps => subscriber' = subscriber
  BY JobStepFrame DEF Restart
<1> QED
  BY <1>1, <1>2, <1>3, <1>4, <1>5, AllSteps

LEMMA HookStep ==
    ASSUME TypeInv, NotificationsAssumption, HookInv, Next
    PROVE  HookInv'
<1>a. AccountTypes /\ KafkaTypes /\ hooks \in Seq(Hooks)
  BY DEF TypeInv, AccountTypes
<1>1. ASSUME NEW u \in Users, NEW hook, NewHook(u, hook) PROVE HookInv'
  <2>1. /\ hook \in Hooks /\ hook.user = u /\ hooks' = Append(hooks, hook)
        /\ hook.address = ClerkAddress(u)' /\ hook.kind = IF Deleted(u)' THEN "delete" ELSE "upsert"
        /\ ~Deleted(u) /\ clerk'[u].state # "none"
        /\ \A v \in Users : v # u => clerk'[v] = clerk[v]
        /\ UNCHANGED <<row, subscriber, queue>>
    BY <1>1 DEF NewHook, clerkFrame, kafkaVars
  <2>2. \A v \in Users : v # u => ClerkAddress(v)' = ClerkAddress(v) /\ (Deleted(v)' <=> Deleted(v))
    BY <2>1 DEF ClerkAddress, Deleted
  <2>3. /\ \A d : LastHook(d, u)' => d \in DOMAIN hooks' /\ hooks'[d] = hook
        /\ \E d \in DOMAIN hooks' : LastHook(d, u)'
        /\ \A v \in Users : v # u => \A d : LastHook(d, v)' <=> LastHook(d, v)
        /\ \A d \in DOMAIN hooks : d \in DOMAIN hooks' /\ hooks'[d] = hooks[d]
        /\ \A d \in DOMAIN hooks' : d \in DOMAIN hooks \/ hooks'[d] = hook
        /\ \A v \in Users : v # u => (HasHook(v)' <=> HasHook(v))
    BY <1>a, <2>1, LastOfAppended
  <2>4. \A v \in Users : Deleted(v) => Deleted(v)'
    BY <2>1, <2>2
  <2>5. \A v \in Users : HasHook(v)' => clerk'[v].state # "none" /\ \E d \in DOMAIN hooks' : LastHook(d, v)'
    BY <2>1, <2>3 DEF HookInv
  <2>6. ASSUME NEW v \in Users, NEW d \in DOMAIN hooks', LastHook(d, v)'
        PROVE  hooks'[d].address = ClerkAddress(v)' /\ hooks'[d].kind = IF Deleted(v)' THEN "delete" ELSE "upsert"
    <3>1. CASE v = u
      BY <2>1, <2>3, <2>6, <3>1
    <3>2. CASE v # u
      <4>1. LastHook(d, v) /\ d \in DOMAIN hooks /\ hooks'[d] = hooks[d]
        BY <2>3, <2>6, <3>2 DEF LastHook
      <4> QED
        BY <2>2, <3>2, <4>1 DEF HookInv
    <3> QED
      BY <3>1, <3>2
  <2>7. ASSUME NEW v \in Users, NEW d \in DOMAIN hooks', hooks'[d].kind = "delete", hooks'[d].user = v PROVE Deleted(v)'
    <3>1. CASE d \in DOMAIN hooks
      BY <2>3, <2>4, <2>7, <3>1 DEF HookInv
    <3>2. CASE hooks'[d] = hook
      BY <2>1, <2>7, <3>2
    <3> QED
      BY <2>3, <2>7, <3>1, <3>2
  <2>8. \A v \in Users : About(queue[Deletes], v)' \/ About(queue[Paths], v)' => Deleted(v)'
    BY <2>1, <2>4 DEF HookInv, About
  <2>9. \A v \in Users : About(queue[Upserts], v)' => HasHook(v)'
    <3>1. \A v \in Users : HasHook(v) => HasHook(v)'
      BY <2>3 DEF HasHook
    <3> QED
      BY <2>1, <3>1 DEF HookInv, About
  <2>10. \A v \in Users : ~HasHook(v)' => ~Deleted(v)' /\ row'[v] = ClerkAddress(v)' /\ subscriber'[v] = row'[v]
    <3>1. HasHook(u)'
      BY <2>3 DEF HasHook, LastHook
    <3> QED
      BY <2>1, <2>2, <2>3, <3>1 DEF HookInv
  <2> QED
    BY <2>5, <2>6, <2>7, <2>8, <2>9, <2>10 DEF HookInv
<1>2. ASSUME SameHooks, clerk' = clerk PROVE HookInv'
  <2>1. /\ \A d, u : LastHook(d, u)' <=> LastHook(d, u)
        /\ \A u : HasHook(u)' <=> HasHook(u)
        /\ \A u : (Deleted(u)' <=> Deleted(u)) /\ ClerkAddress(u)' = ClerkAddress(u)
    BY <1>2, LastStays DEF Deleted, ClerkAddress
  <2>2. /\ \A u \in Users : HasHook(u)' => clerk'[u].state # "none" /\ \E d \in DOMAIN hooks' : LastHook(d, u)'
        /\ \A u \in Users : \A d \in DOMAIN hooks' : LastHook(d, u)' =>
              hooks'[d].address = ClerkAddress(u)' /\ hooks'[d].kind = IF Deleted(u)' THEN "delete" ELSE "upsert"
    BY <1>2, <2>1 DEF HookInv, SameHooks
  <2>3. \A u \in Users : \A d \in DOMAIN hooks' : hooks'[d].kind = "delete" /\ hooks'[d].user = u => Deleted(u)'
    BY <1>2, <2>1 DEF HookInv, SameHooks
  <2>4. ASSUME NEW u \in Users, NEW t \in {Deletes, Paths}, About(queue[t], u)' PROVE Deleted(u)'
    <3>1. t \in {Upserts, Deletes, Paths} /\ t # Upserts
      BY DEF Upserts, Deletes, Paths
    <3>2. PICK n \in DOMAIN queue'[t] : queue'[t][n].user = u
      BY <2>4 DEF About
    <3>3. CASE \E m \in DOMAIN queue[t] : queue'[t][n] = queue[t][m]
      BY <2>1, <3>2, <3>3 DEF HookInv, About
    <3>4. ASSUME NEW d \in DOMAIN hooks, hooks[d].user = u, ~(hooks[d].kind = "upsert") PROVE Deleted(u)'
      <4>1. hooks[d] \in Hooks
        BY <1>a
      <4>2. hooks[d].kind = "delete"
        BY <3>4, <4>1 DEF Hooks
      <4> QED
        BY <2>1, <3>4, <4>2 DEF HookInv
    <3> QED
      BY <3>1, <3>2, <3>3, <3>4, EventsFrom
  <2>5. ASSUME NEW u \in Users, About(queue[Upserts], u)' PROVE HasHook(u)'
    <3>2. PICK n \in DOMAIN queue'[Upserts] : queue'[Upserts][n].user = u
      BY <2>5 DEF About
    <3>3. CASE \E m \in DOMAIN queue[Upserts] : queue'[Upserts][n] = queue[Upserts][m]
      BY <2>1, <3>2, <3>3 DEF HookInv, About
    <3>4. ASSUME NEW d \in DOMAIN hooks, hooks[d].user = u PROVE HasHook(u)'
      BY <2>1, <3>4 DEF HasHook
    <3> QED
      BY <3>2, <3>3, <3>4, EventsFrom
  <2>6. ASSUME NEW u \in Users, ~HasHook(u) PROVE row'[u] = row[u] /\ subscriber'[u] = subscriber[u]
    <3>1. row'[u] = row[u]
      BY <2>6, RowFrame DEF HasHook
    <3>2. ASSUME HandleUserUpserted \/ DeleteSubscriber PROVE subscriber'[u] = subscriber[u]
      <4>1. /\ consumer.at # "idle" /\ consumer.topic \in {Upserts, Deletes}
            /\ \E address : subscriber' = [subscriber EXCEPT ![Message.user] = address]
        BY <1>a, <3>2 DEF HandleUserUpserted, DeleteSubscriber, At, KafkaTypes, Upserts
      <4>2. consumer.topic \in Topics /\ queue[consumer.topic] # <<>> /\ 1 \in DOMAIN queue[consumer.topic]
        BY <1>a, <4>1, AtWork, Head1
      <4>3. Message.user # u
        BY <2>6, <4>1, <4>2 DEF HookInv, Message, About
      <4> QED
        BY <1>a, <4>1, <4>3 DEF AccountTypes
    <3> QED
      BY <3>1, <3>2, SubscriberFrame
  <2>7. \A u \in Users : ~HasHook(u)' => ~Deleted(u)' /\ row'[u] = ClerkAddress(u)' /\ subscriber'[u] = row'[u]
    BY <2>1, <2>6 DEF HookInv
  <2> QED
    BY <2>2, <2>3, <2>4, <2>5, <2>7 DEF HookInv
<1> QED
  BY <1>1, <1>2, HookFrame

LEMMA HookInit == ASSUME NotificationsAssumption, Init PROVE HookInv
<1>1. PICK start \in Starts :
         clerk = [u \in Users |-> IF start[u] = "none" THEN [state |-> "none", address |-> 0] ELSE [state |-> "active", address |-> 1]]
  BY DEF Init
<1>2. \A u \in Users : clerk[u].state # "deleted" /\ clerk[u].address = ClerkAddress(u)
  BY <1>1 DEF ClerkAddress
<1>3. \A u \in Users : row[u] = clerk[u].address /\ subscriber[u] = row[u]
  BY DEF Init
<1>4. hooks = <<>> /\ \A t \in Topics : queue[t] = <<>>
  BY DEF Init
<1>5. DOMAIN hooks = {} /\ \A u \in Users : ~HasHook(u)
  BY <1>4 DEF HasHook
<1>6. \A u : ~About(queue[Deletes], u) /\ ~About(queue[Paths], u) /\ ~About(queue[Upserts], u)
  <2>1. {Deletes, Paths, Upserts} \subseteq Topics
    BY DEF Topics, Upserts, Deletes, Paths
  <2>2. \A t \in Topics : DOMAIN queue[t] = {}
    BY <1>4
  <2> QED
    BY <2>1, <2>2 DEF About
<1>7. \A u \in Users : ~Deleted(u) /\ row[u] = ClerkAddress(u) /\ subscriber[u] = row[u]
  BY <1>2, <1>3 DEF Deleted
<1> QED
  BY <1>5, <1>6, <1>7 DEF HookInv


-----------------------------------------------------------------------------
(* Notices go once.                                                         *)

\* What was sent and not spoilt is recorded, or on its way to be.
ReadyInv == \A id : <<"ready", id>> \in sent \ spoilt => id \in processed \/ (ReadyBehind /\ Message.id = id)
RunInv ==
    /\ \A ty \in Types, u \in Users : \A day :
          <<ty, u, day>> \in sent \ spoilt => Deleted(u) \/ <<u, ty, day>> \in runs \/ (Behind(ty, u) /\ Day(ty, u) = day)
    /\ \A ty \in Types, u \in Users : jobs[ty].step[u] = "notify" => <<u, ty, Day(ty, u)>> \notin runs

LEMMA DeletedStays == ASSUME TypeInv, NotificationsAssumption, Next PROVE \A u \in Users : Deleted(u) => Deleted(u)'
BY HookFrame DEF NewHook, Deleted

LEMMA KindsDiffer ==
    ASSUME NotificationsAssumption, NEW ty \in Types, NEW u, NEW day, NEW id
    PROVE  <<"ready", id>> # <<ty, u, day>>
<1>1. <<"ready", id>>[1] = "ready" /\ <<ty, u, day>>[1] = ty /\ ty # "ready"
  BY DEF NotificationsAssumption
<1> QED
  BY <1>1

\* What is in the inbox, and what becomes of it.
Inbox(n) == n \in sent \ spoilt
LEMMA InboxFrame ==
    ASSUME TypeInv, NotificationsAssumption, Next
    PROVE  \/ HandleReady
           \/ \E ty \in Types, u \in Users : Notify(ty, u)
           \/ twice' = twice /\ \A n : Inbox(n)' => Inbox(n)
<1>1. AccountSteps => UNCHANGED noticeVars
  BY DEF AccountSteps, Register, ChangeProfile, DeleteAccount, UpdateSettings, WriteUser, PublishFails, AnswerLost,
         RestartUserService, clerkFrame
<1>2. PublisherSteps => UNCHANGED noticeVars
  BY DEF PublisherSteps, PublishUser, EmitReady
<1>3. PromptSteps => UNCHANGED noticeVars
  BY DEF PromptSteps, pushFrame, Dismiss, Accept, ClearBrowser, MayAskAgain, PermissionAnswered, SaveSubscription, SubscribeFails,
         OpenApp, RemoveSubscription
<1>4. Consumes => HandleReady \/ UNCHANGED noticeVars \/ (UNCHANGED <<sent, twice>> /\ spoilt \subseteq spoilt')
  BY DEF Consumes, Take, HandleUserUpserted, DeleteRuns, DeleteSubscriptions, DeleteSubscriber, PushReady, RecordEvent, Commit,
         HandlerFails, DeletePaths
<1>5. Restart => UNCHANGED <<sent, twice>> /\ spoilt \subseteq spoilt'
  BY DEF Restart
<1>6. ASSUME JobSteps, ~\E ty \in Types, u \in Users : Notify(ty, u) PROVE UNCHANGED <<sent, twice>> /\ spoilt \subseteq spoilt'
  <2>1. ASSUME NEW ty \in Types, ListUsers(ty) \/ ListFails(ty) \/ StartBatch(ty) \/ JobIsOver(ty) PROVE UNCHANGED noticeVars
    BY <2>1 DEF ListUsers, ListFails, StartBatch, JobIsOver
  <2>2. Tick => UNCHANGED noticeVars
    BY DEF Tick
  <2>3. ASSUME NEW ty \in Types, NEW u \in Users, Reminds(ty, u) PROVE UNCHANGED <<sent, twice>> /\ spoilt \subseteq spoilt'
    BY <1>6, <2>3, Reminded
  <2> QED
    BY <1>6, <2>1, <2>2, <2>3 DEF JobSteps, noticeVars
<1> QED
  BY <1>1, <1>2, <1>3, <1>4, <1>5, <1>6, AllSteps DEF Inbox, noticeVars

\* The message at work stays when somebody else takes a step.
LEMMA ElsewhereStays ==
    ASSUME TypeInv, NotificationsAssumption, Next, ~Consumes, ~Restart
    PROVE  processed' = processed /\ consumer' = consumer /\ (consumer.at # "idle" => Message' = Message)
<1>a. KafkaTypes
  BY DEF TypeInv
<1>1. AccountSteps => UNCHANGED kafkaVars
  BY DEF AccountSteps, Register, ChangeProfile, DeleteAccount, UpdateSettings, WriteUser, PublishFails, AnswerLost,
         RestartUserService, clerkFrame
<1>2. PromptSteps => UNCHANGED kafkaVars
  BY DEF PromptSteps, pushFrame, Dismiss, Accept, ClearBrowser, MayAskAgain, PermissionAnswered, SaveSubscription, SubscribeFails,
         OpenApp, RemoveSubscription
<1>3. JobSteps => UNCHANGED kafkaVars
  BY JobStepFrame
<1>4. ASSUME PublisherSteps PROVE processed' = processed /\ consumer' = consumer /\ (consumer.at # "idle" => Message' = Message)
  <2>1. PICK e, ts : Published(e, ts)
    BY <1>4, Publishers DEF PublisherSteps
  <2>2. processed' = processed /\ consumer' = consumer
    BY <2>1 DEF Published
  <2> QED
    BY <1>a, <2>1, <2>2, Publication, MessageStays
<1> QED
  BY <1>1, <1>2, <1>3, <1>4, AllSteps DEF kafkaVars, Message

LEMMA ReadyStep ==
    ASSUME TypeInv, NotificationsAssumption, IdInv, ReadyInv, Next
    PROVE  ReadyInv'
<1>a. KafkaTypes
  BY DEF TypeInv
<1>i. \A id : Inbox(<<"ready", id>>) => id \in processed \/ (ReadyBehind /\ Message.id = id)
  BY DEF ReadyInv, Inbox
<1>d. ASSUME \A id : Inbox(<<"ready", id>>)' => id \in processed' \/ (ReadyBehind /\ Message.id = id)' PROVE ReadyInv'
  BY <1>d DEF ReadyInv, Inbox
<1>n. ASSUME NEW ty \in Types, NEW u \in Users, Notify(ty, u), NEW id, Inbox(<<"ready", id>>)' PROVE Inbox(<<"ready", id>>)
  <2>1. <<"ready", id>> # Notice(ty, u)
    BY KindsDiffer DEF Notice
  <2> QED
    BY <1>n, <2>1 DEF Notify, Send, Inbox
<1>1. ASSUME ~Consumes, ~Restart PROVE ReadyInv'
  <2>1. \A id : Inbox(<<"ready", id>>)' => Inbox(<<"ready", id>>)
    BY <1>1, <1>n, InboxFrame DEF Consumes
  <2>2. processed' = processed /\ consumer' = consumer /\ (ReadyBehind => Message' = Message)
    BY <1>1, ElsewhereStays DEF ReadyBehind
  <2>3. ReadyBehind => ReadyBehind'
    BY <2>2 DEF ReadyBehind
  <2> QED
    BY <1>i, <1>d, <2>1, <2>2, <2>3
<1>s. ReadyBehind => SpoiltEvent = {<<"ready", Message.id>>}
  BY <1>a DEF ReadyBehind, SpoiltEvent, At, KafkaTypes, Paths
<1>2. CASE Restart
  <2>1. UNCHANGED <<sent, processed>> /\ spoilt \cup SpoiltEvent \subseteq spoilt'
    BY <1>2 DEF Restart
  <2> QED
    BY <1>i, <1>d, <1>s, <2>1 DEF Inbox
<1>3. ASSUME (\E t \in Topics : Take(t)) \/ HandleUserUpserted \/ DeleteRuns \/ DeleteSubscriptions \/ DeleteSubscriber \/ Commit
      PROVE  ReadyInv'
  <2>1. UNCHANGED <<sent, spoilt, processed>> /\ ~ReadyBehind
    BY <1>3 DEF Take, HandleUserUpserted, DeleteRuns, DeleteSubscriptions, DeleteSubscriber, Commit, At, noticeVars, ReadyBehind
  <2> QED
    BY <1>i, <1>d, <2>1 DEF Inbox
<1>4. CASE HandleReady
  <2>1. /\ sent' = sent \cup {<<"ready", Message.id>>} /\ UNCHANGED <<queue, spoilt, processed>> /\ ~ReadyBehind
        /\ consumer.topic = "ready" /\ GoTo("push")
    BY <1>4 DEF HandleReady, Send, At, ReadyBehind
  <2>2. consumer'.at = "push" /\ Message' = Message
    BY <1>a, <2>1, GoesTo DEF Message
  <2>3. ReadyBehind'
    BY <2>2 DEF ReadyBehind
  <2>4. \A id : <<"ready", id>> = <<"ready", Message.id>> => id = Message.id
    OBVIOUS
  <2>5. \A id : Inbox(<<"ready", id>>)' => Inbox(<<"ready", id>>) \/ id = Message.id
    BY <2>1, <2>4 DEF Inbox
  <2> QED
    BY <1>i, <1>d, <2>1, <2>2, <2>3, <2>5
<1>5. CASE PushReady
  <2>1. /\ UNCHANGED <<queue, sent, spoilt, processed>> /\ consumer.at = "push" /\ GoTo("record")
    BY <1>5 DEF PushReady, noticeVars, At
  <2>2. consumer'.at = "record" /\ consumer'.topic = "ready" /\ Message' = Message
    BY <1>a, <2>1, GoesTo DEF Message, KafkaTypes
  <2>3. ReadyBehind'
    BY <2>2 DEF ReadyBehind
  <2> QED
    BY <1>i, <1>d, <2>1, <2>2, <2>3 DEF Inbox
<1>6. CASE RecordEvent
  <2>1. UNCHANGED <<sent, spoilt>> /\ processed' = processed \cup {Message.id}
    BY <1>6 DEF RecordEvent, noticeVars
  <2> QED
    BY <1>i, <1>d, <2>1 DEF Inbox
<1>7. CASE HandlerFails
  <2>1. UNCHANGED <<sent, processed>> /\ spoilt' = spoilt \cup SpoiltEvent
    BY <1>7 DEF HandlerFails
  <2> QED
    BY <1>i, <1>d, <1>s, <2>1 DEF Inbox
<1>8. CASE DeletePaths
  <2>1. UNCHANGED <<sent, spoilt, processed, consumer>> /\ queue' = [queue EXCEPT ![Paths] = Tail(@)]
    BY <1>8 DEF DeletePaths, noticeVars, Paths
  <2>2. Message' = Message
    BY <1>a, <2>1 DEF Message, KafkaTypes, Consumers
  <2>3. ReadyBehind' <=> ReadyBehind
    BY <2>1 DEF ReadyBehind
  <2> QED
    BY <1>i, <1>d, <2>1, <2>2, <2>3 DEF Inbox
<1> QED
  BY <1>1, <1>2, <1>3, <1>4, <1>5, <1>6, <1>7, <1>8 DEF Consumes

\* The list of a job and its batches leave alone whoever is at work.
LEMMA ListSteps ==
    ASSUME TypeInv, NotificationsAssumption, NEW ty \in Types, ListUsers(ty) \/ ListFails(ty) \/ StartBatch(ty) \/ JobIsOver(ty),
           NEW o \in Types, NEW v \in Users
    PROVE  /\ jobs'[o].step[v] \in {"lookup", jobs[o].step[v]}
           /\ jobs'[o].step[v] \notin {"none", "lookup"} => Day(o, v)' = Day(o, v)
<1>a. AccountTypes /\ JobTypes /\ jobs \in [Types -> Jobs] /\ hour' = hour
  BY DEF TypeInv, JobTypes, ListUsers, ListFails, StartBatch, JobIsOver
<1>1. CASE ListUsers(ty)
  <2>1. /\ \A x \in Types : x # ty => jobs'[x] = jobs[x]
        /\ jobs'[ty].step = jobs[ty].step
    BY <1>a, <1>1, ListedUsers DEF Listed, Untouched
  <2>2. jobs[ty].step[v] = "none"
    BY <1>a, <1>1 DEF ListUsers, JobTypes
  <2> QED
    BY <1>a, <2>1, <2>2 DEF Day
<1>2. CASE ListFails(ty) \/ JobIsOver(ty)
  <2>1. /\ \A x \in Types : x # ty => jobs'[x] = jobs[x]
        /\ jobs'[ty].step = jobs[ty].step /\ jobs'[ty].zone = jobs[ty].zone
    BY <1>a, <1>2, AtOnly DEF Listed, Untouched, ListFails, JobIsOver
  <2> QED
    BY <1>a, <2>1 DEF Day
<1>3. CASE StartBatch(ty)
  <2>1. /\ \A x \in Types : x # ty => jobs'[x] = jobs[x]
        /\ jobs'[ty].zone = jobs[ty].zone /\ jobs'[ty].step[v] \in {"lookup", jobs[ty].step[v]}
    BY <1>a, <1>3, BatchStarted DEF Listed
  <2> QED
    BY <1>a, <2>1 DEF Day
<1> QED
  BY <1>1, <1>2, <1>3


LEMMA RemindingRuns ==
    ASSUME TypeInv, NotificationsAssumption, RunInv, NEW ty \in Types, NEW u \in Users, Reminds(ty, u)
    PROVE  RunInv'
<1>a. JobTypes /\ jobs \in [Types -> Jobs]
  BY DEF TypeInv, JobTypes
<1>j. JobSteps
  BY DEF JobSteps
<1>1. /\ jobs[ty].step[u] \in {"lookup", "notify", "push", "record"} /\ hour' = hour
      /\ \E step \in {"notify", "push", "record", "done", "dead"} :
            /\ Moved(ty, u, step)
            /\ step = "notify" => Lookup(ty, u)
            /\ step = "push" => Notify(ty, u)
            /\ step = "record" => PushReminder(ty, u)
  BY <1>a, Reminding
<1>2. PICK step \in {"notify", "push", "record", "done", "dead"} :
         Moved(ty, u, step) /\ (step = "notify" => Lookup(ty, u))
  BY <1>1
<1>3. /\ \A o \in Types, v \in Users : Day(o, v)' = Day(o, v)
      /\ \A o \in Types, v \in Users : o # ty \/ v # u => jobs'[o].step[v] = jobs[o].step[v]
      /\ jobs'[ty].step[u] = step
  BY <1>1, <1>2, MovedNotice DEF Moved
<1>4. \A v \in Users : Deleted(v)' <=> Deleted(v)
  BY <1>j, JobStepFrame DEF Deleted, accountVars
<1>5. runs \subseteq runs' /\ runs' \subseteq runs \cup {<<u, ty, Day(ty, u)>>}
  BY DEF Reminds, Lookup, Notify, NothingToSay, PushReminder, RecordRun, ReminderFails
<1>6. \A n : Inbox(n)' => Inbox(n) \/ n = Notice(ty, u)
  BY Reminded DEF Inbox
<1>7. ASSUME NEW o \in Types, NEW v \in Users, NEW day, Inbox(<<o, v, day>>)'
      PROVE  Deleted(v)' \/ <<v, o, day>> \in runs' \/ (Behind(o, v)' /\ Day(o, v)' = day)
  <2>1. CASE o # ty \/ v # u
    <3>1. <<o, v, day>> # Notice(ty, u)
      BY <2>1 DEF Notice
    <3>2. Inbox(<<o, v, day>>) /\ (Behind(o, v)' <=> Behind(o, v))
      BY <1>3, <1>6, <1>7, <2>1, <3>1 DEF Behind
    <3> QED
      BY <1>3, <1>4, <1>5, <3>2 DEF RunInv, Inbox
  <2>2. CASE o = ty /\ v = u
    <3>0. Inbox(<<ty, u, day>>) => Deleted(u) \/ <<u, ty, day>> \in runs \/ (Behind(ty, u) /\ Day(ty, u) = day)
      BY DEF RunInv, Inbox
    <3>1. CASE Notify(ty, u)
      <4>1. jobs[ty].step[u] = "notify" /\ jobs'[ty].step[u] = "push"
        <5>1. Moved(ty, u, "push")
          BY <1>a, <3>1, Stepped DEF Notify, Steps
        <5> QED
          BY <3>1, <5>1 DEF Notify, Moved
      <4>2. <<ty, u, day>> = Notice(ty, u) => Day(ty, u) = day
        BY DEF Notice
      <4>3. Behind(ty, u)' /\ ~Behind(ty, u)
        BY <4>1 DEF Behind
      <4> QED
        BY <1>3, <1>4, <1>5, <1>6, <1>7, <2>2, <3>0, <4>2, <4>3
    <3>2. CASE ~Notify(ty, u) /\ ~Behind(ty, u)
      <4>1. Inbox(<<ty, u, day>>)
        BY <1>7, <2>2, <3>2, Reminded DEF Inbox
      <4> QED
        BY <1>4, <1>5, <2>2, <3>0, <3>2, <4>1
    <3>3. CASE PushReminder(ty, u)
      <4>1. Moved(ty, u, "record")
        BY <1>a, <3>3, Stepped DEF PushReminder, Steps
      <4>2. Behind(ty, u)'
        BY <4>1 DEF Behind, Moved
      <4>3. Inbox(<<ty, u, day>>)
        BY <1>7, <2>2, <3>3 DEF PushReminder, noticeVars, Inbox
      <4> QED
        BY <1>3, <1>4, <1>5, <2>2, <3>0, <4>2, <4>3
    <3>4. CASE RecordRun(ty, u)
      <4>1. Inbox(<<ty, u, day>>) /\ <<u, ty, Day(ty, u)>> \in runs'
        BY <1>7, <2>2, <3>4 DEF RecordRun, noticeVars, Inbox
      <4> QED
        BY <1>4, <1>5, <2>2, <3>0, <4>1
    <3>5. CASE ReminderFails(ty, u) /\ Behind(ty, u)
      <4>1. sent' = sent /\ spoilt' = spoilt \cup {Notice(ty, u)}
        BY <3>5 DEF ReminderFails, Behind
      <4>2. Inbox(<<ty, u, day>>) /\ <<ty, u, day>> # Notice(ty, u)
        BY <1>7, <2>2, <4>1 DEF Inbox
      <4>3. Day(ty, u) # day
        BY <4>2 DEF Notice
      <4> QED
        BY <1>4, <1>5, <2>2, <3>0, <4>2, <4>3
    <3> QED
      BY <3>1, <3>2, <3>3, <3>4, <3>5 DEF Reminds, Lookup, NothingToSay, Behind
  <2> QED
    BY <2>1, <2>2
<1>8. ASSUME NEW o \in Types, NEW v \in Users, jobs'[o].step[v] = "notify" PROVE <<v, o, Day(o, v)'>> \notin runs'
  <2>1. CASE o # ty \/ v # u
    <3>1. <<v, o, Day(o, v)>> # <<u, ty, Day(ty, u)>>
      BY <2>1
    <3> QED
      BY <1>3, <1>5, <1>8, <2>1, <3>1 DEF RunInv
  <2>2. CASE o = ty /\ v = u
    <3>1. Lookup(ty, u)
      BY <1>2, <1>3, <1>8, <2>2
    <3>2. runs' = runs /\ (<<u, ty, Day(ty, u)>> \in runs => Moved(ty, u, "done"))
      BY <1>a, <3>1, Stepped DEF Lookup, Steps
    <3> QED
      BY <1>3, <1>8, <2>2, <3>2 DEF Moved
  <2> QED
    BY <2>1, <2>2
<1> QED
  BY <1>7, <1>8 DEF RunInv, Inbox

LEMMA RunStep ==
    ASSUME TypeInv, NotificationsAssumption, HookInv, RunInv, Next
    PROVE  RunInv'
<1>a. JobTypes /\ KafkaTypes
  BY DEF TypeInv
<1>i. \A ty \in Types, u \in Users : \A day :
          Inbox(<<ty, u, day>>) => Deleted(u) \/ <<u, ty, day>> \in runs \/ (Behind(ty, u) /\ Day(ty, u) = day)
  BY DEF RunInv, Inbox
<1>d. ASSUME \A ty \in Types, u \in Users : \A day :
                Inbox(<<ty, u, day>>)' => Deleted(u)' \/ <<u, ty, day>> \in runs' \/ (Behind(ty, u)' /\ Day(ty, u)' = day),
             \A ty \in Types, u \in Users : jobs'[ty].step[u] = "notify" => <<u, ty, Day(ty, u)'>> \notin runs'
      PROVE  RunInv'
  BY <1>d DEF RunInv, Inbox
<1>r. ASSUME HandleReady, NEW ty \in Types, NEW u \in Users, NEW day, Inbox(<<ty, u, day>>)' PROVE Inbox(<<ty, u, day>>)
  <2>1. <<"ready", Message.id>> # <<ty, u, day>>
    BY KindsDiffer
  <2> QED
    BY <1>r, <2>1 DEF HandleReady, Send, Inbox
<1>m. \A u \in Users : Deleted(u) => Deleted(u)'
  BY DeletedStays
<1>1. ASSUME ~JobSteps, ~DeleteRuns, ~Restart PROVE RunInv'
  <2>1. UNCHANGED jobVars
    <3>1. AccountSteps => UNCHANGED jobVars
      BY DEF AccountSteps, Register, ChangeProfile, DeleteAccount, UpdateSettings, WriteUser, PublishFails, AnswerLost,
             RestartUserService, clerkFrame
    <3>2. PublisherSteps => UNCHANGED jobVars
      BY DEF PublisherSteps, PublishUser, EmitReady
    <3>3. PromptSteps => UNCHANGED jobVars
      BY DEF PromptSteps, pushFrame, Dismiss, Accept, ClearBrowser, MayAskAgain, PermissionAnswered, SaveSubscription, SubscribeFails,
             OpenApp, RemoveSubscription
    <3>4. Consumes => UNCHANGED jobVars
      BY <1>1 DEF Consumes, Take, HandleUserUpserted, DeleteSubscriptions, DeleteSubscriber, HandleReady, PushReady, RecordEvent, Commit,
             HandlerFails, DeletePaths, consumerFrame, jobVars
    <3> QED
      BY <1>1, <3>1, <3>2, <3>3, <3>4, AllSteps
  <2>2. \A ty \in Types, u \in Users : \A day : Inbox(<<ty, u, day>>)' => Inbox(<<ty, u, day>>)
    <3>1. ASSUME NEW ty \in Types, NEW u \in Users PROVE ~Notify(ty, u)
      BY <1>1 DEF JobSteps, Reminds
    <3> QED
      BY <1>r, <3>1, InboxFrame
  <2>3. \A ty \in Types, u \in Users : Day(ty, u)' = Day(ty, u) /\ (Behind(ty, u)' <=> Behind(ty, u))
    BY <2>1 DEF Day, Behind, jobVars
  <2>4. runs' = runs /\ jobs' = jobs
    BY <2>1 DEF jobVars
  <2>5. \A ty \in Types, u \in Users : jobs'[ty].step[u] = "notify" => <<u, ty, Day(ty, u)'>> \notin runs'
    BY <2>3, <2>4 DEF RunInv
  <2> QED
    BY <1>d, <1>i, <1>m, <2>2, <2>3, <2>4, <2>5
<1>2. CASE DeleteRuns
  <2>1. /\ consumer.at # "idle" /\ consumer.topic = Deletes /\ runs' = {r \in runs : r[1] # Message.user}
        /\ UNCHANGED <<sent, spoilt, jobs, hour>>
    BY <1>2 DEF DeleteRuns, At, consumerFrame, noticeVars, Deletes
  <2>2. Deleted(Message.user)
    <3>1. Message.user \in Users /\ 1 \in DOMAIN queue[Deletes] /\ Message = queue[Deletes][1]
      BY <1>a, <2>1, AtWork, Head1 DEF Message
    <3> QED
      BY <3>1 DEF HookInv, About
  <2>3. \A u, ty, day : <<u, ty, day>> \in runs /\ u # Message.user => <<u, ty, day>> \in runs'
    BY <2>1
  <2>4. \A ty \in Types, u \in Users : Day(ty, u)' = Day(ty, u) /\ (Behind(ty, u)' <=> Behind(ty, u))
    BY <2>1 DEF Day, Behind
  <2>5. \A n : Inbox(n)' <=> Inbox(n)
    BY <2>1 DEF Inbox
  <2>6. \A ty \in Types, u \in Users : jobs'[ty].step[u] = "notify" => <<u, ty, Day(ty, u)'>> \notin runs'
    BY <2>1, <2>4 DEF RunInv
  <2> QED
    BY <1>d, <1>i, <1>m, <2>2, <2>3, <2>4, <2>5, <2>6
<1>3. CASE Restart
  <2>1. /\ UNCHANGED <<sent, runs>> /\ \A ty \in Types : Unrecorded(ty) \subseteq spoilt'
        /\ spoilt \subseteq spoilt' /\ \A ty \in Types : jobs'[ty] = IdleJob
    BY <1>3 DEF Restart
  <2>2. \A ty \in Types, u \in Users : jobs'[ty].step[u] = "none"
    BY <2>1, FreshJobs
  <2>3. ASSUME NEW ty \in Types, NEW u \in Users, NEW day, Inbox(<<ty, u, day>>)', Behind(ty, u) PROVE Day(ty, u) # day
    <3>1. Notice(ty, u) \in Unrecorded(ty)
      BY <2>3 DEF Unrecorded, Behind
    <3>2. Notice(ty, u) \in spoilt'
      BY <2>1, <3>1
    <3> QED
      BY <2>3, <3>2 DEF Inbox, Notice
  <2>4. \A n : Inbox(n)' => Inbox(n)
    BY <2>1 DEF Inbox
  <2> QED
    BY <1>d, <1>i, <1>m, <2>1, <2>2, <2>3, <2>4
<1>4. ASSUME NEW ty \in Types, ListUsers(ty) \/ ListFails(ty) \/ StartBatch(ty) \/ JobIsOver(ty) PROVE RunInv'
  <2>1. UNCHANGED <<sent, spoilt, runs>>
    BY <1>4 DEF ListUsers, ListFails, StartBatch, JobIsOver, noticeVars
  <2>2. ASSUME NEW o \in Types, NEW v \in Users
        PROVE  /\ jobs'[o].step[v] \in {"lookup", jobs[o].step[v]}
               /\ jobs'[o].step[v] \notin {"none", "lookup"} => Day(o, v)' = Day(o, v)
               /\ Behind(o, v) => jobs'[o].step[v] = jobs[o].step[v]
    <3>1. Behind(o, v) => jobs'[o].step[v] = jobs[o].step[v]
      <4>1. ASSUME Behind(o, v), StartBatch(ty) PROVE jobs'[o].step[v] = jobs[o].step[v]
        <5>1. PICK batch \in SUBSET jobs[ty].todo :
                 /\ Listed(ty, "sending", jobs[ty].due, jobs[ty].todo \ batch)
                 /\ \A u \in Users : jobs'[ty].step[u] = IF u \in batch THEN "lookup" ELSE jobs[ty].step[u]
          <6>1. jobs \in [Types -> Jobs] /\ StartBatch(ty)
            BY <1>a, <4>1 DEF JobTypes
          <6> QED
            BY <6>1, BatchStarted, Zenon
        <5>2. o # ty
          BY <4>1 DEF StartBatch, Working, Behind
        <5> QED
          BY <5>1, <5>2 DEF Listed
      <4>2. ASSUME ~StartBatch(ty) PROVE jobs'[o].step[v] = jobs[o].step[v]
        <5>1. CASE ListUsers(ty)
          BY <1>a, <5>1, ListedUsers DEF Listed, Untouched, TypeInv, JobTypes
        <5>2. CASE ListFails(ty) \/ JobIsOver(ty)
          BY <1>a, <5>2, AtOnly DEF Listed, Untouched, ListFails, JobIsOver, JobTypes
        <5> QED
          BY <1>4, <4>2, <5>1, <5>2
      <4> QED
        BY <4>1, <4>2
    <3> QED
      BY <1>4, <3>1, ListSteps
  <2>3. ASSUME NEW o \in Types, NEW v \in Users, Behind(o, v) PROVE Behind(o, v)' /\ Day(o, v)' = Day(o, v)
    BY <2>2, <2>3 DEF Behind
  <2>4. ASSUME NEW o \in Types, NEW v \in Users, jobs'[o].step[v] = "notify" PROVE <<v, o, Day(o, v)'>> \notin runs'
    <3>1. jobs[o].step[v] = "notify" /\ Day(o, v)' = Day(o, v)
      BY <2>2, <2>4
    <3> QED
      BY <2>1, <3>1 DEF RunInv
  <2>5. \A n : Inbox(n)' <=> Inbox(n)
    BY <2>1 DEF Inbox
  <2> QED
    BY <1>d, <1>i, <1>m, <2>1, <2>3, <2>4, <2>5
<1>5. CASE Tick
  <2>1. UNCHANGED <<sent, spoilt, runs>> /\ \A ty \in Types : Settled(ty)
    BY <1>5 DEF Tick, noticeVars
  <2>2. \A ty \in Types, u \in Users : jobs'[ty].step[u] = "none" /\ ~Behind(ty, u)
    BY <1>5, <2>1, FreshJobs DEF Tick, Settled, Working, Behind
  <2>3. \A n : Inbox(n)' <=> Inbox(n)
    BY <2>1 DEF Inbox
  <2> QED
    BY <1>d, <1>i, <1>m, <2>1, <2>2, <2>3
<1>6. ASSUME NEW ty \in Types, NEW u \in Users, Reminds(ty, u) PROVE RunInv'
  BY <1>6, RemindingRuns
<1> QED
  BY <1>1, <1>2, <1>3, <1>4, <1>5, <1>6 DEF JobSteps


LEMMA OnceStep ==
    ASSUME TypeInv, TypeInv', NotificationsAssumption, IdInv, ReadyInv, RunInv, NoticesOnce, Next
    PROVE  NoticesOnce'
<1> SUFFICES ASSUME NEW n \in twice' \ spoilt' PROVE n[1] \in Types /\ clerk'[n[2]].state = "deleted"
  BY DEF NoticesOnce
<1>a. KafkaTypes /\ NoticeTypes /\ NoticeTypes' /\ "ready" \notin Types
  BY DEF TypeInv, NotificationsAssumption
<1>1. ASSUME NEW u \in Users, Deleted(u), n[2] = u PROVE clerk'[n[2]].state = "deleted"
  BY <1>1, DeletedStays DEF Deleted
<1>2. ASSUME n \in twice \ spoilt PROVE n[1] \in Types /\ clerk'[n[2]].state = "deleted"
  <2>1. n[1] \in Types /\ clerk[n[2]].state = "deleted"
    BY <1>2 DEF NoticesOnce
  <2>2. n \in Notices
    BY <1>a, <1>2 DEF NoticeTypes
  <2>3. n[2] \in Users
    BY <1>a, <2>1, <2>2 DEF Notices
  <2> QED
    BY <1>1, <2>1, <2>3 DEF Deleted
<1>3. ASSUME twice' = twice, \A m : Inbox(m)' => Inbox(m) PROVE n \in twice \ spoilt
  <2>1. Inbox(n)'
    BY <1>a DEF NoticeTypes, Inbox
  <2> QED
    BY <1>3, <2>1 DEF Inbox
<1>4. ASSUME HandleReady PROVE n \in twice \ spoilt
  <2>1. spoilt' = spoilt /\ twice' = twice \cup (sent \cap {<<"ready", Message.id>>}) /\ consumer.at = "handle"
    BY <1>4 DEF HandleReady, Send, At
  <2>2. Message.id \notin processed /\ ~ReadyBehind
    BY <2>1 DEF IdInv, ReadyBehind
  <2>3. <<"ready", Message.id>> \notin sent \ spoilt
    BY <2>2 DEF ReadyInv
  <2> QED
    BY <2>1, <2>3
<1>5. ASSUME NEW ty \in Types, NEW u \in Users, Notify(ty, u), n \notin twice \ spoilt
      PROVE  n[1] \in Types /\ clerk'[n[2]].state = "deleted"
  <2>1. spoilt' = spoilt /\ twice' = twice \cup (sent \cap {Notice(ty, u)}) /\ jobs[ty].step[u] = "notify"
    BY <1>5 DEF Notify, Send
  <2>2. n = <<ty, u, Day(ty, u)>> /\ n \in sent \ spoilt
    BY <1>5, <2>1 DEF Notice
  <2>3. <<u, ty, Day(ty, u)>> \notin runs /\ ~Behind(ty, u)
    BY <2>1 DEF RunInv, Behind
  <2>4. Deleted(u)
    BY <2>2, <2>3 DEF RunInv
  <2> QED
    BY <1>1, <2>2, <2>4
<1> QED
  BY <1>2, <1>3, <1>4, <1>5, InboxFrame

-----------------------------------------------------------------------------
(* Everyone due is reminded.                                                *)

\* A run stands for a notice; of those due, one is to do, at work, failed, or
\* reminded; a job over without a failure has nobody to do or at work.
RemindInv ==
    /\ \A ty, u, day : <<u, ty, day>> \in runs => <<ty, u, day>> \in sent
    /\ \A ty \in Types : jobs[ty].at \in {"sending", "over"} =>
          \A u \in jobs[ty].due \ jobs[ty].absent :
             \/ u \in jobs[ty].todo \/ jobs[ty].step[u] \in {"lookup", "notify", "push", "record", "dead"}
             \/ jobs[ty].step[u] = "done" /\ Notice(ty, u) \in sent
    /\ \A ty \in Types : jobs[ty].at = "over" /\ Dead(ty) = {} => jobs[ty].todo = {} /\ Working(ty) = {}

LEMMA SentStays == ASSUME TypeInv, NotificationsAssumption, Next PROVE sent \subseteq sent'
<1>1. AccountSteps \/ PublisherSteps \/ PromptSteps => sent' = sent
  <2>1. AccountSteps => sent' = sent
    BY DEF AccountSteps, Register, ChangeProfile, DeleteAccount, UpdateSettings, WriteUser, PublishFails, AnswerLost,
           RestartUserService, clerkFrame, noticeVars
  <2>2. PublisherSteps => sent' = sent
    BY DEF PublisherSteps, PublishUser, EmitReady, noticeVars
  <2>3. PromptSteps => sent' = sent
    BY DEF PromptSteps, pushFrame, Dismiss, Accept, ClearBrowser, MayAskAgain, PermissionAnswered, SaveSubscription, SubscribeFails,
           OpenApp, RemoveSubscription, noticeVars
  <2> QED
    BY <2>1, <2>2, <2>3
<1>2. Consumes => sent \subseteq sent'
  BY DEF Consumes, Take, HandleUserUpserted, DeleteRuns, DeleteSubscriptions, DeleteSubscriber, HandleReady, Send, PushReady, RecordEvent,
         Commit, HandlerFails, DeletePaths, noticeVars
<1>3. Restart => sent' = sent
  BY DEF Restart
<1>4. JobSteps => sent \subseteq sent'
  <2>1. ASSUME NEW ty \in Types, ListUsers(ty) \/ ListFails(ty) \/ StartBatch(ty) \/ JobIsOver(ty) PROVE sent' = sent
    BY <2>1 DEF ListUsers, ListFails, StartBatch, JobIsOver, noticeVars
  <2>2. Tick => sent' = sent
    BY DEF Tick, noticeVars
  <2>3. ASSUME NEW ty \in Types, NEW u \in Users, Reminds(ty, u) PROVE sent \subseteq sent'
    BY <2>3, Reminded
  <2> QED
    BY <2>1, <2>2, <2>3 DEF JobSteps
<1> QED
  BY <1>1, <1>2, <1>3, <1>4, AllSteps

LEMMA RemindedStays ==
    ASSUME TypeInv, NotificationsAssumption, RemindInv, NEW ty \in Types, NEW u \in Users, Reminds(ty, u)
    PROVE  RemindInv'
<1>a. JobTypes /\ jobs \in [Types -> Jobs] /\ NoticeTypes
  BY DEF TypeInv, JobTypes
<1>0. sent \subseteq sent'
  BY Reminded
<1>1. /\ jobs[ty].step[u] \in {"lookup", "notify", "push", "record"} /\ hour' = hour
      /\ \E step \in {"notify", "push", "record", "done", "dead"} : Moved(ty, u, step)
  BY <1>a, Reminding
<1>2. PICK step \in {"notify", "push", "record", "done", "dead"} : Moved(ty, u, step)
  BY <1>1
<1>3. /\ \A o \in Types, v \in Users : Notice(o, v)' = Notice(o, v)
      /\ \A o \in Types, v \in Users : o # ty \/ v # u => jobs'[o].step[v] = jobs[o].step[v]
      /\ \A o \in Types : jobs'[o].at = jobs[o].at /\ jobs'[o].due = jobs[o].due /\ jobs'[o].todo = jobs[o].todo
      /\ jobs'[ty].step[u] = step
  BY <1>1, <1>2, MovedNotice DEF Moved
<1>4. \A o \in Types : jobs[o].absent \subseteq jobs'[o].absent
  BY <1>a, Stepped, Absented DEF Reminds, Lookup, Notify, PushReminder, RecordRun, ReminderFails, Steps
<1>5. \A o, v, day : <<v, o, day>> \in runs' => <<o, v, day>> \in sent'
  <2>1. ASSUME RecordRun(ty, u) PROVE Notice(ty, u) \in sent /\ runs' = runs \cup {<<u, ty, Day(ty, u)>>}
    BY <1>a, <2>1 DEF RecordRun, NoticeTypes, Behind
  <2>2. ASSUME ~RecordRun(ty, u) PROVE runs' = runs
    BY <2>2 DEF Reminds, Lookup, Notify, NothingToSay, PushReminder, ReminderFails
  <2> SUFFICES ASSUME NEW o, NEW v, NEW day, <<v, o, day>> \in runs' PROVE <<o, v, day>> \in sent'
    OBVIOUS
  <2>3. CASE <<v, o, day>> \in runs
    BY <1>0, <2>3 DEF RemindInv
  <2>4. CASE <<v, o, day>> \notin runs
    <3>1. <<v, o, day>> = <<u, ty, Day(ty, u)>> /\ Notice(ty, u) \in sent
      BY <2>1, <2>2, <2>4
    <3>2. v = u /\ o = ty /\ day = Day(ty, u)
      BY <3>1
    <3> QED
      BY <1>0, <3>1, <3>2 DEF Notice
  <2> QED
    BY <2>3, <2>4
<1>6. ASSUME jobs'[ty].step[u] = "done", u \notin jobs'[ty].absent PROVE Notice(ty, u) \in sent
  <2>1. CASE Lookup(ty, u)
    <3>1. <<u, ty, Day(ty, u)>> \in runs
      <4>1. Step(ty, u, IF <<u, ty, Day(ty, u)>> \in runs THEN "done" ELSE "notify")
        BY <2>1 DEF Lookup
      <4>2. <<u, ty, Day(ty, u)>> \notin runs => Moved(ty, u, "notify")
        BY <1>a, <4>1, Stepped DEF Steps
      <4> QED
        BY <1>6, <4>2 DEF Moved
    <3> QED
      BY <3>1 DEF RemindInv, Notice
  <2>2. CASE Notify(ty, u) \/ PushReminder(ty, u) \/ ReminderFails(ty, u)
    <3>1. Step(ty, u, "push") \/ Step(ty, u, "record") \/ Step(ty, u, "dead")
      BY <2>2 DEF Notify, PushReminder, ReminderFails
    <3>2. Moved(ty, u, "push") \/ Moved(ty, u, "record") \/ Moved(ty, u, "dead")
      BY <1>a, <3>1, Stepped DEF Steps
    <3> QED
      BY <1>6, <3>2 DEF Moved
  <2>3. CASE NothingToSay(ty, u)
    BY <1>a, <1>6, <2>3, Absented
  <2>4. CASE RecordRun(ty, u)
    BY <1>a, <2>4 DEF RecordRun, NoticeTypes, Behind
  <2> QED
    BY <2>1, <2>2, <2>3, <2>4 DEF Reminds
<1>7. ASSUME NEW o \in Types, jobs'[o].at \in {"sending", "over"}, NEW v \in jobs'[o].due \ jobs'[o].absent
      PROVE  \/ v \in jobs'[o].todo \/ jobs'[o].step[v] \in {"lookup", "notify", "push", "record", "dead"}
             \/ jobs'[o].step[v] = "done" /\ Notice(o, v)' \in sent'
  <2>0. v \in jobs[o].due \ jobs[o].absent /\ jobs[o].at \in {"sending", "over"} /\ v \in Users
    BY <1>a, <1>3, <1>4, <1>7 DEF Jobs
  <2>1. CASE o # ty \/ v # u
    <3>1. \/ v \in jobs[o].todo \/ jobs[o].step[v] \in {"lookup", "notify", "push", "record", "dead"}
          \/ jobs[o].step[v] = "done" /\ Notice(o, v) \in sent
      BY <2>0 DEF RemindInv
    <3>2. jobs'[o].step[v] = jobs[o].step[v] /\ Notice(o, v)' = Notice(o, v) /\ jobs'[o].todo = jobs[o].todo
      BY <1>3, <2>0, <2>1
    <3> QED
      BY <1>0, <3>1, <3>2
  <2>2. CASE o = ty /\ v = u
    BY <1>0, <1>3, <1>6, <1>7, <2>2
  <2> QED
    BY <2>1, <2>2
<1>8. ASSUME NEW o \in Types, jobs'[o].at = "over", Dead(o)' = {} PROVE jobs'[o].todo = {} /\ Working(o)' = {}
  <2>1. Dead(o) \subseteq Dead(o)'
    BY <1>1, <1>3 DEF Dead
  <2>2. jobs[o].todo = {} /\ Working(o) = {}
    BY <1>3, <1>8, <2>1 DEF RemindInv
  <2>3. o # ty
    BY <1>1, <2>2 DEF Working
  <2> QED
    BY <1>3, <2>2, <2>3 DEF Working
<1> QED
  BY <1>5, <1>7, <1>8 DEF RemindInv


\* A job whose list, batches or end are at stake.
LEMMA RemindListed ==
    ASSUME TypeInv, NotificationsAssumption, RemindInv,
           NEW ty \in Types, ListUsers(ty) \/ ListFails(ty) \/ StartBatch(ty) \/ JobIsOver(ty)
    PROVE  RemindInv'
<1>a. JobTypes /\ jobs \in [Types -> Jobs] /\ AccountTypes
  BY DEF TypeInv, JobTypes
<1>0. UNCHANGED <<sent, runs, hour>>
  BY DEF ListUsers, ListFails, StartBatch, JobIsOver, noticeVars
<1>1. \A o \in Types : o # ty => jobs'[o] = jobs[o]
  BY <1>a, ListedUsers, AtOnly, BatchStarted DEF Listed, ListFails, JobIsOver
<1>2. \A o, u, day : <<u, o, day>> \in runs' => <<o, u, day>> \in sent'
  BY <1>0 DEF RemindInv
<1>3. ASSUME jobs'[ty].at \in {"sending", "over"}, NEW u \in jobs'[ty].due \ jobs'[ty].absent
      PROVE  \/ u \in jobs'[ty].todo \/ jobs'[ty].step[u] \in {"lookup", "notify", "push", "record", "dead"}
             \/ jobs'[ty].step[u] = "done" /\ Notice(ty, u)' \in sent'
  <2>1. CASE ListUsers(ty)
    BY <1>a, <1>3, <2>1, ListedUsers DEF Listed
  <2>2. CASE ListFails(ty)
    BY <1>a, <1>3, <2>2, AtOnly DEF Listed, ListFails
  <2>3. CASE StartBatch(ty)
    <3>1. PICK batch \in SUBSET jobs[ty].todo :
             /\ Listed(ty, "sending", jobs[ty].due, jobs[ty].todo \ batch) /\ jobs'[ty].zone = jobs[ty].zone
             /\ \A v \in Users : jobs'[ty].step[v] = IF v \in batch THEN "lookup" ELSE jobs[ty].step[v]
      BY <1>a, <2>3, BatchStarted
    <3>2. u \in jobs[ty].due \ jobs[ty].absent /\ u \in Users /\ jobs'[ty].todo = jobs[ty].todo \ batch /\ jobs[ty].at = "sending"
      BY <1>a, <1>3, <2>3, <3>1 DEF Listed, Jobs, StartBatch
    <3>3. \/ u \in jobs[ty].todo \/ jobs[ty].step[u] \in {"lookup", "notify", "push", "record", "dead"}
          \/ jobs[ty].step[u] = "done" /\ Notice(ty, u) \in sent
      BY <3>2 DEF RemindInv
    <3>4. Notice(ty, u)' = Notice(ty, u)
      BY <1>0, <3>1 DEF Notice, Day
    <3> QED
      BY <1>0, <3>1, <3>2, <3>3, <3>4
  <2>4. CASE JobIsOver(ty)
    <3>1. /\ Listed(ty, "over", jobs[ty].due, jobs[ty].todo) /\ Untouched(ty) /\ jobs[ty].at = "sending"
      BY <1>a, <2>4, AtOnly DEF JobIsOver
    <3>2. u \in jobs[ty].due \ jobs[ty].absent /\ jobs'[ty].todo = jobs[ty].todo /\ jobs'[ty].step = jobs[ty].step
          /\ Notice(ty, u)' = Notice(ty, u)
      BY <1>0, <1>3, <3>1 DEF Listed, Untouched, Notice, Day
    <3> QED
      BY <1>0, <3>1, <3>2 DEF RemindInv
  <2> QED
    BY <2>1, <2>2, <2>3, <2>4
<1>4. ASSUME jobs'[ty].at = "over", Dead(ty)' = {} PROVE jobs'[ty].todo = {} /\ Working(ty)' = {}
  <2>1. JobIsOver(ty)
    BY <1>a, <1>4, ListedUsers, AtOnly, BatchStarted DEF Listed, ListFails
  <2>2. Listed(ty, "over", jobs[ty].due, jobs[ty].todo) /\ Untouched(ty)
    BY <1>a, <2>1, AtOnly DEF JobIsOver
  <2>3. jobs'[ty].todo = jobs[ty].todo /\ jobs'[ty].step = jobs[ty].step
    BY <2>2 DEF Listed, Untouched
  <2> QED
    BY <1>4, <2>1, <2>3 DEF JobIsOver, Dead, Working
<1>5. \A o \in Types : o # ty =>
         /\ jobs'[o].at \in {"sending", "over"} =>
               \A u \in jobs'[o].due \ jobs'[o].absent :
                  \/ u \in jobs'[o].todo \/ jobs'[o].step[u] \in {"lookup", "notify", "push", "record", "dead"}
                  \/ jobs'[o].step[u] = "done" /\ Notice(o, u)' \in sent'
         /\ jobs'[o].at = "over" /\ Dead(o)' = {} => jobs'[o].todo = {} /\ Working(o)' = {}
  BY <1>0, <1>1 DEF RemindInv, Notice, Day, Dead, Working
<1> QED
  BY <1>2, <1>3, <1>4, <1>5 DEF RemindInv

LEMMA RemindStep ==
    ASSUME TypeInv, NotificationsAssumption, RemindInv, Next
    PROVE  RemindInv'
<1>a. JobTypes
  BY DEF TypeInv
<1>0. sent \subseteq sent'
  BY SentStays
<1>1. ASSUME ~JobSteps, ~Restart PROVE RemindInv'
  <2>1. UNCHANGED <<jobs, hour>> /\ runs' \subseteq runs
    <3>1. AccountSteps => UNCHANGED jobVars
      BY DEF AccountSteps, Register, ChangeProfile, DeleteAccount, UpdateSettings, WriteUser, PublishFails, AnswerLost,
             RestartUserService, clerkFrame
    <3>2. PublisherSteps => UNCHANGED jobVars
      BY DEF PublisherSteps, PublishUser, EmitReady
    <3>3. PromptSteps => UNCHANGED jobVars
      BY DEF PromptSteps, pushFrame, Dismiss, Accept, ClearBrowser, MayAskAgain, PermissionAnswered, SaveSubscription, SubscribeFails,
             OpenApp, RemoveSubscription
    <3>4. Consumes => UNCHANGED <<jobs, hour>> /\ runs' \subseteq runs
      BY DEF Consumes, Take, HandleUserUpserted, DeleteRuns, DeleteSubscriptions, DeleteSubscriber, HandleReady, PushReady, RecordEvent, Commit,
             HandlerFails, DeletePaths, consumerFrame, jobVars
    <3> QED
      BY <1>1, <3>1, <3>2, <3>3, <3>4, AllSteps DEF jobVars
  <2>2. \A ty \in Types : \A u : Notice(ty, u)' = Notice(ty, u)
    BY <2>1 DEF Notice, Day
  <2>3. \A ty \in Types : Dead(ty)' = Dead(ty) /\ Working(ty)' = Working(ty)
    BY <2>1 DEF Dead, Working
  <2> QED
    BY <1>0, <2>1, <2>2, <2>3 DEF RemindInv
<1>2. CASE Restart \/ Tick
  <2>1. runs' = runs /\ \A ty \in Types : jobs'[ty].at \in {"idle", "listing"}
    BY <1>2, FreshJobs DEF Restart, Tick
  <2> QED
    BY <1>0, <2>1 DEF RemindInv
<1> QED
  BY <1>1, <1>2, RemindListed, RemindedStays DEF JobSteps

-----------------------------------------------------------------------------

NoticeInv == TypeInv /\ IdInv /\ HookInv /\ ReadyInv /\ RunInv /\ NoticesOnce /\ RemindInv

LEMMA NoticeInvHolds == Spec => []NoticeInv
<1>1. Init => NoticeInv
  <2> SUFFICES ASSUME Init PROVE NoticeInv
    OBVIOUS
  <2>1. sent = {} /\ twice = {} /\ runs = {} /\ \A ty \in Types : jobs[ty] = IdleJob
    BY DEF Init
  <2>2. ReadyInv /\ RunInv /\ NoticesOnce /\ RemindInv
    BY <2>1, NotificationsAssumption, FreshJobs DEF ReadyInv, RunInv, NoticesOnce, RemindInv
  <2> QED
    BY <2>2, NotificationsAssumption, TypeInit, IdInit, HookInit DEF NoticeInv
<1>2. NoticeInv /\ [Next]_vars => NoticeInv'
  <2> SUFFICES ASSUME NoticeInv, [Next]_vars PROVE NoticeInv'
    OBVIOUS
  <2>a. TypeInv /\ IdInv /\ HookInv /\ ReadyInv /\ RunInv /\ NoticesOnce /\ RemindInv
    BY DEF NoticeInv
  <2>1. TypeInv' /\ IdInv'
    BY <2>a, NotificationsAssumption, TypeStep, IdStep
  <2>2. CASE Next
    BY <2>a, <2>1, <2>2, NotificationsAssumption, HookStep, ReadyStep, RunStep, OnceStep, RemindStep DEF NoticeInv
  <2>3. CASE UNCHANGED vars
    <3>1. UNCHANGED <<clerk, hooks, row, queue, consumer, processed, subscriber, runs, hour, jobs, sent, twice, spoilt>>
      BY <2>3 DEF vars, accountVars, kafkaVars, jobVars, noticeVars
    <3>2. HookInv'
      BY <2>a, <3>1 DEF HookInv, HasHook, LastHook, Deleted, ClerkAddress, About
    <3>3. ReadyInv' /\ NoticesOnce'
      BY <2>a, <3>1 DEF ReadyInv, ReadyBehind, Message, NoticesOnce
    <3>4. RunInv'
      BY <2>a, <3>1 DEF RunInv, Deleted, Behind, Day
    <3>5. RemindInv'
      BY <2>a, <3>1 DEF RemindInv, Notice, Day, Dead, Working
    <3> QED
      BY <2>1, <3>2, <3>3, <3>4, <3>5 DEF NoticeInv
  <2> QED
    BY <2>2, <2>3
<1> QED
  BY <1>1, <1>2, PTL DEF Spec

\* Rows, events, messages at work, jobs, subscriptions and notices are of their
\* types in every state, whatever order webhooks and events come in.
THEOREM TypeCorrect == Spec => []TypeOK
BY NoticeInvHolds, TypesOK, PTL DEF NoticeInv

\* A job that came to its end without a failure has reminded everyone due, unless
\* there was nothing to say: for any number of users, batches and jobs.
THEOREM RemindsEveryone == Spec => []EveryoneReminded
<1>1. NoticeInv => EveryoneReminded
  <2> SUFFICES ASSUME NoticeInv, NEW ty \in Types, jobs[ty].at = "over", Dead(ty) = {},
                      NEW u \in jobs[ty].due \ jobs[ty].absent
               PROVE  Notice(ty, u) \in sent
    BY DEF EveryoneReminded
  <2>1. u \in Users
    BY DEF NoticeInv, TypeInv, JobTypes, Jobs
  <2>2. u \notin jobs[ty].todo /\ jobs[ty].step[u] \notin {"lookup", "notify", "push", "record", "dead"}
    BY <2>1 DEF NoticeInv, RemindInv, Working, Dead
  <2> QED
    BY <2>2 DEF NoticeInv, RemindInv
<1> QED
  BY <1>1, NoticeInvHolds, PTL

\* A notice reaches the inbox once, though events come again, jobs are restarted
\* and the clock shows an hour twice.
THEOREM NoticesGoOnce == Spec => []NoticesOnce
BY NoticeInvHolds, PTL DEF NoticeInv


-----------------------------------------------------------------------------
(* In step.                                                                 *)

LEMMA CrossedStays == ASSUME TypeInv, NotificationsAssumption, Next PROVE crossed \subseteq crossed'
<1>1. AccountSteps => crossed \subseteq crossed'
  BY DEF AccountSteps, Register, ChangeProfile, DeleteAccount, UpdateSettings, WriteUser, PublishFails, AnswerLost,
         RestartUserService, clerkFrame
<1>2. PublisherSteps => crossed \subseteq crossed'
  BY DEF PublisherSteps, PublishUser, EmitReady
<1>3. PromptSteps => crossed \subseteq crossed'
  BY DEF PromptSteps, pushFrame, Dismiss, Accept, ClearBrowser, MayAskAgain, PermissionAnswered, SaveSubscription, SubscribeFails,
         OpenApp, RemoveSubscription
<1>4. Consumes => crossed \subseteq crossed'
  BY DEF Consumes, Take, HandleUserUpserted, DeleteRuns, DeleteSubscriptions, DeleteSubscriber, HandleReady, PushReady, RecordEvent,
         Commit, HandlerFails, DeletePaths
<1>5. Restart \/ JobSteps => crossed \subseteq crossed'
  BY JobStepFrame DEF Restart
<1> QED
  BY <1>1, <1>2, <1>3, <1>4, <1>5, AllSteps

\* How a webhook goes on.
LEMMA AtFrame ==
    ASSUME TypeInv, NotificationsAssumption, Next, NEW d \in DOMAIN hooks, hooks'[d].at # hooks[d].at, hooks'[d].at # "sent"
    PROVE  (WriteUser(d) /\ hooks'[d].at = "wrote") \/ (PublishUser(d) /\ hooks'[d].at = "done")
<1>a. AccountTypes /\ hooks \in Seq(Hooks)
  BY DEF TypeInv, AccountTypes
<1>0. hooks' # hooks
  OBVIOUS
<1>1. ~PromptSteps /\ ~Consumes /\ ~JobSteps /\ ~Restart
  <2>1. PromptSteps => hooks' = hooks
    BY DEF PromptSteps, pushFrame, Dismiss, Accept, ClearBrowser, MayAskAgain, PermissionAnswered, SaveSubscription, SubscribeFails,
           OpenApp, RemoveSubscription, accountVars
  <2>2. Consumes => hooks' = hooks
    BY DEF Consumes, Take, HandleUserUpserted, DeleteRuns, DeleteSubscriptions, DeleteSubscriber, HandleReady, PushReady, RecordEvent,
           Commit, HandlerFails, DeletePaths, consumerFrame, accountVars
  <2>3. Restart \/ JobSteps => hooks' = hooks
    BY JobStepFrame DEF Restart, accountVars
  <2> QED
    BY <1>0, <2>1, <2>2, <2>3
<1>2. ASSUME NEW u \in Users, Register(u) \/ ChangeProfile(u) \/ DeleteAccount(u) PROVE hooks'[d] = hooks[d]
  <2>1. PICK hook : NewHook(u, hook)
    BY <1>2, ClerkSteps
  <2> QED
    BY <1>a, <2>1, LastOfAppended DEF NewHook
<1>3. ASSUME NEW u \in Users, (\E s \in Settings : UpdateSettings(u, s)) \/ EmitReady(u) PROVE hooks' = hooks
  BY <1>3 DEF UpdateSettings, EmitReady, accountVars
<1>4. ASSUME NEW e \in DOMAIN hooks, NEW at \in {"sent", "wrote", "done"}, hooks' = [hooks EXCEPT ![e].at = at], at # "sent"
      PROVE  e = d /\ hooks'[d].at = at
  <2>1. e = d
    BY <1>a, <1>4, HookMoves
  <2> QED
    BY <1>a, <1>4, <2>1, HookMoves
<1>5. ASSUME NEW e \in DOMAIN hooks, WriteUser(e) PROVE e = d /\ hooks'[d].at = "wrote"
  BY <1>4, <1>5 DEF WriteUser
<1>6. ASSUME NEW e \in DOMAIN hooks, PublishUser(e) PROVE e = d /\ hooks'[d].at = "done"
  BY <1>4, <1>6 DEF PublishUser
<1>7. ASSUME NEW e \in DOMAIN hooks, PublishFails(e) \/ AnswerLost(e) PROVE FALSE
  <2>1. hooks' = [hooks EXCEPT ![e].at = "sent"]
    BY <1>7 DEF PublishFails, AnswerLost
  <2>2. hooks'[e].at = "sent" /\ (d # e => hooks'[d] = hooks[d])
    BY <1>a, <2>1, HookMoves
  <2> QED
    BY <2>2
<1>8. ASSUME RestartUserService PROVE FALSE
  <2>1. hooks'[d] = IF hooks[d].at = "wrote" THEN [hooks[d] EXCEPT !.at = "sent"] ELSE hooks[d]
    BY <1>8 DEF RestartUserService
  <2>2. hooks[d] \in Hooks
    BY <1>a
  <2> QED
    BY <2>1, <2>2 DEF Hooks
<1>9. AccountSteps \/ PublisherSteps
  BY <1>1, AllSteps
<1> QED
  BY <1>0, <1>2, <1>3, <1>5, <1>6, <1>7, <1>8, <1>9 DEF AccountSteps, PublisherSteps

NoRuns(u) == \A r \in runs : r[1] # u
NoSubs(u) == \A b \in Browsers : subs[b] # u

\* Nothing comes back of a deleted account that has not been crossed.
LEMMA RunsGone ==
    ASSUME TypeInv, NotificationsAssumption, Next, NEW u \in Users, Deleted(u), u \notin crossed', NoRuns(u)
    PROVE  NoRuns(u)'
<1>1. AccountSteps \/ PublisherSteps \/ PromptSteps => runs' = runs
  <2>1. AccountSteps => runs' = runs
    BY DEF AccountSteps, Register, ChangeProfile, DeleteAccount, UpdateSettings, WriteUser, PublishFails, AnswerLost,
           RestartUserService, clerkFrame, jobVars
  <2>2. PublisherSteps => runs' = runs
    BY DEF PublisherSteps, PublishUser, EmitReady, jobVars
  <2>3. PromptSteps => runs' = runs
    BY DEF PromptSteps, pushFrame, Dismiss, Accept, ClearBrowser, MayAskAgain, PermissionAnswered, SaveSubscription, SubscribeFails,
           OpenApp, RemoveSubscription, jobVars
  <2> QED
    BY <2>1, <2>2, <2>3
<1>2. Consumes \/ Restart => runs' \subseteq runs
  BY DEF Restart, Consumes, Take, HandleUserUpserted, DeleteRuns, DeleteSubscriptions, DeleteSubscriber, HandleReady, PushReady, RecordEvent,
         Commit, HandlerFails, DeletePaths, jobVars
<1>3. ASSUME NEW ty \in Types, NEW v \in Users, Reminds(ty, v) PROVE runs' = runs \/ (v # u /\ runs' = runs \cup {<<v, ty, Day(ty, v)>>})
  <2>1. ~RecordRun(ty, v) => runs' = runs
    BY <1>3 DEF Reminds, Lookup, Notify, NothingToSay, PushReminder, ReminderFails
  <2>2. RecordRun(ty, v) => v # u /\ runs' = runs \cup {<<v, ty, Day(ty, v)>>}
    BY DEF RecordRun, Deleted
  <2> QED
    BY <2>1, <2>2
<1>4. ASSUME NEW ty \in Types, ListUsers(ty) \/ ListFails(ty) \/ StartBatch(ty) \/ JobIsOver(ty) PROVE runs' = runs
  BY <1>4 DEF ListUsers, ListFails, StartBatch, JobIsOver
<1>5. Tick => runs' = runs
  BY DEF Tick
<1> QED
  BY <1>1, <1>2, <1>3, <1>4, <1>5, AllSteps DEF JobSteps, NoRuns

LEMMA SubsGone ==
    ASSUME TypeInv, NotificationsAssumption, Next, NEW u \in Users, Deleted(u), u \notin crossed', NoSubs(u)
    PROVE  NoSubs(u)'
<1>a. PushTypes /\ u # None
  BY DEF TypeInv, NotificationsAssumption
<1>1. AccountSteps => subs' = subs
  BY DEF AccountSteps, Register, ChangeProfile, DeleteAccount, UpdateSettings, WriteUser, PublishFails, AnswerLost,
         RestartUserService, clerkFrame, pushVars
<1>2. PublisherSteps => subs' = subs
  BY DEF PublisherSteps, PublishUser, EmitReady, pushVars
<1>3. ASSUME NEW c \in Browsers, SaveSubscription(c) PROVE NoSubs(u)'
  <2>1. subs' = [subs EXCEPT ![c] = browser[c].account]
    BY <1>3 DEF SaveSubscription, Subscribed
  <2>2. browser[c].account # u
    BY <1>3 DEF SaveSubscription, Deleted
  <2> QED
    BY <1>a, <2>1, <2>2 DEF NoSubs, PushTypes
<1>4. ASSUME NEW c \in Browsers, NEW v \in Users, RemoveSubscription(c, v) PROVE NoSubs(u)'
  BY <1>a, <1>4 DEF RemoveSubscription, Unsubscribed, NoSubs, PushTypes
<1>5. ASSUME NEW c \in Browsers, NEW v \in Users,
             Dismiss(c) \/ Accept(c) \/ ClearBrowser(c) \/ MayAskAgain(c) \/ PermissionAnswered(c) \/ SubscribeFails(c) \/ OpenApp(c, v)
      PROVE  subs' = subs
  BY <1>5 DEF Dismiss, Accept, ClearBrowser, MayAskAgain, PermissionAnswered, SubscribeFails, OpenApp
<1>6. PromptSteps => NoSubs(u)'
  BY <1>3, <1>4, <1>5 DEF PromptSteps, NoSubs
<1>7. Consumes => \A b \in Browsers : subs'[b] \in {subs[b], None}
  BY DEF Consumes, Take, HandleUserUpserted, DeleteRuns, DeleteSubscriptions, DeleteSubscriber, HandleReady, PushReady, SendToUser,
         RecordEvent, Commit, HandlerFails, DeletePaths, pushVars
<1>8. Restart => subs' = subs
  BY DEF Restart, pushVars
<1> QED
  BY <1>a, <1>1, <1>2, <1>6, <1>7, <1>8, AllSteps, JobStepFrame DEF NoSubs

\* Once the last webhook of a user is handled, the row is what it says.
RowInv ==
    \A u \in Users \ crossed : \A d \in DOMAIN hooks :
        LastHook(d, u) /\ hooks[d].at \in {"wrote", "done"} => row[u] = hooks[d].address

\* A webhook handled before the last one of its user crosses it.
LEMMA Crossing ==
    ASSUME TypeInv, NEW d \in DOMAIN hooks, NEW e \in DOMAIN hooks, LastHook(d, hooks[e].user), d # e,
           NEW done, hooks[d].at \in done
    PROVE  Outdated(e, done)
<1>1. d \in Nat /\ e \in Nat
  BY DEF TypeInv, AccountTypes
<1>2. d > e
  BY <1>1 DEF LastHook
<1> QED
  BY <1>2 DEF Outdated, LastHook

LEMMA RowStep ==
    ASSUME TypeInv, NotificationsAssumption, HookInv, RowInv, Next
    PROVE  RowInv'
<1>a. AccountTypes /\ hooks \in Seq(Hooks)
  BY DEF TypeInv, AccountTypes
<1> SUFFICES ASSUME NEW u \in Users \ crossed', NEW d \in DOMAIN hooks', LastHook(d, u)', hooks'[d].at \in {"wrote", "done"}
             PROVE  row'[u] = hooks'[d].address
  BY DEF RowInv
<1>0. u \in Users \ crossed
  BY CrossedStays
<1>1. ASSUME NEW v \in Users, NEW hook, NewHook(v, hook) PROVE row'[u] = hooks'[d].address
  <2>1. hooks' = Append(hooks, hook) /\ hook \in Hooks /\ hook.user = v /\ hook.at = "sent" /\ row' = row
    BY <1>1 DEF NewHook, clerkFrame
  <2>2. u # v
    BY <1>a, <2>1, LastOfAppended
  <2>3. LastHook(d, u) /\ d \in DOMAIN hooks /\ hooks'[d] = hooks[d]
    BY <1>a, <2>1, <2>2, LastOfAppended DEF LastHook
  <2> QED
    BY <1>0, <2>1, <2>3 DEF RowInv
<1>2. ASSUME SameHooks PROVE row'[u] = hooks'[d].address
  <2>1. LastHook(d, u) /\ d \in DOMAIN hooks /\ hooks'[d].address = hooks[d].address /\ hooks[d].user = u
    BY <1>2, LastStays DEF SameHooks, LastHook
  <2>2. CASE WriteUser(d)
    BY <1>a, <2>1, <2>2 DEF WriteUser, AccountTypes
  <2>3. CASE ~WriteUser(d)
    <3>1. hooks[d].at \in {"wrote", "done"}
      <4>1. CASE hooks'[d].at = hooks[d].at
        BY <4>1
      <4>2. CASE PublishUser(d)
        BY <4>2 DEF PublishUser
      <4> QED
        BY <2>1, <2>3, <4>1, <4>2, AtFrame
    <3>2. ASSUME NEW e \in DOMAIN hooks, WriteUser(e), hooks[e].user = u PROVE FALSE
      <4>1. e # d
        BY <2>3, <3>2
      <4>2. Outdated(e, {"wrote", "done"})
        BY <2>1, <3>1, <3>2, <4>1, Crossing
      <4> QED
        BY <3>2, <4>2 DEF WriteUser
    <3>3. row'[u] = row[u]
      BY <3>2, RowFrame
    <3> QED
      BY <1>0, <2>1, <3>1, <3>3 DEF RowInv
  <2> QED
    BY <2>2, <2>3
<1> QED
  BY <1>1, <1>2, HookFrame


\* What becomes of a topic about accounts.
Grows(t, d) ==
    /\ PublishUser(d) /\ (hooks[d].kind = "upsert" <=> t = Upserts)
    /\ \E e : /\ e.id = events + 1 /\ e.user = hooks[d].user /\ e.address = hooks[d].address
              /\ queue'[t] = Append(queue[t], e)
Shrinks(t) ==
    /\ queue[t] # <<>> /\ queue'[t] = Tail(queue[t])
    /\ (t # Paths /\ Commit /\ consumer.topic = t) \/ (t = Paths /\ DeletePaths)

LEMMA TopicFrame ==
    ASSUME TypeInv, NotificationsAssumption, Next, NEW t \in {Upserts, Deletes, Paths}
    PROVE  queue'[t] = queue[t] \/ Shrinks(t) \/ \E d \in DOMAIN hooks : Grows(t, d)
<1>a. t \in Topics /\ queue \in [Topics -> Seq(Events)] /\ t # "ready"
  BY DEF TypeInv, KafkaTypes, Topics, Upserts, Deletes, Paths
<1>1. ASSUME NEW s \in Topics, queue[s] # <<>>, queue' = [queue EXCEPT ![s] = Tail(@)],
             (s # Paths /\ Commit /\ consumer.topic = s) \/ (s = Paths /\ DeletePaths)
      PROVE  queue'[t] = queue[t] \/ Shrinks(t)
  BY <1>a, <1>1 DEF Shrinks
<1>2. ASSUME NEW u \in Users, EmitReady(u) PROVE queue'[t] = queue[t]
  BY <1>a, <1>2 DEF EmitReady
<1>3. ASSUME NEW d \in DOMAIN hooks, PublishUser(d) PROVE queue'[t] = queue[t] \/ Grows(t, d)
  <2> DEFINE e == [id |-> events + 1, user |-> hooks[d].user, address |-> hooks[d].address]
             ts == IF hooks[d].kind = "upsert" THEN {Upserts} ELSE {Deletes, Paths}
  <2>1. Published(e, ts)
    BY <1>3, Publishers
  <2>2. e.user = hooks[d].user /\ e.address = hooks[d].address /\ e.id = events + 1
    OBVIOUS
  <2>3. t \in ts => (hooks[d].kind = "upsert" <=> t = Upserts)
    BY DEF Upserts, Deletes, Paths
  <2> HIDE DEF e, ts
  <2>4. queue'[t] = IF t \in ts THEN Append(queue[t], e) ELSE queue[t]
    BY <1>a, <2>1 DEF Published
  <2> QED
    BY <1>3, <2>2, <2>3, <2>4 DEF Grows
<1> QED
  BY <1>1, <1>2, <1>3, QueueFrame DEF QueueMoves

\* What has reached Novu is what the event at the head of its topic says, before it
\* is recorded and after.
Handled == (consumer.at = "record" /\ consumer.topic = Upserts) \/ queue[Upserts][1].id \in processed
HandledInv ==
    \A u \in Users :
        queue[Upserts] # <<>> /\ queue[Upserts][1].user = u /\ ~Deleted(u) /\ Handled =>
            subscriber[u] = queue[Upserts][1].address

\* Subscribers are removed for those deleted only.
LEMMA Unsubscribing ==
    ASSUME TypeInv, HookInv, consumer.at # "idle", consumer.topic = Deletes
    PROVE  Message.user \in Users /\ Deleted(Message.user) /\ About(queue[Deletes], Message.user)
<1>1. KafkaTypes /\ Deletes \in Topics
  BY DEF TypeInv, Topics, Deletes
<1>2. Message.user \in Users /\ 1 \in DOMAIN queue[Deletes] /\ Message = queue[Deletes][1]
  BY <1>1, AtWork, Head1 DEF Message
<1> QED
  BY <1>2 DEF HookInv, About

LEMMA SubscriberKept ==
    ASSUME TypeInv, NotificationsAssumption, HookInv, Next, NEW u \in Users, ~HandleUserUpserted, ~Deleted(u) \/ ~DeleteSubscriber
    PROVE  subscriber'[u] = subscriber[u]
<1>a. KafkaTypes /\ AccountTypes
  BY DEF TypeInv
<1>1. ASSUME DeleteSubscriber PROVE subscriber'[u] = subscriber[u]
  <2>1. consumer.at # "idle" /\ consumer.topic = Deletes /\ subscriber' = [subscriber EXCEPT ![Message.user] = 0]
    BY <1>a, <1>1 DEF DeleteSubscriber, At, KafkaTypes
  <2>2. Message.user # u
    BY <1>1, <2>1, Unsubscribing
  <2> QED
    BY <1>a, <2>1, <2>2 DEF AccountTypes
<1> QED
  BY <1>1, SubscriberFrame

LEMMA ProcessedFrame ==
    ASSUME TypeInv, NotificationsAssumption, Next
    PROVE  processed' = processed \/ (RecordEvent /\ processed' = processed \cup {Message.id})
<1>1. Consumes => processed' = processed \/ (RecordEvent /\ processed' = processed \cup {Message.id})
  BY DEF Consumes, Take, HandleUserUpserted, DeleteRuns, DeleteSubscriptions, DeleteSubscriber, HandleReady, PushReady, RecordEvent,
         Commit, HandlerFails, DeletePaths
<1>2. Restart => processed' = processed
  BY DEF Restart
<1> QED
  BY <1>1, <1>2, ElsewhereStays

LEMMA HandledStep ==
    ASSUME TypeInv, TypeInv', NotificationsAssumption, IdInv, IdInv', HookInv, HandledInv, Next
    PROVE  HandledInv'
<1>a. KafkaTypes /\ KafkaTypes' /\ AccountTypes /\ Upserts \in Topics /\ Upserts \in Consumed
  BY DEF TypeInv, Consumed, Topics, Upserts, Paths
<1> SUFFICES ASSUME NEW u \in Users, queue'[Upserts] # <<>>, queue'[Upserts][1].user = u, ~Deleted(u)', Handled'
             PROVE  subscriber'[u] = queue'[Upserts][1].address
  BY DEF HandledInv
<1>d. ~Deleted(u)
  BY DeletedStays
<1>1. CASE HandleUserUpserted
  <2>1. consumer.topic = Upserts /\ consumer.at # "idle" /\ queue' = queue
        /\ subscriber' = [subscriber EXCEPT ![Message.user] = Message.address]
    BY <1>1 DEF HandleUserUpserted, At, Upserts
  <2>2. Message = queue'[Upserts][1]
    BY <2>1 DEF Message
  <2> QED
    BY <1>a, <2>1, <2>2 DEF AccountTypes
<1>2. ~HandleUserUpserted => subscriber'[u] = subscriber[u]
  BY <1>d, SubscriberKept
<1>3. ASSUME ~HandleUserUpserted, consumer'.at = "record", consumer'.topic = Upserts
      PROVE  consumer.at = "record" /\ consumer.topic = Upserts
  <2>1. ~Restart
    BY <1>3 DEF Restart, Idle
  <2>2. CASE Consumes
    <3>1. ASSUME DeleteSubscriber \/ PushReady PROVE FALSE
      <4>1. GoTo("record") /\ consumer.topic # Upserts
        BY <1>a, <3>1 DEF DeleteSubscriber, PushReady, At, KafkaTypes, Deletes, Upserts
      <4> QED
        BY <1>a, <1>3, <4>1, GoesTo
    <3>2. ASSUME DeleteRuns \/ DeleteSubscriptions \/ HandleReady \/ RecordEvent PROVE FALSE
      <4>1. GoTo("rows") \/ GoTo("novu") \/ GoTo("push") \/ GoTo("commit")
        BY <3>2 DEF DeleteRuns, DeleteSubscriptions, HandleReady, RecordEvent
      <4> QED
        BY <1>a, <1>3, <4>1, GoesTo
    <3>3. ~Commit /\ ~HandlerFails /\ \A t \in Topics : ~Take(t)
      <4>1. Commit \/ HandlerFails => consumer'.at = "idle"
        BY DEF Commit, HandlerFails, Idle
      <4>2. ASSUME NEW t \in Topics, Take(t) PROVE consumer'.at # "record"
        BY <4>2 DEF Take
      <4> QED
        BY <1>3, <4>1, <4>2
    <3>4. DeletePaths => consumer' = consumer
      BY DEF DeletePaths
    <3> QED
      BY <1>3, <2>2, <3>1, <3>2, <3>3, <3>4 DEF Consumes
  <2> QED
    BY <1>3, <2>1, <2>2, ElsewhereStays
<1>4. processed' = processed \/ (RecordEvent /\ processed' = processed \cup {Message.id})
  BY ProcessedFrame
<1>5. ASSUME ~HandleUserUpserted, queue[Upserts] # <<>>, queue'[Upserts][1] = queue[Upserts][1] PROVE subscriber'[u] = queue'[Upserts][1].address
  <2>1. CASE consumer'.at = "record" /\ consumer'.topic = Upserts
    BY <1>2, <1>3, <1>5, <1>d, <2>1 DEF HandledInv, Handled
  <2>2. CASE queue[Upserts][1].id \in processed
    BY <1>2, <1>5, <1>d, <2>2 DEF HandledInv, Handled
  <2>3. CASE RecordEvent /\ queue[Upserts][1].id = Message.id
    <3>1. consumer.at = "record" /\ consumer.topic \in Consumed /\ queue[consumer.topic] # <<>> /\ 1 \in DOMAIN queue[consumer.topic]
      BY <1>a, <2>3, AtWork, Head1 DEF RecordEvent, At
    <3>2. 1 \in DOMAIN queue[Upserts]
      BY <1>a, <1>5, Head1
    <3>3. consumer.topic = Upserts
      BY <1>a, <2>3, <3>1, <3>2 DEF IdInv, Message
    <3> QED
      BY <1>2, <1>5, <1>d, <3>1, <3>3 DEF HandledInv, Handled
  <2> QED
    BY <1>4, <1>5, <2>1, <2>2, <2>3 DEF Handled
<1>6. ASSUME Shrinks(Upserts) PROVE FALSE
  <2>1. Commit /\ queue[Upserts] # <<>> /\ queue'[Upserts] = Tail(queue[Upserts])
    BY <1>6 DEF Shrinks, Upserts, Paths
  <2>2. consumer'.at = "idle" /\ processed' = processed
    BY <2>1 DEF Commit, Idle
  <2>3. queue'[Upserts][1].id \in processed
    BY <2>2 DEF Handled
  <2>4. 1 \in DOMAIN Tail(queue[Upserts]) /\ queue[Upserts] \in Seq(Events)
    BY <1>a, <2>1, Head1
  <2>5. 2 \in DOMAIN queue[Upserts] /\ Tail(queue[Upserts])[1] = queue[Upserts][2]
    BY <2>1, <2>4, Tailed
  <2> QED
    BY <1>a, <2>1, <2>3, <2>5 DEF IdInv
<1>7. ASSUME NEW d \in DOMAIN hooks, Grows(Upserts, d) PROVE subscriber'[u] = queue'[Upserts][1].address
  <2>1. PICK e : e.id = events + 1 /\ queue'[Upserts] = Append(queue[Upserts], e)
    BY <1>7 DEF Grows
  <2>2. PublishUser(d) /\ processed' = processed /\ consumer' = consumer /\ queue[Upserts] \in Seq(Events)
    BY <1>a, <1>7 DEF Grows, PublishUser, KafkaTypes
  <2>3. ~HandleUserUpserted
    <3>1. hooks' # hooks
      <4>1. hooks[d].at = "wrote" /\ hooks'[d].at = "done"
        BY <1>a, <2>2, HookMoves DEF PublishUser
      <4> QED
        BY <4>1
    <3> QED
      BY <3>1 DEF HandleUserUpserted, consumerFrame, accountVars
  <2>4. CASE queue[Upserts] # <<>>
    <3>1. queue'[Upserts][1] = queue[Upserts][1]
      BY <2>1, <2>2, <2>4
    <3> QED
      BY <1>5, <2>3, <2>4, <3>1
  <2>5. CASE queue[Upserts] = <<>>
    <3>1. queue'[Upserts][1].id = events + 1
      BY <2>1, <2>5
    <3>2. queue'[Upserts][1].id \notin processed'
      BY <1>a, <2>2, <3>1 DEF KafkaTypes
    <3>3. ~(consumer'.at = "record" /\ consumer'.topic = Upserts)
      BY <1>a, <2>2, <2>5 DEF KafkaTypes
    <3> QED
      BY <3>2, <3>3 DEF Handled
  <2> QED
    BY <2>4, <2>5
<1>8. CASE ~HandleUserUpserted /\ queue'[Upserts] = queue[Upserts]
  BY <1>5, <1>8
<1> QED
  BY <1>1, <1>6, <1>7, <1>8, TopicFrame


\* Once it is answered, the last event of the user says so too, and so does Novu
\* when there is none.
Says(q, u, address) ==
    \A n \in DOMAIN q : q[n].user = u /\ (\A m \in DOMAIN q : m > n => q[m].user # u) => q[n].address = address
Caught ==
    \A u \in Users \ crossed : \A d \in DOMAIN hooks :
        LastHook(d, u) /\ hooks[d].at = "done" /\ ~Deleted(u) =>
            /\ Says(queue[Upserts], u, hooks[d].address)
            /\ About(queue[Upserts], u) \/ subscriber[u] = hooks[d].address

LEMMA SaysTail ==
    ASSUME NEW S, NEW q \in Seq(S), q # <<>>, NEW u, NEW address, Says(q, u, address)
    PROVE  /\ Says(Tail(q), u, address)
           /\ About(q, u) /\ ~About(Tail(q), u) => q[1].user = u /\ q[1].address = address
<1>1. /\ DOMAIN q = 1 .. Len(q) /\ Len(q) \in Nat \ {0} /\ DOMAIN Tail(q) = 1 .. Len(q) - 1
      /\ \A n \in DOMAIN Tail(q) : n \in Nat \ {0} /\ n + 1 \in DOMAIN q /\ Tail(q)[n] = q[n + 1]
      /\ \A n \in DOMAIN q : n # 1 => n - 1 \in DOMAIN Tail(q) /\ Tail(q)[n - 1] = q[n]
  BY Tailed
<1>2. ASSUME NEW n \in DOMAIN Tail(q), Tail(q)[n].user = u, \A m \in DOMAIN Tail(q) : m > n => Tail(q)[m].user # u
      PROVE  Tail(q)[n].address = address
  <2>1. n + 1 \in DOMAIN q /\ Tail(q)[n] = q[n + 1] /\ n \in Nat \ {0}
    BY <1>1
  <2>2. ASSUME NEW m \in DOMAIN q, m > n + 1 PROVE q[m].user # u
    <3>1. m # 1 /\ m \in Nat /\ m - 1 > n
      BY <1>1, <2>1, <2>2
    <3>2. m - 1 \in DOMAIN Tail(q) /\ Tail(q)[m - 1] = q[m]
      BY <1>1, <3>1
    <3> QED
      BY <1>2, <3>1, <3>2
  <2> QED
    BY <1>2, <2>1, <2>2 DEF Says
<1>3. ASSUME About(q, u), ~About(Tail(q), u) PROVE q[1].user = u /\ q[1].address = address
  <2>1. \A n \in DOMAIN q : n # 1 => q[n].user # u
    BY <1>1, <1>3 DEF About
  <2>2. 1 \in DOMAIN q /\ q[1].user = u
    BY <1>1, <1>3, <2>1 DEF About
  <2>3. \A m \in DOMAIN q : m > 1 => q[m].user # u
    BY <1>1, <2>1
  <2> QED
    BY <2>2, <2>3 DEF Says
<1> QED
  BY <1>2, <1>3 DEF Says

LEMMA AboutAppend ==
    ASSUME NEW S, NEW q \in Seq(S), NEW e, NEW u, About(q, u) \/ e.user = u
    PROVE  About(Append(q, e), u)
<1>1. CASE About(q, u)
  BY <1>1, Appended DEF About
<1>2. CASE e.user = u
  <2>1. PICK l : l = Len(q) + 1
    OBVIOUS
  <2>2. l \in DOMAIN Append(q, e) /\ Append(q, e)[l] = e
    BY <2>1
  <2> QED
    BY <1>2, <2>2 DEF About
<1> QED
  BY <1>1, <1>2

LEMMA SaysAppend ==
    ASSUME NEW S, NEW q \in Seq(S), NEW e, NEW u, NEW address
    PROVE  /\ e.user # u /\ Says(q, u, address) => Says(Append(q, e), u, address)
           /\ e.user = u /\ e.address = address => Says(Append(q, e), u, address) /\ About(Append(q, e), u)
           /\ About(q, u) => About(Append(q, e), u)
<1>1. /\ DOMAIN Append(q, e) = 1 .. Len(q) + 1 /\ DOMAIN q = 1 .. Len(q) /\ Len(q) \in Nat
      /\ \A n \in DOMAIN Append(q, e) :
            \/ n \in DOMAIN q /\ Append(q, e)[n] = q[n]
            \/ n = Len(q) + 1 /\ Append(q, e)[n] = e
      /\ \A n \in DOMAIN q : n \in DOMAIN Append(q, e) /\ Append(q, e)[n] = q[n]
  BY Appended
<1>2. PICK l : l = Len(q) + 1
  OBVIOUS
<1>3. l \in DOMAIN Append(q, e) /\ Append(q, e)[l] = e /\ \A n \in DOMAIN q : l > n
  BY <1>1, <1>2
<1>4. ASSUME e.user # u, Says(q, u, address), NEW n \in DOMAIN Append(q, e), Append(q, e)[n].user = u,
             \A m \in DOMAIN Append(q, e) : m > n => Append(q, e)[m].user # u
      PROVE  Append(q, e)[n].address = address
  <2>1. n \in DOMAIN q /\ Append(q, e)[n] = q[n]
    BY <1>1, <1>4
  <2>2. \A m \in DOMAIN q : m > n => q[m].user # u
    BY <1>1, <1>4
  <2> QED
    BY <1>4, <2>1, <2>2 DEF Says
<1>5. ASSUME e.user = u, e.address = address, NEW n \in DOMAIN Append(q, e), Append(q, e)[n].user = u,
             \A m \in DOMAIN Append(q, e) : m > n => Append(q, e)[m].user # u
      PROVE  Append(q, e)[n].address = address
  <2>1. n \notin DOMAIN q
    BY <1>3, <1>5
  <2> QED
    BY <1>1, <1>5, <2>1
<1> QED
  BY <1>1, <1>3, <1>4, <1>5 DEF Says, About

\* The last webhook of a user not crossed has just been answered, or none of the
\* user is being answered.
LEMMA Answered ==
    ASSUME TypeInv, NotificationsAssumption, Next, NEW u \in Users \ crossed', NEW d, LastHook(d, u)', hooks'[d].at = "done"
    PROVE  /\ u \notin crossed /\ LastHook(d, u) /\ d \in DOMAIN hooks /\ hooks[d].user = u
           /\ hooks'[d].address = hooks[d].address /\ (Deleted(u)' <=> Deleted(u))
           /\ \/ PublishUser(d)
              \/ hooks[d].at = "done" /\ \A e \in DOMAIN hooks : PublishUser(e) => hooks[e].user # u
<1>a. AccountTypes /\ hooks \in Seq(Hooks)
  BY DEF TypeInv, AccountTypes
<1>0. u \notin crossed
  BY CrossedStays
<1>1. /\ LastHook(d, u) /\ d \in DOMAIN hooks /\ hooks[d].user = u
      /\ hooks'[d].address = hooks[d].address /\ (Deleted(u)' <=> Deleted(u))
  <2>1. ASSUME NEW v \in Users, NEW hook, NewHook(v, hook)
        PROVE  LastHook(d, u) /\ hooks'[d] = hooks[d] /\ (Deleted(u)' <=> Deleted(u))
    <3>1. hooks' = Append(hooks, hook) /\ hook \in Hooks /\ hook.user = v /\ hook.at = "sent"
      BY <2>1 DEF NewHook
    <3>2. u # v
      BY <1>a, <3>1, LastOfAppended
    <3>3. LastHook(d, u) /\ hooks'[d] = hooks[d]
      BY <1>a, <3>1, <3>2, LastOfAppended DEF LastHook
    <3> QED
      BY <2>1, <3>2, <3>3 DEF NewHook, Deleted
  <2>2. ASSUME SameHooks, clerk' = clerk
        PROVE  LastHook(d, u) /\ hooks'[d].address = hooks[d].address /\ (Deleted(u)' <=> Deleted(u))
    <3>1. LastHook(d, u)
      BY <2>2, LastStays
    <3> QED
      BY <2>2, <3>1 DEF SameHooks, LastHook, Deleted
  <2> QED
    BY <2>1, <2>2, HookFrame DEF LastHook
<1>2. CASE hooks[d].at = "done"
  <2>1. ASSUME NEW e \in DOMAIN hooks, PublishUser(e), hooks[e].user = u PROVE FALSE
    <3>1. e # d
      BY <1>2, <2>1 DEF PublishUser
    <3>2. Outdated(e, {"done"})
      BY <1>1, <1>2, <2>1, <3>1, Crossing
    <3> QED
      BY <2>1, <3>2 DEF PublishUser
  <2> QED
    BY <1>0, <1>1, <1>2, <2>1
<1>3. CASE hooks[d].at # "done"
  BY <1>0, <1>1, <1>3, AtFrame
<1> QED
  BY <1>2, <1>3

LEMMA CaughtStep ==
    ASSUME TypeInv, NotificationsAssumption, IdInv, HookInv, HandledInv, Caught, Next
    PROVE  Caught'
<1>a. KafkaTypes /\ AccountTypes /\ Upserts \in Topics /\ queue[Upserts] \in Seq(Events)
  BY DEF TypeInv, KafkaTypes, Topics, Upserts
<1> SUFFICES ASSUME NEW u \in Users \ crossed', NEW d \in DOMAIN hooks', LastHook(d, u)', hooks'[d].at = "done", ~Deleted(u)'
             PROVE  /\ Says(queue'[Upserts], u, hooks'[d].address)
                    /\ About(queue'[Upserts], u) \/ subscriber'[u] = hooks'[d].address
  BY DEF Caught, Says, About
<1>1. /\ u \notin crossed /\ LastHook(d, u) /\ d \in DOMAIN hooks /\ hooks[d].user = u
      /\ hooks'[d].address = hooks[d].address /\ ~Deleted(u)
      /\ \/ PublishUser(d)
         \/ hooks[d].at = "done" /\ \A e \in DOMAIN hooks : PublishUser(e) => hooks[e].user # u
  BY Answered
<1>2. CASE PublishUser(d)
  <2>1. hooks[d].kind = "upsert"
    BY <1>1 DEF HookInv
  <2>2. Published([id |-> events + 1, user |-> hooks[d].user, address |-> hooks[d].address], {Upserts})
    BY <1>1, <1>2, <2>1, Publishers
  <2>3. queue'[Upserts] = Append(queue[Upserts], [id |-> events + 1, user |-> hooks[d].user, address |-> hooks[d].address])
    BY <1>a, <2>2 DEF Published
  <2> QED
    BY <1>a, <1>1, <2>3, SaysAppend
<1>3. CASE hooks[d].at = "done" /\ \A e \in DOMAIN hooks : PublishUser(e) => hooks[e].user # u
  <2>0. /\ Says(queue[Upserts], u, hooks[d].address)
        /\ About(queue[Upserts], u) \/ subscriber[u] = hooks[d].address
    BY <1>1, <1>3 DEF Caught
  <2>1. ASSUME HandleUserUpserted PROVE queue' = queue /\ (subscriber'[u] # subscriber[u] => About(queue[Upserts], u))
    <3>1. /\ queue' = queue /\ consumer.topic = Upserts /\ consumer.at # "idle"
          /\ subscriber' = [subscriber EXCEPT ![Message.user] = Message.address]
      BY <2>1 DEF HandleUserUpserted, At, Upserts
    <3>2. Message = queue[Upserts][1] /\ 1 \in DOMAIN queue[Upserts]
      BY <1>a, <3>1, AtWork, Head1 DEF Message
    <3> QED
      BY <1>a, <3>1, <3>2 DEF AccountTypes, About
  <2>2. ~HandleUserUpserted => subscriber'[u] = subscriber[u]
    BY <1>1, SubscriberKept
  <2>3. CASE queue'[Upserts] = queue[Upserts]
    BY <1>1, <2>0, <2>1, <2>2, <2>3
  <2>4. CASE Shrinks(Upserts)
    <3>1. /\ Commit /\ consumer.topic = Upserts /\ queue[Upserts] # <<>> /\ queue'[Upserts] = Tail(queue[Upserts])
      BY <2>4 DEF Shrinks, Upserts, Paths
    <3>2. consumer.at = "commit" /\ subscriber' = subscriber
      BY <3>1 DEF Commit, At
    <3>3. queue[Upserts][1].id \in processed
      BY <3>1, <3>2 DEF IdInv, Message
    <3>4. queue[Upserts][1].user = u => subscriber[u] = queue[Upserts][1].address
      BY <1>1, <3>1, <3>3 DEF HandledInv, Handled
    <3>5. /\ Says(Tail(queue[Upserts]), u, hooks[d].address)
          /\ About(queue[Upserts], u) /\ ~About(Tail(queue[Upserts]), u) =>
                queue[Upserts][1].user = u /\ queue[Upserts][1].address = hooks[d].address
      BY <1>a, <2>0, <3>1, SaysTail
    <3> QED
      BY <1>1, <2>0, <3>1, <3>2, <3>4, <3>5
  <2>5. ASSUME NEW e \in DOMAIN hooks, Grows(Upserts, e)
        PROVE  /\ Says(queue'[Upserts], u, hooks'[d].address)
               /\ About(queue'[Upserts], u) \/ subscriber'[u] = hooks'[d].address
    <3>1. PICK event : event.user = hooks[e].user /\ queue'[Upserts] = Append(queue[Upserts], event)
      BY <2>5 DEF Grows
    <3>2. event.user # u /\ subscriber' = subscriber
      BY <1>3, <2>5, <3>1 DEF Grows, PublishUser
    <3> QED
      BY <1>a, <1>1, <2>0, <3>1, <3>2, SaysAppend
  <2> QED
    BY <2>3, <2>4, <2>5, TopicFrame
<1> QED
  BY <1>1, <1>2, <1>3


\* What a deletion has removed stays removed while it is handled.
Removing ==
    \A u \in Users \ crossed :
        consumer.at # "idle" /\ consumer.topic = Deletes /\ Message.user = u =>
            /\ consumer.at \in {"rows", "novu", "record"} => NoRuns(u)
            /\ consumer.at \in {"novu", "record"} => NoSubs(u)
            /\ consumer.at = "record" => subscriber[u] = 0

LEMMA RemovingStep ==
    ASSUME TypeInv, NotificationsAssumption, HookInv, Removing, Next
    PROVE  Removing'
<1>a. KafkaTypes /\ AccountTypes /\ PushTypes
  BY DEF TypeInv
<1> SUFFICES ASSUME NEW u \in Users \ crossed', consumer'.at # "idle", consumer'.topic = Deletes, Message' .user = u
             PROVE  /\ consumer'.at \in {"rows", "novu", "record"} => NoRuns(u)'
                    /\ consumer'.at \in {"novu", "record"} => NoSubs(u)'
                    /\ consumer'.at = "record" => subscriber'[u] = 0
  BY DEF Removing, NoRuns, NoSubs
<1>0. u \notin crossed
  BY CrossedStays
<1>1. ASSUME ~Consumes, ~Restart
      PROVE  /\ consumer'.at \in {"rows", "novu", "record"} => NoRuns(u)'
             /\ consumer'.at \in {"novu", "record"} => NoSubs(u)'
             /\ consumer'.at = "record" => subscriber'[u] = 0
  <2>1. consumer' = consumer /\ (consumer.at # "idle" => Message' = Message)
    BY <1>1, ElsewhereStays
  <2>2. consumer.at # "idle" /\ consumer.topic = Deletes /\ Message.user = u
    BY <2>1
  <2>3. Deleted(u)
    BY <2>2, Unsubscribing
  <2>4. subscriber' = subscriber
    BY <1>1, SubscriberFrame DEF Consumes
  <2>5. /\ consumer.at \in {"rows", "novu", "record"} => NoRuns(u)
        /\ consumer.at \in {"novu", "record"} => NoSubs(u)
        /\ consumer.at = "record" => subscriber[u] = 0
    BY <1>0, <2>2 DEF Removing
  <2>6. NoRuns(u) => NoRuns(u)'
    BY <2>3, RunsGone
  <2>7. NoSubs(u) => NoSubs(u)'
    BY <2>3, SubsGone
  <2> QED
    BY <2>1, <2>4, <2>5, <2>6, <2>7
<1>2. ~Restart /\ ~Commit /\ ~HandlerFails
  BY DEF Restart, Commit, HandlerFails, Idle
<1>3. ASSUME (\E t \in Topics : Take(t)) \/ RecordEvent PROVE consumer'.at \in {"handle", "commit"}
  <2>1. ASSUME NEW t \in Topics, Take(t) PROVE consumer'.at \in {"handle", "commit"}
    BY <2>1 DEF Take
  <2>2. RecordEvent => consumer'.at = "commit"
    BY <1>a, GoesTo DEF RecordEvent
  <2> QED
    BY <1>3, <2>1, <2>2
<1>4. ASSUME HandleUserUpserted \/ HandleReady \/ PushReady PROVE FALSE
  <2>1. (GoTo("record") \/ GoTo("push")) /\ consumer.topic # Deletes
    BY <1>a, <1>4 DEF HandleUserUpserted, HandleReady, PushReady, At, KafkaTypes, Deletes
  <2> QED
    BY <1>a, <2>1, GoesTo
<1>5. CASE DeleteRuns
  <2>1. GoTo("rows") /\ runs' = {r \in runs : r[1] # Message.user} /\ queue' = queue
    BY <1>5 DEF DeleteRuns
  <2>2. consumer'.at = "rows" /\ Message' = Message
    BY <1>a, <2>1, GoesTo DEF Message
  <2> QED
    BY <2>1, <2>2 DEF NoRuns
<1>6. CASE DeleteSubscriptions
  <2>1. /\ GoTo("novu") /\ queue' = queue /\ runs' = runs /\ consumer.at = "rows" /\ consumer.topic = Deletes
        /\ subs' = [b \in Browsers |-> IF subs[b] = Message.user THEN None ELSE subs[b]]
    BY <1>a, <1>6 DEF DeleteSubscriptions, At, KafkaTypes
  <2>2. consumer'.at = "novu" /\ Message' = Message /\ Message.user = u
    BY <1>a, <2>1, GoesTo DEF Message
  <2>3. NoRuns(u)
    BY <1>0, <2>1, <2>2 DEF Removing
  <2>4. NoSubs(u)'
    BY <2>1, <2>2 DEF NoSubs, NotificationsAssumption
  <2> QED
    BY <2>1, <2>2, <2>3, <2>4 DEF NoRuns
<1>7. CASE DeleteSubscriber
  <2>1. /\ GoTo("record") /\ queue' = queue /\ runs' = runs /\ subs' = subs /\ consumer.at = "novu" /\ consumer.topic = Deletes
        /\ subscriber' = [subscriber EXCEPT ![Message.user] = 0]
    BY <1>a, <1>7 DEF DeleteSubscriber, At, KafkaTypes
  <2>2. consumer'.at = "record" /\ Message' = Message /\ Message.user = u
    BY <1>a, <2>1, GoesTo DEF Message
  <2>3. NoRuns(u) /\ NoSubs(u)
    BY <1>0, <2>1, <2>2 DEF Removing
  <2>4. subscriber'[u] = 0
    BY <1>a, <2>1, <2>2 DEF AccountTypes
  <2> QED
    BY <2>1, <2>3, <2>4 DEF NoRuns, NoSubs
<1>8. CASE DeletePaths
  <2>1. UNCHANGED <<consumer, runs, subs, subscriber>> /\ queue' = [queue EXCEPT ![Paths] = Tail(@)]
    BY <1>8 DEF DeletePaths, jobVars, pushVars, Paths
  <2>2. Message' = Message
    BY <1>a, <2>1 DEF Message, KafkaTypes, Consumers
  <2>3. consumer.at # "idle" /\ consumer.topic = Deletes /\ Message.user = u
    BY <2>1, <2>2
  <2>4. /\ consumer.at \in {"rows", "novu", "record"} => NoRuns(u)
        /\ consumer.at \in {"novu", "record"} => NoSubs(u)
        /\ consumer.at = "record" => subscriber[u] = 0
    BY <1>0, <2>3 DEF Removing
  <2> QED
    BY <2>1, <2>4 DEF NoRuns, NoSubs
<1> QED
  BY <1>1, <1>2, <1>3, <1>4, <1>5, <1>6, <1>7, <1>8 DEF Consumes

\* What a deletion has to remove is gone, or the event of it is not handled yet.
Awaiting(u) == \E n \in DOMAIN queue[Deletes] : queue[Deletes][n].user = u /\ queue[Deletes][n].id \notin processed
Removed ==
    \A u \in Users \ crossed : \A d \in DOMAIN hooks :
        LastHook(d, u) /\ hooks[d].at = "done" /\ Deleted(u) =>
            /\ Awaiting(u) \/ (subscriber[u] = 0 /\ NoRuns(u) /\ NoSubs(u))
            /\ u \notin paths \/ About(queue[Paths], u)

LEMMA RemovedStep ==
    ASSUME TypeInv, NotificationsAssumption, IdInv, HookInv, Removing, Removed, Next
    PROVE  Removed'
<1>a. /\ KafkaTypes /\ AccountTypes /\ Deletes \in Topics /\ Paths \in Topics /\ Deletes \in Consumed
      /\ queue[Deletes] \in Seq(Events) /\ queue[Paths] \in Seq(Events) /\ events \in Nat
  BY DEF TypeInv, KafkaTypes, Topics, Deletes, Paths, Consumed
<1> SUFFICES ASSUME NEW u \in Users \ crossed', NEW d \in DOMAIN hooks', LastHook(d, u)', hooks'[d].at = "done", Deleted(u)'
             PROVE  /\ Awaiting(u)' \/ (subscriber'[u] = 0 /\ NoRuns(u)' /\ NoSubs(u)')
                    /\ u \notin paths' \/ About(queue'[Paths], u)
  BY DEF Removed, About
<1>1. /\ u \notin crossed /\ LastHook(d, u) /\ d \in DOMAIN hooks /\ hooks[d].user = u /\ Deleted(u)
      /\ \/ PublishUser(d)
         \/ hooks[d].at = "done" /\ \A e \in DOMAIN hooks : PublishUser(e) => hooks[e].user # u
  BY Answered
<1>2. CASE PublishUser(d)
  <2> DEFINE e == [id |-> events + 1, user |-> hooks[d].user, address |-> hooks[d].address]
  <2>1. hooks[d].kind = "delete"
    BY <1>1 DEF HookInv
  <2>2. Published(e, {Deletes, Paths})
    BY <1>1, <1>2, <2>1, Publishers
  <2>3. e.user = u /\ e.id = events + 1
    BY <1>1
  <2> HIDE DEF e
  <2>4. queue'[Deletes] = Append(queue[Deletes], e) /\ queue'[Paths] = Append(queue[Paths], e) /\ processed' = processed
    BY <1>a, <2>2 DEF Published
  <2>5. About(queue'[Paths], u)
    BY <1>a, <2>3, <2>4, AboutAppend
  <2>6. Awaiting(u)'
    <3>1. PICK n : n = Len(queue[Deletes]) + 1
      OBVIOUS
    <3>2. n \in DOMAIN queue'[Deletes] /\ queue'[Deletes][n] = e
      BY <1>a, <2>4, <3>1
    <3>3. events + 1 \notin processed
      BY <1>a DEF KafkaTypes
    <3> QED
      BY <2>3, <2>4, <3>2, <3>3 DEF Awaiting
  <2> QED
    BY <2>5, <2>6
<1>3. ASSUME hooks[d].at = "done", \A e \in DOMAIN hooks : PublishUser(e) => hooks[e].user # u
      PROVE  u \notin paths' \/ About(queue'[Paths], u)
  <2>0. u \notin paths \/ About(queue[Paths], u)
    BY <1>1, <1>3 DEF Removed
  <2>1. paths' \subseteq paths
    <3>1. AccountSteps => paths' = paths
      BY DEF AccountSteps, Register, ChangeProfile, DeleteAccount, UpdateSettings, WriteUser, PublishFails, AnswerLost,
             RestartUserService, clerkFrame
    <3>2. PublisherSteps => paths' = paths
      BY DEF PublisherSteps, PublishUser, EmitReady
    <3>3. PromptSteps => paths' = paths
      BY DEF PromptSteps, pushFrame, Dismiss, Accept, ClearBrowser, MayAskAgain, PermissionAnswered, SaveSubscription, SubscribeFails,
             OpenApp, RemoveSubscription
    <3>4. Consumes => paths' \subseteq paths
      BY DEF Consumes, Take, HandleUserUpserted, DeleteRuns, DeleteSubscriptions, DeleteSubscriber, HandleReady, PushReady, RecordEvent,
             Commit, HandlerFails, DeletePaths, consumerFrame
    <3>5. Restart \/ JobSteps => paths' = paths
      BY JobStepFrame DEF Restart
    <3> QED
      BY <3>1, <3>2, <3>3, <3>4, <3>5, AllSteps
  <2>2. CASE queue'[Paths] = queue[Paths]
    BY <2>0, <2>1, <2>2
  <2>3. CASE Shrinks(Paths)
    <3>1. queue[Paths] # <<>> /\ queue'[Paths] = Tail(queue[Paths]) /\ paths' = paths \ {queue[Paths][1].user}
      BY <2>3 DEF Shrinks, DeletePaths, Paths
    <3>2. ASSUME About(queue[Paths], u), queue[Paths][1].user # u PROVE About(Tail(queue[Paths]), u)
      <4>1. PICK n \in DOMAIN queue[Paths] : queue[Paths][n].user = u
        BY <3>2 DEF About
      <4>2. n # 1
        BY <3>2, <4>1
      <4>3. n - 1 \in DOMAIN Tail(queue[Paths]) /\ Tail(queue[Paths])[n - 1] = queue[Paths][n]
        BY <1>a, <3>1, <4>2, Tailed
      <4> QED
        BY <4>1, <4>3 DEF About
    <3> QED
      BY <2>0, <3>1, <3>2
  <2>4. ASSUME NEW e \in DOMAIN hooks, Grows(Paths, e) PROVE About(queue[Paths], u) => About(queue'[Paths], u)
    <3>1. PICK event : queue'[Paths] = Append(queue[Paths], event)
      BY <2>4 DEF Grows
    <3> QED
      BY <1>a, <3>1, AboutAppend
  <2> QED
    BY <2>0, <2>1, <2>2, <2>3, <2>4, TopicFrame
<1>4. ASSUME hooks[d].at = "done" PROVE Awaiting(u)' \/ (subscriber'[u] = 0 /\ NoRuns(u)' /\ NoSubs(u)')
  <2>0. Awaiting(u) \/ (subscriber[u] = 0 /\ NoRuns(u) /\ NoSubs(u))
    BY <1>1, <1>4 DEF Removed
  <2>1. CASE subscriber[u] = 0 /\ NoRuns(u) /\ NoSubs(u)
    <3>1. NoRuns(u)' /\ NoSubs(u)'
      BY <1>1, <2>1, RunsGone, SubsGone
    <3>2. CASE HandleUserUpserted
      <4>1. /\ subscriber' = [subscriber EXCEPT ![Message.user] = Message.address]
            /\ crossed' = IF Buried(Message.user) THEN crossed \cup {Message.user} ELSE crossed
        BY <3>2 DEF HandleUserUpserted
      <4>2. Message.user # u
        BY <1>1, <2>1, <4>1 DEF Buried, Deleted
      <4> QED
        BY <1>a, <2>1, <3>1, <4>1, <4>2 DEF AccountTypes
    <3>3. CASE DeleteSubscriber
      BY <1>a, <2>1, <3>1, <3>3 DEF DeleteSubscriber, AccountTypes
    <3> QED
      BY <2>1, <3>1, <3>2, <3>3, SubscriberFrame
  <2>2. CASE Awaiting(u)
    <3>1. PICK n \in DOMAIN queue[Deletes] : queue[Deletes][n].user = u /\ queue[Deletes][n].id \notin processed
      BY <2>2 DEF Awaiting
    <3>2. CASE queue'[Deletes] = queue[Deletes] /\ queue[Deletes][n].id \notin processed'
      BY <3>1, <3>2 DEF Awaiting
    <3>3. CASE queue[Deletes][n].id \in processed'
      <4>1. RecordEvent /\ queue[Deletes][n].id = Message.id
        BY <3>1, <3>3, ProcessedFrame
      <4>2. /\ consumer.at = "record" /\ consumer.topic \in Consumed /\ 1 \in DOMAIN queue[consumer.topic]
            /\ UNCHANGED <<subscriber, runs, subs>>
        BY <1>a, <4>1, AtWork, Head1 DEF RecordEvent, At
      <4>3. consumer.topic = Deletes /\ n = 1
        BY <1>a, <4>1, <4>2 DEF IdInv, Message
      <4>4. Message.user = u
        BY <3>1, <4>3 DEF Message
      <4>5. NoRuns(u) /\ NoSubs(u) /\ subscriber[u] = 0
        BY <1>1, <4>2, <4>3, <4>4 DEF Removing
      <4> QED
        BY <4>2, <4>5 DEF NoRuns, NoSubs
    <3>4. CASE Shrinks(Deletes)
      <4>1. Commit /\ consumer.topic = Deletes /\ queue[Deletes] # <<>> /\ queue'[Deletes] = Tail(queue[Deletes])
        BY <3>4 DEF Shrinks, Deletes, Paths
      <4>2. consumer.at = "commit" /\ processed' = processed
        BY <4>1 DEF Commit, At
      <4>3. n # 1
        BY <3>1, <4>1, <4>2 DEF IdInv, Message
      <4>4. n - 1 \in DOMAIN queue'[Deletes] /\ queue'[Deletes][n - 1] = queue[Deletes][n]
        BY <1>a, <4>1, <4>3, Tailed
      <4> QED
        BY <3>1, <4>2, <4>4 DEF Awaiting
    <3>5. ASSUME NEW e \in DOMAIN hooks, Grows(Deletes, e) PROVE Awaiting(u)'
      <4>1. processed' = processed /\ \E event : queue'[Deletes] = Append(queue[Deletes], event)
        BY <3>5 DEF Grows, PublishUser
      <4>2. n \in DOMAIN queue'[Deletes] /\ queue'[Deletes][n] = queue[Deletes][n]
        BY <1>a, <4>1, Appended
      <4> QED
        BY <3>1, <4>1, <4>2 DEF Awaiting
    <3> QED
      BY <3>2, <3>3, <3>4, <3>5, TopicFrame
  <2> QED
    BY <2>0, <2>1, <2>2
<1> QED
  BY <1>1, <1>2, <1>3, <1>4


StepInv == RowInv /\ HandledInv /\ Caught /\ Removing /\ Removed

LEMMA StepInvHolds == Spec => []StepInv
<1>1. Init => StepInv
  <2> SUFFICES ASSUME Init PROVE StepInv
    OBVIOUS
  <2>1. DOMAIN hooks = {} /\ consumer.at = "idle"
    BY DEF Init, Idle
  <2>2. queue[Upserts] = <<>>
    BY DEF Init, Topics, Upserts
  <2> QED
    BY <2>1, <2>2 DEF StepInv, RowInv, HandledInv, Caught, Removing, Removed
<1>2. NoticeInv /\ NoticeInv' /\ StepInv /\ [Next]_vars => StepInv'
  <2> SUFFICES ASSUME NoticeInv, NoticeInv', StepInv, [Next]_vars PROVE StepInv'
    OBVIOUS
  <2>a. /\ TypeInv /\ IdInv /\ HookInv /\ TypeInv' /\ IdInv'
        /\ RowInv /\ HandledInv /\ Caught /\ Removing /\ Removed
    BY DEF NoticeInv, StepInv
  <2>1. CASE Next
    BY <2>a, <2>1, NotificationsAssumption, RowStep, HandledStep, CaughtStep, RemovingStep, RemovedStep DEF StepInv
  <2>2. CASE UNCHANGED vars
    <3>1. UNCHANGED <<clerk, hooks, row, queue, consumer, processed, subscriber, paths, runs, subs, crossed>>
      BY <2>2 DEF vars, accountVars, kafkaVars, jobVars, pushVars
    <3>2. RowInv' /\ HandledInv'
      BY <2>a, <3>1 DEF RowInv, HandledInv, LastHook, Deleted, Handled
    <3>3. Caught'
      BY <2>a, <3>1 DEF Caught, LastHook, Deleted, Says, About
    <3>4. Removing'
      BY <2>a, <3>1 DEF Removing, NoRuns, NoSubs, Message
    <3>5. Removed'
      BY <2>a, <3>1 DEF Removed, LastHook, Deleted, Awaiting, NoRuns, NoSubs, About
    <3> QED
      BY <3>2, <3>3, <3>4, <3>5 DEF StepInv
  <2> QED
    BY <2>1, <2>2
<1> QED
  BY <1>1, <1>2, NoticeInvHolds, PTL DEF Spec

\* When webhooks and events have been worked off, in whatever order and however often
\* they failed, user-service and Novu have what Clerk has and nothing is left of a
\* deleted account, for every user for whom nothing older came after something newer.
THEOREM StaysInStep == Spec => []InStep
<1>1. NoticeInv /\ StepInv => InStep
  <2> SUFFICES ASSUME NoticeInv, StepInv, Quiet, NEW u \in Users \ crossed
               PROVE  /\ row[u] = ClerkAddress(u) /\ subscriber[u] = row[u]
                      /\ Deleted(u) => u \notin paths /\ NoRuns(u) /\ NoSubs(u)
    BY DEF InStep, ClerkAddress, Deleted, NoRuns, NoSubs
  <2>a. HookInv /\ RowInv /\ Caught /\ Removed
    BY DEF NoticeInv, StepInv
  <2>1. CASE ~HasHook(u)
    BY <2>a, <2>1 DEF HookInv
  <2>2. CASE HasHook(u)
    <3>1. PICK d \in DOMAIN hooks : LastHook(d, u)
      BY <2>a, <2>2 DEF HookInv
    <3>2. hooks[d].at = "done" /\ hooks[d].address = ClerkAddress(u)
      BY <2>a, <3>1 DEF HookInv, Quiet
    <3>3. row[u] = ClerkAddress(u)
      BY <2>a, <3>1, <3>2 DEF RowInv
    <3>4. ~About(queue[Upserts], u) /\ ~About(queue[Paths], u) /\ ~Awaiting(u)
      <4>1. {Upserts, Paths, Deletes} \subseteq Topics
        BY DEF Topics, Upserts, Paths, Deletes
      <4>2. DOMAIN queue[Upserts] = {} /\ DOMAIN queue[Paths] = {} /\ DOMAIN queue[Deletes] = {}
        BY <4>1 DEF Quiet
      <4> QED
        BY <4>2 DEF About, Awaiting
    <3>5. CASE ~Deleted(u)
      BY <2>a, <3>1, <3>2, <3>3, <3>4, <3>5 DEF Caught
    <3>6. CASE Deleted(u)
      <4>1. ClerkAddress(u) = 0
        BY <3>6 DEF ClerkAddress, Deleted
      <4> QED
        BY <2>a, <3>1, <3>2, <3>3, <3>4, <3>6, <4>1 DEF Removed
    <3> QED
      BY <3>5, <3>6
  <2> QED
    BY <2>1, <2>2
<1> QED
  BY <1>1, NoticeInvHolds, StepInvHolds, PTL

=============================================================================
