------------------------------- MODULE Onboarding -------------------------------
(***************************************************************************)
(* From the first page of the onboarding to the homepage: the pages of the *)
(* web client, the gate around them, the placement test, and the           *)
(* generation of a plan by the orchestrator, AGT-02 and                    *)
(* learning-materials-service, which a call may outlive.                   *)
(*                                                                         *)
(* A call is one run of the page's generatePlan or one replan from the     *)
(* settings page; the path and the plan it leads to bear its number.       *)
(* The storage keys onboarding-active and onboarding-completed are written *)
(* but never read, and are left out.                                       *)
(***************************************************************************)
EXTENDS Placement

CONSTANTS
    MaxCalls,    \* bound: calls
    MaxFaults    \* bound: failures, second tabs, reopened browsers

ASSUME OnboardingAssumption == MaxCalls \in Nat \ {0} /\ MaxFaults \in Nat

VARIABLES
    page,        \* where the tab is; "arriving" is on the way to the main pages
    gate,        \* OnboardingAccessGate: whether it lets through and is asking
    draft,       \* the profile in the session storage
    quiz,        \* AssessmentQuestion
    plan,        \* GeneratedPlanPage: what it shows, and whether it has asked
    marked,      \* onboardingComplete at Clerk
    call,        \* call[c]: the client's side of a call
    work,        \* work[c]: the servers' side of it
    path,        \* path[c]: the row of learning_paths
    plans,       \* the rows of agent_learning_plans, the last one active
    catalogue,   \* the catalogue cached by AGT-02
    overlapped,  \* two calls were at work at once (history)
    torn,        \* calls of which a statement failed behind or beside another (history)
    faults

pageVars == <<page, gate, draft, quiz, plan>>
serverVars == <<work, path, plans, catalogue>>
vars == <<pageVars, marked, call, serverVars, overlapped, torn, faults>>

Calls == 1 .. MaxCalls
Pages == {"goals", "level", "test", "results", "self", "preferences", "plan", "arriving", "home"}
NoPath == 0
NoCall == [at |-> "none", here |-> FALSE, own |-> FALSE]
NoWork == [at |-> "none", full |-> FALSE, synced |-> FALSE, lms |-> "none", todo |-> {}, existing |-> NoPath]
NoRow == [status |-> "none", version |-> 0]
NewQuiz == [status |-> "loading", index |-> 1, answers |-> [n \in Questions |-> "blank"], sent |-> <<>>]
NewPlan == [status |-> "loading", asked |-> FALSE, shown |-> NoPath]

TypeOK ==
    /\ page \in Pages /\ gate \in [allowed : BOOLEAN, asking : BOOLEAN]
    /\ draft \in Drafts
    /\ quiz.status \in {"loading", "error", "success", "submitting"} /\ quiz.index \in Questions \cup {1}
    /\ quiz.answers \in [Questions -> Answers] /\ (quiz.sent = <<>> <=> quiz.status # "submitting")
    /\ plan \in [status : {"loading", "success", "error"}, asked : BOOLEAN, shown : Calls \cup {NoPath}]
    /\ marked \in BOOLEAN
    /\ call \in [Calls -> [at : {"none", "get", "wait", "over"}, here : BOOLEAN, own : BOOLEAN]]
    /\ \A c \in Calls :
          /\ work[c].at \in {"none", "profile", "catalogue", "sync", "insert", "answer", "over"}
          /\ work[c].lms \in {"none", "find", "write", "failed", "over"} /\ work[c].todo \subseteq {"supersede", "create"}
          /\ work[c].existing \in Calls \cup {NoPath}
          /\ path[c].status \in {"none", "active", "superseded"} /\ path[c].version \in 0 .. MaxCalls
          /\ path[c].status # "none" <=> path[c].version > 0
    /\ \A n \in DOMAIN plans : plans[n] \in Calls /\ work[plans[n]].at \in {"answer", "over"}
    /\ catalogue \in {"absent", "full", "empty"}
    /\ torn \subseteq Calls /\ faults \in 0 .. MaxFaults

Init ==
    /\ page = "goals" /\ gate = [allowed |-> FALSE, asking |-> TRUE]
    /\ draft = DefaultDraft /\ quiz = NewQuiz /\ plan = NewPlan
    /\ marked = FALSE
    /\ call = [c \in Calls |-> NoCall] /\ work = [c \in Calls |-> NoWork] /\ path = [c \in Calls |-> NoRow]
    /\ plans = <<>> /\ catalogue = "absent"
    /\ overlapped = FALSE /\ torn = {} /\ faults = 0

Fault == faults < MaxFaults /\ faults' = faults + 1

-----------------------------------------------------------------------------
(* What the servers hold.                                                   *)

Active == {c \in Calls : path[c].status = "active"}

\* The active path with the highest version; the order of equals is open.
Served == IF Active = {} THEN {NoPath} ELSE {c \in Active : \A d \in Active : path[d].version <= path[c].version}

AtWork(c) == work[c].at \notin {"none", "over"} \/ work[c].todo # {} \/ work[c].lms = "find"
Quiet == \A c \in Calls : ~AtWork(c) /\ call[c].at \in {"none", "over"}

\* The next call starts; only the first ones are followed.
Fresh(c) == call[c].at = "none" /\ \A d \in Calls : d < c => call[d].at # "none"
Asks(c, here, own) == call' = [call EXCEPT ![c] = [at |-> "get", here |-> here, own |-> own]]

-----------------------------------------------------------------------------
(* The pages.                                                               *)

wizardFrame == <<marked, call, serverVars, overlapped, torn, faults>>
InOnboarding(p) == p \notin {"arriving", "home"}

\* A page of the onboarding opens: the gate asks again, children of a page start
\* anew, and calls of the page left behind run on unseen.
Opens(p) ==
    /\ page' = p
    /\ quiz' = NewQuiz /\ plan' = NewPlan
    /\ gate' = IF ~InOnboarding(p) THEN [allowed |-> FALSE, asking |-> FALSE]
               ELSE [allowed |-> gate.allowed /\ InOnboarding(page), asking |-> TRUE]

Links == {<<"goals", "level">>, <<"level", "goals">>, <<"level", "test">>, <<"level", "self">>, <<"test", "level">>,
          <<"results", "test">>, <<"results", "preferences">>, <<"self", "level">>, <<"self", "preferences">>,
          <<"preferences", "level">>, <<"preferences", "plan">>, <<"plan", "preferences">>}

SelfComplete == Rated(draft.levels) = Skills

\* A link, or the way back from the plan.  The test and the self-assessment are
\* taken before the first plan is asked for: a bound, for all they change is the
\* draft.
Follow(p) ==
    /\ gate.allowed /\ <<page, p>> \in Links
    /\ page = "self" /\ p = "preferences" => SelfComplete
    /\ page = "results" => (p = "test" <=> ~draft.counted)
    /\ p \in {"test", "self"} => Fresh(1)
    /\ Opens(p)
    /\ call' = IF page = "plan" THEN [c \in Calls |-> [call[c] EXCEPT !.here = FALSE]] ELSE call
    /\ UNCHANGED <<draft, marked, serverVars, overlapped, torn, faults>>

\* Marker and path are read side by side; a status that cannot be had lets through.
GateAnswered ==
    /\ gate.asking
    /\ IF marked /\ Active # {}
       THEN /\ page' = "arriving" /\ gate' = [allowed |-> FALSE, asking |-> FALSE]
            /\ call' = [c \in Calls |-> [call[c] EXCEPT !.here = FALSE]]
       ELSE /\ gate' = [allowed |-> TRUE, asking |-> FALSE]
            /\ UNCHANGED <<page, call>>
    /\ UNCHANGED <<draft, quiz, plan, marked, serverVars, overlapped, torn, faults>>

GateFails ==
    /\ gate.asking /\ Fault
    /\ gate' = [allowed |-> TRUE, asking |-> FALSE]
    /\ UNCHANGED <<page, draft, quiz, plan, marked, call, serverVars, overlapped, torn>>

\* The layout of the main pages lets nobody in without marker and path.
EnterMain ==
    /\ page = "arriving"
    /\ IF marked /\ Active # {} THEN Opens("home") ELSE Opens(IF Active # {} THEN "plan" ELSE "goals")
    /\ UNCHANGED <<draft, wizardFrame>>

\* The browser is closed and opened again, with an empty session storage.
Reopen ==
    /\ Fault
    /\ Opens("arriving") /\ draft' = DefaultDraft
    /\ call' = [c \in Calls |-> [call[c] EXCEPT !.here = FALSE]]
    /\ UNCHANGED <<marked, serverVars, overlapped, torn>>

-----------------------------------------------------------------------------
(* Test and self-assessment.                                                *)

quizFrame == <<page, gate, plan, wizardFrame>>
OnTest == page = "test" /\ gate.allowed
Blank(n) == quiz.answers[n] = "blank"

QuestionsLoaded ==
    /\ OnTest /\ quiz.status = "loading"
    /\ quiz' = [NewQuiz EXCEPT !.status = IF BankComplete THEN "success" ELSE "error"]
    /\ UNCHANGED <<draft, quizFrame>>

QuestionsFail ==
    /\ OnTest /\ quiz.status = "loading" /\ Fault
    /\ quiz' = [quiz EXCEPT !.status = "error"]
    /\ UNCHANGED <<draft, page, gate, plan, marked, call, serverVars, overlapped, torn>>

LoadAgain ==
    /\ OnTest /\ quiz.status = "error"
    /\ quiz' = [quiz EXCEPT !.status = "loading"]
    /\ UNCHANGED <<draft, quizFrame>>

\* Options stay open while the answers are being scored; a text can be erased.
SelectAnswer(a) ==
    /\ OnTest /\ quiz.status \in {"success", "submitting"} /\ quiz.answers[quiz.index] # a
    /\ quiz' = [quiz EXCEPT !.answers[quiz.index] = a]
    /\ UNCHANGED <<draft, quizFrame>>

GoBack ==
    /\ OnTest /\ quiz.status = "success" /\ quiz.index > 1
    /\ quiz' = [quiz EXCEPT !.index = @ - 1]
    /\ UNCHANGED <<draft, quizFrame>>

\* (mutant) Only the last question is looked at for an answer.
GoNextUnchecked ==
    /\ OnTest /\ quiz.status = "success" /\ (quiz.index = Len(Selected) => ~Blank(quiz.index))
    /\ quiz' = IF quiz.index < Len(Selected) THEN [quiz EXCEPT !.index = @ + 1]
               ELSE [quiz EXCEPT !.status = "submitting", !.sent = quiz.answers]
    /\ UNCHANGED <<draft, quizFrame>>

\* The next question, or all answers are sent.
GoNext ==
    /\ OnTest /\ quiz.status = "success" /\ ~Blank(quiz.index)
    /\ quiz' = IF quiz.index < Len(Selected) THEN [quiz EXCEPT !.index = @ + 1]
               ELSE [quiz EXCEPT !.status = "submitting", !.sent = quiz.answers]
    /\ UNCHANGED <<draft, quizFrame>>

AssessmentScored ==
    /\ OnTest /\ quiz.status = "submitting"
    /\ draft' = [levels |-> Scored(quiz.sent), counted |-> TRUE]
    /\ Opens("results")
    /\ UNCHANGED wizardFrame

ScoringFails ==
    /\ OnTest /\ quiz.status = "submitting" /\ Fault
    /\ quiz' = [quiz EXCEPT !.status = "success", !.sent = <<>>]
    /\ UNCHANGED <<draft, page, gate, plan, marked, call, serverVars, overlapped, torn>>

SelectLevel(k, l) ==
    /\ page = "self" /\ gate.allowed /\ draft.levels[k] # l
    /\ draft' = [draft EXCEPT !.levels[k] = l]
    /\ UNCHANGED <<page, gate, quiz, plan, wizardFrame>>

-----------------------------------------------------------------------------
(* The plan page.                                                           *)

planFrame == <<gate, draft, quiz, marked, torn>>
OnPlan == page = "plan" /\ gate.allowed

\* The effect of the page, once per request; or the button after an error.
GeneratePlan(c) ==
    /\ OnPlan /\ Fresh(c)
    /\ ~plan.asked \/ plan.status = "error"
    /\ plan' = [plan EXCEPT !.asked = TRUE, !.status = "loading"]
    /\ Asks(c, TRUE, TRUE)
    /\ UNCHANGED <<page, planFrame, serverVars, overlapped, faults>>

Shows(c, status, shown) ==
    plan' = IF call[c].here THEN [plan EXCEPT !.status = status, !.shown = shown] ELSE plan
Over(c) == call' = [call EXCEPT ![c] = [@ EXCEPT !.at = "over", !.here = FALSE]]
Begins(c, at) ==
    /\ call' = [call EXCEPT ![c].at = "wait"]
    /\ work' = [work EXCEPT ![c].at = at]
    /\ overlapped' = (overlapped \/ \E d \in Calls \ {c} : AtWork(d))

\* (mutant) The plan is asked for without looking for one.
LookForNothing(c) ==
    /\ call[c].at = "get"
    /\ Begins(c, "profile") /\ UNCHANGED plan
    /\ UNCHANGED <<page, planFrame, path, plans, catalogue, faults>>

\* A path that is there already is shown; else a plan is asked for.
LookForPath(c) ==
    /\ call[c].at = "get"
    /\ \E p \in Served :
          IF p = NoPath THEN Begins(c, "profile") /\ UNCHANGED plan
          ELSE Over(c) /\ Shows(c, "success", p) /\ UNCHANGED <<work, overlapped>>
    /\ UNCHANGED <<page, planFrame, path, plans, catalogue, faults>>

\* (mutant) The error is not caught.
LookFailsUncaught(c) ==
    /\ call[c].at = "get" /\ Fault
    /\ Over(c)
    /\ UNCHANGED <<page, plan, planFrame, serverVars, overlapped>>

LookFails(c) ==
    /\ call[c].at = "get" /\ Fault
    /\ Over(c) /\ Shows(c, "error", NoPath)
    /\ UNCHANGED <<page, planFrame, serverVars, overlapped>>

\* The marker is set at Clerk, the profile cleared and the homepage asked for.
\* The cleared profile is another request: the effect may run once more before
\* the page is gone.
Complete(c) ==
    /\ OnPlan /\ plan.status = "success"
    /\ marked' = TRUE
    /\ draft' = DefaultDraft
    /\ Opens("arriving")
    /\ \/ Request(draft) # Request(DefaultDraft) /\ Fresh(c) /\ Asks(c, FALSE, FALSE)
       \/ UNCHANGED call
    /\ UNCHANGED <<serverVars, overlapped, torn, faults>>

\* Clerk's answer is an error, or lost behind the update.
CompleteFails ==
    /\ OnPlan /\ plan.status = "success" /\ Fault
    /\ marked' \in {marked, TRUE}
    /\ UNCHANGED <<pageVars, call, serverVars, overlapped, torn>>

\* A second tab opens the plan page, with a profile of its own.
OtherTab(c) ==
    /\ Fresh(c) /\ Fault
    /\ Asks(c, FALSE, TRUE)
    /\ UNCHANGED <<pageVars, marked, serverVars, overlapped, torn>>

\* The settings page: daily minutes other than those loaded are saved, and the
\* plan is made anew without waiting for it.
SaveSettings(c) ==
    /\ page = "home" /\ Fresh(c)
    /\ call' = [call EXCEPT ![c] = [at |-> "over", here |-> FALSE, own |-> TRUE]]
    /\ work' = [work EXCEPT ![c].at = "catalogue"]
    /\ overlapped' = (overlapped \/ \E d \in Calls : AtWork(d))
    /\ UNCHANGED <<pageVars, marked, path, plans, catalogue, torn, faults>>

-----------------------------------------------------------------------------
(* Orchestrator and AGT-02.                                                 *)

workFrame == <<page, gate, draft, quiz, marked, overlapped>>
Moves(c, at) == work' = [work EXCEPT ![c].at = at]

CreateProfile(c) ==
    /\ work[c].at = "profile"
    /\ Moves(c, "catalogue")
    /\ UNCHANGED <<workFrame, plan, call, path, plans, catalogue, torn, faults>>

\* The orchestrator, a call to it or its call to an agent fails: a 502.
GenerationFails(c) ==
    /\ work[c].at \in {"profile", "catalogue", "answer"} /\ call[c].at # "over" /\ Fault
    /\ Moves(c, "over") /\ Over(c) /\ Shows(c, "error", NoPath)
    /\ UNCHANGED <<workFrame, path, plans, catalogue, torn>>

\* The orchestrator waits ten seconds for AGT-02, which works on.
TimesOut(c) ==
    /\ call[c].at = "wait" /\ work[c].at \in {"catalogue", "sync", "insert"} /\ Fault
    /\ Over(c) /\ Shows(c, "error", NoPath)
    /\ UNCHANGED <<workFrame, serverVars, torn>>

\* The catalogue comes from the cache or from learning-materials-service.  One
\* that could not be had is cached, too, as an empty one.
UseCatalogue(c) ==
    /\ work[c].at = "catalogue"
    /\ \/ catalogue # "absent" /\ UNCHANGED <<catalogue, faults>>
       \/ catalogue = "absent" /\ catalogue' = "full" /\ UNCHANGED faults
       \/ catalogue = "absent" /\ catalogue' = "empty" /\ Fault
    /\ work' = [work EXCEPT ![c].at = "sync", ![c].lms = "find", ![c].full = (catalogue' = "full")]
    /\ UNCHANGED <<workFrame, plan, call, path, plans, torn>>

CatalogueExpires ==
    /\ catalogue = "empty"
    /\ catalogue' = "absent"
    /\ UNCHANGED <<workFrame, plan, call, work, path, plans, torn, faults>>

\* (mutant) No path is ever found in force.
FindNoActive(c) ==
    /\ work[c].lms = "find"
    /\ work' = [work EXCEPT ![c].lms = "write", ![c].todo = {"create"}]
    /\ UNCHANGED <<workFrame, plan, call, path, plans, catalogue, torn, faults>>

\* POST /learning-paths: the path in force is looked for, then superseded while
\* the new one is inserted.
FindActive(c) ==
    /\ work[c].lms = "find"
    /\ \E p \in Served :
          work' = [work EXCEPT ![c].lms = "write", ![c].existing = p,
                               ![c].todo = IF p = NoPath THEN {"create"} ELSE {"supersede", "create"}]
    /\ UNCHANGED <<workFrame, plan, call, path, plans, catalogue, torn, faults>>

Executed(c, statement) == work' = [work EXCEPT ![c].todo = @ \ {statement}]

Supersede(c) ==
    /\ "supersede" \in work[c].todo
    /\ path' = [path EXCEPT ![work[c].existing].status = "superseded"]
    /\ Executed(c, "supersede")
    /\ UNCHANGED <<workFrame, plan, call, plans, catalogue, torn, faults>>

\* (mutant) The version is that of the path superseded.
CreateUnversioned(c) ==
    /\ "create" \in work[c].todo
    /\ LET existing == work[c].existing
       IN path' = [path EXCEPT ![c] = [status |-> "active", version |-> IF existing = NoPath THEN 0 ELSE path[existing].version]]
    /\ Executed(c, "create")
    /\ UNCHANGED <<workFrame, plan, call, plans, catalogue, torn, faults>>

CreatePath(c) ==
    /\ "create" \in work[c].todo
    /\ LET existing == work[c].existing
       IN path' = [path EXCEPT ![c] = [status |-> "active", version |-> IF existing = NoPath THEN 1 ELSE path[existing].version + 1]]
    /\ Executed(c, "create")
    /\ UNCHANGED <<workFrame, plan, call, plans, catalogue, torn, faults>>

\* One statement fails; the other is not undone.
StatementFails(c) ==
    /\ work[c].todo # {} /\ Fault
    /\ \E statement \in work[c].todo :
          work' = [work EXCEPT ![c].todo = @ \ {statement}, ![c].lms = "failed"]
    /\ torn' = torn \cup {c}
    /\ UNCHANGED <<workFrame, plan, call, path, plans, catalogue>>

\* The answer has the id of the path, or the plan gets one nobody has.
Synced(c) ==
    /\ work[c].at = "sync"
    /\ \/ work[c].lms = "write" /\ work[c].todo = {} /\ work' = [work EXCEPT ![c].at = "insert", ![c].synced = TRUE, ![c].lms = "over"]
       \/ work[c].lms = "failed" /\ work' = [work EXCEPT ![c].at = "insert"]
    /\ UNCHANGED <<workFrame, plan, call, path, plans, catalogue, torn, faults>>

\* AGT-02 waits five seconds for it.
SyncTimesOut(c) ==
    /\ work[c].at = "sync" /\ Fault
    /\ Moves(c, "insert")
    /\ UNCHANGED <<workFrame, plan, call, path, plans, catalogue, torn>>

\* One transaction under the advisory lock of the user.
InsertPlan(c) ==
    /\ work[c].at = "insert"
    /\ plans' = Append(plans, c)
    /\ Moves(c, IF call[c].at = "over" THEN "over" ELSE "answer")
    /\ UNCHANGED <<workFrame, plan, call, path, catalogue, torn, faults>>

InsertFails(c) ==
    /\ work[c].at = "insert" /\ Fault
    /\ Moves(c, "over") /\ Over(c) /\ Shows(c, "error", NoPath)
    /\ torn' = torn \cup {c}
    /\ UNCHANGED <<workFrame, path, plans, catalogue>>

\* A path without modules is refused, though it is there by now.
Answer(c) ==
    /\ work[c].at = "answer"
    /\ Moves(c, "over") /\ Over(c)
    /\ IF work[c].full THEN Shows(c, "success", c) ELSE Shows(c, "error", NoPath)
    /\ UNCHANGED <<workFrame, path, plans, catalogue, torn, faults>>

-----------------------------------------------------------------------------
Client ==
    \/ GateAnswered \/ EnterMain \/ QuestionsLoaded \/ AssessmentScored
    \/ \E c \in Calls : LookForPath(c) \/ (~plan.asked /\ GeneratePlan(c))
Server(c) ==
    \/ CreateProfile(c) \/ UseCatalogue(c) \/ FindActive(c) \/ Supersede(c) \/ CreatePath(c)
    \/ Synced(c) \/ InsertPlan(c) \/ Answer(c)
Learner ==
    \/ (\E p \in Pages : Follow(p)) \/ LoadAgain \/ (\E a \in Answers : SelectAnswer(a)) \/ GoBack \/ GoNext
    \/ (\E k \in Skills, l \in SelfLevels : SelectLevel(k, l))
    \/ \E c \in Calls : GeneratePlan(c) \/ Complete(c) \/ SaveSettings(c)
Failures ==
    \/ GateFails \/ Reopen \/ QuestionsFail \/ ScoringFails \/ CompleteFails \/ CatalogueExpires
    \/ \E c \in Calls :
          \/ OtherTab(c) \/ LookFails(c) \/ GenerationFails(c) \/ TimesOut(c)
          \/ StatementFails(c) \/ SyncTimesOut(c) \/ InsertFails(c)

Next == Client \/ (\E c \in Calls : Server(c)) \/ Learner \/ Failures

Spec == Init /\ [][Next]_vars

\* Effects run, and requests come to an end.
Fairness == WF_vars(Client) /\ \A c \in Calls : WF_vars(Server(c))
FairSpec == Spec /\ Fairness

-----------------------------------------------------------------------------
(* Properties.                                                              *)

\* Going back and erasing an answer gets no blank past the test, and the level
\* asked for lies between the lowest and the highest of the levels it is made of.
PlacementSound ==
    /\ quiz.status = "submitting" => \A n \in Questions : quiz.sent[n] # "blank"
    /\ Rated(draft.levels) # {} =>
          LET levels == {draft.levels[k] : k \in Rated(draft.levels)}
          IN Request(draft).level \in Min(levels) .. Max(levels)

\* No path is made from a profile the learner did not come to the plan page
\* with, though the profile is cleared while the page is still there.  Exempt is
\* what follows a plan whose path was not kept, a failed statement, or two calls
\* at once.
NothingUnasked ==
    \A c \in Calls : path[c].status # "none" =>
        \/ call[c].own \/ overlapped \/ torn # {}
        \/ \E n \in DOMAIN plans : plans[n] < c /\ ~work[plans[n]].synced

\* When no call is at work, one path at most is in force, it is the one the plan
\* in force was made with, and the one the page shows.  Exempt are calls at once,
\* a failed statement, and a plan whose path was not kept.
InStep ==
    (Quiet /\ ~overlapped /\ torn = {}) =>
        /\ Cardinality(Active) <= 1
        /\ plans # <<>> /\ (\A n \in DOMAIN plans : work[plans[n]].synced) => Active = {plans[Len(plans)]}
        /\ page = "plan" /\ plan.status = "success" /\ work[plan.shown].synced => Active = {plan.shown}

\* The plan page comes to show a plan or an error.
PlanPageSettles == (OnPlan /\ plan.status = "loading" /\ plan.asked) ~> (~OnPlan \/ plan.status # "loading")
=============================================================================
