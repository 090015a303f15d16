--------------------------- MODULE Onboarding_proofs ---------------------------
(***************************************************************************)
(* Proofs about the onboarding, for every number of calls and failures,    *)
(* all skills and every bank of questions.                                 *)
(***************************************************************************)
EXTENDS Onboarding, FiniteSetTheorems, NaturalsInduction, WellFoundedInduction, TLAPS

-----------------------------------------------------------------------------
(* Types.                                                                   *)

Works == [at : {"none", "profile", "catalogue", "sync", "insert", "answer", "over"}, full : BOOLEAN, synced : BOOLEAN,
          lms : {"none", "find", "write", "failed", "over"}, todo : SUBSET {"supersede", "create"},
          existing : Calls \cup {NoPath}]
CallRecords == [at : {"none", "get", "wait", "over"}, here : BOOLEAN, own : BOOLEAN]
Rows == [status : {"none", "active", "superseded"}, version : Nat]

Tests == [status : {"loading", "error", "success", "submitting"}, index : Questions \cup {1},
          answers : [Questions -> Answers], sent : {<<>>} \cup [Questions -> Answers \ {"blank"}]]

\* The test: what was passed is answered.
QuizInv ==
    /\ quiz \in Tests
    /\ quiz.status \in {"success", "submitting"} => BankComplete
    /\ quiz.sent = <<>> <=> quiz.status # "submitting"
    /\ \A n \in Questions : n < quiz.index => ~Blank(n)
    /\ quiz.status = "submitting" => quiz.index = Len(Selected)

\* The pages: one call at most is waited for, on the plan page.
PageInv ==
    /\ page \in Pages /\ gate \in [allowed : BOOLEAN, asking : BOOLEAN] /\ draft \in Drafts /\ marked \in BOOLEAN
    /\ plan \in [status : {"loading", "success", "error"}, asked : BOOLEAN, shown : Calls \cup {NoPath}]
    /\ page \in {"arriving", "home"} => ~gate.allowed /\ ~gate.asking
    /\ page = "home" => marked
    /\ \A c \in Calls : call[c].here => page = "plan" /\ plan.asked /\ plan.status = "loading" /\ call[c].at \in {"get", "wait"}
    /\ \A c, d \in Calls : call[c].here /\ call[d].here => c = d
    /\ plan.status = "success" => plan.asked /\ plan.shown \in Calls

\* A path is made once, by the call whose number it has.
Made == {c \in Calls : path[c].version > 0}
WorkOf(c) ==
    /\ call[c].at \in {"none", "get"} => work[c] = NoWork
    /\ work[c].at \in {"none", "profile", "catalogue"} => work[c].lms = "none"
    /\ work[c].at \in {"profile", "answer"} => call[c].at = "wait"
    /\ work[c].at = "sync" => work[c].lms \in {"find", "write", "failed"}
    /\ work[c].at = "insert" => work[c].lms # "none"
    /\ work[c].lms \in {"none", "find"} => work[c].todo = {} /\ c \notin Made
    /\ work[c].lms = "over" => work[c].todo = {}
    /\ work[c].synced <=> work[c].lms = "over"
    /\ "create" \in work[c].todo => c \notin Made
    /\ work[c].lms \in {"write", "over"} => "create" \in work[c].todo \/ c \in Made
    /\ work[c].existing \in Calls => work[c].existing \in Made \ {c}
    /\ "supersede" \in work[c].todo => work[c].existing \in Calls
    /\ path[c].status = "none" <=> c \notin Made
WorkInv ==
    /\ call \in [Calls -> CallRecords] /\ work \in [Calls -> Works] /\ path \in [Calls -> Rows] /\ plans \in Seq(Calls)
    /\ catalogue \in {"absent", "full", "empty"} /\ overlapped \in BOOLEAN /\ torn \subseteq Calls /\ faults \in 0 .. MaxFaults
    /\ \A c, d \in Calls : c < d /\ call[d].at # "none" => call[c].at # "none"
    /\ \A c \in Calls : WorkOf(c) /\ path[c].version <= Cardinality(Made)
    /\ \A n \in DOMAIN plans : work[plans[n]].at \in {"answer", "over"} /\ work[plans[n]].lms # "none"
    /\ \A c \in Calls : work[c].at = "answer" => \E n \in DOMAIN plans : plans[n] = c

TypeInv == QuizInv /\ PageInv /\ WorkInv

-----------------------------------------------------------------------------
(* While calls have come one after the other, and none was torn.            *)

Calm == ~overlapped /\ torn = {}

\* One call at work, which leaves its own path alone; a path stays in force, or
\* is about to be followed by another.
OneAtWork ==
    /\ \A c, d \in Calls : AtWork(c) /\ AtWork(d) => c = d
    /\ \A c \in Calls : work[c].lms # "failed"
    /\ \A c \in Made : AtWork(c) => c \in Active
    /\ Made # {} /\ Active = {} => \E c \in Calls : "create" \in work[c].todo

\* What is in force.
InForce ==
    /\ \A c \in Calls : work[c].todo # {} =>
          Active = (IF "supersede" \in work[c].todo THEN {work[c].existing} ELSE {})
                   \cup (IF "create" \in work[c].todo THEN {} ELSE {c})
    /\ (\A c \in Calls : work[c].todo = {}) => \A c, d \in Active : c = d
    /\ \A c \in Calls : work[c].at \in {"sync", "insert"} /\ work[c].lms \in {"write", "over"} /\ work[c].todo = {} => Active = {c}

\* The plan in force has the path in force, or the next one is on its way.
Synchronised == \A n \in DOMAIN plans : work[plans[n]].synced
PlanInForce ==
    /\ \A c \in Calls : work[c].lms # "none" /\ work[c].at \in {"answer", "over"} => \E n \in DOMAIN plans : plans[n] = c
    /\ plans # <<>> /\ Synchronised => Active = {plans[Len(plans)]} \/ \E c \in Calls : work[c].at \in {"sync", "insert"}

\* Who replaces a path does so from the settings page.
Replans == \A c \in Calls : AtWork(c) /\ Active \ {c} # {} => page \in {"arriving", "home"} /\ marked

\* The page shows the call that is at work or in force.
Shown ==
    page = "plan" /\ plan.status = "success" =>
        /\ \A c \in Calls : AtWork(c) => c = plan.shown
        /\ plan.shown \in Made \/ (AtWork(plan.shown) /\ work[plan.shown].at = "over")
        /\ plan.shown \in Made => plan.shown \in Active

\* Before c asked, a plan was stored whose path was not kept.
UnkeptBefore(c) == \E n \in DOMAIN plans : plans[n] < c /\ ~work[plans[n]].synced

\* Who was not asked finds a path.
Unasked ==
    \A c \in Calls : call[c].at # "none" /\ ~call[c].own => UnkeptBefore(c) \/ (Made # {} /\ work[c].at = "none")

ServersInv == OneAtWork /\ InForce /\ PlanInForce
ViewsInv == Replans /\ Shown /\ Unasked
CalmInv == Calm => ServersInv /\ ViewsInv

-----------------------------------------------------------------------------
(* The questions, and the levels they lead to.                              *)

LEMMA QuestionsAreNumbered ==
    ASSUME PlacementAssumption
    PROVE  /\ Cardinality(Placing) \in Nat /\ Len(Selected) = Cardinality(Placing) /\ Questions = 1 .. Len(Selected)
           /\ BankComplete => 1 \in Questions /\ Len(Selected) \in Questions
<1>1. Cardinality(Placing) \in Nat
  BY FS_Subset, FS_CardinalityType DEF PlacementAssumption, Placing
<1>2. Len(Selected) = Cardinality(Placing)
  BY <1>1 DEF Selected, Questions
<1>3. BankComplete => Questions # {}
  BY DEF BankComplete, PlacementAssumption
<1> QED
  BY <1>1, <1>2, <1>3 DEF Questions

LEMMA MaxLevel == \A S \in SUBSET Levels : S # {} => Max(S) \in S
<1> SUFFICES ASSUME NEW S \in SUBSET Levels, S # {} PROVE \E x \in S : \A y \in S : x >= y
  BY DEF Max
<1>1. CASE 6 \in S
  BY <1>1 DEF Levels
<1>2. CASE 6 \notin S /\ 5 \in S
  BY <1>2 DEF Levels
<1>3. CASE 6 \notin S /\ 5 \notin S /\ 4 \in S
  BY <1>3 DEF Levels
<1>4. CASE 6 \notin S /\ 5 \notin S /\ 4 \notin S /\ 3 \in S
  BY <1>4 DEF Levels
<1>5. CASE S \subseteq {1, 2}
  <2>1. CASE 2 \in S
    BY <1>5, <2>1
  <2>2. CASE 2 \notin S
    <3>1. S = {1}
      BY <1>5, <2>2
    <3> QED
      BY <3>1
  <2> QED
    BY <2>1, <2>2
<1> QED
  BY <1>1, <1>2, <1>3, <1>4, <1>5 DEF Levels

LEMMA ScoredLevels == \A answers : Scored(answers) \in [Skills -> Levels \cup {NoLevel}]
<1> SUFFICES ASSUME NEW answers, NEW k \in Skills PROVE WithFallback(Reached(answers, k)) \in Levels
  BY DEF Scored
<1>1. Reached(answers, k) \in SUBSET Levels
  BY DEF Reached, Tested
<1> QED
  BY <1>1, MaxLevel DEF WithFallback, Levels

-----------------------------------------------------------------------------
(* The test.                                                                *)

LEMMA NewQuizType ==
    ASSUME PlacementAssumption, quiz' = NewQuiz
    PROVE  QuizInv'
<1>1. Questions' = Questions /\ Selected' = Selected /\ BankComplete' = BankComplete
  BY DEF Questions, Selected, BankComplete, Placing
<1>2. NewQuiz.answers \in [Questions -> Answers] /\ NewQuiz.index = 1 /\ NewQuiz.status = "loading" /\ NewQuiz.sent = <<>>
  BY DEF NewQuiz, Answers
<1>3. \A n \in Questions : ~(n < 1)
  BY DEF Questions
<1> QED
  BY <1>1, <1>2, <1>3 DEF QuizInv, Tests, Blank, Answers, NewQuiz

LEMMA QuizStep ==
    ASSUME PlacementAssumption, QuizInv,
           \/ QuestionsLoaded \/ QuestionsFail \/ LoadAgain \/ GoBack \/ GoNext \/ ScoringFails
           \/ \E a \in Answers : SelectAnswer(a)
    PROVE  QuizInv'
<1>a. /\ Questions = 1 .. Len(Selected) /\ Len(Selected) \in Nat
      /\ BankComplete => 1 \in Questions /\ Len(Selected) \in Questions
  BY QuestionsAreNumbered
<1>b. Questions' = Questions /\ Selected' = Selected /\ BankComplete' = BankComplete /\ Tests' = Tests
  BY DEF Questions, Selected, BankComplete, Placing, Tests, Answers
<1> DEFINE InvOf(q) ==
               /\ q \in Tests
               /\ q.status \in {"success", "submitting"} => BankComplete
               /\ q.sent = <<>> <=> q.status # "submitting"
               /\ \A n \in Questions : n < q.index => q.answers[n] # "blank"
               /\ q.status = "submitting" => q.index = Len(Selected)
<1>c. InvOf(quiz) /\ (InvOf(quiz') => QuizInv')
  BY <1>b DEF QuizInv, Blank
<1>1. CASE QuestionsLoaded
  <2>1. quiz' = [NewQuiz EXCEPT !.status = IF BankComplete THEN "success" ELSE "error"]
    BY <1>1 DEF QuestionsLoaded
  <2>2. /\ quiz'.status = (IF BankComplete THEN "success" ELSE "error") /\ quiz'.index = 1 /\ quiz'.sent = <<>>
        /\ quiz' \in Tests
    BY <2>1 DEF NewQuiz, Tests, Answers
  <2>3. \A n \in Questions : ~(n < 1)
    BY <1>a
  <2>4. InvOf(quiz')
    BY <2>2, <2>3
  <2> QED
    BY <1>c, <2>4
<1>2. CASE QuestionsFail \/ LoadAgain
  <2>1. quiz.status # "submitting" /\ \E t \in {"error", "loading"} : quiz' = [quiz EXCEPT !.status = t]
    BY <1>2 DEF QuestionsFail, LoadAgain
  <2>2. InvOf(quiz')
    BY <1>c, <2>1 DEF Tests
  <2> QED
    BY <1>c, <2>2
<1>3. ASSUME NEW a \in Answers, SelectAnswer(a) PROVE QuizInv'
  <2>1. quiz' = [quiz EXCEPT !.answers[quiz.index] = a] /\ quiz.status \in {"success", "submitting"}
    BY <1>3 DEF SelectAnswer
  <2>2. quiz.index \in Questions
    BY <1>a, <1>c, <2>1 DEF Tests
  <2>3. /\ quiz'.answers = [quiz.answers EXCEPT ![quiz.index] = a] /\ quiz'.answers \in [Questions -> Answers]
        /\ quiz'.status = quiz.status /\ quiz'.index = quiz.index /\ quiz'.sent = quiz.sent
        /\ quiz' \in Tests
    BY <1>c, <2>1, <2>2 DEF Tests
  <2>4. \A n \in Questions : n < quiz.index => quiz'.answers[n] = quiz.answers[n]
    BY <1>a, <1>c, <2>2, <2>3 DEF Tests
  <2>5. InvOf(quiz')
    BY <1>c, <2>3, <2>4
  <2> QED
    BY <1>c, <2>5
<1>4. CASE GoBack
  <2>1. quiz' = [quiz EXCEPT !.index = quiz.index - 1] /\ quiz.status = "success" /\ quiz.index > 1
    BY <1>4 DEF GoBack
  <2>2. quiz.index - 1 \in Questions
    BY <1>a, <1>c, <2>1 DEF Tests
  <2>3. quiz' \in Tests /\ quiz'.index = quiz.index - 1 /\ quiz'.status = "success" /\ quiz'.answers = quiz.answers /\ quiz'.sent = quiz.sent
    BY <1>c, <2>1, <2>2 DEF Tests
  <2>4. \A n \in Questions : n < quiz.index - 1 => n < quiz.index
    <3>1. quiz.index \in Int
      BY <1>a, <1>c DEF Tests
    <3> QED
      BY <1>a, <3>1
  <2>5. InvOf(quiz')
    BY <1>c, <2>1, <2>3, <2>4
  <2> QED
    BY <1>c, <2>5
<1>5. CASE GoNext
  <2>1. quiz.index \in Questions /\ quiz.answers[quiz.index] # "blank" /\ quiz.status = "success" /\ BankComplete
    BY <1>a, <1>c, <1>5 DEF GoNext, Tests, Blank
  <2>2. \A n \in Questions : n < quiz.index + 1 => quiz.answers[n] # "blank"
    BY <1>a, <1>c, <2>1
  <2>3. CASE quiz.index < Len(Selected)
    <3>1. quiz' = [quiz EXCEPT !.index = quiz.index + 1]
      BY <1>5, <2>3 DEF GoNext
    <3>2. quiz.index + 1 \in Questions
      BY <1>a, <2>1, <2>3
    <3>3. /\ quiz' \in Tests /\ quiz'.index = quiz.index + 1 /\ quiz'.status = "success"
          /\ quiz'.answers = quiz.answers /\ quiz'.sent = quiz.sent
      BY <1>c, <2>1, <3>1, <3>2 DEF Tests
    <3>4. InvOf(quiz')
      BY <1>c, <2>1, <2>2, <3>3
    <3> QED
      BY <1>c, <3>4
  <2>4. CASE ~(quiz.index < Len(Selected))
    <3>1. quiz' = [quiz EXCEPT !.status = "submitting", !.sent = quiz.answers] /\ quiz.index = Len(Selected)
      BY <1>a, <1>5, <2>1, <2>4 DEF GoNext
    <3>2. quiz.answers \in [Questions -> Answers] /\ \A n \in Questions : n < quiz.index + 1
      BY <1>a, <1>c, <3>1 DEF Tests
    <3>3. quiz.answers \in [Questions -> Answers \ {"blank"}]
      BY <2>2, <3>2
    <3>4. quiz.answers # <<>>
      <4>1. 1 \in DOMAIN quiz.answers
        BY <1>a, <2>1, <3>2
      <4> QED
        BY <4>1
    <3>5. /\ quiz' \in Tests /\ quiz'.index = quiz.index /\ quiz'.status = "submitting"
          /\ quiz'.answers = quiz.answers /\ quiz'.sent = quiz.answers
      BY <1>c, <3>1, <3>3 DEF Tests
    <3>6. InvOf(quiz')
      BY <1>c, <2>1, <3>1, <3>4, <3>5
    <3> QED
      BY <1>c, <3>6
  <2> QED
    BY <2>3, <2>4
<1>6. CASE ScoringFails
  <2>1. quiz' = [quiz EXCEPT !.status = "success", !.sent = <<>>] /\ quiz.status = "submitting"
    BY <1>6 DEF ScoringFails
  <2>2. quiz' \in Tests /\ quiz'.index = quiz.index /\ quiz'.status = "success" /\ quiz'.answers = quiz.answers /\ quiz'.sent = <<>>
    BY <1>c, <2>1 DEF Tests
  <2>3. InvOf(quiz')
    BY <1>c, <2>1, <2>2
  <2> QED
    BY <1>c, <2>3
<1> QED
  BY <1>1, <1>2, <1>3, <1>4, <1>5, <1>6
-----------------------------------------------------------------------------
(* The pages.                                                               *)

LEMMA OpensPage ==
    ASSUME PageInv, NEW p \in Pages, Opens(p), draft' \in Drafts, marked' \in BOOLEAN, marked => marked', p = "home" => marked',
           \A c \in Calls : ~call'[c].here
    PROVE  PageInv'
<1>1. page' = p /\ plan' = NewPlan /\ gate' \in [allowed : BOOLEAN, asking : BOOLEAN]
  BY DEF Opens, PageInv
<1>2. p \in {"arriving", "home"} => ~gate'.allowed /\ ~gate'.asking
  BY DEF Opens, InOnboarding
<1> QED
  BY <1>1, <1>2 DEF PageInv, NewPlan

\* What keeps the tab where it is and asks for no plan.
LEMMA StaysOnPage ==
    ASSUME PageInv, UNCHANGED <<page, plan>>, draft' \in Drafts, marked' \in {marked, TRUE},
           gate' \in [allowed : BOOLEAN, asking : BOOLEAN],
           page \in {"arriving", "home"} => ~gate'.allowed /\ ~gate'.asking,
           \A c \in Calls : call'[c].here => call[c].here /\ call'[c].at \in {"get", "wait"}
    PROVE  PageInv'
BY DEF PageInv

\* What a call leaves alone.
OnlyCall(c) == call' \in [Calls -> CallRecords] /\ \A d \in Calls \ {c} : call'[d] = call[d]

LEMMA CallIsOver ==
    ASSUME call \in [Calls -> CallRecords], NEW c \in Calls, Over(c)
    PROVE  OnlyCall(c) /\ call'[c].at = "over" /\ ~call'[c].here /\ call'[c].own = call[c].own
<1> DEFINE rec == [call[c] EXCEPT !.at = "over", !.here = FALSE]
<1>1. rec \in CallRecords /\ rec.at = "over" /\ ~rec.here /\ rec.own = call[c].own
  BY DEF CallRecords
<1>2. call' = [call EXCEPT ![c] = rec]
  BY DEF Over
<1> HIDE DEF rec
<1> QED
  BY <1>1, <1>2 DEF OnlyCall

LEMMA AllLeft ==
    ASSUME call \in [Calls -> CallRecords], call' = [c \in Calls |-> [call[c] EXCEPT !.here = FALSE]]
    PROVE  /\ call' \in [Calls -> CallRecords]
           /\ \A c \in Calls : ~call'[c].here /\ call'[c].at = call[c].at /\ call'[c].own = call[c].own
BY DEF CallRecords

\* A call that comes to its end shows what it has, if it is waited for.
LEMMA EndsOnPage ==
    ASSUME PageInv, call \in [Calls -> CallRecords], NEW c \in Calls, NEW status \in {"success", "error"}, NEW shown \in Calls \cup {NoPath},
           status = "success" => shown \in Calls, Over(c), Shows(c, status, shown), UNCHANGED <<page, gate, draft, marked>>
    PROVE  /\ PageInv' /\ plan'.asked = plan.asked
           /\ plan' # plan => page = "plan" /\ plan'.status = status /\ plan'.shown = shown /\ call[c].here
<1>1. OnlyCall(c) /\ ~call'[c].here
  BY CallIsOver
<1>2. CASE call[c].here
  <2>1. plan' = [plan EXCEPT !.status = status, !.shown = shown] /\ page = "plan" /\ plan.asked
    BY <1>2 DEF Shows, PageInv
  <2>2. \A d \in Calls : ~call'[d].here
    BY <1>1, <1>2 DEF OnlyCall, PageInv
  <2>3. /\ plan' \in [status : {"loading", "success", "error"}, asked : BOOLEAN, shown : Calls \cup {NoPath}]
        /\ plan'.asked = plan.asked /\ plan'.status = status /\ plan'.shown = shown
    BY <2>1 DEF PageInv
  <2> QED
    BY <1>2, <2>1, <2>2, <2>3 DEF PageInv
<1>3. CASE ~call[c].here
  <2>1. plan' = plan
    BY <1>3 DEF Shows
  <2> QED
    BY <1>1, <1>3, <2>1 DEF PageInv, OnlyCall
<1> QED
  BY <1>2, <1>3

-----------------------------------------------------------------------------
(* The steps, by what they may change.                                      *)

TestSteps ==
    \/ QuestionsLoaded \/ QuestionsFail \/ LoadAgain \/ GoBack \/ GoNext \/ ScoringFails
    \/ \E a \in Answers : SelectAnswer(a)
Moving == (\E p \in Pages : Follow(p)) \/ EnterMain \/ Reopen \/ AssessmentScored
Staying == GateAnswered \/ GateFails \/ CompleteFails \/ CatalogueExpires \/ (\E k \in Skills, l \in SelfLevels : SelectLevel(k, l))
Wizard == TestSteps \/ Moving \/ Staying
Asking(c) == GeneratePlan(c) \/ OtherTab(c) \/ Complete(c)
Looking(c) == LookForPath(c) \/ LookFails(c)
Proceeds(c) == CreateProfile(c) \/ UseCatalogue(c) \/ FindActive(c) \/ Synced(c) \/ SyncTimesOut(c)
Writes(c) == Supersede(c) \/ CreatePath(c) \/ StatementFails(c)
Ending(c) == GenerationFails(c) \/ TimesOut(c) \/ InsertFails(c) \/ Answer(c)

LEMMA AllSteps ==
    ASSUME Next
    PROVE  \/ Wizard
           \/ \E c \in Calls :
                 \/ Asking(c) \/ Looking(c) \/ SaveSettings(c)
                 \/ Proceeds(c) \/ Writes(c) \/ InsertPlan(c) \/ Ending(c)
<1> DEFINE Goal == \/ Wizard
                   \/ \E c \in Calls :
                         \/ Asking(c) \/ Looking(c) \/ SaveSettings(c)
                         \/ Proceeds(c) \/ Writes(c) \/ InsertPlan(c) \/ Ending(c)
<1>1. CASE Client
  BY <1>1 DEF Client, Wizard, TestSteps, Moving, Staying, Asking, Looking
<1>2. ASSUME NEW c \in Calls, Server(c) PROVE Goal
  BY <1>2 DEF Server, Proceeds, Writes, Ending
<1>3. CASE Learner
  BY <1>3 DEF Learner, Wizard, TestSteps, Moving, Staying, Asking
<1>4. CASE Failures
  BY <1>4 DEF Failures, Wizard, TestSteps, Moving, Staying, Asking, Looking, Writes, Proceeds, Ending
<1> QED
  BY <1>1, <1>2, <1>3, <1>4 DEF Next

LEMMA FaultsBounded ==
    ASSUME OnboardingAssumption, faults \in 0 .. MaxFaults, Fault
    PROVE  faults' \in 0 .. MaxFaults
BY DEF OnboardingAssumption, Fault

LEMMA WizardFrame ==
    ASSUME OnboardingAssumption, WorkInv, Wizard
    PROVE  /\ /\ UNCHANGED <<work, path, plans, overlapped, torn>> /\ catalogue' \in {catalogue, "absent"}
           /\ faults' \in 0 .. MaxFaults
           /\ call' \in [Calls -> CallRecords]
           /\ \A c \in Calls : call'[c].at = call[c].at /\ call'[c].own = call[c].own /\ (call'[c].here => call[c].here)
<1>a. call \in [Calls -> CallRecords] /\ faults \in 0 .. MaxFaults
  BY DEF WorkInv
<1>1. CASE TestSteps
  <2>1. UNCHANGED <<call, work, path, plans, catalogue, overlapped, torn>> /\ (faults' = faults \/ Fault)
    BY <1>1 DEF TestSteps, QuestionsLoaded, QuestionsFail, LoadAgain, GoBack, GoNext, ScoringFails, SelectAnswer, quizFrame, wizardFrame, serverVars
  <2> QED
    BY <1>a, <2>1, FaultsBounded
<1>2. CASE Moving
  <2>1. /\ UNCHANGED <<work, path, plans, catalogue, overlapped, torn>> /\ (faults' = faults \/ Fault)
        /\ call' = call \/ call' = [c \in Calls |-> [call[c] EXCEPT !.here = FALSE]]
    BY <1>2 DEF Moving, Follow, EnterMain, Reopen, AssessmentScored, wizardFrame, serverVars
  <2> QED
    BY <1>a, <2>1, FaultsBounded, AllLeft
<1>3. CASE Staying
  <2>1. /\ UNCHANGED <<work, path, plans, overlapped, torn>> /\ (faults' = faults \/ Fault)
        /\ catalogue' \in {catalogue, "absent"}
        /\ call' = call \/ call' = [c \in Calls |-> [call[c] EXCEPT !.here = FALSE]]
    BY <1>3 DEF Staying, GateAnswered, GateFails, CompleteFails, CatalogueExpires, SelectLevel, wizardFrame, serverVars, workFrame
  <2> QED
    BY <1>a, <2>1, FaultsBounded, AllLeft
<1> QED
  BY <1>1, <1>2, <1>3 DEF Wizard

\* A call asks for the first time.
LEMMA AskFrame ==
    ASSUME OnboardingAssumption, WorkInv, NEW c \in Calls, Asking(c)
    PROVE  /\ UNCHANGED <<work, path, plans, catalogue, overlapped, torn>> /\ faults' \in 0 .. MaxFaults
           /\ \/ UNCHANGED call /\ Complete(c)
              \/ /\ Fresh(c) /\ OnlyCall(c) /\ call'[c].at = "get"
                 /\ call'[c].here <=> GeneratePlan(c)
                 /\ ~call'[c].own => Complete(c)
<1>a. call \in [Calls -> CallRecords] /\ faults \in 0 .. MaxFaults
  BY DEF WorkInv
<1>1. ASSUME NEW here \in BOOLEAN, NEW own \in BOOLEAN, Asks(c, here, own)
      PROVE  OnlyCall(c) /\ call'[c].at = "get" /\ call'[c].here = here /\ call'[c].own = own
  BY <1>a, <1>1 DEF Asks, OnlyCall, CallRecords
<1>2. CASE GeneratePlan(c)
  <2>1. Asks(c, TRUE, TRUE) /\ Fresh(c) /\ UNCHANGED <<work, path, plans, catalogue, overlapped, torn, faults>>
    BY <1>2 DEF GeneratePlan, planFrame, serverVars
  <2>2. OnlyCall(c) /\ call'[c].at = "get" /\ call'[c].here = TRUE /\ call'[c].own = TRUE
    BY <1>1, <2>1
  <2> QED
    BY <1>2, <1>a, <2>1, <2>2
<1>3. CASE OtherTab(c)
  <2>1. Asks(c, FALSE, TRUE) /\ Fresh(c) /\ Fault /\ UNCHANGED <<work, path, plans, catalogue, overlapped, torn, plan>>
    BY <1>3 DEF OtherTab, pageVars, serverVars
  <2>2. OnlyCall(c) /\ call'[c].at = "get" /\ call'[c].here = FALSE /\ call'[c].own = TRUE
    BY <1>1, <2>1
  <2>3. ~GeneratePlan(c)
    BY <1>1, <2>2 DEF GeneratePlan
  <2> QED
    BY <1>a, <2>1, <2>2, <2>3, FaultsBounded
<1>4. CASE Complete(c)
  <2>1. /\ UNCHANGED <<work, path, plans, catalogue, overlapped, torn, faults>>
        /\ call' = call \/ (Fresh(c) /\ Asks(c, FALSE, FALSE))
    BY <1>4 DEF Complete, serverVars
  <2>2. CASE Fresh(c) /\ Asks(c, FALSE, FALSE)
    <3>1. OnlyCall(c) /\ call'[c].at = "get" /\ call'[c].here = FALSE
      BY <1>1, <2>2
    <3>2. ~GeneratePlan(c)
      BY <1>1, <3>1 DEF GeneratePlan
    <3> QED
      BY <1>4, <1>a, <2>1, <2>2, <3>1, <3>2
  <2> QED
    BY <1>4, <1>a, <2>1, <2>2
<1> QED
  BY <1>2, <1>3, <1>4 DEF Asking

\* The search finds nothing and work begins, or the call is over.
LEMMA LookFrame ==
    ASSUME OnboardingAssumption, WorkInv, NEW c \in Calls, Looking(c)
    PROVE  /\ UNCHANGED <<page, gate, draft, quiz, marked, path, plans, catalogue, torn>> /\ faults' \in 0 .. MaxFaults
           /\ call[c].at = "get" /\ OnlyCall(c) /\ call'[c].own = call[c].own
           /\ \/ /\ LookForPath(c) /\ Active = {} /\ Begins(c, "profile") /\ UNCHANGED plan
                 /\ call'[c].at = "wait" /\ call'[c].here = call[c].here
              \/ /\ Over(c) /\ UNCHANGED <<work, overlapped>> /\ call'[c].at = "over" /\ ~call'[c].here
                 /\ \/ Shows(c, "error", NoPath)
                    \/ \E p \in Active : Shows(c, "success", p)
<1>a. call \in [Calls -> CallRecords] /\ faults \in 0 .. MaxFaults
  BY DEF WorkInv
<1>1. ASSUME Begins(c, "profile") PROVE OnlyCall(c) /\ call'[c].at = "wait" /\ call'[c].here = call[c].here /\ call'[c].own = call[c].own
  <2> DEFINE rec == [call[c] EXCEPT !.at = "wait"]
  <2>1. rec \in CallRecords /\ rec.at = "wait" /\ rec.here = call[c].here /\ rec.own = call[c].own
    BY <1>a DEF CallRecords
  <2>2. call' = [call EXCEPT ![c] = rec]
    BY <1>1 DEF Begins
  <2> HIDE DEF rec
  <2> QED
    BY <1>a, <2>1, <2>2 DEF OnlyCall
<1>2. CASE LookFails(c)
  <2>1. /\ Over(c) /\ Shows(c, "error", NoPath) /\ Fault /\ call[c].at = "get"
        /\ UNCHANGED <<page, gate, draft, quiz, marked, torn, work, path, plans, catalogue, overlapped>>
    BY <1>2 DEF LookFails, planFrame, serverVars
  <2> QED
    BY <1>a, <2>1, CallIsOver, FaultsBounded
<1>3. CASE LookForPath(c)
  <2>1. /\ call[c].at = "get" /\ UNCHANGED <<page, gate, draft, quiz, marked, torn, path, plans, catalogue, faults>>
        /\ \E p \in Served :
              IF p = NoPath THEN Begins(c, "profile") /\ UNCHANGED plan
              ELSE Over(c) /\ Shows(c, "success", p) /\ UNCHANGED <<work, overlapped>>
    BY <1>3 DEF LookForPath, planFrame
  <2>2. PICK p \in Served : IF p = NoPath THEN Begins(c, "profile") /\ UNCHANGED plan
                            ELSE Over(c) /\ Shows(c, "success", p) /\ UNCHANGED <<work, overlapped>>
    BY <2>1
  <2>3. p = NoPath <=> Active = {}
    BY DEF Served, Active, Calls, NoPath
  <2>4. CASE p = NoPath
    <3>1. Begins(c, "profile") /\ UNCHANGED plan
      BY <2>2, <2>4
    <3> QED
      BY <1>a, <1>1, <1>3, <2>1, <2>3, <2>4, <3>1
  <2>5. CASE p # NoPath
    <3>1. Over(c) /\ Shows(c, "success", p) /\ UNCHANGED <<work, overlapped>> /\ p \in Active
      BY <2>2, <2>3, <2>5 DEF Served
    <3> QED
      BY <1>a, <2>1, <3>1, CallIsOver
  <2> QED
    BY <2>4, <2>5
<1> QED
  BY <1>2, <1>3 DEF Looking

\* A replan from the settings page.
LEMMA SaveFrame ==
    ASSUME WorkInv, NEW c \in Calls, SaveSettings(c)
    PROVE  /\ page = "home" /\ Fresh(c) /\ UNCHANGED <<pageVars, marked, path, plans, catalogue, torn, faults>>
           /\ OnlyCall(c) /\ call'[c].at = "over" /\ ~call'[c].here /\ call'[c].own
           /\ overlapped' = (overlapped \/ \E d \in Calls : AtWork(d))
BY DEF WorkInv, SaveSettings, OnlyCall, CallRecords

\* Servers at work touch no page and no call.
LEMMA ServerFrame ==
    ASSUME OnboardingAssumption, WorkInv, NEW c \in Calls, Proceeds(c) \/ Writes(c) \/ InsertPlan(c)
    PROVE  /\ UNCHANGED <<pageVars, marked, call, overlapped>> /\ faults' \in 0 .. MaxFaults
           /\ catalogue' \in {"absent", "full", "empty"}
<1>a. faults \in 0 .. MaxFaults /\ catalogue \in {"absent", "full", "empty"}
  BY DEF WorkInv
<1>1. CASE Proceeds(c)
  <2>1. UNCHANGED <<pageVars, marked, call, overlapped>> /\ (faults' = faults \/ Fault) /\ catalogue' \in {catalogue, "full", "empty"}
    BY <1>1 DEF Proceeds, CreateProfile, UseCatalogue, FindActive, Synced, SyncTimesOut, workFrame, pageVars
  <2> QED
    BY <1>a, <2>1, FaultsBounded
<1>2. CASE Writes(c)
  <2>1. UNCHANGED <<pageVars, marked, call, overlapped, catalogue>> /\ (faults' = faults \/ Fault)
    BY <1>2 DEF Writes, Supersede, CreatePath, StatementFails, workFrame, pageVars
  <2> QED
    BY <1>a, <2>1, FaultsBounded
<1>3. CASE InsertPlan(c)
  BY <1>a, <1>3 DEF InsertPlan, workFrame, pageVars
<1> QED
  BY <1>1, <1>2, <1>3

\* A call comes to its end.
LEMMA EndFrame ==
    ASSUME OnboardingAssumption, WorkInv, NEW c \in Calls, Ending(c)
    PROVE  /\ UNCHANGED <<page, gate, draft, quiz, marked, path, plans, catalogue, overlapped>> /\ faults' \in 0 .. MaxFaults
           /\ OnlyCall(c) /\ call'[c].at = "over" /\ ~call'[c].here /\ call'[c].own = call[c].own /\ Over(c)
           /\ \/ Shows(c, "error", NoPath)
              \/ Shows(c, "success", c) /\ Answer(c)
           /\ work' = work \/ Moves(c, "over")
           /\ torn' = torn \/ (torn' = torn \cup {c} /\ InsertFails(c))
<1>a. call \in [Calls -> CallRecords] /\ faults \in 0 .. MaxFaults
  BY DEF WorkInv
<1>1. CASE GenerationFails(c) \/ TimesOut(c)
  <2>1. /\ Over(c) /\ Shows(c, "error", NoPath) /\ Fault /\ (work' = work \/ Moves(c, "over"))
        /\ UNCHANGED <<page, gate, draft, quiz, marked, path, plans, catalogue, overlapped, torn>>
    BY <1>1 DEF GenerationFails, TimesOut, workFrame, serverVars
  <2> QED
    BY <1>a, <2>1, CallIsOver, FaultsBounded
<1>2. CASE InsertFails(c)
  <2>1. /\ Over(c) /\ Shows(c, "error", NoPath) /\ Fault /\ Moves(c, "over") /\ torn' = torn \cup {c}
        /\ UNCHANGED <<page, gate, draft, quiz, marked, path, plans, catalogue, overlapped>>
    BY <1>2 DEF InsertFails, workFrame
  <2> QED
    BY <1>2, <1>a, <2>1, CallIsOver, FaultsBounded
<1>3. CASE Answer(c)
  <2>1. /\ Over(c) /\ Moves(c, "over") /\ (Shows(c, "success", c) \/ Shows(c, "error", NoPath))
        /\ UNCHANGED <<page, gate, draft, quiz, marked, path, plans, catalogue, overlapped, torn, faults>>
    BY <1>3 DEF Answer, workFrame
  <2> QED
    BY <1>3, <1>a, <2>1, CallIsOver
<1> QED
  BY <1>1, <1>2, <1>3 DEF Ending

-----------------------------------------------------------------------------
(* The pages keep their invariant.                                          *)

LEMMA WizardPages ==
    ASSUME PlacementAssumption, OnboardingAssumption, TypeInv, Wizard
    PROVE  PageInv' /\ QuizInv'
<1>a. PageInv /\ QuizInv /\ WorkInv /\ call \in [Calls -> CallRecords]
  BY DEF TypeInv, WorkInv
<1>b. \A c \in Calls : call'[c].at = call[c].at /\ (call'[c].here => call[c].here)
  BY <1>a, WizardFrame
<1>c. ASSUME UNCHANGED quiz PROVE QuizInv'
  BY <1>a, <1>c DEF QuizInv, Tests, Questions, Selected, BankComplete, Placing, Blank
<1>d. draft \in Drafts /\ marked \in BOOLEAN /\ page \in Pages
  BY <1>a DEF PageInv
<1>e. DefaultDraft \in Drafts
  BY DEF DefaultDraft, Drafts
<1>1. CASE TestSteps
  <2>1. UNCHANGED <<page, gate, plan, draft, marked, call>>
    BY <1>1 DEF TestSteps, QuestionsLoaded, QuestionsFail, LoadAgain, GoBack, GoNext, ScoringFails, SelectAnswer, quizFrame, wizardFrame
  <2>2. PageInv'
    BY <1>a, <2>1 DEF PageInv
  <2>3. QuizInv'
    BY <1>1, <1>a, QuizStep DEF TestSteps
  <2> QED
    BY <2>2, <2>3
<1>2. CASE Moving
  <2>1. ASSUME NEW p \in Pages, Opens(p), draft' \in Drafts, marked' = marked, p = "home" => marked, \A c \in Calls : ~call'[c].here
        PROVE  PageInv' /\ QuizInv'
    BY <1>a, <1>d, <2>1, OpensPage, NewQuizType DEF Opens
  <2>2. page # "plan" => \A c \in Calls : ~call'[c].here
    BY <1>a, <1>b DEF PageInv
  <2>3. ASSUME NEW p \in Pages, Follow(p) PROVE PageInv' /\ QuizInv'
    <3>1. Opens(p) /\ UNCHANGED <<draft, marked>> /\ p # "home"
      BY <2>3 DEF Follow, Links
    <3>2. \A c \in Calls : ~call'[c].here
      <4>1. page = "plan" => call' = [c \in Calls |-> [call[c] EXCEPT !.here = FALSE]]
        BY <2>3 DEF Follow
      <4> QED
        BY <1>a, <2>2, <4>1, AllLeft
    <3> QED
      BY <1>d, <2>1, <3>1, <3>2
  <2>4. CASE EnterMain
    <3>1. page = "arriving" /\ UNCHANGED <<draft, marked>>
      BY <2>4 DEF EnterMain, wizardFrame
    <3>2. \E p \in {"home", "plan", "goals"} : Opens(p) /\ (p = "home" => marked)
      BY <2>4 DEF EnterMain
    <3> QED
      BY <1>d, <2>1, <2>2, <3>1, <3>2 DEF Pages
  <2>5. CASE Reopen
    <3>1. Opens("arriving") /\ draft' = DefaultDraft /\ marked' = marked /\ call' = [c \in Calls |-> [call[c] EXCEPT !.here = FALSE]]
      BY <2>5 DEF Reopen
    <3> QED
      BY <1>a, <1>e, <2>1, <3>1, AllLeft DEF Pages
  <2>6. CASE AssessmentScored
    <3>1. page = "test" /\ Opens("results") /\ marked' = marked /\ draft' = [levels |-> Scored(quiz.sent), counted |-> TRUE]
      BY <2>6 DEF AssessmentScored, OnTest, wizardFrame
    <3>2. draft' \in Drafts
      BY <3>1, ScoredLevels DEF Drafts
    <3> QED
      BY <2>1, <2>2, <3>1, <3>2 DEF Pages
  <2> QED
    BY <1>2, <2>3, <2>4, <2>5, <2>6 DEF Moving
<1>3. CASE GateFails \/ CompleteFails \/ CatalogueExpires
  <2>1. /\ UNCHANGED <<page, plan, draft, quiz, call>> /\ marked' \in {marked, TRUE}
        /\ gate' = gate \/ (gate.asking /\ gate' = [allowed |-> TRUE, asking |-> FALSE])
    BY <1>3 DEF GateFails, CompleteFails, CatalogueExpires, pageVars, workFrame
  <2>2. /\ gate' \in [allowed : BOOLEAN, asking : BOOLEAN]
        /\ page \in {"arriving", "home"} => ~gate'.allowed /\ ~gate'.asking
    <3>1. CASE gate' = gate
      BY <1>a, <3>1 DEF PageInv
    <3>2. CASE gate.asking /\ gate' = [allowed |-> TRUE, asking |-> FALSE]
      <4>1. page \notin {"arriving", "home"}
        BY <1>a, <3>2 DEF PageInv
      <4> QED
        BY <3>2, <4>1
    <3> QED
      BY <2>1, <3>1, <3>2
  <2>3. \A c \in Calls : call'[c].here => call[c].here /\ call'[c].at \in {"get", "wait"}
    BY <1>a, <2>1 DEF PageInv
  <2>4. PageInv'
    BY <1>a, <1>d, <2>1, <2>2, <2>3, StaysOnPage
  <2> QED
    BY <1>c, <2>1, <2>4
<1>4. CASE GateAnswered
  <2>1. UNCHANGED <<draft, quiz, plan, marked>> /\ gate.asking
    BY <1>4 DEF GateAnswered
  <2>2. CASE marked /\ Active # {}
    <3>1. /\ page' = "arriving" /\ gate' = [allowed |-> FALSE, asking |-> FALSE]
          /\ call' = [c \in Calls |-> [call[c] EXCEPT !.here = FALSE]]
      BY <1>4, <2>2 DEF GateAnswered
    <3>2. \A c \in Calls : ~call'[c].here
      BY <1>a, <3>1, AllLeft
    <3>3. PageInv'
      BY <1>a, <2>1, <3>1, <3>2 DEF PageInv, Pages
    <3> QED
      BY <1>c, <2>1, <3>3
  <2>3. CASE ~(marked /\ Active # {})
    <3>1. UNCHANGED <<page, call>> /\ gate' = [allowed |-> TRUE, asking |-> FALSE]
      BY <1>4, <2>3 DEF GateAnswered
    <3>2. PageInv'
      BY <1>a, <2>1, <3>1 DEF PageInv
    <3> QED
      BY <1>c, <2>1, <3>2
  <2> QED
    BY <2>2, <2>3
<1>5. ASSUME NEW k \in Skills, NEW l \in SelfLevels, SelectLevel(k, l) PROVE PageInv' /\ QuizInv'
  <2>1. UNCHANGED <<page, gate, plan, quiz, marked, call>> /\ draft' = [draft EXCEPT !.levels[k] = l]
    BY <1>5 DEF SelectLevel, wizardFrame
  <2>2. draft' \in Drafts
    BY <1>d, <2>1 DEF Drafts, PlacementAssumption, Levels
  <2>3. PageInv'
    BY <1>a, <2>1, <2>2 DEF PageInv
  <2> QED
    BY <1>c, <2>1, <2>3
<1> QED
  BY <1>1, <1>2, <1>3, <1>4, <1>5 DEF Wizard, Staying

LEMMA SameQuiz == ASSUME QuizInv, UNCHANGED quiz PROVE QuizInv'
BY DEF QuizInv, Tests, Questions, Selected, BankComplete, Placing, Blank

\* Nobody is waited for once something is shown.
LEMMA NobodyWaits ==
    ASSUME PageInv, plan.status # "loading" \/ ~plan.asked \/ page # "plan"
    PROVE  \A c \in Calls : ~call[c].here
BY DEF PageInv

LEMMA CallPages ==
    ASSUME PlacementAssumption, OnboardingAssumption, TypeInv, NEW c \in Calls,
           Asking(c) \/ Looking(c) \/ SaveSettings(c) \/ Proceeds(c) \/ Writes(c) \/ InsertPlan(c) \/ Ending(c)
    PROVE  PageInv' /\ QuizInv'
<1>a. PageInv /\ QuizInv /\ WorkInv /\ call \in [Calls -> CallRecords]
  BY DEF TypeInv, WorkInv
<1>d. /\ draft \in Drafts /\ marked \in BOOLEAN /\ page \in Pages
      /\ gate \in [allowed : BOOLEAN, asking : BOOLEAN]
      /\ page \in {"arriving", "home"} => ~gate.allowed /\ ~gate.asking
      /\ \A d \in Calls : call[d].here => call[d].at \in {"get", "wait"}
  BY <1>a DEF PageInv
<1>1. CASE GeneratePlan(c)
  <2>1. /\ UNCHANGED <<page, gate, draft, quiz, marked>> /\ page = "plan" /\ (~plan.asked \/ plan.status = "error")
        /\ plan' = [plan EXCEPT !.asked = TRUE, !.status = "loading"]
    BY <1>1 DEF GeneratePlan, OnPlan, planFrame
  <2>2. OnlyCall(c) /\ call'[c].at = "get"
    <3>1. call' = [call EXCEPT ![c] = [at |-> "get", here |-> TRUE, own |-> TRUE]]
      BY <1>1 DEF GeneratePlan, Asks
    <3> QED
      BY <1>a, <3>1 DEF OnlyCall, CallRecords
  <2>3. \A d \in Calls : call'[d].here => d = c
    BY <1>a, <2>1, <2>2, NobodyWaits DEF OnlyCall
  <2>4. /\ plan' \in [status : {"loading", "success", "error"}, asked : BOOLEAN, shown : Calls \cup {NoPath}]
        /\ plan'.asked /\ plan'.status = "loading"
    BY <1>a, <2>1 DEF PageInv
  <2>5. PageInv'
    BY <1>a, <1>d, <2>1, <2>2, <2>3, <2>4 DEF PageInv
  <2> QED
    BY <1>a, <2>1, <2>5, SameQuiz
<1>2. CASE OtherTab(c)
  <2>1. UNCHANGED <<page, gate, draft, quiz, plan, marked>> /\ call' = [call EXCEPT ![c] = [at |-> "get", here |-> FALSE, own |-> TRUE]]
    BY <1>2 DEF OtherTab, pageVars, Asks
  <2>2. \A d \in Calls : call'[d].here => call[d].here /\ call'[d].at \in {"get", "wait"}
    BY <1>a, <1>d, <2>1
  <2> QED
    BY <1>a, <1>d, <2>1, <2>2, StaysOnPage, SameQuiz
<1>3. CASE Complete(c)
  <2>1. plan.status = "success" /\ marked' = TRUE /\ draft' = DefaultDraft /\ Opens("arriving")
    BY <1>3 DEF Complete
  <2>2. \A d \in Calls : ~call'[d].here
    <3>1. call' = call \/ call' = [call EXCEPT ![c] = [at |-> "get", here |-> FALSE, own |-> FALSE]]
      BY <1>3 DEF Complete, Asks
    <3> QED
      BY <1>a, <2>1, <3>1, NobodyWaits
  <2>3. DefaultDraft \in Drafts
    BY DEF DefaultDraft, Drafts
  <2>4. PageInv'
    BY <1>a, <1>d, <2>1, <2>2, <2>3, OpensPage DEF Pages
  <2> QED
    BY <2>1, <2>4, NewQuizType DEF Opens
<1>4. CASE Looking(c)
  <2>1. UNCHANGED <<page, gate, draft, quiz, marked>> /\ OnlyCall(c)
    BY <1>a, <1>4, LookFrame
  <2>2. CASE UNCHANGED plan /\ call'[c].at = "wait" /\ call'[c].here = call[c].here
    <3>1. \A d \in Calls : call'[d].here => call[d].here /\ call'[d].at \in {"get", "wait"}
      BY <1>d, <2>1, <2>2 DEF OnlyCall
    <3> QED
      BY <1>a, <1>d, <2>1, <2>2, <3>1, StaysOnPage, SameQuiz
  <2>3. CASE Over(c) /\ (Shows(c, "error", NoPath) \/ \E p \in Active : Shows(c, "success", p))
    <3>1. PageInv'
      BY <1>a, <2>1, <2>3, EndsOnPage DEF Active
    <3> QED
      BY <1>a, <2>1, <3>1, SameQuiz
  <2> QED
    BY <1>a, <1>4, <2>2, <2>3, LookFrame
<1>5. CASE SaveSettings(c)
  <2>1. UNCHANGED <<page, gate, draft, quiz, plan, marked>> /\ OnlyCall(c) /\ ~call'[c].here
    BY <1>a, <1>5, SaveFrame DEF pageVars
  <2>2. \A d \in Calls : call'[d].here => call[d].here /\ call'[d].at \in {"get", "wait"}
    BY <1>d, <2>1 DEF OnlyCall
  <2> QED
    BY <1>a, <1>d, <2>1, <2>2, StaysOnPage, SameQuiz
<1>6. CASE Proceeds(c) \/ Writes(c) \/ InsertPlan(c)
  <2>1. UNCHANGED <<page, gate, draft, quiz, plan, marked, call>>
    BY <1>a, <1>6, ServerFrame DEF pageVars
  <2> QED
    BY <1>a, <1>d, <2>1, StaysOnPage, SameQuiz
<1>7. CASE Ending(c)
  <2>1. UNCHANGED <<page, gate, draft, quiz, marked>> /\ Over(c) /\ (Shows(c, "error", NoPath) \/ Shows(c, "success", c))
    BY <1>a, <1>7, EndFrame
  <2>2. PageInv'
    BY <1>a, <2>1, EndsOnPage
  <2> QED
    BY <1>a, <2>1, <2>2, SameQuiz
<1> QED
  BY <1>1, <1>2, <1>3, <1>4, <1>5, <1>6, <1>7 DEF Asking

-----------------------------------------------------------------------------
(* The work behind a call.                                                  *)

\* A call that does not move.
LEMMA OtherWorks ==
    ASSUME NEW d \in Calls, WorkOf(d), work'[d] = work[d], call'[d].at = call[d].at, Made \subseteq Made',
           d \in Made' <=> d \in Made, path'[d].status = "none" <=> path[d].status = "none"
    PROVE  WorkOf(d)'
BY DEF WorkOf

LEMMA MadeFinite ==
    ASSUME OnboardingAssumption
    PROVE  /\ IsFiniteSet(Calls) /\ Cardinality(Calls) = MaxCalls
           /\ \A S \in SUBSET Calls : IsFiniteSet(S) /\ Cardinality(S) \in Nat /\ Cardinality(S) <= MaxCalls
           /\ \A S \in SUBSET Calls : \A T \in SUBSET S : Cardinality(T) <= Cardinality(S)
<1>1. IsFiniteSet(Calls) /\ Cardinality(Calls) = MaxCalls
  BY FS_Interval DEF OnboardingAssumption, Calls
<1>2. \A S \in SUBSET Calls : IsFiniteSet(S) /\ Cardinality(S) \in Nat /\ Cardinality(S) <= MaxCalls
  BY <1>1, FS_Subset, FS_CardinalityType
<1> QED
  BY <1>1, <1>2, FS_Subset

\* Call c moves, and no row of another is made.
LEMMA WorkStep ==
    ASSUME OnboardingAssumption, WorkInv, NEW c \in Calls,
           call' \in [Calls -> CallRecords], work' \in [Calls -> Works], path' \in [Calls -> Rows], plans' \in Seq(Calls),
           catalogue' \in {"absent", "full", "empty"}, overlapped' \in BOOLEAN, torn' \subseteq Calls, faults' \in 0 .. MaxFaults,
           \A d \in Calls \ {c} : call'[d].at = call[d].at /\ work'[d] = work[d],
           \A d \in Calls \ {c} : path'[d].version = path[d].version /\ (path'[d].status = "none" <=> path[d].status = "none"),
           c \in Made => path'[c].version = path[c].version,
           call[c].at = "none" => Fresh(c) \/ call'[c].at = "none", call[c].at # "none" => call'[c].at # "none",
           WorkOf(c)', path'[c].version <= Cardinality(Made'),
           plans' = plans \/ plans' = Append(plans, c),
           (\E n \in DOMAIN plans : plans[n] = c) \/ plans' # plans => work'[c].at \in {"answer", "over"} /\ work'[c].lms # "none",
           work'[c].at = "answer" => work[c].at = "answer" \/ plans' = Append(plans, c)
    PROVE  WorkInv'
<1>a. /\ call \in [Calls -> CallRecords] /\ work \in [Calls -> Works] /\ path \in [Calls -> Rows] /\ plans \in Seq(Calls)
      /\ \A e, d \in Calls : e < d /\ call[d].at # "none" => call[e].at # "none"
      /\ \A d \in Calls : WorkOf(d) /\ path[d].version <= Cardinality(Made)
      /\ \A n \in DOMAIN plans : work[plans[n]].at \in {"answer", "over"} /\ work[plans[n]].lms # "none"
      /\ \A d \in Calls : work[d].at = "answer" => \E n \in DOMAIN plans : plans[n] = d
  BY DEF WorkInv
<1>1. Made \subseteq Made' /\ \A d \in Calls \ {c} : d \in Made' <=> d \in Made
  BY <1>a DEF Made
<1>2. \A d \in Calls : WorkOf(d)'
  BY <1>a, <1>1, OtherWorks, Zenon
<1>3. \A d \in Calls : path'[d].version <= Cardinality(Made')
  <2>1. Made' \subseteq Calls /\ Cardinality(Made) \in Nat /\ Cardinality(Made') \in Nat /\ Cardinality(Made) <= Cardinality(Made')
    BY <1>1, MadeFinite DEF Made
  <2>2. ASSUME NEW d \in Calls, d # c PROVE path'[d].version <= Cardinality(Made')
    <3>1. path[d].version \in Nat /\ path[d].version <= Cardinality(Made) /\ path'[d].version = path[d].version
      BY <1>a, <2>2 DEF Rows
    <3> QED
      BY <2>1, <3>1
  <2> QED
    BY <2>2
<1>4. \A e, d \in Calls : e < d /\ call'[d].at # "none" => call'[e].at # "none"
  <2> SUFFICES ASSUME NEW e \in Calls, NEW d \in Calls, e < d, call'[d].at # "none" PROVE call'[e].at # "none"
    OBVIOUS
  <2>1. CASE call[d].at # "none"
    <3>1. call[e].at # "none"
      BY <1>a, <2>1
    <3>2. CASE e = c
      BY <3>1, <3>2
    <3>3. CASE e # c
      BY <3>1, <3>3
    <3> QED
      BY <3>2, <3>3
  <2>2. CASE call[d].at = "none"
    <3>1. d = c /\ Fresh(c) /\ e # c
      BY <2>2 DEF Calls
    <3> QED
      BY <3>1 DEF Fresh
  <2> QED
    BY <2>1, <2>2
<1>5. \A n \in DOMAIN plans' : work'[plans'[n]].at \in {"answer", "over"} /\ work'[plans'[n]].lms # "none"
  <2>1. ASSUME NEW n \in DOMAIN plans' PROVE (plans'[n] = c /\ plans' # plans) \/ (n \in DOMAIN plans /\ plans'[n] = plans[n])
    <3>1. CASE plans' = plans
      BY <3>1
    <3>2. CASE plans' = Append(plans, c)
      <4>1. Len(plans') = Len(plans) + 1
        BY <1>a, <3>2
      <4>2. plans' # plans
        BY <1>a, <4>1
      <4> QED
        BY <1>a, <3>2, <4>2
    <3> QED
      BY <3>1, <3>2
  <2>2. ASSUME NEW n \in DOMAIN plans PROVE work'[plans[n]].at \in {"answer", "over"} /\ work'[plans[n]].lms # "none"
    <3>1. plans[n] \in Calls
      BY <1>a
    <3> QED
      BY <1>a, <3>1
  <2> QED
    BY <2>1, <2>2
<1>6. \A d \in Calls : work'[d].at = "answer" => \E n \in DOMAIN plans' : plans'[n] = d
  <2>1. \A n \in DOMAIN plans : n \in DOMAIN plans' /\ plans'[n] = plans[n]
    <3>1. plans' = Append(plans, c) => \A n \in DOMAIN plans : n \in DOMAIN plans' /\ plans'[n] = plans[n]
      BY <1>a
    <3> QED
      BY <3>1
  <2>2. plans' = Append(plans, c) => \E n \in DOMAIN plans' : plans'[n] = c
    BY <1>a
  <2>3. \A d \in Calls : (\E n \in DOMAIN plans : plans[n] = d) => \E n \in DOMAIN plans' : plans'[n] = d
    BY <2>1
  <2> QED
    BY <1>a, <2>2, <2>3
<1> QED
  BY <1>2, <1>3, <1>4, <1>5, <1>6 DEF WorkInv

-----------------------------------------------------------------------------
(* What the steps do to the work of a call.                                 *)

OnlyWork(c) == work' \in [Calls -> Works] /\ \A d \in Calls \ {c} : work'[d] = work[d]

LEMMA WorkSet ==
    ASSUME work \in [Calls -> Works], NEW c \in Calls, NEW w \in Works, work' = [work EXCEPT ![c] = w]
    PROVE  OnlyWork(c) /\ work'[c] = w
BY DEF OnlyWork

LEMMA MovesTo ==
    ASSUME work \in [Calls -> Works], NEW c \in Calls, NEW at \in {"catalogue", "insert", "answer", "over"}, Moves(c, at)
    PROVE  /\ OnlyWork(c) /\ work'[c].at = at /\ work'[c].synced = work[c].synced
           /\ work'[c].lms = work[c].lms /\ work'[c].todo = work[c].todo /\ work'[c].existing = work[c].existing
<1> DEFINE w == [work[c] EXCEPT !.at = at]
<1>1. work' = [work EXCEPT ![c] = w]
  BY DEF Moves
<1>2. /\ w \in Works /\ w.at = at /\ w.synced = work[c].synced /\ w.lms = work[c].lms /\ w.todo = work[c].todo
      /\ w.existing = work[c].existing
  BY DEF Works
<1> HIDE DEF w
<1> QED
  BY <1>1, <1>2, WorkSet, Zenon

LEMMA BeginsWith ==
    ASSUME work \in [Calls -> Works], NEW c \in Calls, Begins(c, "profile")
    PROVE  /\ OnlyWork(c) /\ work'[c].at = "profile" /\ work'[c].synced = work[c].synced
           /\ work'[c].lms = work[c].lms /\ work'[c].todo = work[c].todo /\ work'[c].existing = work[c].existing
<1> DEFINE w == [work[c] EXCEPT !.at = "profile"]
<1>1. work' = [work EXCEPT ![c] = w]
  BY DEF Begins
<1>2. /\ w \in Works /\ w.at = "profile" /\ w.synced = work[c].synced /\ w.lms = work[c].lms
      /\ w.todo = work[c].todo /\ w.existing = work[c].existing
  BY DEF Works
<1> HIDE DEF w
<1> QED
  BY <1>1, <1>2, WorkSet, Zenon

LEMMA SavesWith ==
    ASSUME work \in [Calls -> Works], NEW c \in Calls, SaveSettings(c)
    PROVE  /\ OnlyWork(c) /\ work'[c].at = "catalogue" /\ work'[c].synced = work[c].synced
           /\ work'[c].lms = work[c].lms /\ work'[c].todo = work[c].todo /\ work'[c].existing = work[c].existing
<1> DEFINE w == [work[c] EXCEPT !.at = "catalogue"]
<1>1. work' = [work EXCEPT ![c] = w]
  BY DEF SaveSettings
<1>2. /\ w \in Works /\ w.at = "catalogue" /\ w.synced = work[c].synced /\ w.lms = work[c].lms
      /\ w.todo = work[c].todo /\ w.existing = work[c].existing
  BY DEF Works
<1> HIDE DEF w
<1> QED
  BY <1>1, <1>2, WorkSet, Zenon

LEMMA UsesCatalogue ==
    ASSUME work \in [Calls -> Works], NEW c \in Calls, UseCatalogue(c)
    PROVE  /\ OnlyWork(c) /\ work'[c].at = "sync" /\ work'[c].synced = work[c].synced
           /\ work'[c].lms = "find" /\ work'[c].todo = work[c].todo /\ work'[c].existing = work[c].existing
<1> DEFINE w == [work[c] EXCEPT !.at = "sync", !.lms = "find", !.full = (catalogue' = "full")]
<1>1. work' = [work EXCEPT ![c] = w]
  BY DEF UseCatalogue
<1>2. /\ w \in Works /\ w.at = "sync" /\ w.synced = work[c].synced /\ w.lms = "find" /\ w.todo = work[c].todo
      /\ w.existing = work[c].existing
  <2>1. work[c] \in Works /\ (catalogue' = "full") \in BOOLEAN
    OBVIOUS
  <2>2. /\ w.at = "sync" /\ w.synced = work[c].synced /\ w.lms = "find" /\ w.todo = work[c].todo
        /\ w.existing = work[c].existing
    BY <2>1 DEF Works
  <2>3. w \in Works
    BY <2>1, Zenon DEF Works
  <2> QED
    BY <2>2, <2>3
<1> HIDE DEF w
<1> QED
  BY <1>1, <1>2, WorkSet, Zenon

LEMMA Executes ==
    ASSUME work \in [Calls -> Works], NEW c \in Calls, NEW statement, Executed(c, statement)
    PROVE  /\ OnlyWork(c) /\ work'[c].at = work[c].at /\ work'[c].synced = work[c].synced
           /\ work'[c].lms = work[c].lms /\ work'[c].todo = work[c].todo \ {statement} /\ work'[c].existing = work[c].existing
<1> DEFINE w == [work[c] EXCEPT !.todo = work[c].todo \ {statement}]
<1>1. work' = [work EXCEPT ![c] = w]
  BY DEF Executed
<1>2. /\ w \in Works /\ w.at = work[c].at /\ w.synced = work[c].synced /\ w.lms = work[c].lms
      /\ w.todo = work[c].todo \ {statement} /\ w.existing = work[c].existing
  <2>1. work[c] \in Works
    OBVIOUS
  <2>2. /\ w.at = work[c].at /\ w.synced = work[c].synced /\ w.lms = work[c].lms
        /\ w.todo = work[c].todo \ {statement} /\ w.existing = work[c].existing
    BY <2>1 DEF Works
  <2>3. work[c].todo \ {statement} \in SUBSET {"supersede", "create"}
    BY <2>1 DEF Works
  <2>4. w \in Works
    BY <2>1, <2>3, Zenon DEF Works
  <2> QED
    BY <2>2, <2>4
<1> HIDE DEF w
<1> QED
  BY <1>1, <1>2, WorkSet, Zenon

LEMMA SyncsWith ==
    ASSUME work \in [Calls -> Works], NEW c \in Calls, work[c].lms = "write",
           work' = [work EXCEPT ![c].at = "insert", ![c].synced = TRUE, ![c].lms = "over"]
    PROVE  /\ OnlyWork(c) /\ work'[c].at = "insert" /\ work'[c].synced = TRUE
           /\ work'[c].lms = "over" /\ work'[c].todo = work[c].todo /\ work'[c].existing = work[c].existing
<1> DEFINE w == [work[c] EXCEPT !.at = "insert", !.synced = TRUE, !.lms = "over"]
<1>1. work' = [work EXCEPT ![c] = w]
  OBVIOUS
<1>2. /\ w \in Works /\ w.at = "insert" /\ w.synced = TRUE /\ w.lms = "over" /\ w.todo = work[c].todo
      /\ w.existing = work[c].existing
  BY DEF Works
<1> HIDE DEF w
<1> QED
  BY <1>1, <1>2, WorkSet, Zenon

FoundPath(c, p) ==
    /\ work'[c].at = work[c].at /\ work'[c].synced = work[c].synced /\ work'[c].lms = "write" /\ work'[c].existing = p
    /\ work'[c].todo = IF p = NoPath THEN {"create"} ELSE {"supersede", "create"}

LEMMA FindsWith ==
    ASSUME work \in [Calls -> Works], NEW c \in Calls, NEW p \in Calls \cup {NoPath},
           work' = [work EXCEPT ![c].lms = "write", ![c].existing = p,
                                ![c].todo = IF p = NoPath THEN {"create"} ELSE {"supersede", "create"}]
    PROVE  OnlyWork(c) /\ FoundPath(c, p)
<1> DEFINE todo == IF p = NoPath THEN {"create"} ELSE {"supersede", "create"}
           w == [work[c] EXCEPT !.lms = "write", !.existing = p, !.todo = todo]
<1>1. todo \in SUBSET {"supersede", "create"}
  OBVIOUS
<1>2. work' = [work EXCEPT ![c] = w]
  OBVIOUS
<1> HIDE DEF todo
<1>3. w \in Works /\ w.at = work[c].at /\ w.synced = work[c].synced /\ w.lms = "write" /\ w.todo = todo /\ w.existing = p
  <2>1. work[c] \in Works
    OBVIOUS
  <2>2. w.at = work[c].at /\ w.synced = work[c].synced /\ w.lms = "write" /\ w.todo = todo /\ w.existing = p
    BY <2>1 DEF Works
  <2>3. w \in Works
    BY <1>1, <2>1, Zenon DEF Works
  <2> QED
    BY <2>2, <2>3
<1> HIDE DEF w
<1>4. OnlyWork(c) /\ work'[c] = w
  BY <1>2, <1>3, WorkSet, Zenon
<1> QED
  BY <1>3, <1>4 DEF FoundPath, todo

LEMMA FailsAt ==
    ASSUME work \in [Calls -> Works], NEW c \in Calls, NEW statement,
           work' = [work EXCEPT ![c].todo = @ \ {statement}, ![c].lms = "failed"]
    PROVE  /\ OnlyWork(c) /\ work'[c].at = work[c].at /\ work'[c].synced = work[c].synced
           /\ work'[c].lms = "failed" /\ work'[c].todo = work[c].todo \ {statement} /\ work'[c].existing = work[c].existing
<1> DEFINE w == [work[c] EXCEPT !.todo = work[c].todo \ {statement}, !.lms = "failed"]
<1>1. work' = [work EXCEPT ![c] = w]
  OBVIOUS
<1>2. /\ w \in Works /\ w.at = work[c].at /\ w.synced = work[c].synced /\ w.lms = "failed"
      /\ w.todo = work[c].todo \ {statement} /\ w.existing = work[c].existing
  <2>1. work[c] \in Works
    OBVIOUS
  <2>2. /\ w.at = work[c].at /\ w.synced = work[c].synced /\ w.lms = "failed"
        /\ w.todo = work[c].todo \ {statement} /\ w.existing = work[c].existing
    BY <2>1 DEF Works
  <2>3. work[c].todo \ {statement} \in SUBSET {"supersede", "create"}
    BY <2>1 DEF Works
  <2>4. w \in Works
    BY <2>1, <2>3, Zenon DEF Works
  <2> QED
    BY <2>2, <2>4
<1> HIDE DEF w
<1> QED
  BY <1>1, <1>2, WorkSet, Zenon

\* Paths and plans stay.
LEMMA WorkOnly ==
    ASSUME OnboardingAssumption, WorkInv, NEW c \in Calls, OnlyCall(c), OnlyWork(c), UNCHANGED <<path, plans>>,
           catalogue' \in {"absent", "full", "empty"}, overlapped' \in BOOLEAN, torn' \subseteq Calls, faults' \in 0 .. MaxFaults,
           call[c].at = "none" => Fresh(c) \/ call'[c].at = "none", call[c].at # "none" => call'[c].at # "none", WorkOf(c)',
           work[c].at \in {"answer", "over"} => work'[c].at \in {"answer", "over"} /\ (work[c].lms # "none" => work'[c].lms # "none"),
           work'[c].at = "answer" => work[c].at = "answer"
    PROVE  WorkInv'
<1>1. /\ path \in [Calls -> Rows] /\ plans \in Seq(Calls) /\ path[c].version <= Cardinality(Made)
      /\ \A n \in DOMAIN plans : work[plans[n]].at \in {"answer", "over"} /\ work[plans[n]].lms # "none"
  BY DEF WorkInv
<1>2. path' = path /\ plans' = plans /\ Cardinality(Made') = Cardinality(Made)
  BY DEF Made
<1>3. (\E n \in DOMAIN plans : plans[n] = c) => work'[c].at \in {"answer", "over"} /\ work'[c].lms # "none"
  BY <1>1
<1> QED
  BY <1>1, <1>2, <1>3, WorkStep DEF OnlyCall, OnlyWork

LEMMA WizardWorks ==
    ASSUME OnboardingAssumption, WorkInv, Wizard
    PROVE  WorkInv'
<1>1. /\ UNCHANGED <<work, path, plans, overlapped, torn>> /\ catalogue' \in {catalogue, "absent"} /\ faults' \in 0 .. MaxFaults
      /\ call' \in [Calls -> CallRecords] /\ \A c \in Calls : call'[c].at = call[c].at
  BY WizardFrame
<1>2. Made' = Made
  BY <1>1 DEF Made
<1>3. \A c \in Calls : WorkOf(c)'
  BY <1>1, <1>2 DEF WorkInv, WorkOf
<1> QED
  BY <1>1, <1>2, <1>3 DEF WorkInv

LEMMA AskWorks ==
    ASSUME OnboardingAssumption, WorkInv, NEW c \in Calls, Asking(c) \/ Looking(c) \/ SaveSettings(c)
    PROVE  WorkInv'
<1>a. /\ WorkOf(c) /\ work \in [Calls -> Works] /\ call \in [Calls -> CallRecords] /\ catalogue \in {"absent", "full", "empty"}
      /\ overlapped \in BOOLEAN /\ torn \subseteq Calls /\ faults \in 0 .. MaxFaults
  BY DEF WorkInv
<1>b. UNCHANGED path => (c \in Made' <=> c \in Made)
  BY DEF Made
<1>c. NoWork.at = "none" /\ NoWork.lms = "none" /\ NoWork.todo = {} /\ NoWork.existing = NoPath /\ NoWork.synced = FALSE
  BY DEF NoWork
<1>d. NoPath \notin Calls
  BY DEF NoPath, Calls
<1>1. CASE Asking(c)
  <2>1. UNCHANGED <<work, path, plans, catalogue, overlapped, torn>> /\ faults' \in 0 .. MaxFaults
    BY <1>1, AskFrame
  <2>2. CASE UNCHANGED call
    <3>1. OnlyCall(c) /\ OnlyWork(c) /\ WorkOf(c)'
      <4>1. OnlyCall(c) /\ OnlyWork(c)
        BY <1>a, <2>1, <2>2 DEF OnlyCall, OnlyWork
      <4>2. Made' = Made
        BY <2>1 DEF Made
      <4>3. WorkOf(c)'
        BY <1>a, <2>1, <2>2, <4>2, OtherWorks
      <4> QED
        BY <4>1, <4>3
    <3> QED
      BY <1>a, <2>1, <2>2, <3>1, WorkOnly
  <2>3. CASE Fresh(c) /\ OnlyCall(c) /\ call'[c].at = "get"
    <3>1. work[c] = NoWork
      BY <1>a, <2>3 DEF Fresh, WorkOf
    <3>2. OnlyWork(c) /\ WorkOf(c)'
      BY <1>a, <1>b, <1>c, <1>d, <2>1, <2>3, <3>1 DEF OnlyWork, WorkOf
    <3> QED
      BY <1>a, <1>c, <2>1, <2>3, <3>1, <3>2, WorkOnly
  <2> QED
    BY <1>1, <2>2, <2>3, AskFrame
<1>2. CASE Looking(c)
  <2>1. UNCHANGED <<path, plans, catalogue, torn>> /\ faults' \in 0 .. MaxFaults /\ call[c].at = "get" /\ OnlyCall(c)
    BY <1>2, LookFrame
  <2>2. work[c] = NoWork /\ c \notin Made /\ path[c].status = "none"
    BY <1>a, <1>c, <2>1 DEF WorkOf
  <2>3. CASE Begins(c, "profile") /\ call'[c].at = "wait"
    <3>1. /\ OnlyWork(c) /\ work'[c].at = "profile" /\ work'[c].lms = "none" /\ work'[c].todo = {}
          /\ work'[c].existing = NoPath /\ work'[c].synced = FALSE
      BY <1>a, <1>c, <2>2, <2>3, BeginsWith
    <3>2. WorkOf(c)'
      BY <1>b, <1>d, <2>1, <2>2, <2>3, <3>1 DEF WorkOf
    <3>3. overlapped' \in BOOLEAN
      BY <2>3 DEF Begins
    <3> QED
      BY <1>a, <1>c, <2>1, <2>2, <2>3, <3>1, <3>2, <3>3, WorkOnly
  <2>4. CASE UNCHANGED <<work, overlapped>> /\ call'[c].at = "over"
    <3>1. OnlyWork(c) /\ WorkOf(c)'
      BY <1>a, <1>b, <1>c, <1>d, <2>1, <2>2, <2>4 DEF OnlyWork, WorkOf
    <3> QED
      BY <1>a, <1>c, <2>1, <2>2, <2>4, <3>1, WorkOnly
  <2> QED
    BY <1>2, <2>3, <2>4, LookFrame
<1>3. CASE SaveSettings(c)
  <2>1. /\ Fresh(c) /\ UNCHANGED <<path, plans, catalogue, torn, faults>> /\ OnlyCall(c) /\ call'[c].at = "over" /\ overlapped' \in BOOLEAN
    BY <1>3, SaveFrame
  <2>2. work[c] = NoWork /\ c \notin Made /\ path[c].status = "none"
    BY <1>a, <1>c, <2>1 DEF WorkOf, Fresh
  <2>3. /\ OnlyWork(c) /\ work'[c].at = "catalogue" /\ work'[c].lms = "none" /\ work'[c].todo = {}
        /\ work'[c].existing = NoPath /\ work'[c].synced = FALSE
    BY <1>a, <1>c, <1>3, <2>2, SavesWith
  <2>4. WorkOf(c)'
    BY <1>b, <1>d, <2>1, <2>2, <2>3 DEF WorkOf
  <2> QED
    BY <1>a, <1>c, <2>1, <2>2, <2>3, <2>4, WorkOnly
<1> QED
  BY <1>1, <1>2, <1>3

LEMMA EndWorks ==
    ASSUME OnboardingAssumption, WorkInv, NEW c \in Calls, Ending(c)
    PROVE  WorkInv'
<1>a. /\ WorkOf(c) /\ work \in [Calls -> Works] /\ call \in [Calls -> CallRecords] /\ catalogue \in {"absent", "full", "empty"}
      /\ overlapped \in BOOLEAN /\ torn \subseteq Calls
  BY DEF WorkInv
<1>b. /\ UNCHANGED <<path, plans, catalogue, overlapped>> /\ faults' \in 0 .. MaxFaults /\ OnlyCall(c) /\ call'[c].at = "over"
      /\ torn' = torn \/ torn' = torn \cup {c}
  BY EndFrame
<1>c. c \in Made' <=> c \in Made
  BY <1>b DEF Made
<1>d. work[c].at \notin {"none"}
  BY DEF Ending, GenerationFails, TimesOut, InsertFails, Answer
<1>1. CASE TimesOut(c)
  <2>1. work' = work /\ work[c].at \in {"catalogue", "sync", "insert"}
    BY <1>1 DEF TimesOut, serverVars
  <2>2. call[c].at = "wait"
    BY <1>1 DEF TimesOut
  <2>3. OnlyWork(c)
    BY <1>a, <2>1 DEF OnlyWork
  <2>4. WorkOf(c)'
    <3>1. \A d \in Calls : d \in Made' <=> d \in Made
      BY <1>b DEF Made
    <3> QED
      BY <1>a, <1>b, <2>1, <2>2, <3>1 DEF WorkOf
  <2> QED
    BY <1>a, <1>b, <1>d, <2>1, <2>2, <2>3, <2>4, WorkOnly
<1>2. CASE GenerationFails(c) \/ InsertFails(c) \/ Answer(c)
  <2>1. Moves(c, "over")
    BY <1>2 DEF GenerationFails, InsertFails, Answer
  <2>2. /\ OnlyWork(c) /\ work'[c].at = "over" /\ work'[c].synced = work[c].synced
        /\ work'[c].lms = work[c].lms /\ work'[c].todo = work[c].todo /\ work'[c].existing = work[c].existing
    BY <1>a, <2>1, MovesTo
  <2>3. WorkOf(c)'
    <3>1. \A d \in Calls : d \in Made' <=> d \in Made
      BY <1>b DEF Made
    <3> QED
      BY <1>a, <1>b, <1>c, <1>d, <2>2, <3>1 DEF WorkOf
  <2>4. call[c].at # "none"
    BY <1>a, <1>d DEF WorkOf, NoWork
  <2> QED
    BY <1>a, <1>b, <2>2, <2>3, <2>4, WorkOnly
<1> QED
  BY <1>1, <1>2 DEF Ending

LEMMA ServedPath ==
    ASSUME NEW p \in Served
    PROVE  IF Active = {} THEN p = NoPath ELSE p \in Active
BY DEF Served

LEMMA ServerWorks ==
    ASSUME OnboardingAssumption, WorkInv, NEW c \in Calls, Proceeds(c)
    PROVE  WorkInv'
<1>a. /\ WorkOf(c) /\ work \in [Calls -> Works] /\ call \in [Calls -> CallRecords] /\ path \in [Calls -> Rows]
      /\ overlapped \in BOOLEAN /\ torn \subseteq Calls
  BY DEF WorkInv
<1>b. /\ UNCHANGED <<call, overlapped>> /\ faults' \in 0 .. MaxFaults /\ catalogue' \in {"absent", "full", "empty"}
  BY ServerFrame
<1>c. UNCHANGED <<path, plans, torn>>
  BY DEF Proceeds, CreateProfile, UseCatalogue, FindActive, Synced, SyncTimesOut
<1>d. \A d \in Calls : d \in Made' <=> d \in Made
  BY <1>c DEF Made
<1>e. OnlyCall(c)
  BY <1>a, <1>b DEF OnlyCall
<1>f. NoPath \notin Calls
  BY DEF NoPath, Calls
<1>g. ASSUME OnlyWork(c), WorkOf(c)', work[c].at \notin {"answer", "over"} \/ (work'[c].at = work[c].at /\ work'[c].lms # "none"),
             work'[c].at = "answer" => work[c].at = "answer"
      PROVE  WorkInv'
  BY <1>a, <1>b, <1>c, <1>e, <1>g, WorkOnly
<1>1. CASE CreateProfile(c)
  <2>1. work[c].at = "profile" /\ Moves(c, "catalogue")
    BY <1>1 DEF CreateProfile
  <2>2. /\ OnlyWork(c) /\ work'[c].at = "catalogue" /\ work'[c].synced = work[c].synced
        /\ work'[c].lms = work[c].lms /\ work'[c].todo = work[c].todo /\ work'[c].existing = work[c].existing
    BY <1>a, <2>1, MovesTo
  <2>3. WorkOf(c)'
    BY <1>a, <1>b, <1>c, <1>d, <2>1, <2>2 DEF WorkOf, NoWork
  <2> QED
    BY <1>g, <2>1, <2>2, <2>3
<1>2. CASE UseCatalogue(c)
  <2>1. work[c].at = "catalogue"
    BY <1>2 DEF UseCatalogue
  <2>2. /\ OnlyWork(c) /\ work'[c].at = "sync" /\ work'[c].synced = work[c].synced
        /\ work'[c].lms = "find" /\ work'[c].todo = work[c].todo /\ work'[c].existing = work[c].existing
    BY <1>a, <1>2, UsesCatalogue
  <2>3. WorkOf(c)'
    BY <1>a, <1>b, <1>c, <1>d, <2>1, <2>2 DEF WorkOf, NoWork
  <2> QED
    BY <1>g, <2>1, <2>2, <2>3
<1>3. CASE FindActive(c)
  <2>1. work[c].lms = "find"
    BY <1>3 DEF FindActive
  <2>2. PICK p \in Served : work' = [work EXCEPT ![c].lms = "write", ![c].existing = p,
                                        ![c].todo = IF p = NoPath THEN {"create"} ELSE {"supersede", "create"}]
    BY <1>3 DEF FindActive
  <2>3. p = NoPath \/ p \in Made \ {c}
    <3>1. p = NoPath \/ p \in Active
      BY ServedPath
    <3>2. Active \subseteq Made
      BY DEF Active, WorkInv, WorkOf
    <3> QED
      BY <1>a, <2>1, <3>1, <3>2 DEF WorkOf
  <2>4. p \in Calls \cup {NoPath} /\ OnlyWork(c) /\ FoundPath(c, p)
    BY <1>a, <2>2, <2>3, FindsWith DEF Made
  <2>5. /\ work'[c].at = work[c].at /\ work'[c].synced = work[c].synced /\ work'[c].lms = "write" /\ work'[c].existing = p
        /\ "create" \in work'[c].todo /\ work'[c].todo # {} /\ ("supersede" \in work'[c].todo => p # NoPath)
    BY <2>4 DEF FoundPath
  <2>6. WorkOf(c)'
    <3>1. work[c].at \notin {"none", "profile", "catalogue"} /\ c \notin Made /\ ~work[c].synced
      BY <1>a, <2>1 DEF WorkOf
    <3>2. call[c].at \notin {"none", "get"}
      BY <1>a, <2>1 DEF WorkOf, NoWork
    <3>3. p \in Calls => p \in Made \ {c}
      BY <1>f, <2>3
    <3>4. work'[c].at = "answer" => call[c].at = "wait"
      BY <1>a, <2>5 DEF WorkOf
    <3>5. call'[c] = call[c] /\ path'[c] = path[c] /\ (path[c].status = "none" <=> c \notin Made)
      BY <1>a, <1>b, <1>c DEF WorkOf
    <3>6. work'[c].at # "none" /\ (p \in Calls => p \in Made' \ {c}) /\ c \notin Made' /\ ("supersede" \in work'[c].todo => p \in Calls)
      BY <1>d, <2>3, <2>4, <2>5, <3>1, <3>3 DEF Made
    <3> QED
      BY <2>5, <3>1, <3>2, <3>4, <3>5, <3>6 DEF WorkOf
  <2> QED
    BY <1>g, <2>4, <2>5, <2>6
<1>4. CASE Synced(c)
  <2>1. CASE /\ work[c].at = "sync" /\ work[c].lms = "write" /\ work[c].todo = {}
             /\ work' = [work EXCEPT ![c].at = "insert", ![c].synced = TRUE, ![c].lms = "over"]
    <3>1. /\ OnlyWork(c) /\ work'[c].at = "insert" /\ work'[c].synced = TRUE
          /\ work'[c].lms = "over" /\ work'[c].todo = work[c].todo /\ work'[c].existing = work[c].existing
      BY <1>a, <2>1, SyncsWith
    <3>2. WorkOf(c)'
      BY <1>a, <1>b, <1>c, <1>d, <2>1, <3>1 DEF WorkOf, NoWork
    <3> QED
      BY <1>g, <2>1, <3>1, <3>2
  <2>2. CASE work[c].at = "sync" /\ work[c].lms = "failed" /\ work' = [work EXCEPT ![c].at = "insert"]
    <3>1. Moves(c, "insert")
      BY <2>2 DEF Moves
    <3>2. /\ OnlyWork(c) /\ work'[c].at = "insert" /\ work'[c].synced = work[c].synced
          /\ work'[c].lms = work[c].lms /\ work'[c].todo = work[c].todo /\ work'[c].existing = work[c].existing
      BY <1>a, <3>1, MovesTo
    <3>3. WorkOf(c)'
      BY <1>a, <1>b, <1>c, <1>d, <2>2, <3>2 DEF WorkOf, NoWork
    <3> QED
      BY <1>g, <2>2, <3>2, <3>3
  <2> QED
    BY <1>4, <2>1, <2>2 DEF Synced
<1>5. CASE SyncTimesOut(c)
  <2>1. work[c].at = "sync" /\ Moves(c, "insert")
    BY <1>5 DEF SyncTimesOut
  <2>2. /\ OnlyWork(c) /\ work'[c].at = "insert" /\ work'[c].synced = work[c].synced
        /\ work'[c].lms = work[c].lms /\ work'[c].todo = work[c].todo /\ work'[c].existing = work[c].existing
    BY <1>a, <2>1, MovesTo
  <2>3. WorkOf(c)'
    BY <1>a, <1>b, <1>c, <1>d, <2>1, <2>2 DEF WorkOf, NoWork
  <2> QED
    BY <1>g, <2>1, <2>2, <2>3
<1> QED
  BY <1>1, <1>2, <1>3, <1>4, <1>5 DEF Proceeds

\* What the statements do to the paths.
LEMMA SupersedeRow ==
    ASSUME WorkInv, NEW c \in Calls, Supersede(c)
    PROVE  /\ work[c].existing \in Made \ {c} /\ path' \in [Calls -> Rows] /\ Made' = Made
           /\ \A d \in Calls : path'[d].version = path[d].version /\ (path'[d].status = "none" <=> path[d].status = "none")
           /\ \A d \in Calls : path'[d].status = IF d = work[c].existing THEN "superseded" ELSE path[d].status
<1> DEFINE e == work[c].existing
           row == [path[e] EXCEPT !.status = "superseded"]
<1>1. e \in Made \ {c} /\ path' = [path EXCEPT ![e] = row] /\ path \in [Calls -> Rows]
  BY DEF Supersede, WorkInv, WorkOf
<1>2. e \in Calls /\ path[e].status # "none"
  BY <1>1 DEF Made, WorkInv, WorkOf
<1>3. row \in Rows /\ row.status = "superseded" /\ row.version = path[e].version
  BY <1>1, <1>2 DEF Rows
<1> HIDE DEF e, row
<1>4. /\ path' \in [Calls -> Rows]
      /\ \A d \in Calls : path'[d].version = path[d].version /\ (path'[d].status = "none" <=> path[d].status = "none")
      /\ \A d \in Calls : path'[d].status = IF d = e THEN "superseded" ELSE path[d].status
  BY <1>1, <1>2, <1>3
<1>5. Made' = Made
  BY <1>4 DEF Made
<1> QED
  BY <1>1, <1>4, <1>5 DEF e

LEMMA CreateRow ==
    ASSUME OnboardingAssumption, WorkInv, NEW c \in Calls, CreatePath(c)
    PROVE  /\ c \notin Made /\ Made' = Made \cup {c} /\ path' \in [Calls -> Rows]
           /\ path'[c].status = "active" /\ path'[c].version > 0 /\ path'[c].version <= Cardinality(Made')
           /\ \A d \in Calls \ {c} : path'[d] = path[d]
<1> DEFINE v == IF work[c].existing = NoPath THEN 1 ELSE path[work[c].existing].version + 1
           row == [status |-> "active", version |-> v]
<1>1. "create" \in work[c].todo /\ path' = [path EXCEPT ![c] = row] /\ path \in [Calls -> Rows]
  BY DEF CreatePath, WorkInv
<1>2. c \notin Made /\ (work[c].existing = NoPath \/ work[c].existing \in Made)
  BY <1>1 DEF WorkInv, WorkOf, Works
<1>3. Made \subseteq Calls /\ IsFiniteSet(Made) /\ Cardinality(Made) \in Nat
  BY MadeFinite DEF Made
<1>4. v \in Nat \ {0} /\ v <= Cardinality(Made) + 1
  <2>1. CASE work[c].existing = NoPath
    BY <1>3, <2>1
  <2>2. CASE work[c].existing # NoPath
    <3>1. work[c].existing \in Made
      BY <1>2, <2>2
    <3>2. path[work[c].existing].version \in Nat /\ path[work[c].existing].version <= Cardinality(Made)
      BY <1>1, <1>3, <3>1 DEF WorkInv, Rows
    <3> QED
      BY <1>3, <2>2, <3>2
  <2> QED
    BY <2>1, <2>2
<1>5. row \in Rows /\ row.status = "active" /\ row.version = v
  BY <1>4 DEF Rows
<1> HIDE DEF row, v
<1>6. path' \in [Calls -> Rows] /\ path'[c] = row /\ \A d \in Calls \ {c} : path'[d] = path[d]
  BY <1>1, <1>5
<1>7. Made' = Made \cup {c}
  BY <1>4, <1>5, <1>6 DEF Made
<1>8. Cardinality(Made') = Cardinality(Made) + 1
  BY <1>2, <1>3, <1>7, FS_AddElement
<1> QED
  BY <1>2, <1>4, <1>5, <1>6, <1>7, <1>8

LEMMA WriteWorks ==
    ASSUME OnboardingAssumption, WorkInv, NEW c \in Calls, Writes(c)
    PROVE  WorkInv'
<1>a. /\ WorkOf(c) /\ work \in [Calls -> Works] /\ call \in [Calls -> CallRecords] /\ path \in [Calls -> Rows] /\ plans \in Seq(Calls)
      /\ overlapped \in BOOLEAN /\ torn \subseteq Calls /\ path[c].version <= Cardinality(Made) /\ path[c].version \in Nat
      /\ \A n \in DOMAIN plans : work[plans[n]].at \in {"answer", "over"} /\ work[plans[n]].lms # "none"
  BY DEF WorkInv, Rows
<1>b. /\ UNCHANGED <<call, overlapped>> /\ faults' \in 0 .. MaxFaults /\ catalogue' \in {"absent", "full", "empty"}
  BY ServerFrame
<1>c. UNCHANGED plans /\ (torn' = torn \/ torn' = torn \cup {c})
  BY DEF Writes, Supersede, CreatePath, StatementFails
<1>d. NoPath \notin Calls
  BY DEF NoPath, Calls
<1>e. work[c].todo # {}
  BY DEF Writes, Supersede, CreatePath, StatementFails
<1>f. work[c].lms \notin {"none", "find", "over"} /\ call[c].at \notin {"none", "get"} /\ work[c].at \notin {"none", "profile", "catalogue"}
  BY <1>a, <1>e DEF WorkOf, NoWork
<1>1. CASE Supersede(c)
  <2>1. "supersede" \in work[c].todo /\ Executed(c, "supersede")
    BY <1>1 DEF Supersede
  <2>2. /\ OnlyWork(c) /\ work'[c].at = work[c].at /\ work'[c].synced = work[c].synced
        /\ work'[c].lms = work[c].lms /\ work'[c].todo = work[c].todo \ {"supersede"} /\ work'[c].existing = work[c].existing
    BY <1>a, <2>1, Executes
  <2>3. /\ work[c].existing \in Made \ {c} /\ path' \in [Calls -> Rows] /\ Made' = Made
        /\ \A d \in Calls : path'[d].version = path[d].version /\ (path'[d].status = "none" <=> path[d].status = "none")
    BY <1>1, SupersedeRow
  <2>4. WorkOf(c)'
    BY <1>a, <1>b, <1>f, <2>2, <2>3 DEF WorkOf
  <2>5. (\E n \in DOMAIN plans : plans[n] = c) => work'[c].at \in {"answer", "over"} /\ work'[c].lms # "none"
    BY <1>a, <2>2
  <2>6. Cardinality(Made') = Cardinality(Made)
    BY <2>3
  <2> QED
    BY <1>a, <1>b, <1>c, <1>f, <2>2, <2>3, <2>4, <2>5, <2>6, WorkStep DEF OnlyWork
<1>2. CASE CreatePath(c)
  <2>1. "create" \in work[c].todo /\ Executed(c, "create")
    BY <1>2 DEF CreatePath
  <2>2. /\ OnlyWork(c) /\ work'[c].at = work[c].at /\ work'[c].synced = work[c].synced
        /\ work'[c].lms = work[c].lms /\ work'[c].todo = work[c].todo \ {"create"} /\ work'[c].existing = work[c].existing
    BY <1>a, <2>1, Executes
  <2>3. /\ c \notin Made /\ Made' = Made \cup {c} /\ path' \in [Calls -> Rows]
        /\ path'[c].status = "active" /\ path'[c].version <= Cardinality(Made') /\ \A d \in Calls \ {c} : path'[d] = path[d]
    BY <1>2, CreateRow
  <2>4. WorkOf(c)'
    BY <1>a, <1>b, <1>d, <1>f, <2>2, <2>3 DEF WorkOf
  <2>5. (\E n \in DOMAIN plans : plans[n] = c) => work'[c].at \in {"answer", "over"} /\ work'[c].lms # "none"
    BY <1>a, <2>2
  <2> QED
    BY <1>a, <1>b, <1>c, <1>f, <2>2, <2>3, <2>4, <2>5, WorkStep DEF OnlyWork
<1>3. CASE StatementFails(c)
  <2>1. PICK statement \in work[c].todo : work' = [work EXCEPT ![c].todo = @ \ {statement}, ![c].lms = "failed"]
    BY <1>3 DEF StatementFails
  <2>2. /\ OnlyWork(c) /\ work'[c].at = work[c].at /\ work'[c].synced = work[c].synced
        /\ work'[c].todo = work[c].todo \ {statement} /\ work'[c].lms = "failed" /\ work'[c].existing = work[c].existing
    BY <1>a, <2>1, FailsAt
  <2>3. UNCHANGED path /\ OnlyCall(c) /\ \A d \in Calls : d \in Made' <=> d \in Made
    BY <1>3, <1>a, <1>b DEF StatementFails, OnlyCall, Made
  <2>4. WorkOf(c)'
    BY <1>a, <1>b, <1>f, <2>2, <2>3 DEF WorkOf
  <2>5. torn' \subseteq Calls
    BY <1>a, <1>c
  <2> QED
    BY <1>a, <1>b, <1>c, <1>f, <2>2, <2>3, <2>4, <2>5, WorkOnly
<1> QED
  BY <1>1, <1>2, <1>3 DEF Writes

LEMMA InsertWorks ==
    ASSUME OnboardingAssumption, WorkInv, NEW c \in Calls, InsertPlan(c)
    PROVE  WorkInv'
<1>a. /\ WorkOf(c) /\ work \in [Calls -> Works] /\ call \in [Calls -> CallRecords] /\ path \in [Calls -> Rows] /\ plans \in Seq(Calls)
      /\ overlapped \in BOOLEAN /\ torn \subseteq Calls /\ path[c].version <= Cardinality(Made) /\ path[c].version \in Nat
  BY DEF WorkInv, Rows
<1>b. /\ UNCHANGED <<call, overlapped>> /\ faults' \in 0 .. MaxFaults /\ catalogue' \in {"absent", "full", "empty"}
  BY ServerFrame
<1>c. /\ work[c].at = "insert" /\ plans' = Append(plans, c) /\ UNCHANGED <<path, torn>>
      /\ \E at \in {"answer", "over"} : Moves(c, at) /\ (at = "answer" => call[c].at # "over")
  BY DEF InsertPlan
<1>1. PICK at \in {"answer", "over"} : Moves(c, at) /\ (at = "answer" => call[c].at # "over")
  BY <1>c
<1>2. /\ OnlyWork(c) /\ work'[c].at = at /\ work'[c].synced = work[c].synced
      /\ work'[c].lms = work[c].lms /\ work'[c].todo = work[c].todo /\ work'[c].existing = work[c].existing
  BY <1>a, <1>1, MovesTo
<1>3. \A d \in Calls : d \in Made' <=> d \in Made
  BY <1>c DEF Made
<1>4. call[c].at \in {"wait", "over"} /\ work[c].lms # "none"
  BY <1>a, <1>c DEF WorkOf, NoWork, CallRecords
<1>5. WorkOf(c)'
  BY <1>a, <1>b, <1>c, <1>1, <1>2, <1>3, <1>4 DEF WorkOf
<1>6. Cardinality(Made') = Cardinality(Made)
  BY <1>c DEF Made
<1>7. plans' \in Seq(Calls) /\ path' = path
  BY <1>a, <1>c
<1> QED
  BY <1>a, <1>b, <1>c, <1>1, <1>2, <1>4, <1>5, <1>6, <1>7, WorkStep DEF OnlyWork

LEMMA InitTypes ==
    ASSUME PlacementAssumption, OnboardingAssumption, Init
    PROVE  TypeInv
<1>1. QuizInv
  <2>1. NewQuiz.answers \in [Questions -> Answers] /\ \A n \in Questions : ~(n < 1)
    BY DEF NewQuiz, Answers, Questions
  <2> QED
    BY <2>1 DEF Init, QuizInv, Tests, NewQuiz
<1>2. PageInv
  <2>1. DefaultDraft \in Drafts
    BY DEF DefaultDraft, Drafts
  <2> QED
    BY <2>1 DEF Init, PageInv, NewPlan, NoCall, Pages
<1>3. WorkInv
  <2>1. NoCall \in CallRecords /\ NoWork \in Works /\ NoRow \in Rows
    BY DEF NoCall, NoWork, NoRow, CallRecords, Works, Rows
  <2>2. /\ call \in [Calls -> CallRecords] /\ work \in [Calls -> Works] /\ path \in [Calls -> Rows] /\ plans = <<>>
        /\ \A c \in Calls : call[c].at = "none" /\ work[c] = NoWork /\ path[c].version = 0 /\ path[c].status = "none"
    BY <2>1 DEF Init, NoRow, NoCall
  <2>3. Made = {}
    BY <2>2 DEF Made
  <2>4. \A c \in Calls : WorkOf(c)
    BY <2>2, <2>3 DEF WorkOf, NoWork, NoPath, Calls
  <2>5. \A c \in Calls : path[c].version <= Cardinality(Made)
    BY <2>2, <2>3, FS_EmptySet
  <2>6. catalogue = "absent" /\ overlapped = FALSE /\ torn = {} /\ faults \in 0 .. MaxFaults
    BY DEF Init, OnboardingAssumption
  <2>7. plans \in Seq(Calls) /\ DOMAIN plans = {}
    BY <2>2
  <2>8. \A c \in Calls : work[c].at # "answer"
    BY <2>2 DEF NoWork
  <2> QED
    BY <2>2, <2>4, <2>5, <2>6, <2>7, <2>8 DEF WorkInv
<1> QED
  BY <1>1, <1>2, <1>3 DEF TypeInv

LEMMA TypeStep ==
    ASSUME PlacementAssumption, OnboardingAssumption, TypeInv, Next
    PROVE  TypeInv'
<1>a. WorkInv
  BY DEF TypeInv
<1>1. CASE Wizard
  BY <1>1, <1>a, WizardPages, WizardWorks DEF TypeInv
<1>2. ASSUME NEW c \in Calls, Asking(c) \/ Looking(c) \/ SaveSettings(c) \/ Proceeds(c) \/ Writes(c) \/ InsertPlan(c) \/ Ending(c)
      PROVE  TypeInv'
  BY <1>2, <1>a, CallPages, AskWorks, ServerWorks, WriteWorks, InsertWorks, EndWorks DEF TypeInv
<1> QED
  BY <1>1, <1>2, AllSteps

LEMMA TypesOK ==
    ASSUME OnboardingAssumption, TypeInv
    PROVE  TypeOK
<1>a. QuizInv /\ PageInv /\ WorkInv
  BY DEF TypeInv
<1>1. /\ quiz.status \in {"loading", "error", "success", "submitting"} /\ quiz.index \in Questions \cup {1}
      /\ quiz.answers \in [Questions -> Answers] /\ (quiz.sent = <<>> <=> quiz.status # "submitting")
  BY <1>a DEF QuizInv, Tests
<1>2. ASSUME NEW c \in Calls
      PROVE  /\ work[c].at \in {"none", "profile", "catalogue", "sync", "insert", "answer", "over"}
             /\ work[c].lms \in {"none", "find", "write", "failed", "over"} /\ work[c].todo \subseteq {"supersede", "create"}
             /\ work[c].existing \in Calls \cup {NoPath}
             /\ path[c].status \in {"none", "active", "superseded"} /\ path[c].version \in 0 .. MaxCalls
             /\ path[c].status # "none" <=> path[c].version > 0
  <2>1. work[c] \in Works /\ path[c] \in Rows /\ path[c].version <= Cardinality(Made) /\ (path[c].status = "none" <=> c \notin Made)
    BY <1>a DEF WorkInv, WorkOf
  <2>2. Cardinality(Made) \in Nat /\ Cardinality(Made) <= MaxCalls /\ MaxCalls \in Nat
    BY MadeFinite DEF Made, OnboardingAssumption
  <2> QED
    BY <2>1, <2>2 DEF Works, Rows, Made
<1>3. \A n \in DOMAIN plans : plans[n] \in Calls /\ work[plans[n]].at \in {"answer", "over"}
  BY <1>a DEF WorkInv
<1> QED
  BY <1>a, <1>1, <1>2, <1>3 DEF TypeOK, PageInv, WorkInv, CallRecords

LEMMA TypeInvHolds == Spec => []TypeInv
<1>1. PlacementAssumption /\ OnboardingAssumption
  BY PlacementAssumption, OnboardingAssumption
<1>2. Init => TypeInv
  BY <1>1, InitTypes
<1>3. TypeInv /\ [Next]_vars => TypeInv'
  <2>1. TypeInv /\ Next => TypeInv'
    BY <1>1, TypeStep
  <2>2. TypeInv /\ UNCHANGED vars => TypeInv'
    <3> SUFFICES ASSUME TypeInv, UNCHANGED vars PROVE TypeInv'
      OBVIOUS
    <3>1. /\ UNCHANGED <<page, gate, draft, quiz, plan, marked, call, work, path, plans, catalogue, overlapped, torn, faults>>
          /\ QuizInv /\ PageInv /\ WorkInv
      BY DEF vars, pageVars, serverVars, TypeInv
    <3>2. QuizInv'
      BY <3>1, SameQuiz
    <3>3. PageInv'
      BY <3>1 DEF PageInv
    <3>4. WorkInv'
      <4>1. Made' = Made /\ Cardinality(Made') = Cardinality(Made)
        BY <3>1 DEF Made
      <4>2. \A c \in Calls : WorkOf(c)'
        BY <3>1, <4>1 DEF WorkInv, WorkOf
      <4> QED
        BY <3>1, <4>1, <4>2 DEF WorkInv
    <3> QED
      BY <3>2, <3>3, <3>4 DEF TypeInv
  <2> QED
    BY <2>1, <2>2
<1> QED
  BY <1>2, <1>3, PTL DEF Spec

\* Pages, test, calls and what the servers hold are of their types in every state,
\* for all skills and banks and any number of calls and failures.
THEOREM TypeCorrect == Spec => []TypeOK
<1>1. OnboardingAssumption
  BY OnboardingAssumption
<1>2. TypeInv => TypeOK
  BY <1>1, TypesOK
<1> QED
  BY <1>2, TypeInvHolds, PTL

-----------------------------------------------------------------------------
(* Calm steps: what the servers hold.                                       *)

LEMMA AtWorkFacts ==
    ASSUME WorkInv, NEW c \in Calls
    PROVE  /\ work[c].at = "none" => ~AtWork(c) /\ work[c].lms = "none" /\ work[c].todo = {} /\ c \notin Made
           /\ call[c].at \in {"none", "get"} => ~AtWork(c) /\ work[c].at = "none"
           /\ AtWork(c) /\ work[c].at = "over" => work[c].lms # "none"
           /\ work[c].todo # {} => AtWork(c) /\ work[c].at \in {"sync", "insert", "answer", "over"} /\ work[c].lms \in {"write", "failed"}
<1>1. WorkOf(c) /\ work[c] \in Works
  BY DEF WorkInv
<1> QED
  BY <1>1 DEF WorkOf, AtWork, NoWork, Works

LEMMA OthersRest ==
    ASSUME OneAtWork, NEW c \in Calls, AtWork(c)
    PROVE  \A d \in Calls \ {c} : ~AtWork(d)
BY DEF OneAtWork

LEMMA OthersAlike ==
    ASSUME NEW c \in Calls, OnlyWork(c)
    PROVE  \A d \in Calls \ {c} : AtWork(d)' <=> AtWork(d)
BY DEF OnlyWork, AtWork

\* A step towards the paths, or away from them.
LEMMA ServersMove ==
    ASSUME WorkInv, ServersInv, NEW c \in Calls, OnlyWork(c), UNCHANGED <<path, plans>>,
           \A d \in Calls \ {c} : ~AtWork(d), c \notin Made \/ AtWork(c),
           work'[c].todo = work[c].todo, work'[c].synced = work[c].synced, work'[c].existing = work[c].existing,
           work'[c].lms = work[c].lms \/ work'[c].lms = "find",
           work'[c].lms # "none" /\ work'[c].at \in {"answer", "over"} => \E n \in DOMAIN plans : plans[n] = c,
           work[c].at \in {"sync", "insert"} => work'[c].at \in {"sync", "insert"},
           work'[c].at \in {"sync", "insert"} /\ work'[c].lms \in {"write", "over"} => work[c].at \in {"sync", "insert"}
    PROVE  ServersInv'
<1>a. OneAtWork /\ InForce /\ PlanInForce
  BY DEF ServersInv
<1>b. Made' = Made /\ Active' = Active /\ plans' = plans /\ \A d \in Calls \ {c} : work'[d] = work[d]
  BY DEF Made, Active, OnlyWork
<1>c. \A d \in Calls : work'[d].todo = work[d].todo /\ work'[d].synced = work[d].synced
  BY <1>b
<1>d. \A n \in DOMAIN plans : plans[n] \in Calls
  BY DEF WorkInv
<1>1. OneAtWork'
  <2>1. \A d \in Calls \ {c} : ~AtWork(d)'
    BY OthersAlike
  <2>2. \A d \in Calls : AtWork(d)' => d = c
    BY <2>1
  <2>3. \A d \in Calls : work'[d].lms # "failed"
    BY <1>a, <1>b DEF OneAtWork
  <2>4. c \in Made' => c \in Active'
    BY <1>a, <1>b DEF OneAtWork
  <2>5. Made' # {} /\ Active' = {} => \E d \in Calls : "create" \in work'[d].todo
    BY <1>a, <1>b, <1>c DEF OneAtWork
  <2>6. \A d \in Made' : AtWork(d)' => d \in Active'
    BY <2>2, <2>4 DEF Made
  <2>7. \A d, e \in Calls : AtWork(d)' /\ AtWork(e)' => d = e
    BY <2>2
  <2> QED
    BY <2>3, <2>5, <2>6, <2>7 DEF OneAtWork
<1>2. InForce'
  <2>1. \A d \in Calls : work'[d].existing = work[d].existing
    BY <1>b
  <2> QED
    BY <1>a, <1>b, <1>c, <2>1 DEF InForce
<1>3. PlanInForce'
  <2>1. \A d \in Calls : work'[d].lms # "none" /\ work'[d].at \in {"answer", "over"} => \E n \in DOMAIN plans : plans[n] = d
    BY <1>a, <1>b DEF PlanInForce
  <2>2. Synchronised' => Synchronised
    BY <1>b, <1>c, <1>d DEF Synchronised
  <2>3. \A d \in Calls : work[d].at \in {"sync", "insert"} => work'[d].at \in {"sync", "insert"}
    BY <1>b
  <2> QED
    BY <1>a, <1>b, <2>1, <2>2, <2>3 DEF PlanInForce
<1> QED
  BY <1>1, <1>2, <1>3 DEF ServersInv

\* The path in force is looked for.
LEMMA ServersFind ==
    ASSUME WorkInv, ServersInv, NEW c \in Calls, FindActive(c)
    PROVE  ServersInv'
<1>a. OneAtWork /\ InForce /\ PlanInForce /\ WorkOf(c) /\ work \in [Calls -> Works]
  BY DEF ServersInv, WorkInv
<1>b. work[c].lms = "find" /\ UNCHANGED <<path, plans>>
  BY DEF FindActive
<1>c. AtWork(c) /\ \A d \in Calls \ {c} : ~AtWork(d) /\ work[d].todo = {}
  BY <1>a, <1>b, OthersRest DEF AtWork
<1>d. \A d, e \in Active : d = e
  BY <1>a, <1>b, <1>c DEF InForce, WorkOf
<1>1. PICK p \in Served : work' = [work EXCEPT ![c].lms = "write", ![c].existing = p,
                                      ![c].todo = IF p = NoPath THEN {"create"} ELSE {"supersede", "create"}]
  BY DEF FindActive
<1>2. IF Active = {} THEN p = NoPath ELSE p \in Active
  BY ServedPath
<1>3. p \in Calls \cup {NoPath} /\ (p = NoPath => Active = {}) /\ (p # NoPath => Active = {p})
  BY <1>d, <1>2 DEF Active, NoPath, Calls
<1>4. OnlyWork(c) /\ FoundPath(c, p)
  BY <1>a, <1>1, <1>3, FindsWith
<1>5. Made' = Made /\ Active' = Active /\ plans' = plans /\ \A d \in Calls \ {c} : work'[d] = work[d]
  BY <1>b, <1>4 DEF Made, Active, OnlyWork
<1>6. \A d \in Calls : work'[d].synced = work[d].synced /\ work'[d].at = work[d].at /\ (work'[d].lms # "none" => work[d].lms # "none")
  BY <1>b, <1>4, <1>5 DEF FoundPath
<1>7. \A d \in Calls \ {c} : ~AtWork(d)' /\ work'[d].todo = {}
  BY <1>4, <1>5, <1>c, OthersAlike
<1>8. OneAtWork'
  <2>1. c \notin Made' /\ "create" \in work'[c].todo /\ work'[c].lms = "write"
    BY <1>a, <1>b, <1>4, <1>5 DEF WorkOf, FoundPath
  <2>2. \A d, e \in Calls : AtWork(d)' /\ AtWork(e)' => d = e
    BY <1>7
  <2>3. \A d \in Made' : AtWork(d)' => d \in Active'
    BY <1>7, <2>1 DEF Made
  <2>4. \A d \in Calls : work'[d].lms # "failed"
    BY <1>a, <1>5, <2>1 DEF OneAtWork
  <2> QED
    BY <2>1, <2>2, <2>3, <2>4 DEF OneAtWork
<1>9. InForce'
  <2>1. work'[c].todo # {} /\ "create" \in work'[c].todo
    BY <1>4 DEF FoundPath
  <2>2. Active' = IF "supersede" \in work'[c].todo THEN {work'[c].existing} ELSE {}
    BY <1>3, <1>4, <1>5 DEF FoundPath
  <2>3. \A d \in Calls \ {c} : work'[d].at \notin {"sync", "insert"}
    BY <1>5, <1>c DEF AtWork
  <2> QED
    BY <1>7, <2>1, <2>2, <2>3 DEF InForce
<1>10. PlanInForce'
  <2>1. Synchronised' => Synchronised
    BY <1>5, <1>6 DEF Synchronised, WorkInv
  <2> QED
    BY <1>a, <1>5, <1>6, <2>1 DEF PlanInForce
<1> QED
  BY <1>8, <1>9, <1>10 DEF ServersInv

\* The path is kept: its id comes back.
LEMMA ServersSync ==
    ASSUME WorkInv, ServersInv, NEW c \in Calls, Synced(c)
    PROVE  ServersInv'
<1>a. OneAtWork /\ InForce /\ PlanInForce /\ WorkOf(c) /\ work \in [Calls -> Works]
  BY DEF ServersInv, WorkInv
<1>b. /\ UNCHANGED <<path, plans>> /\ work[c].at = "sync" /\ work[c].lms = "write" /\ work[c].todo = {}
      /\ work' = [work EXCEPT ![c].at = "insert", ![c].synced = TRUE, ![c].lms = "over"]
  BY <1>a DEF Synced, OneAtWork
<1>c. AtWork(c) /\ \A d \in Calls \ {c} : ~AtWork(d) /\ work[d].todo = {}
  BY <1>a, <1>b, OthersRest DEF AtWork
<1>1. OnlyWork(c) /\ work'[c].at = "insert" /\ work'[c].synced = TRUE /\ work'[c].lms = "over" /\ work'[c].todo = {}
  BY <1>a, <1>b, SyncsWith
<1>2. Made' = Made /\ Active' = Active /\ plans' = plans /\ \A d \in Calls \ {c} : work'[d] = work[d]
  BY <1>b, <1>1 DEF Made, Active, OnlyWork
<1>3. \A d \in Calls \ {c} : ~AtWork(d)'
  BY <1>1, <1>c, OthersAlike
<1>4. Active' = {c}
  BY <1>a, <1>b, <1>2 DEF InForce
<1>5. OneAtWork'
  <2>1. \A d, e \in Calls : AtWork(d)' /\ AtWork(e)' => d = e
    BY <1>3
  <2>2. \A d \in Made' : AtWork(d)' => d \in Active'
    BY <1>3, <1>4 DEF Made
  <2>3. \A d \in Calls : work'[d].lms # "failed"
    BY <1>a, <1>1, <1>2 DEF OneAtWork
  <2> QED
    BY <1>4, <2>1, <2>2, <2>3 DEF OneAtWork
<1>6. InForce'
  <2>1. \A d \in Calls : work'[d].todo = {}
    BY <1>1, <1>2, <1>c
  <2>2. \A d \in Calls \ {c} : work'[d].at \notin {"sync", "insert"}
    BY <1>2, <1>c DEF AtWork
  <2> QED
    BY <1>4, <2>1, <2>2 DEF InForce
<1>7. PlanInForce'
  <2>1. \A d \in Calls : work'[d].lms # "none" /\ work'[d].at \in {"answer", "over"} => \E n \in DOMAIN plans : plans[n] = d
    BY <1>a, <1>1, <1>2 DEF PlanInForce
  <2> QED
    BY <1>1, <1>2, <2>1 DEF PlanInForce
<1> QED
  BY <1>5, <1>6, <1>7 DEF ServersInv

\* The statements on the paths.
LEMMA ServersSupersede ==
    ASSUME WorkInv, ServersInv, NEW c \in Calls, Supersede(c)
    PROVE  ServersInv' /\ Active' = Active \ {work[c].existing}
<1>a. OneAtWork /\ InForce /\ PlanInForce /\ WorkOf(c) /\ work \in [Calls -> Works]
  BY DEF ServersInv, WorkInv
<1>b. UNCHANGED plans /\ "supersede" \in work[c].todo /\ Executed(c, "supersede")
  BY DEF Supersede
<1>c. AtWork(c) /\ \A d \in Calls \ {c} : ~AtWork(d) /\ work[d].todo = {}
  BY <1>a, <1>b, OthersRest DEF AtWork
<1>1. /\ OnlyWork(c) /\ work'[c].at = work[c].at /\ work'[c].synced = work[c].synced
      /\ work'[c].lms = work[c].lms /\ work'[c].todo = work[c].todo \ {"supersede"} /\ work'[c].existing = work[c].existing
  BY <1>a, <1>b, Executes
<1>2. /\ work[c].existing \in Made \ {c} /\ Made' = Made
      /\ \A d \in Calls : path'[d].status = IF d = work[c].existing THEN "superseded" ELSE path[d].status
  BY SupersedeRow
<1>3. Active' = Active \ {work[c].existing} /\ plans' = plans /\ \A d \in Calls \ {c} : work'[d] = work[d]
  BY <1>b, <1>1, <1>2 DEF Active, OnlyWork
<1>4. Active = {work[c].existing} \cup (IF "create" \in work[c].todo THEN {} ELSE {c})
  BY <1>a, <1>b DEF InForce
<1>5. Active' = IF "create" \in work[c].todo THEN {} ELSE {c}
  BY <1>2, <1>3, <1>4
<1>6. \A d \in Calls \ {c} : ~AtWork(d)'
  BY <1>1, <1>c, OthersAlike
<1>7. work[c].lms = "write" /\ ~work[c].synced /\ work[c].at \in {"sync", "insert", "answer", "over"}
  <2>1. work[c].lms \in {"write", "failed"} /\ work[c].at \in {"sync", "insert", "answer", "over"}
    BY <1>b, AtWorkFacts
  <2> QED
    BY <1>a, <2>1 DEF OneAtWork, WorkOf
<1>8. OneAtWork'
  <2>1. \A d, e \in Calls : AtWork(d)' /\ AtWork(e)' => d = e
    BY <1>6
  <2>2. \A d \in Made' : AtWork(d)' => d \in Active'
    <3>1. c \in Made => "create" \notin work[c].todo
      BY <1>a DEF WorkOf
    <3> QED
      BY <1>2, <1>5, <1>6, <3>1 DEF Made
  <2>3. \A d \in Calls : work'[d].lms # "failed"
    BY <1>a, <1>1, <1>3 DEF OneAtWork
  <2>4. Active' = {} => "create" \in work'[c].todo
    BY <1>1, <1>5
  <2> QED
    BY <2>1, <2>2, <2>3, <2>4 DEF OneAtWork
<1>9. InForce'
  <2>1. \A d \in Calls \ {c} : work'[d].todo = {} /\ work'[d].at \notin {"sync", "insert"}
    BY <1>3, <1>c DEF AtWork
  <2>2. "supersede" \notin work'[c].todo /\ ("create" \in work'[c].todo <=> "create" \in work[c].todo)
    BY <1>1
  <2>3. Active' = IF "create" \in work'[c].todo THEN {} ELSE {c}
    BY <1>5, <2>2
  <2> QED
    BY <2>1, <2>2, <2>3 DEF InForce
<1>10. PlanInForce'
  <2>1. \A d \in Calls : work'[d].synced = work[d].synced /\ work'[d].at = work[d].at /\ work'[d].lms = work[d].lms
    BY <1>1, <1>3
  <2>2. \A d \in Calls : work'[d].lms # "none" /\ work'[d].at \in {"answer", "over"} => \E n \in DOMAIN plans : plans[n] = d
    BY <1>a, <2>1 DEF PlanInForce
  <2>3. CASE work[c].at \in {"sync", "insert"}
    BY <1>3, <2>1, <2>2, <2>3 DEF PlanInForce
  <2>4. CASE work[c].at \in {"answer", "over"}
    <3>1. ~Synchronised'
      BY <1>7, <1>3, <2>1, <2>2, <2>4 DEF Synchronised
    <3> QED
      BY <1>3, <2>2, <3>1 DEF PlanInForce
  <2> QED
    BY <1>7, <2>3, <2>4
<1> QED
  BY <1>3, <1>8, <1>9, <1>10 DEF ServersInv

LEMMA ServersCreate ==
    ASSUME OnboardingAssumption, WorkInv, ServersInv, NEW c \in Calls, CreatePath(c)
    PROVE  ServersInv' /\ Active' = Active \cup {c}
<1>a. OneAtWork /\ InForce /\ PlanInForce /\ WorkOf(c) /\ work \in [Calls -> Works]
  BY DEF ServersInv, WorkInv
<1>b. UNCHANGED plans /\ "create" \in work[c].todo /\ Executed(c, "create")
  BY DEF CreatePath
<1>c. AtWork(c) /\ \A d \in Calls \ {c} : ~AtWork(d) /\ work[d].todo = {}
  BY <1>a, <1>b, OthersRest DEF AtWork
<1>1. /\ OnlyWork(c) /\ work'[c].at = work[c].at /\ work'[c].synced = work[c].synced
      /\ work'[c].lms = work[c].lms /\ work'[c].todo = work[c].todo \ {"create"} /\ work'[c].existing = work[c].existing
  BY <1>a, <1>b, Executes
<1>2. Made' = Made \cup {c} /\ path'[c].status = "active" /\ \A d \in Calls \ {c} : path'[d] = path[d]
  BY CreateRow
<1>3. Active' = Active \cup {c} /\ plans' = plans /\ \A d \in Calls \ {c} : work'[d] = work[d]
  BY <1>b, <1>1, <1>2 DEF Active, OnlyWork
<1>4. Active = IF "supersede" \in work[c].todo THEN {work[c].existing} ELSE {}
  BY <1>a, <1>b DEF InForce
<1>5. Active' = (IF "supersede" \in work[c].todo THEN {work[c].existing} ELSE {}) \cup {c}
  BY <1>3, <1>4
<1>6. \A d \in Calls \ {c} : ~AtWork(d)'
  BY <1>1, <1>c, OthersAlike
<1>7. work[c].lms = "write" /\ ~work[c].synced /\ work[c].at \in {"sync", "insert", "answer", "over"}
  <2>1. work[c].lms \in {"write", "failed"} /\ work[c].at \in {"sync", "insert", "answer", "over"}
    BY <1>b, AtWorkFacts
  <2> QED
    BY <1>a, <2>1 DEF OneAtWork, WorkOf
<1>8. OneAtWork'
  <2>1. \A d, e \in Calls : AtWork(d)' /\ AtWork(e)' => d = e
    BY <1>6
  <2>2. \A d \in Made' : AtWork(d)' => d \in Active'
    BY <1>3, <1>6 DEF Made
  <2>3. \A d \in Calls : work'[d].lms # "failed"
    BY <1>a, <1>1, <1>3 DEF OneAtWork
  <2> QED
    BY <1>3, <2>1, <2>2, <2>3 DEF OneAtWork
<1>9. InForce'
  <2>1. \A d \in Calls \ {c} : work'[d].todo = {} /\ work'[d].at \notin {"sync", "insert"}
    BY <1>3, <1>c DEF AtWork
  <2>2. "create" \notin work'[c].todo /\ ("supersede" \in work'[c].todo <=> "supersede" \in work[c].todo)
    BY <1>1
  <2>3. Active' = (IF "supersede" \in work'[c].todo THEN {work'[c].existing} ELSE {}) \cup {c}
    BY <1>1, <1>5, <2>2
  <2> QED
    BY <2>1, <2>2, <2>3 DEF InForce
<1>10. PlanInForce'
  <2>1. \A d \in Calls : work'[d].synced = work[d].synced /\ work'[d].at = work[d].at /\ work'[d].lms = work[d].lms
    BY <1>1, <1>3
  <2>2. \A d \in Calls : work'[d].lms # "none" /\ work'[d].at \in {"answer", "over"} => \E n \in DOMAIN plans : plans[n] = d
    BY <1>a, <2>1 DEF PlanInForce
  <2>3. CASE work[c].at \in {"sync", "insert"}
    BY <1>3, <2>1, <2>2, <2>3 DEF PlanInForce
  <2>4. CASE work[c].at \in {"answer", "over"}
    <3>1. ~Synchronised'
      BY <1>7, <1>3, <2>1, <2>2, <2>4 DEF Synchronised
    <3> QED
      BY <1>3, <2>2, <3>1 DEF PlanInForce
  <2> QED
    BY <1>7, <2>3, <2>4
<1> QED
  BY <1>3, <1>8, <1>9, <1>10 DEF ServersInv

\* The plan is stored.
LEMMA ServersInsert ==
    ASSUME WorkInv, ServersInv, NEW c \in Calls, InsertPlan(c)
    PROVE  ServersInv'
<1>a. OneAtWork /\ InForce /\ PlanInForce /\ WorkOf(c) /\ work \in [Calls -> Works] /\ plans \in Seq(Calls)
  BY DEF ServersInv, WorkInv
<1>b. work[c].at = "insert" /\ plans' = Append(plans, c) /\ UNCHANGED path
  BY DEF InsertPlan
<1>c. AtWork(c) /\ \A d \in Calls \ {c} : ~AtWork(d)
  BY <1>a, <1>b, OthersRest DEF AtWork
<1>1. PICK at \in {"answer", "over"} : Moves(c, at)
  BY DEF InsertPlan
<1>2. /\ OnlyWork(c) /\ work'[c].at = at /\ work'[c].synced = work[c].synced
      /\ work'[c].lms = work[c].lms /\ work'[c].todo = work[c].todo /\ work'[c].existing = work[c].existing
  BY <1>a, <1>1, MovesTo
<1>3. /\ Made' = Made /\ Active' = Active /\ \A d \in Calls \ {c} : work'[d] = work[d]
      /\ \A d \in Calls : /\ work'[d].synced = work[d].synced /\ work'[d].lms = work[d].lms
                          /\ work'[d].todo = work[d].todo /\ work'[d].existing = work[d].existing
  BY <1>b, <1>2 DEF Made, Active, OnlyWork
<1>4. /\ Len(plans') = Len(plans) + 1 /\ plans'[Len(plans')] = c /\ Len(plans') \in DOMAIN plans' /\ Len(plans) \in Nat
      /\ \A n \in DOMAIN plans : n \in DOMAIN plans' /\ plans'[n] = plans[n]
  BY <1>a, <1>b
<1>5. \A d \in Calls \ {c} : ~AtWork(d)'
  BY <1>2, <1>c, OthersAlike
<1>6. OneAtWork'
  <2>1. \A d, e \in Calls : AtWork(d)' /\ AtWork(e)' => d = e
    BY <1>5
  <2>2. \A d \in Made' : AtWork(d)' => d \in Active'
    BY <1>a, <1>c, <1>3, <1>5 DEF OneAtWork, Made
  <2>3. \A d \in Calls : work'[d].lms # "failed"
    BY <1>a, <1>3 DEF OneAtWork
  <2>4. Made' # {} /\ Active' = {} => \E d \in Calls : "create" \in work'[d].todo
    BY <1>a, <1>3 DEF OneAtWork
  <2> QED
    BY <2>1, <2>2, <2>3, <2>4 DEF OneAtWork
<1>7. InForce'
  <2>1. \A d \in Calls : work'[d].at \notin {"sync", "insert"}
    BY <1>2, <1>3, <1>c DEF AtWork
  <2> QED
    BY <1>a, <1>3, <2>1 DEF InForce
<1>8. PlanInForce'
  <2>1. \A d \in Calls : work'[d].lms # "none" /\ work'[d].at \in {"answer", "over"} => \E n \in DOMAIN plans' : plans'[n] = d
    BY <1>a, <1>2, <1>3, <1>4 DEF PlanInForce
  <2>2. Synchronised' => Active' = {plans'[Len(plans')]}
    <3>1. Synchronised' => work[c].synced
      BY <1>3, <1>4 DEF Synchronised
    <3>2. work[c].synced => work[c].lms = "over" /\ work[c].todo = {}
      BY <1>a DEF WorkOf
    <3> QED
      BY <1>a, <1>b, <1>3, <1>4, <3>1, <3>2 DEF InForce
  <2> QED
    BY <2>1, <2>2 DEF PlanInForce
<1> QED
  BY <1>6, <1>7, <1>8 DEF ServersInv

LEMMA ServersSame ==
    ASSUME ServersInv, UNCHANGED <<work, path, plans>>
    PROVE  ServersInv'
<1>1. Made' = Made /\ Active' = Active /\ Synchronised' = Synchronised
  BY DEF Made, Active, Synchronised
<1> QED
  BY <1>1 DEF ServersInv, OneAtWork, InForce, PlanInForce, AtWork

\* Nobody but the call that begins is at work, or the step is not calm.
LEMMA BeginsAlone ==
    ASSUME WorkInv, NEW c \in Calls, Begins(c, "profile") \/ SaveSettings(c), Calm'
    PROVE  \A d \in Calls \ {c} : ~AtWork(d)
<1>1. overlapped' = (overlapped \/ \E d \in Calls \ {c} : AtWork(d)) \/ overlapped' = (overlapped \/ \E d \in Calls : AtWork(d))
  BY DEF Begins, SaveSettings
<1> QED
  BY <1>1 DEF Calm

LEMMA ServersBegin ==
    ASSUME WorkInv, ServersInv, NEW c \in Calls, Begins(c, "profile") \/ SaveSettings(c), Calm',
           call[c].at \in {"none", "get"}, UNCHANGED <<path, plans>>
    PROVE  ServersInv'
<1>1. work[c].at = "none" /\ work[c].lms = "none" /\ c \notin Made /\ work \in [Calls -> Works]
  BY AtWorkFacts DEF WorkInv
<1>2. \A d \in Calls \ {c} : ~AtWork(d)
  BY BeginsAlone
<1>3. /\ OnlyWork(c) /\ work'[c].at \in {"profile", "catalogue"} /\ work'[c].synced = work[c].synced
      /\ work'[c].lms = work[c].lms /\ work'[c].todo = work[c].todo /\ work'[c].existing = work[c].existing
  <2>1. CASE Begins(c, "profile")
    BY <1>1, <2>1, BeginsWith
  <2>2. CASE SaveSettings(c)
    BY <1>1, <2>2, SavesWith
  <2> QED
    BY <2>1, <2>2
<1> QED
  BY <1>1, <1>2, <1>3, ServersMove

LEMMA ServersEnd ==
    ASSUME WorkInv, ServersInv, NEW c \in Calls, Ending(c), Calm', UNCHANGED <<path, plans>>
    PROVE  ServersInv'
<1>a. OneAtWork /\ WorkOf(c) /\ work \in [Calls -> Works] /\ (work[c].at = "answer" => \E n \in DOMAIN plans : plans[n] = c)
  BY DEF ServersInv, WorkInv
<1>1. CASE TimesOut(c)
  <2>1. UNCHANGED work
    BY <1>1 DEF TimesOut, serverVars
  <2> QED
    BY <2>1, ServersSame
<1>2. CASE InsertFails(c)
  BY <1>2 DEF InsertFails, Calm
<1>3. CASE GenerationFails(c) \/ Answer(c)
  <2>1. work[c].at \in {"profile", "catalogue", "answer"} /\ Moves(c, "over")
    BY <1>3 DEF GenerationFails, Answer
  <2>2. /\ OnlyWork(c) /\ work'[c].at = "over" /\ work'[c].synced = work[c].synced
        /\ work'[c].lms = work[c].lms /\ work'[c].todo = work[c].todo /\ work'[c].existing = work[c].existing
    BY <1>a, <2>1, MovesTo
  <2>3. AtWork(c) /\ \A d \in Calls \ {c} : ~AtWork(d)
    BY <1>a, <2>1, OthersRest DEF AtWork
  <2>4. work[c].at \in {"profile", "catalogue"} => work[c].lms = "none"
    BY <1>a DEF WorkOf
  <2> QED
    BY <1>a, <2>1, <2>2, <2>3, <2>4, ServersMove
<1> QED
  BY <1>1, <1>2, <1>3 DEF Ending

LEMMA ServersProceed ==
    ASSUME WorkInv, ServersInv, NEW c \in Calls, Proceeds(c)
    PROVE  ServersInv'
<1>a. OneAtWork /\ WorkOf(c) /\ work \in [Calls -> Works]
  BY DEF ServersInv, WorkInv
<1>b. UNCHANGED <<path, plans>>
  BY DEF Proceeds, CreateProfile, UseCatalogue, FindActive, Synced, SyncTimesOut
<1>c. work[c].at \in {"profile", "catalogue", "sync"} => AtWork(c) /\ \A d \in Calls \ {c} : ~AtWork(d)
  BY <1>a, OthersRest DEF AtWork
<1>1. CASE CreateProfile(c)
  <2>1. work[c].at = "profile" /\ Moves(c, "catalogue")
    BY <1>1 DEF CreateProfile
  <2>2. /\ OnlyWork(c) /\ work'[c].at = "catalogue" /\ work'[c].synced = work[c].synced
        /\ work'[c].lms = work[c].lms /\ work'[c].todo = work[c].todo /\ work'[c].existing = work[c].existing
    BY <1>a, <2>1, MovesTo
  <2> QED
    BY <1>b, <1>c, <2>1, <2>2, ServersMove
<1>2. CASE UseCatalogue(c)
  <2>1. work[c].at = "catalogue" /\ work[c].lms = "none"
    BY <1>a, <1>2 DEF UseCatalogue, WorkOf
  <2>2. /\ OnlyWork(c) /\ work'[c].at = "sync" /\ work'[c].synced = work[c].synced
        /\ work'[c].lms = "find" /\ work'[c].todo = work[c].todo /\ work'[c].existing = work[c].existing
    BY <1>a, <1>2, UsesCatalogue
  <2> QED
    BY <1>b, <1>c, <2>1, <2>2, ServersMove
<1>3. CASE SyncTimesOut(c)
  <2>1. work[c].at = "sync" /\ Moves(c, "insert")
    BY <1>3 DEF SyncTimesOut
  <2>2. /\ OnlyWork(c) /\ work'[c].at = "insert" /\ work'[c].synced = work[c].synced
        /\ work'[c].lms = work[c].lms /\ work'[c].todo = work[c].todo /\ work'[c].existing = work[c].existing
    BY <1>a, <2>1, MovesTo
  <2> QED
    BY <1>b, <1>c, <2>1, <2>2, ServersMove
<1> QED
  BY <1>1, <1>2, <1>3, ServersFind, ServersSync DEF Proceeds

\* All steps.
LEMMA ServersStep ==
    ASSUME OnboardingAssumption, WorkInv, ServersInv, Next, Calm'
    PROVE  ServersInv'
<1>1. CASE Wizard
  BY <1>1, WizardFrame, ServersSame
<1>2. ASSUME NEW c \in Calls, Asking(c) PROVE ServersInv'
  BY <1>2, AskFrame, ServersSame
<1>3. ASSUME NEW c \in Calls, Looking(c) PROVE ServersInv'
  BY <1>3, LookFrame, ServersSame, ServersBegin
<1>4. ASSUME NEW c \in Calls, SaveSettings(c) PROVE ServersInv'
  BY <1>4, SaveFrame, ServersBegin DEF Fresh
<1>5. ASSUME NEW c \in Calls, Writes(c) PROVE ServersInv'
  <2>1. ~StatementFails(c)
    BY DEF StatementFails, Calm
  <2> QED
    BY <1>5, <2>1, ServersSupersede, ServersCreate DEF Writes
<1>6. ASSUME NEW c \in Calls, Ending(c) PROVE ServersInv'
  BY <1>6, EndFrame, ServersEnd
<1> QED
  BY <1>1, <1>2, <1>3, <1>4, <1>5, <1>6, AllSteps, ServersProceed, ServersInsert

-----------------------------------------------------------------------------
(* Calm steps: what the pages know of it.                                   *)

LEMMA ViewsSame ==
    ASSUME ViewsInv, UNCHANGED <<page, plan, marked, call, work, path, plans>>
    PROVE  ViewsInv'
<1>1. Made' = Made /\ Active' = Active
  BY DEF Made, Active
<1> QED
  BY <1>1 DEF ViewsInv, Replans, Shown, Unasked, AtWork, UnkeptBefore

LEMMA UnkeptStays ==
    ASSUME WorkInv, NEW c \in Calls, plans' = plans \/ plans' = Append(plans, c),
           \A d \in Calls : work[d].at \in {"answer", "over"} => work'[d].synced = work[d].synced
    PROVE  \A d \in Calls : UnkeptBefore(d) => UnkeptBefore(d)'
<1>1. plans \in Seq(Calls) /\ \A n \in DOMAIN plans : work[plans[n]].at \in {"answer", "over"}
  BY DEF WorkInv
<1>2. \A n \in DOMAIN plans : plans[n] \in Calls /\ n \in DOMAIN plans' /\ plans'[n] = plans[n]
  BY <1>1
<1> QED
  BY <1>1, <1>2 DEF UnkeptBefore

\* A page that shows a plan shows one that is kept, or will not be.
LEMMA ShowsSome ==
    ASSUME TypeInv, ServersInv, Shown, page = "plan", plan.status = "success"
    PROVE  Made # {} \/ ~Synchronised
<1>1. plan.shown \in Calls /\ WorkOf(plan.shown) /\ work[plan.shown] \in Works
  BY DEF TypeInv, PageInv, WorkInv
<1>2. CASE plan.shown \in Made
  BY <1>2
<1>3. CASE plan.shown \notin Made
  <2>1. AtWork(plan.shown) /\ work[plan.shown].at = "over"
    BY <1>3 DEF Shown
  <2>2. work[plan.shown].lms # "none" /\ ~work[plan.shown].synced
    BY <1>1, <1>3, <2>1 DEF WorkOf, AtWork
  <2>3. \E n \in DOMAIN plans : plans[n] = plan.shown
    BY <1>1, <2>1, <2>2 DEF ServersInv, PlanInForce
  <2> QED
    BY <2>2, <2>3 DEF Synchronised
<1> QED
  BY <1>2, <1>3

\* Nobody is at work but c, and nothing is in force: nothing was made.
LEMMA NothingMade ==
    ASSUME WorkInv, ServersInv, NEW c \in Calls, Active = {}, ~AtWork(c), \A d \in Calls \ {c} : ~AtWork(d)
    PROVE  Made = {}
BY DEF ServersInv, OneAtWork, AtWork

\* With a path in force, arriving leads home.
LEMMA ArrivesHome ==
    ASSUME TypeInv, page \in {"arriving", "home"}, marked, Active # {}, Next
    PROVE  page' \in {"arriving", "home"} /\ marked'
<1>1. ~gate.allowed /\ ~gate.asking /\ WorkInv /\ page # "plan" /\ page # "test"
  BY DEF TypeInv, PageInv
<1>2. CASE Wizard
  <2>1. CASE TestSteps
    BY <1>1, <2>1 DEF TestSteps, QuestionsLoaded, QuestionsFail, LoadAgain, GoBack, GoNext, ScoringFails, SelectAnswer, OnTest
  <2>2. CASE Moving
    BY <1>1, <2>2 DEF Moving, Follow, EnterMain, Reopen, AssessmentScored, OnTest, Opens, wizardFrame
  <2>3. CASE Staying
    BY <1>1, <2>3 DEF Staying, GateAnswered, GateFails, CompleteFails, CatalogueExpires, SelectLevel, wizardFrame, workFrame, pageVars, OnPlan
  <2> QED
    BY <1>2, <2>1, <2>2, <2>3 DEF Wizard
<1>3. ASSUME NEW c \in Calls, Asking(c) PROVE page' \in {"arriving", "home"} /\ marked'
  BY <1>1, <1>3 DEF Asking, GeneratePlan, OtherTab, Complete, OnPlan, pageVars
<1>4. ASSUME NEW c \in Calls, Looking(c) \/ Ending(c) PROVE UNCHANGED <<page, marked>>
  BY <1>1, <1>4, LookFrame, EndFrame, OnboardingAssumption
<1>5. ASSUME NEW c \in Calls, SaveSettings(c) PROVE UNCHANGED <<page, marked>>
  BY <1>5 DEF SaveSettings, pageVars
<1>6. ASSUME NEW c \in Calls, Proceeds(c) \/ Writes(c) \/ InsertPlan(c) PROVE UNCHANGED <<page, marked>>
  BY <1>1, <1>6, ServerFrame, OnboardingAssumption DEF pageVars
<1> QED
  BY <1>2, <1>3, <1>4, <1>5, <1>6, AllSteps

\* The tab stays where it is and shows what it showed, or shows nothing.
LEMMA ShowsTheSame ==
    ASSUME TypeInv, Wizard \/ \E c \in Calls : Asking(c)
    PROVE  page' = "plan" /\ plan'.status = "success" => UNCHANGED <<page, plan>>
<1>1. ASSUME NEW p, Opens(p) PROVE plan'.status = "loading"
  BY <1>1 DEF Opens, NewPlan
<1>2. PageInv /\ gate \in [allowed : BOOLEAN, asking : BOOLEAN]
  BY DEF TypeInv, PageInv
<1>3. CASE TestSteps
  BY <1>3 DEF TestSteps, QuestionsLoaded, QuestionsFail, LoadAgain, GoBack, GoNext, ScoringFails, SelectAnswer, quizFrame
<1>4. CASE Moving
  BY <1>1, <1>4 DEF Moving, Follow, EnterMain, Reopen, AssessmentScored
<1>5. CASE Staying
  BY <1>5 DEF Staying, GateAnswered, GateFails, CompleteFails, CatalogueExpires, SelectLevel, workFrame, pageVars
<1>6. ASSUME NEW c \in Calls, GeneratePlan(c) PROVE plan'.status = "loading"
  BY <1>2, <1>6 DEF GeneratePlan, PageInv
<1>7. ASSUME NEW c \in Calls, OtherTab(c) PROVE UNCHANGED <<page, plan>>
  BY <1>7 DEF OtherTab, pageVars
<1>8. ASSUME NEW c \in Calls, Complete(c) PROVE plan'.status = "loading"
  BY <1>1, <1>8 DEF Complete
<1> QED
  BY <1>3, <1>4, <1>5, <1>6, <1>7, <1>8 DEF Wizard, Asking

\* Who asks in passing, as the profile is cleared, does so on a page that shows a plan.
LEMMA AsksInPassing ==
    ASSUME TypeInv, ServersInv, Shown, NEW c \in Calls, Complete(c), Fresh(c)
    PROVE  UnkeptBefore(c) \/ (Made # {} /\ work[c].at = "none")
<1>1. work[c].at = "none" /\ call[c].at = "none" /\ WorkInv
  BY AtWorkFacts DEF Fresh, TypeInv
<1>2. Made # {} \/ ~Synchronised
  BY ShowsSome DEF Complete, OnPlan
<1>3. ASSUME NEW n \in DOMAIN plans, ~work[plans[n]].synced PROVE plans[n] < c
  <2>1. plans[n] \in Calls /\ work[plans[n]].at # "none"
    BY <1>1 DEF WorkInv
  <2>2. call[plans[n]].at # "none"
    BY <1>1, <2>1, AtWorkFacts
  <2> QED
    BY <1>1, <2>1, <2>2 DEF WorkInv, Calls
<1> QED
  BY <1>1, <1>2, <1>3 DEF Synchronised, UnkeptBefore

\* The pages and the learner.
LEMMA ViewsWizard ==
    ASSUME OnboardingAssumption, TypeInv, ServersInv, ViewsInv, Next, Wizard \/ \E c \in Calls : Asking(c)
    PROVE  ViewsInv'
<1>a. Replans /\ Shown /\ Unasked /\ WorkInv
  BY DEF ViewsInv, TypeInv
<1>1. UNCHANGED <<work, path, plans>>
  BY <1>a, WizardFrame, AskFrame
<1>2. Made' = Made /\ Active' = Active /\ \A d \in Calls : (AtWork(d)' <=> AtWork(d)) /\ (UnkeptBefore(d)' <=> UnkeptBefore(d))
  BY <1>1 DEF Made, Active, AtWork, UnkeptBefore
<1>3. Replans'
  BY <1>a, <1>2, ArrivesHome DEF Replans
<1>4. Shown'
  <2>1. page' = "plan" /\ plan'.status = "success" => UNCHANGED <<page, plan>>
    BY ShowsTheSame
  <2>2. CASE UNCHANGED <<page, plan>>
    BY <1>a, <1>1, <1>2, <2>2 DEF Shown, AtWork
  <2> QED
    BY <2>1, <2>2 DEF Shown
<1>5. Unasked'
  <2>1. CASE Wizard
    <3>1. \A d \in Calls : call'[d].at = call[d].at /\ call'[d].own = call[d].own
      BY <1>a, <2>1, WizardFrame
    <3> QED
      BY <1>a, <1>1, <1>2, <3>1 DEF Unasked
  <2>2. ASSUME NEW c \in Calls, Asking(c) PROVE Unasked'
    <3>1. CASE UNCHANGED call
      BY <1>a, <1>1, <1>2, <3>1 DEF Unasked
    <3>2. CASE ~UNCHANGED call
      <4>1. Fresh(c) /\ OnlyCall(c) /\ (~call'[c].own => Complete(c))
        BY <1>a, <2>2, <3>2, AskFrame
      <4>2. ~call'[c].own => UnkeptBefore(c) \/ (Made # {} /\ work[c].at = "none")
        BY <1>a, <4>1, AsksInPassing
      <4>3. \A d \in Calls \ {c} : call'[d] = call[d]
        BY <4>1 DEF OnlyCall
      <4> QED
        BY <1>a, <1>1, <1>2, <4>2, <4>3 DEF Unasked
    <3> QED
      BY <3>1, <3>2
  <2> QED
    BY <2>1, <2>2
<1> QED
  BY <1>3, <1>4, <1>5 DEF ViewsInv

\* A call at work goes on; the page is the same.
LEMMA ViewsMove ==
    ASSUME TypeInv, ServersInv, ViewsInv, NEW c \in Calls, AtWork(c), OnlyWork(c), UNCHANGED <<page, plan, marked, call>>,
           Made \subseteq Made', \A d \in Calls \ {c} : d \in Active' => d \in Active,
           c \in Made' => c \in Active', work[c].at = "over" => c \in Made' \/ (AtWork(c)' /\ work'[c].at = "over"),
           plans' = plans \/ plans' = Append(plans, c),
           work[c].at \in {"answer", "over"} => work'[c].synced = work[c].synced
    PROVE  ViewsInv'
<1>a. Replans /\ Shown /\ Unasked /\ WorkInv /\ PageInv /\ OneAtWork
  BY DEF ViewsInv, ServersInv, TypeInv
<1>b. \A d \in Calls \ {c} : ~AtWork(d) /\ ~AtWork(d)' /\ work'[d] = work[d]
  BY <1>a, OthersRest, OthersAlike DEF OnlyWork
<1>c. page = "plan" /\ plan.status = "success" => c = plan.shown
  BY <1>a DEF Shown
<1>1. Replans'
  <2>1. Active' \ {c} # {} => Active \ {c} # {}
    BY DEF Active
  <2> QED
    BY <1>a, <1>b, <2>1 DEF Replans
<1>2. Shown'
  <2> SUFFICES ASSUME page = "plan", plan.status = "success"
               PROVE  /\ \A d \in Calls : AtWork(d)' => d = c
                      /\ c \in Made' \/ (AtWork(c)' /\ work'[c].at = "over")
                      /\ c \in Made' => c \in Active'
    <3>1. plan' = plan /\ page' = page
      OBVIOUS
    <3>2. CASE page = "plan" /\ plan.status = "success"
      <4>1. plan'.shown = c
        BY <1>c, <3>1, <3>2
      <4> QED
        BY <3>1, <3>2, <4>1 DEF Shown, AtWork
    <3> QED
      BY <3>1, <3>2 DEF Shown
  <2>1. c \in Made \/ work[c].at = "over"
    BY <1>a, <1>c DEF Shown
  <2> QED
    BY <1>b, <2>1
<1>3. Unasked'
  <2>1. \A d \in Calls : UnkeptBefore(d) => UnkeptBefore(d)'
    BY <1>a, <1>b, UnkeptStays
  <2>2. work[c].at # "none"
    BY <1>a, AtWorkFacts
  <2> QED
    BY <1>a, <1>b, <2>1, <2>2 DEF Unasked
<1> QED
  BY <1>1, <1>2, <1>3 DEF ViewsInv

LEMMA ViewsServer ==
    ASSUME OnboardingAssumption, TypeInv, ServersInv, ViewsInv, ServersInv', Calm', NEW c \in Calls,
           Proceeds(c) \/ Writes(c) \/ InsertPlan(c)
    PROVE  ViewsInv'
<1>a. WorkInv /\ WorkOf(c) /\ work \in [Calls -> Works] /\ OneAtWork /\ OneAtWork'
  BY DEF TypeInv, WorkInv, ServersInv
<1>b. UNCHANGED <<page, plan, marked, call>>
  BY <1>a, ServerFrame DEF pageVars
<1>c. work[c].lms # "failed"
  BY <1>a DEF OneAtWork
<1>1. ASSUME work[c].at \in {"profile", "catalogue", "sync", "insert"}, OnlyWork(c), UNCHANGED path,
             plans' = plans \/ plans' = Append(plans, c)
      PROVE  ViewsInv'
  <2>1. AtWork(c) /\ Made' = Made /\ Active' = Active
    BY <1>1 DEF AtWork, Made, Active
  <2>2. c \in Made => c \in Active
    BY <1>a, <2>1 DEF OneAtWork
  <2> QED
    BY <1>1, <1>b, <2>1, <2>2, ViewsMove
<1>2. CASE CreateProfile(c)
  BY <1>1, <1>2, <1>a, MovesTo DEF CreateProfile
<1>3. CASE UseCatalogue(c)
  BY <1>1, <1>3, <1>a, UsesCatalogue DEF UseCatalogue
<1>4. CASE FindActive(c)
  <2>1. work[c].lms = "find" /\ UNCHANGED <<path, plans>> /\ c \notin Made
    BY <1>4, <1>a DEF FindActive, WorkOf
  <2>2. PICK p \in Served : work' = [work EXCEPT ![c].lms = "write", ![c].existing = p,
                                        ![c].todo = IF p = NoPath THEN {"create"} ELSE {"supersede", "create"}]
    BY <1>4 DEF FindActive
  <2>3. p \in Calls \cup {NoPath}
    BY ServedPath DEF Active
  <2>4. OnlyWork(c) /\ FoundPath(c, p)
    BY <1>a, <2>2, <2>3, FindsWith
  <2>5. AtWork(c) /\ work'[c].at = work[c].at /\ work'[c].synced = work[c].synced /\ work'[c].todo # {} /\ Made' = Made /\ Active' = Active
    BY <2>1, <2>4 DEF FoundPath, AtWork, Made, Active
  <2>6. AtWork(c)'
    BY <2>5 DEF AtWork
  <2> QED
    BY <1>b, <2>1, <2>4, <2>5, <2>6, ViewsMove
<1>5. CASE Synced(c)
  <2>1. work[c].at = "sync" /\ UNCHANGED <<path, plans>>
    BY <1>5 DEF Synced
  <2>2. work[c].lms = "write" /\ work' = [work EXCEPT ![c].at = "insert", ![c].synced = TRUE, ![c].lms = "over"]
    BY <1>5, <1>c DEF Synced
  <2> QED
    BY <1>1, <1>a, <2>1, <2>2, SyncsWith
<1>6. CASE SyncTimesOut(c)
  BY <1>1, <1>6, <1>a, MovesTo DEF SyncTimesOut
<1>7. CASE Supersede(c) \/ CreatePath(c)
  <2>1. work[c].todo # {} /\ UNCHANGED plans /\ \E statement \in {"supersede", "create"} : Executed(c, statement)
    BY <1>7 DEF Supersede, CreatePath
  <2>2. AtWork(c) /\ work[c].lms = "write"
    BY <1>a, <1>c, <2>1, AtWorkFacts
  <2>3. /\ OnlyWork(c) /\ work'[c].at = work[c].at /\ work'[c].synced = work[c].synced /\ work'[c].lms = "write"
    BY <1>a, <2>1, <2>2, Executes
  <2>4. Made \subseteq Made' /\ \A d \in Calls \ {c} : d \in Active' => d \in Active
    <3>1. CASE Supersede(c)
      BY <1>a, <3>1, SupersedeRow, ServersSupersede
    <3>2. CASE CreatePath(c)
      BY <1>a, <3>2, CreateRow, ServersCreate
    <3> QED
      BY <1>7, <3>1, <3>2
  <2>5. c \in Made' \/ "create" \in work'[c].todo
    <3>1. CASE Supersede(c)
      <4>1. work'[c].todo = work[c].todo \ {"supersede"}
        BY <1>a, <3>1, Executes DEF Supersede
      <4>2. c \in Made \/ "create" \in work[c].todo
        BY <1>a, <2>2 DEF WorkOf
      <4> QED
        BY <2>4, <4>1, <4>2
    <3>2. CASE CreatePath(c)
      BY <1>a, <3>2, CreateRow
    <3> QED
      BY <1>7, <3>1, <3>2
  <2>6. c \in Made' => c \in Active'
    <3>1. CASE Supersede(c)
      <4>1. Made' = Made /\ work[c].existing # c /\ Active' = Active \ {work[c].existing}
        BY <1>a, <3>1, SupersedeRow, ServersSupersede
      <4> QED
        BY <1>a, <2>2, <4>1 DEF OneAtWork
    <3>2. CASE CreatePath(c)
      BY <1>a, <3>2, ServersCreate
    <3> QED
      BY <1>7, <3>1, <3>2
  <2>7. "create" \in work'[c].todo => AtWork(c)'
    BY DEF AtWork
  <2> QED
    BY <1>b, <2>1, <2>2, <2>3, <2>4, <2>5, <2>6, <2>7, ViewsMove
<1>8. CASE InsertPlan(c)
  <2>1. \E at \in {"answer", "over"} : Moves(c, at)
    BY <1>8 DEF InsertPlan
  <2>2. OnlyWork(c)
    BY <1>a, <2>1, MovesTo
  <2> QED
    BY <1>1, <1>8, <2>2 DEF InsertPlan
<1>9. ~StatementFails(c)
  BY DEF StatementFails, Calm
<1> QED
  BY <1>2, <1>3, <1>4, <1>5, <1>6, <1>7, <1>8, <1>9 DEF Proceeds, Writes

\* A replan begins on the way to, or on, the homepage; a first plan where none is in force.
LEMMA ViewsBegin ==
    ASSUME OnboardingAssumption, TypeInv, ServersInv, ViewsInv, Calm', NEW c \in Calls,
           SaveSettings(c) \/ (Looking(c) /\ call'[c].at = "wait")
    PROVE  ViewsInv'
<1>a. Replans /\ Shown /\ Unasked /\ WorkInv /\ PageInv
  BY DEF ViewsInv, TypeInv
<1>1. /\ call[c].at \in {"none", "get"} /\ OnlyCall(c) /\ UNCHANGED <<page, plan, marked, path, plans>>
      /\ \/ SaveSettings(c) /\ page = "home" /\ call'[c].own
         \/ Begins(c, "profile") /\ Active = {} /\ call'[c].own = call[c].own /\ call[c].at = "get"
  <2>1. CASE SaveSettings(c)
    BY <1>a, <2>1, SaveFrame DEF Fresh, pageVars
  <2>2. CASE Looking(c) /\ call'[c].at = "wait"
    BY <1>a, <2>2, LookFrame
  <2> QED
    BY <2>1, <2>2
<1>2. /\ ~AtWork(c) /\ \A d \in Calls \ {c} : ~AtWork(d)
  BY <1>a, <1>1, AtWorkFacts, BeginsAlone
<1>3. OnlyWork(c) /\ work'[c].synced = work[c].synced
  BY <1>a, <1>1, BeginsWith, SavesWith DEF WorkInv
<1>4. Made' = Made /\ Active' = Active /\ \A d \in Calls \ {c} : ~AtWork(d)' /\ work'[d] = work[d] /\ call'[d] = call[d]
  BY <1>1, <1>2, <1>3, OthersAlike DEF Made, Active, OnlyWork, OnlyCall
<1>5. \A d \in Calls : UnkeptBefore(d) => UnkeptBefore(d)'
  BY <1>a, <1>1, <1>3, <1>4, UnkeptStays
<1>6. Active = {} => Made = {}
  BY <1>a, <1>2, NothingMade
<1>7. Replans'
  <2>1. CASE Active = {}
    BY <1>4, <2>1 DEF Replans
  <2>2. CASE page = "home" /\ marked
    BY <1>1, <2>2 DEF Replans
  <2> QED
    BY <1>a, <1>1, <2>1, <2>2 DEF PageInv
<1>8. Shown'
  <2>1. CASE page = "home"
    BY <1>1, <2>1 DEF Shown
  <2>2. CASE Active = {}
    <3>1. ~(page = "plan" /\ plan.status = "success")
      <4> SUFFICES ASSUME page = "plan", plan.status = "success" PROVE FALSE
        OBVIOUS
      <4>1. plan.shown \in Calls /\ AtWork(plan.shown)
        BY <1>a, <1>6, <2>2 DEF Shown, PageInv
      <4> QED
        BY <1>2, <4>1
    <3> QED
      BY <1>1, <3>1 DEF Shown
  <2> QED
    BY <1>1, <2>1, <2>2
<1>9. Unasked'
  <2>1. \A d \in Calls \ {c} : call'[d].at # "none" /\ ~call'[d].own => UnkeptBefore(d)' \/ (Made' # {} /\ work'[d].at = "none")
    BY <1>a, <1>4, <1>5 DEF Unasked
  <2>2. ~call'[c].own => UnkeptBefore(c)'
    BY <1>a, <1>1, <1>5, <1>6 DEF Unasked
  <2> QED
    BY <2>1, <2>2 DEF Unasked
<1> QED
  BY <1>7, <1>8, <1>9 DEF ViewsInv

\* Work and paths stay, or one that was at work is over; the page may come to show
\* what is in force, or will be.
ShowsAs(s) ==
    /\ plan'.shown = s /\ (s \in Made => s \in Active)
    /\ s \in Made \/ (AtWork(s)' /\ work'[s].at = "over")
    /\ \A d \in Calls : AtWork(d)' => d = s

LEMMA ViewsShow ==
    ASSUME TypeInv, ServersInv, ViewsInv, NEW c \in Calls, UNCHANGED <<page, marked, path, plans>>,
           OnlyCall(c), call[c].at # "none", call'[c].own = call[c].own,
           OnlyWork(c), \A d \in Calls : AtWork(d)' => AtWork(d), work[c].at = "none" => UNCHANGED work, work'[c].synced = work[c].synced,
           plan' # plan /\ plan'.status = "success" => \E s \in Calls : ShowsAs(s),
           page = "plan" /\ plan.status = "success" /\ plan.shown = c => UNCHANGED work \/ c \in Made
    PROVE  ViewsInv'
<1>a. Replans /\ Shown /\ Unasked /\ WorkInv /\ PageInv
  BY DEF ViewsInv, TypeInv
<1>1. Made' = Made /\ Active' = Active /\ \A d \in Calls \ {c} : work'[d] = work[d] /\ call'[d] = call[d]
  BY DEF Made, Active, OnlyWork, OnlyCall
<1>2. \A d \in Calls : UnkeptBefore(d) => UnkeptBefore(d)'
  BY <1>a, <1>1, UnkeptStays
<1>3. Replans'
  BY <1>a, <1>1 DEF Replans
<1>4. Unasked'
  <2>1. \A d \in Calls : call'[d].own = call[d].own /\ (call'[d].at # "none" => call[d].at # "none") /\ (work[d].at = "none" => work'[d].at = "none")
    BY <1>1
  <2> QED
    BY <1>a, <1>1, <1>2, <2>1 DEF Unasked
<1>5. ASSUME NEW s \in Calls, ShowsAs(s) PROVE Shown'
  <2>1. /\ plan'.shown = s /\ \A d \in Calls : AtWork(d)' => d = s
        /\ s \in Made' \/ (AtWork(s)' /\ work'[s].at = "over")
        /\ s \in Made' => s \in Active'
    BY <1>1, <1>5 DEF ShowsAs
  <2> QED
    BY <2>1 DEF Shown, AtWork
<1>6. ASSUME plan' = plan PROVE Shown'
  <2> SUFFICES ASSUME page = "plan", plan.status = "success" PROVE Shown'
    BY <1>6 DEF Shown
  <2>1. PICK s \in Calls : s = plan.shown
    BY <1>a DEF PageInv
  <2>2. /\ \A d \in Calls : AtWork(d) => d = s
        /\ s \in Made \/ (AtWork(s) /\ work[s].at = "over")
        /\ s \in Made => s \in Active
    BY <1>a, <2>1 DEF Shown
  <2>3. s \in Made \/ (AtWork(s)' /\ work'[s].at = "over")
    <3>1. CASE UNCHANGED work
      BY <2>2, <3>1 DEF AtWork
    <3>2. CASE s # c
      BY <1>1, <2>2, <3>2 DEF AtWork
    <3> QED
      BY <2>1, <3>1, <3>2
  <2>4. ShowsAs(s)
    BY <1>6, <2>1, <2>2, <2>3 DEF ShowsAs
  <2> QED
    BY <1>5, <2>4
<1>7. Shown'
  <2>1. CASE plan'.status # "success"
    BY <2>1 DEF Shown
  <2>2. CASE plan' # plan /\ plan'.status = "success"
    <3>1. PICK s \in Calls : ShowsAs(s)
      BY <2>2
    <3> QED
      BY <1>5, <3>1
  <2> QED
    BY <1>6, <2>1, <2>2
<1> QED
  BY <1>3, <1>4, <1>7 DEF ViewsInv

\* A search that ends shows what is in force.
LEMMA ViewsLook ==
    ASSUME OnboardingAssumption, TypeInv, ServersInv, ViewsInv, NEW c \in Calls, Looking(c), call'[c].at = "over"
    PROVE  ViewsInv'
<1>a. Replans /\ WorkInv /\ PageInv /\ call \in [Calls -> CallRecords] /\ work \in [Calls -> Works]
  BY DEF ViewsInv, TypeInv, WorkInv
<1>1. /\ UNCHANGED <<page, gate, draft, marked, path, plans, work>> /\ call[c].at = "get" /\ OnlyCall(c) /\ call'[c].own = call[c].own /\ Over(c)
      /\ Shows(c, "error", NoPath) \/ \E p \in Active : Shows(c, "success", p)
  BY <1>a, LookFrame
<1>2. OnlyWork(c) /\ \A d \in Calls : AtWork(d)' <=> AtWork(d)
  BY <1>1, <1>a DEF OnlyWork, AtWork
<1>3. CASE Shows(c, "error", NoPath)
  <2>1. plan' # plan => plan'.status = "error"
    BY <1>a, <1>1, <1>3, EndsOnPage
  <2> QED
    BY <1>1, <1>2, <2>1, ViewsShow
<1>4. ASSUME NEW p \in Active, Shows(c, "success", p) PROVE ViewsInv'
  <2>1. p \in Calls
    BY DEF Active
  <2>2. plan' # plan => page = "plan" /\ plan'.shown = p
    BY <1>a, <1>1, <1>4, <2>1, EndsOnPage
  <2>3. p \in Made
    BY <1>a DEF Active, Made, WorkInv, WorkOf
  <2>4. page = "plan" => \A d \in Calls : AtWork(d) => d = p
    BY <1>a DEF Replans
  <2>5. plan' # plan => ShowsAs(p)
    BY <1>2, <2>2, <2>3, <2>4 DEF ShowsAs
  <2> QED
    BY <1>1, <1>2, <2>1, <2>5, ViewsShow
<1> QED
  BY <1>1, <1>3, <1>4

\* A call that ends shows its own path, or an error.
LEMMA ViewsEnd ==
    ASSUME OnboardingAssumption, TypeInv, ServersInv, ViewsInv, Calm', NEW c \in Calls, Ending(c)
    PROVE  ViewsInv'
<1>a. /\ Replans /\ Shown /\ WorkInv /\ PageInv /\ call \in [Calls -> CallRecords] /\ work \in [Calls -> Works] /\ WorkOf(c)
      /\ OneAtWork /\ work[c] \in Works
  BY DEF ViewsInv, ServersInv, TypeInv, WorkInv
<1>1. /\ UNCHANGED <<page, gate, draft, marked, path, plans>> /\ OnlyCall(c) /\ call'[c].own = call[c].own /\ Over(c)
      /\ Shows(c, "error", NoPath) \/ (Shows(c, "success", c) /\ Answer(c))
  BY <1>a, EndFrame
<1>2. /\ work[c].at \notin {"none", "over"} /\ call[c].at # "none"
      /\ UNCHANGED work \/ (Moves(c, "over") /\ work[c].at \in {"profile", "catalogue", "answer"})
  <2>1. work[c].at \notin {"none", "over"} /\ (UNCHANGED work \/ (Moves(c, "over") /\ work[c].at \in {"profile", "catalogue", "answer"}))
    BY DEF Ending, GenerationFails, TimesOut, InsertFails, Answer, serverVars, Calm
  <2> QED
    BY <1>a, <2>1 DEF WorkOf, NoWork
<1>3. /\ OnlyWork(c) /\ work'[c].synced = work[c].synced /\ work'[c].lms = work[c].lms /\ work'[c].todo = work[c].todo
      /\ UNCHANGED work \/ work'[c].at = "over"
  <2>1. CASE UNCHANGED work
    BY <1>a, <2>1 DEF OnlyWork
  <2>2. CASE Moves(c, "over")
    BY <1>a, <2>2, MovesTo
  <2> QED
    BY <1>2, <2>1, <2>2
<1>4. AtWork(c) /\ \A d \in Calls \ {c} : ~AtWork(d) /\ ~AtWork(d)'
  BY <1>a, <1>2, <1>3, OthersRest, OthersAlike DEF AtWork
<1>5. page = "plan" /\ plan.status = "success" /\ plan.shown = c => c \in Made
  BY <1>a, <1>2 DEF Shown
<1>6. CASE Shows(c, "error", NoPath)
  <2>1. plan' # plan => plan'.status = "error"
    BY <1>a, <1>1, <1>6, EndsOnPage
  <2> QED
    BY <1>1, <1>2, <1>3, <1>4, <1>5, <2>1, ViewsShow
<1>7. CASE Shows(c, "success", c) /\ Answer(c)
  <2>1. plan' # plan => plan'.shown = c
    BY <1>a, <1>1, <1>7, EndsOnPage
  <2>2. work[c].at = "answer" /\ Moves(c, "over") /\ work'[c].at = "over"
    BY <1>7, <1>a, MovesTo DEF Answer
  <2>3. c \in Made \/ AtWork(c)'
    <3>1. work[c].lms # "none" /\ work[c].lms # "failed"
      BY <1>a, <2>2 DEF WorkInv, OneAtWork
    <3>2. work[c].lms = "find" \/ "create" \in work[c].todo \/ c \in Made
      BY <1>a, <3>1 DEF WorkOf, Works
    <3> QED
      BY <1>3, <3>2 DEF AtWork
  <2>4. c \in Made => c \in Active
    BY <1>a, <1>4 DEF OneAtWork
  <2>5. plan' # plan => ShowsAs(c)
    BY <1>4, <2>1, <2>2, <2>3, <2>4 DEF ShowsAs
  <2> QED
    BY <1>1, <1>2, <1>3, <1>4, <1>5, <2>5, ViewsShow
<1> QED
  BY <1>1, <1>6, <1>7

-----------------------------------------------------------------------------
(* What holds while calls come one after the other.                         *)

LEMMA CalmBefore ==
    ASSUME Next, Calm', TypeInv
    PROVE  Calm
<1>a. WorkInv /\ OnboardingAssumption
  BY OnboardingAssumption DEF TypeInv
<1>1. CASE Wizard
  BY <1>1, <1>a, WizardFrame DEF Calm
<1>2. ASSUME NEW c \in Calls, Asking(c) PROVE Calm
  BY <1>2, <1>a, AskFrame DEF Calm
<1>3. ASSUME NEW c \in Calls, Looking(c) PROVE Calm
  BY <1>3, <1>a, LookFrame DEF Calm, Begins
<1>4. ASSUME NEW c \in Calls, SaveSettings(c) PROVE Calm
  BY <1>4, <1>a, SaveFrame DEF Calm
<1>5. ASSUME NEW c \in Calls, Proceeds(c) \/ Writes(c) \/ InsertPlan(c) PROVE Calm
  <2>1. torn' = torn \/ torn' = torn \cup {c}
    BY <1>5 DEF Proceeds, CreateProfile, UseCatalogue, FindActive, Synced, SyncTimesOut, Writes, Supersede, CreatePath, StatementFails, InsertPlan
  <2> QED
    BY <1>5, <1>a, <2>1, ServerFrame DEF Calm
<1>6. ASSUME NEW c \in Calls, Ending(c) PROVE Calm
  BY <1>6, <1>a, EndFrame DEF Calm
<1> QED
  BY <1>1, <1>2, <1>3, <1>4, <1>5, <1>6, AllSteps

LEMMA CalmStep ==
    ASSUME OnboardingAssumption, TypeInv, CalmInv, Next
    PROVE  CalmInv'
<1> SUFFICES ASSUME Calm' PROVE ServersInv' /\ ViewsInv'
  BY DEF CalmInv
<1>1. ServersInv /\ ViewsInv /\ WorkInv
  BY CalmBefore DEF CalmInv, TypeInv
<1>2. ServersInv'
  BY <1>1, ServersStep
<1>3. ASSUME Wizard \/ \E c \in Calls : Asking(c) PROVE ViewsInv'
  BY <1>1, <1>3, ViewsWizard
<1>4. ASSUME NEW c \in Calls, Looking(c) PROVE ViewsInv'
  <2>1. call'[c].at \in {"wait", "over"}
    BY <1>1, <1>4, LookFrame
  <2> QED
    BY <1>1, <1>4, <2>1, ViewsBegin, ViewsLook
<1>5. ASSUME NEW c \in Calls, SaveSettings(c) \/ Proceeds(c) \/ Writes(c) \/ InsertPlan(c) \/ Ending(c) PROVE ViewsInv'
  BY <1>1, <1>2, <1>5, ViewsBegin, ViewsServer, ViewsEnd
<1>6. ViewsInv'
  <2>1. CASE Wizard
    BY <1>3, <2>1
  <2>2. CASE ~Wizard
    <3>1. PICK c \in Calls : Asking(c) \/ Looking(c) \/ SaveSettings(c) \/ Proceeds(c) \/ Writes(c) \/ InsertPlan(c) \/ Ending(c)
      BY <2>2, AllSteps
    <3> QED
      BY <1>3, <1>4, <1>5, <3>1
  <2> QED
    BY <2>1, <2>2
<1> QED
  BY <1>2, <1>6

LEMMA CalmInit ==
    ASSUME Init
    PROVE  CalmInv
<1>1. /\ \A c \in Calls : call[c].at = "none" /\ work[c] = NoWork /\ path[c].version = 0 /\ path[c].status = "none"
      /\ plans = <<>> /\ plan.status = "loading"
  BY DEF Init, NoCall, NoRow, NewPlan
<1>2. Made = {} /\ Active = {} /\ \A c \in Calls : ~AtWork(c) /\ work[c].lms = "none" /\ work[c].todo = {} /\ work[c].at = "none"
  BY <1>1 DEF Made, Active, AtWork, NoWork
<1> QED
  BY <1>1, <1>2 DEF CalmInv, ServersInv, ViewsInv, OneAtWork, InForce, PlanInForce, Replans, Shown, Unasked

LEMMA CalmInvHolds == Spec => [](TypeInv /\ CalmInv)
<1>1. OnboardingAssumption
  BY OnboardingAssumption
<1>2. Init => CalmInv
  BY CalmInit
<1>3. TypeInv /\ CalmInv /\ [Next]_vars => CalmInv'
  <2>1. CASE Next
    BY <1>1, <2>1, CalmStep
  <2>2. ASSUME CalmInv, UNCHANGED vars PROVE CalmInv'
    <3>1. UNCHANGED <<page, plan, marked, call, work, path, plans, overlapped, torn>>
      BY <2>2 DEF vars, pageVars, serverVars
    <3>2. Calm' => Calm /\ ServersInv /\ ViewsInv
      BY <2>2, <3>1 DEF Calm, CalmInv
    <3> QED
      BY <3>1, <3>2, ServersSame, ViewsSame DEF CalmInv
  <2> QED
    BY <2>1, <2>2
<1> QED
  BY <1>2, <1>3, TypeInvHolds, PTL DEF Spec

\* When no call is at work, one path at most is in force: the one the plan in force
\* was made with and the page shows; for any number of calls and failures, unless
\* calls were at once, a statement failed, or a path was not kept.
THEOREM StaysInStep == Spec => []InStep
<1>1. TypeInv /\ CalmInv => InStep
  <2> SUFFICES ASSUME TypeInv, CalmInv, Quiet, ~overlapped, torn = {}
               PROVE  /\ Cardinality(Active) <= 1
                      /\ plans # <<>> /\ Synchronised => Active = {plans[Len(plans)]}
                      /\ page = "plan" /\ plan.status = "success" => Active = {plan.shown}
    BY DEF InStep, Synchronised
  <2>1. ServersInv /\ ViewsInv /\ PageInv
    BY DEF CalmInv, Calm, TypeInv
  <2>2. \A c \in Calls : ~AtWork(c) /\ work[c].todo = {} /\ work[c].at \notin {"sync", "insert"}
    BY DEF Quiet, AtWork
  <2>3. \A c, d \in Active : c = d
    BY <2>1, <2>2 DEF ServersInv, InForce
  <2>4. Cardinality(Active) <= 1
    <3>1. CASE Active = {}
      BY <3>1, FS_EmptySet
    <3>2. CASE Active # {}
      <4>1. PICK c \in Active : Active = {c}
        BY <2>3, <3>2
      <4>2. Cardinality({c}) = 1
        BY FS_Singleton
      <4> QED
        BY <4>1, <4>2
    <3> QED
      BY <3>1, <3>2
  <2>5. plans # <<>> /\ Synchronised => Active = {plans[Len(plans)]}
    BY <2>1, <2>2 DEF ServersInv, PlanInForce
  <2>6. page = "plan" /\ plan.status = "success" => Active = {plan.shown}
    <3> SUFFICES ASSUME page = "plan", plan.status = "success" PROVE Active = {plan.shown}
      OBVIOUS
    <3>1. plan.shown \in Active
      BY <2>1, <2>2 DEF ViewsInv, Shown, PageInv
    <3> QED
      BY <2>3, <3>1
  <2> QED
    BY <2>4, <2>5, <2>6
<1> QED
  BY <1>1, CalmInvHolds, PTL

\* No path is made from the profile that is cleared while its page is still there,
\* for any number of calls and failures, unless calls were at once, a statement
\* failed, or a path was not kept before.
THEOREM NoPathUnasked == Spec => []NothingUnasked
<1>1. TypeInv /\ CalmInv => NothingUnasked
  <2> SUFFICES ASSUME TypeInv, CalmInv, ~overlapped, torn = {}, NEW c \in Calls, path[c].status # "none", ~call[c].own
               PROVE  UnkeptBefore(c)
    BY DEF NothingUnasked, UnkeptBefore
  <2>1. c \in Made /\ Unasked /\ WorkInv
    BY DEF TypeInv, WorkInv, WorkOf, CalmInv, Calm, ViewsInv
  <2>2. work[c].at # "none" /\ call[c].at # "none"
    BY <2>1, AtWorkFacts
  <2> QED
    BY <2>1, <2>2 DEF Unasked
<1> QED
  BY <1>1, CalmInvHolds, PTL

-----------------------------------------------------------------------------
(* The level that is asked for. The library's induction theorems take an    *)
(* operator, which the provers cannot instantiate; an induction is done     *)
(* here on the set of the numbers that a claim holds for.                   *)

\* Of the numbers in a set one is the least.
LEMMA LeastNumber == ASSUME NEW T \in SUBSET Nat, T # {} PROVE \E n \in T : \A m \in T : n <= m
<1>1. PICK n \in T : \A m \in T : ~ (<<m, n>> \in OpToRel(<, Nat))
  BY NatLessThanWellFounded, WFMin, Zenon
<1>2. \A m \in T : ~ (m < n)
  BY <1>1 DEF OpToRel
<1> QED
  BY <1>2

\* Induction: a set that has 0, and with a number the next, has them all.
LEMMA AllNumbers == ASSUME NEW T \in SUBSET Nat, 0 \in T, \A n \in T : n + 1 \in T PROVE T = Nat
<1> SUFFICES ASSUME Nat \ T # {} PROVE FALSE
  OBVIOUS
<1>1. PICK n \in Nat \ T : \A m \in Nat \ T : n <= m
  BY LeastNumber, Zenon
<1>2. n # 0 /\ n - 1 \in Nat
  BY <1>1
<1>3. n - 1 \in T
  BY <1>1, <1>2
<1> QED
  BY <1>1, <1>2, <1>3

\* What the fold takes next of a set, and the sums it makes of the scores w of the subsets in D.
Any(s) == CHOOSE x \in s : TRUE
AtMost(S, n) == {s \in SUBSET S : Cardinality(s) <= n}
Sums(g, D, w) == g = [s \in D |-> IF s = {} THEN 0 ELSE ScoreOfLevel(w[Any(s)]) + g[s \ {Any(s)}]]

\* The size of a subset of a finite set, and of what is left when one is taken.
LEMMA SubsetSizes ==
    ASSUME NEW S, IsFiniteSet(S), NEW s \in SUBSET S
    PROVE  /\ IsFiniteSet(s) /\ Cardinality(s) \in Nat /\ Cardinality(s) <= Cardinality(S) /\ (Cardinality(s) = 0 <=> s = {})
           /\ s # {} => Any(s) \in s /\ Cardinality(s \ {Any(s)}) = Cardinality(s) - 1
<1>1. s # {} => Any(s) \in s
  BY DEF Any
<1> QED
  BY <1>1, FS_Subset, FS_CardinalityType, FS_EmptySet, FS_RemoveElement

\* The sums that a fold of scores takes are defined.
LEMMA SumsExist == ASSUME NEW S, IsFiniteSet(S), NEW w PROVE \E g : Sums(g, SUBSET S, w)
<1> DEFINE T == {n \in Nat : \E g : Sums(g, AtMost(S, n), w)}
<1>0. \A s \in SUBSET S : /\ Cardinality(s) \in Nat /\ Cardinality(s) <= Cardinality(S) /\ (Cardinality(s) = 0 <=> s = {})
                          /\ s # {} => Any(s) \in s /\ Cardinality(s \ {Any(s)}) = Cardinality(s) - 1
  BY SubsetSizes
<1>1. 0 \in T
  <2>1. ASSUME NEW s \in AtMost(S, 0) PROVE s = {}
    <3>1. s \in SUBSET S /\ Cardinality(s) <= 0
      BY DEF AtMost
    <3>2. Cardinality(s) \in Nat /\ (Cardinality(s) = 0 <=> s = {})
      BY <1>0, <3>1
    <3> QED
      BY <3>1, <3>2
  <2>2. Sums([s \in AtMost(S, 0) |-> 0], AtMost(S, 0), w)
    BY <2>1 DEF Sums
  <2> QED
    BY <2>2
<1>2. ASSUME NEW n \in T PROVE n + 1 \in T
  <2>1. PICK g : Sums(g, AtMost(S, n), w)
    BY <1>2
  <2> DEFINE h == [s \in AtMost(S, n + 1) |-> IF s = {} THEN 0 ELSE ScoreOfLevel(w[Any(s)]) + g[s \ {Any(s)}]]
  <2>2. ASSUME NEW s \in AtMost(S, n + 1), s # {}
        PROVE  s \ {Any(s)} \in AtMost(S, n)
    <3>1. s \in SUBSET S /\ Cardinality(s) <= n + 1 /\ n \in Nat
      BY DEF AtMost
    <3>2. Cardinality(s) \in Nat /\ Cardinality(s \ {Any(s)}) = Cardinality(s) - 1
      BY <1>0, <2>2, <3>1
    <3> QED
      BY <3>1, <3>2 DEF AtMost
  <2>3. ASSUME NEW s \in AtMost(S, n) PROVE h[s] = g[s]
    <3>1. s \in SUBSET S /\ Cardinality(s) <= n /\ n \in Nat
      BY DEF AtMost
    <3>2. Cardinality(s) <= n + 1
      <4>1. Cardinality(s) \in Nat
        BY <1>0, <3>1
      <4> QED
        BY <3>1, <4>1
    <3>3. s \in AtMost(S, n + 1)
      BY <3>1, <3>2 DEF AtMost
    <3> QED
      BY <2>1, <3>3 DEF Sums
  <2>4. Sums(h, AtMost(S, n + 1), w)
    <3>1. ASSUME NEW s \in AtMost(S, n + 1)
          PROVE  h[s] = IF s = {} THEN 0 ELSE ScoreOfLevel(w[Any(s)]) + h[s \ {Any(s)}]
      BY <2>2, <2>3
    <3>2. h = [s \in AtMost(S, n + 1) |-> h[s]]
      OBVIOUS
    <3> HIDE DEF h
    <3> QED
      BY <3>1, <3>2 DEF Sums
  <2> QED
    BY <2>4
<1>3. Cardinality(S) \in T
  <2>1. T \in SUBSET Nat /\ Cardinality(S) \in Nat
    BY <1>0
  <2> HIDE DEF T
  <2> QED
    BY <1>1, <1>2, <2>1, AllNumbers
<1>4. AtMost(S, Cardinality(S)) = SUBSET S
  BY <1>0 DEF AtMost
<1> QED
  BY <1>3, <1>4

\* They lie between the lowest and the highest score, as often as there are summands.
LEMMA SumBounds ==
    ASSUME NEW S, IsFiniteSet(S), NEW w, \A k \in S : w[k] \in Levels, NEW g, Sums(g, SUBSET S, w),
           NEW lo \in Int, NEW hi \in Int, \A k \in S : lo <= ScoreOfLevel(w[k]) /\ ScoreOfLevel(w[k]) <= hi
    PROVE  g[S] \in Int /\ lo * Cardinality(S) <= g[S] /\ g[S] <= hi * Cardinality(S)
<1> DEFINE T == {n \in Nat : \A s \in SUBSET S : Cardinality(s) = n => g[s] \in Int /\ lo * n <= g[s] /\ g[s] <= hi * n}
<1>0. \A s \in SUBSET S : /\ Cardinality(s) \in Nat /\ (Cardinality(s) = 0 <=> s = {})
                          /\ s # {} => Any(s) \in s /\ Cardinality(s \ {Any(s)}) = Cardinality(s) - 1
  BY SubsetSizes
<1>1. 0 \in T
  <2>1. \A s \in SUBSET S : Cardinality(s) = 0 => g[s] = 0
    BY <1>0 DEF Sums
  <2>2. lo * 0 = 0 /\ hi * 0 = 0
    OBVIOUS
  <2> QED
    BY <2>1, <2>2
<1>2. ASSUME NEW n \in T PROVE n + 1 \in T
  <2> SUFFICES ASSUME NEW s \in SUBSET S, Cardinality(s) = n + 1
               PROVE  g[s] \in Int /\ lo * (n + 1) <= g[s] /\ g[s] <= hi * (n + 1)
    OBVIOUS
  <2>1. s # {} /\ Any(s) \in s /\ Cardinality(s \ {Any(s)}) = n /\ s \ {Any(s)} \in SUBSET S
    <3>1. n \in Nat /\ n + 1 # 0
      OBVIOUS
    <3>2. s # {}
      BY <1>0, <3>1
    <3>3. Any(s) \in s /\ Cardinality(s \ {Any(s)}) = (n + 1) - 1
      BY <1>0, <3>2
    <3> QED
      BY <3>1, <3>2, <3>3
  <2> DEFINE a == ScoreOfLevel(w[Any(s)])
             b == g[s \ {Any(s)}]
  <2>3. lo * n <= b /\ b <= hi * n /\ b \in Int
    BY <2>1
  <2>4. g[s] = a + b
    BY <2>1 DEF Sums
  <2>5. a \in Int /\ lo <= a /\ a <= hi
    BY <2>1 DEF ScoreOfLevel, Levels
  <2>6. lo * (n + 1) = lo * n + lo /\ hi * (n + 1) = hi * n + hi /\ lo * n \in Int /\ hi * n \in Int
    OBVIOUS
  <2> HIDE DEF a, b
  <2> QED
    BY <2>3, <2>4, <2>5, <2>6
<1>3. Cardinality(S) \in T
  <2>1. T \in SUBSET Nat /\ Cardinality(S) \in Nat
    BY <1>0
  <2> HIDE DEF T
  <2> QED
    BY <1>1, <1>2, <2>1, AllNumbers
<1> QED
  BY <1>3

\* What ScoreOf folds is such a sum.
LEMMA FoldIsSum ==
    ASSUME NEW S, IsFiniteSet(S), NEW w
    PROVE  \E g : Sums(g, SUBSET S, w) /\ FoldFunctionOnSet(LAMBDA l, sum : ScoreOfLevel(l) + sum, 0, w, S) = g[S]
<1>1. FoldFunctionOnSet(LAMBDA l, sum : ScoreOfLevel(l) + sum, 0, w, S) = (CHOOSE g : Sums(g, SUBSET S, w))[S]
  BY DEF FoldFunctionOnSet, MapThenFoldSet, Any, Sums
<1>2. Sums(CHOOSE g : Sums(g, SUBSET S, w), SUBSET S, w)
  BY SumsExist
<1> QED
  BY <1>1, <1>2

\* A mean lies between its bounds, and rounding half up keeps it there.
LEMMA MeanBounds ==
    ASSUME NEW n \in Nat, n # 0, NEW t \in Int, NEW lo \in Nat, NEW hi \in Nat, lo * n <= t, t <= hi * n
    PROVE  (2 * t + n) \div (2 * n) \in Int /\ lo <= (2 * t + n) \div (2 * n) /\ (2 * t + n) \div (2 * n) <= hi
<1> DEFINE q == (2 * t + n) \div (2 * n)
<1>1. q \in Int /\ 2 * n * q <= 2 * t + n /\ 2 * t + n < 2 * n * q + 2 * n
  OBVIOUS
<1>2. 2 * lo * n <= 2 * t /\ 2 * t <= 2 * hi * n
  OBVIOUS
<1>3. ASSUME q < lo PROVE FALSE
  <2>1. n * (q + 1) <= n * lo
    BY <1>1, <1>3
  <2> QED
    BY <1>1, <1>2, <2>1
<1>4. ASSUME q > hi PROVE FALSE
  <2>1. n * (hi + 1) <= n * q
    BY <1>1, <1>4
  <2> QED
    BY <1>1, <1>2, <2>1
<1> QED
  BY <1>1, <1>3, <1>4

\* The table of the levels is that of their scores, and what lies between goes to one of the two.
LEMMA LevelBounds ==
    ASSUME NEW lo \in Levels, NEW hi \in Levels, NEW s \in Int, ScoreOfLevel(lo) <= s, s <= ScoreOfLevel(hi)
    PROVE  LevelOfScore(s) \in lo .. hi
<1>1. s \in 0 .. 10
  BY DEF ScoreOfLevel, Levels
<1> QED
  BY <1>1 DEF LevelOfScore, ScoreOfLevel, Levels

\* For every draft: the level that is asked for lies between the lowest and the highest level of the draft.
LEMMA RequestBetween ==
    ASSUME IsFiniteSet(Skills), NEW d \in Drafts, Rated(d.levels) # {}
    PROVE  LET levels == {d.levels[k] : k \in Rated(d.levels)}
           IN Request(d).level \in Min(levels) .. Max(levels)
<1> DEFINE R == Rated(d.levels)
           levels == {d.levels[k] : k \in R}
           n == Cardinality(R)
           t == FoldFunctionOnSet(LAMBDA l, sum : ScoreOfLevel(l) + sum, 0, d.levels, R)
           lo == ScoreOfLevel(Min(levels))
           hi == ScoreOfLevel(Max(levels))
<1>1. IsFiniteSet(R) /\ n \in Nat \ {0} /\ \A k \in R : d.levels[k] \in Levels
  BY FS_Subset, FS_CardinalityType, FS_EmptySet DEF Rated, Drafts, Levels, NoLevel
<1>2. /\ Min(levels) \in Levels /\ Max(levels) \in Levels
      /\ \A l \in levels : Min(levels) <= l /\ l <= Max(levels)
  <2>1. levels # {} /\ levels \subseteq 1 .. 6
    BY <1>1 DEF Levels
  <2> HIDE DEF levels
  <2>2. \E x \in levels : \A y \in levels : x <= y
    BY <2>1, LeastNumber
  <2>3. \E x \in levels : \A y \in levels : x >= y
    <3> DEFINE below == {m \in Nat : 6 - m \in levels}
    <3>1. PICK l \in levels : TRUE
      BY <2>1
    <3>2. 6 - l \in below
      BY <2>1
    <3>3. PICK m \in below : \A i \in below : m <= i
      BY <3>2, LeastNumber
    <3>4. ASSUME NEW y \in levels PROVE 6 - m >= y
      <4>1. y \in 1 .. 6 /\ 6 - y \in below
        BY <2>1
      <4>2. m \in Nat /\ m <= 6 - y
        BY <3>3, <4>1
      <4> HIDE DEF below
      <4> QED
        BY <4>1, <4>2
    <3> QED
      BY <3>3, <3>4
  <2> QED
    BY <2>1, <2>2, <2>3 DEF Min, Max, Levels
<1>3. \A k \in R : lo <= ScoreOfLevel(d.levels[k]) /\ ScoreOfLevel(d.levels[k]) <= hi
  <2>1. ASSUME NEW k \in R
        PROVE  Min(levels) <= d.levels[k] /\ d.levels[k] <= Max(levels) /\ d.levels[k] \in Levels
    BY <1>1, <1>2
  <2> HIDE DEF levels, R
  <2> QED
    BY <1>2, <2>1 DEF ScoreOfLevel, Levels
<1>4. lo \in Nat /\ hi \in Nat
  BY <1>2 DEF ScoreOfLevel, Levels
<1>5. t \in Int /\ lo * n <= t /\ t <= hi * n
  <2>1. PICK g : Sums(g, SUBSET R, d.levels) /\ t = g[R]
    BY <1>1, FoldIsSum
  <2>2. lo \in Int /\ hi \in Int
    BY <1>4
  <2> HIDE DEF R, t, lo, hi
  <2>3. g[R] \in Int /\ lo * Cardinality(R) <= g[R] /\ g[R] <= hi * Cardinality(R)
    BY <1>1, <1>3, <2>1, <2>2, SumBounds
  <2> QED
    BY <2>1, <2>3
<1>6. ScoreOf(d.levels) = (2 * t + n) \div (2 * n)
  BY <1>1 DEF ScoreOf
<1>7. ScoreOf(d.levels) \in Int /\ lo <= ScoreOf(d.levels) /\ ScoreOf(d.levels) <= hi
  <2> HIDE DEF R, t, lo, hi, n
  <2> QED
    BY <1>1, <1>4, <1>5, <1>6, MeanBounds
<1> QED
  BY <1>2, <1>7, LevelBounds DEF Request

\* Going back and erasing an answer gets no blank past the test, and the level asked for lies
\* between the lowest and the highest of the levels it is made of: for every bank of questions,
\* all skills and every draft the pages can make.
THEOREM PlacesSoundly == Spec => []PlacementSound
<1>1. TypeInv => PlacementSound
  <2> SUFFICES ASSUME TypeInv
               PROVE  PlacementSound
    OBVIOUS
  <2>1. quiz.status = "submitting" => \A n \in Questions : quiz.sent[n] # "blank"
    BY DEF TypeInv, QuizInv, Tests
  <2>2. draft \in Drafts
    BY DEF TypeInv, PageInv
  <2>3. IsFiniteSet(Skills)
    BY PlacementAssumption DEF PlacementAssumption
  <2> QED
    BY <2>1, <2>2, <2>3, RequestBetween DEF PlacementSound
<1> QED
  BY <1>1, TypeInvHolds, PTL

================================================================================
