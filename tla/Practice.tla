-------------------------------- MODULE Practice --------------------------------
(***************************************************************************)
(* A learner's tab on the practice pages: the page of a module, which      *)
(* reads the catalogue in seven calls while a script may be loading it,    *)
(* and the panel with the question, its audio, its translation and the     *)
(* grading of the answer by the orchestrator.                              *)
(*                                                                         *)
(* The panel is keyed by the exercise: another exercise mounts a new one,  *)
(* the same exercise read again keeps the old one with all it holds.       *)
(* The attempt.recorded event the orchestrator emits has its consumers     *)
(* elsewhere and is left out.                                              *)
(***************************************************************************)
EXTENDS Catalogue

CONSTANTS
    SkillFocus,  \* SkillFocus[m]: the skill of a module
    Content,     \* Content[e][v]: what version v of the file says of an exercise
    Texts,       \* what can be typed
    MaxVisits,   \* bound: pages asked for
    MaxMoves,    \* bound: answers chosen or typed, and expiries of an audio URL
    MaxFaults    \* bound: failing calls and audio files that do not play

ASSUME PracticeAssumption ==
    /\ MaxVisits \in Nat /\ MaxMoves \in Nat /\ MaxFaults \in Nat
    /\ \A m \in AllModules : \A l \in ToSet(m.lessons) : ToSet(l.exerciseIds) \subseteq DOMAIN Content \ {None}

VARIABLES
    visit,       \* the page on its way: the call it is at and what it has read
    screen,      \* what the tab shows
    picked,      \* QuestionPanel: selectedOptionId, counted from 1
    text,        \* textAnswer
    grading,     \* grading
    checks,      \* the checks on their way, with the version of the key once it is read
    visible,     \* translationVisible
    translation, \* translationsByQuestionId[question.id]
    request,     \* usePresignedAudioUrl: requestState
    loads,       \* the keys of the audio loads on their way for this panel
    lost,        \* those of earlier panels, which only fill the cache
    cache,       \* audioUrlCache: the keys with a URL that is not too old
    raced,       \* the answer or the question changed under the panel while it held a check or a grade,
                 \* or a script has rewritten the exercise since the page read it (history)
    visits, moves, faults

panelVars == <<picked, text, grading, checks, visible, translation, request, loads>>
practiceVars == <<visit, screen, panelVars, lost, cache, raced, visits, moves, faults>>
vars == <<catalogueVars, practiceVars>>

Exercises == DOMAIN Content
Skills == {"reading", "listening", "writing"}
ModuleIds == DOMAIN SkillFocus
Idle == [at |-> "idle", skill |-> None, module |-> None, lesson |-> None, want |-> None, exercises |-> <<>>]
Blank == [kind |-> "blank", skill |-> None, module |-> None, lesson |-> None, exercises |-> <<>>, id |-> None, v |-> 0]
NoGrade == [status |-> "idle", answer |-> "", correct |-> FALSE]
NoTranslation == [status |-> "idle", v |-> 0]
NoRequest == [status |-> "idle", key |-> None]
One(x) == SetToBag({x})

(******************************* The question ******************************)

\* The texts and the audio that an exercise of its skill and type shows.
ToPracticeQuestion(c) ==
    LET isListening == c.skill = "listening" \/ c.type = "listening-comprehension" IN
    [type       |-> IF c.type = "sentence-correction" THEN "writingPrompt" ELSE IF c.options # <<>> THEN "mcq" ELSE "shortAnswer",
     options    |-> c.options,
     sourceText |-> IF isListening THEN c.transcript ELSE c.passage,
     audioKey   |-> IF isListening THEN c.audioKey ELSE None]
PracticeQuestions == [e \in Exercises |-> [v \in Versions |-> ToPracticeQuestion(Content[e][v])]]
Question == PracticeQuestions[screen.id][screen.v]
HasQuestion == screen.kind = "question"

AttemptedAnswer ==
    IF Question.type # "mcq" THEN text ELSE IF picked \in DOMAIN Question.options THEN Question.options[picked] ELSE ""
\* The hook's request, if it is of the key now shown, and else what the cache has.
AudioStatus ==
    IF request.key = Question.audioKey THEN request.status ELSE IF Question.audioKey \in cache THEN "ready" ELSE "idle"
ShouldHideSourceText == Question.audioKey # None /\ AudioStatus # "error" /\ grading.status # "success"
ShowsSourceText == Question.sourceText # None /\ ~ShouldHideSourceText

\* The three buttons; the player takes the place of the first once there is a URL.
LoadOffered == Question.audioKey # None /\ AudioStatus \notin {"ready", "loading"}
TranslationOffered == ShowsSourceText /\ translation.status # "loading"
CheckOffered == grading.status # "submitting"

TypeOK ==
    /\ visit.at \in {"idle", "module", "lessons", "lesson", "exercises", "exercise"}
    /\ screen.kind \in {"blank", "missing", "empty", "failed", "question"}
    /\ HasQuestion => screen.id \in ToSet(screen.exercises) /\ screen.v \in Versions
    /\ ~HasQuestion => checks = EmptyBag /\ grading = NoGrade /\ request = NoRequest /\ translation = NoTranslation
    /\ grading.status \in {"idle", "submitting", "success", "error"}
    /\ request.status \in {"idle", "loading", "ready", "error"}
    /\ translation.status \in {"idle", "loading", "ready", "error"} /\ translation.v \in Versions \cup {0}
    /\ \A c \in BagToSet(checks) : c.key \in Versions \cup {0}
    /\ visible \in BOOLEAN /\ raced \in BOOLEAN
    /\ visits \in 0 .. MaxVisits /\ moves \in 0 .. MaxMoves /\ faults \in 0 .. MaxFaults

Init ==
    /\ CatalogueInit
    /\ visit = Idle /\ screen = Blank
    /\ picked = 0 /\ text = "" /\ grading = NoGrade /\ checks = EmptyBag
    /\ visible = FALSE /\ translation = NoTranslation /\ request = NoRequest /\ loads = EmptyBag /\ lost = EmptyBag
    /\ cache = {} /\ raced = FALSE
    /\ visits = 0 /\ moves = 0 /\ faults = 0

Fault == faults < MaxFaults /\ faults' = faults + 1
Move == moves < MaxMoves /\ moves' = moves + 1

(********************************* The page ********************************)

NewPanel ==
    /\ picked' = 0 /\ text' = "" /\ grading' = NoGrade /\ checks' = EmptyBag
    /\ visible' = FALSE /\ translation' = NoTranslation /\ request' = NoRequest
    /\ loads' = EmptyBag /\ lost' = lost (+) loads

Asked(skill, module, lesson, want) ==
    /\ family = "modules" /\ visits < MaxVisits /\ visits' = visits + 1
    /\ runs[1].script # "seed" /\ \A i \in 2 .. MaxRuns : runs[i] = NoRun
    /\ visit' = [Idle EXCEPT !.at = "module", !.skill = skill, !.module = module, !.lesson = lesson, !.want = want]
    /\ UNCHANGED <<catalogueVars, cache, moves, faults>>

\* The learner comes from another page, by a module's card or a kept address.
Open(skill, module, want) ==
    /\ Asked(skill, module, None, want)
    /\ screen' = Blank /\ NewPanel /\ raced' = FALSE

\* A link of the page: a number, the previous or the next exercise, or a lesson.
\* The page stays until the new one has come.
FollowLink(want) ==
    /\ HasQuestion /\ want \in ToSet(screen.exercises) \cup {None}
    /\ Asked(screen.skill, screen.module, screen.lesson, want)
    /\ UNCHANGED <<screen, panelVars, lost, raced>>

\* The page has come: the panel of the same exercise stays, any other makes way.
Arrive(s) ==
    /\ visit' = Idle /\ screen' = s
    /\ IF HasQuestion /\ s.id = screen.id
       THEN UNCHANGED <<panelVars, lost>> /\ raced' = (raced \/ s.v # screen.v)
       ELSE NewPanel /\ raced' = FALSE
Show(kind) == Arrive([Blank EXCEPT !.kind = kind])
Proceed(to) == visit' = to /\ UNCHANGED <<screen, panelVars, lost, raced>>
Keep == UNCHANGED <<catalogueVars, cache, visits, moves, faults>>

\* The modules of the learner's path, if there is one: other components make it.
ActivePaths == {{}, ModuleIds}

GetModulePage ==
    /\ visit.at = "module" /\ Keep
    /\ \E path \in ActivePaths :
          IF visit.skill \in Skills /\ visit.module \in path /\ GetModule(visit.module) # <<>> /\ SkillFocus[visit.module] = visit.skill
          THEN Proceed([visit EXCEPT !.at = "lessons"])
          ELSE Show("missing")

Chosen(asked, list) == IF \E i \in DOMAIN list : list[i].id = asked THEN asked ELSE list[1].id

GetLessonsPage ==
    /\ visit.at = "lessons" /\ Keep
    /\ LET lessons == GetLessons(visit.module) IN
       IF lessons = <<>> THEN Show("empty")
       ELSE Proceed([visit EXCEPT !.at = "lesson", !.lesson = Chosen(visit.lesson, lessons)])

GetLessonPage ==
    /\ visit.at = "lesson" /\ Keep
    /\ LET lesson == GetLesson(visit.lesson) IN
       IF lesson # <<>> /\ lesson[1].moduleId = visit.module
       THEN Proceed([visit EXCEPT !.at = "exercises"])
       ELSE Show("missing")

GetExercisesPage ==
    /\ visit.at = "exercises" /\ Keep
    /\ LET exercises == GetExercises(visit.lesson) IN
       IF exercises = <<>> THEN Show("empty")
       ELSE Proceed([visit EXCEPT !.at = "exercise", !.want = Chosen(visit.want, exercises),
                                  !.exercises = [i \in DOMAIN exercises |-> exercises[i].id]])

GetExercisePage ==
    /\ visit.at = "exercise" /\ Keep
    /\ LET exercise == GetExercise(visit.want) IN
       IF exercise # <<>> /\ exercise[1].lessonId = visit.lesson
       THEN Arrive([kind |-> "question", skill |-> visit.skill, module |-> visit.module, lesson |-> visit.lesson,
                    exercises |-> visit.exercises, id |-> visit.want, v |-> exercise[1].v])
       ELSE Show("missing")

\* A call fails otherwise than by a 404: the error is thrown.
PageFails ==
    /\ visit.at # "idle" /\ Fault /\ Show("failed")
    /\ UNCHANGED <<catalogueVars, cache, visits, moves>>

(******************************** The answer *******************************)

OfPanel == HasQuestion /\ UNCHANGED <<catalogueVars, visit, screen, visits>>
AudioKept == UNCHANGED <<request, loads, lost, cache>>
TextKept == UNCHANGED <<visible, translation>>

\* Choosing or typing clears the grade; a check on its way goes on.
ClearGrade == grading' = NoGrade /\ raced' = (raced \/ checks # EmptyBag)

\* (mutant) Another choice keeps the grade of the one before.
SelectOptionKeepingGrade(n) ==
    /\ OfPanel /\ Question.type = "mcq" /\ n \in DOMAIN Question.options
    /\ picked' = n /\ Move /\ raced' = (raced \/ checks # EmptyBag)
    /\ AudioKept /\ TextKept /\ UNCHANGED <<text, grading, checks, faults>>
SelectOption(n) ==
    /\ OfPanel /\ Question.type = "mcq" /\ n \in DOMAIN Question.options
    /\ picked' = n /\ ClearGrade /\ Move
    /\ AudioKept /\ TextKept /\ UNCHANGED <<text, checks, faults>>

TypeText(t) ==
    /\ OfPanel /\ Question.type # "mcq" /\ t # text
    /\ text' = t /\ ClearGrade /\ Move
    /\ AudioKept /\ TextKept /\ UNCHANGED <<picked, checks, faults>>

\* Check answer: nothing goes out without an answer, or before Clerk has told who the learner is.
SubmitAnswer ==
    /\ OfPanel /\ CheckOffered
    /\ \/ grading' = [NoGrade EXCEPT !.status = "error"] /\ UNCHANGED checks
       \/ /\ AttemptedAnswer # ""
          /\ grading' = [NoGrade EXCEPT !.status = "submitting"]
          /\ checks' = checks (+) One([id |-> screen.id, answer |-> AttemptedAnswer, key |-> 0])
    /\ AudioKept /\ TextKept /\ UNCHANGED <<picked, text, raced, moves, faults>>

\* The orchestrator reads the exercise with its key, as it is by then.
GradeAnswer(c) ==
    /\ OfPanel /\ c.key = 0
    /\ checks' = (checks (-) One(c)) (+) One([c EXCEPT !.key = GetExerciseInternal(c.id)[1].v])
    /\ AudioKept /\ TextKept /\ UNCHANGED <<picked, text, grading, raced, moves, faults>>

GradeArrives(c) ==
    /\ OfPanel /\ c.key # 0
    /\ checks' = checks (-) One(c)
    /\ grading' = [status |-> "success", answer |-> c.answer, correct |-> c.answer = Content[c.id][c.key].answer]
    /\ AudioKept /\ TextKept /\ UNCHANGED <<picked, text, raced, moves, faults>>

GradingFails(c) ==
    /\ OfPanel /\ Fault
    /\ checks' = checks (-) One(c) /\ grading' = [NoGrade EXCEPT !.status = "error"]
    /\ AudioKept /\ TextKept /\ UNCHANGED <<picked, text, raced, moves>>

(****************************** The translation ****************************)

AnswerKept == UNCHANGED <<picked, text, grading, checks, raced>>

ToggleTranslation ==
    /\ OfPanel /\ TranslationOffered
    /\ visible' = ~visible
    /\ translation' = IF visible \/ translation.status = "ready" THEN translation ELSE [status |-> "loading", v |-> screen.v]
    /\ AnswerKept /\ AudioKept /\ UNCHANGED <<moves, faults>>

TranslationArrives ==
    /\ OfPanel /\ translation.status = "loading"
    /\ translation' = [translation EXCEPT !.status = "ready"]
    /\ AnswerKept /\ AudioKept /\ UNCHANGED <<visible, moves, faults>>

TranslationFails ==
    /\ OfPanel /\ translation.status = "loading" /\ Fault
    /\ translation' = [NoTranslation EXCEPT !.status = "error"]
    /\ AnswerKept /\ AudioKept /\ UNCHANGED <<visible, moves>>

(********************************* The audio *******************************)

LoadAudio ==
    /\ OfPanel /\ LoadOffered
    /\ LET key == Question.audioKey IN
       IF key \in cache
       THEN request' = [status |-> "ready", key |-> key] /\ UNCHANGED loads
       ELSE request' = [status |-> "loading", key |-> key] /\ loads' = loads (+) One(key)
    /\ AnswerKept /\ TextKept /\ UNCHANGED <<lost, cache, moves, faults>>

\* The URL or the error takes the place of whatever request the hook then has.
LoadEnds(key, status) ==
    /\ loads' = loads (-) One(key) /\ request' = [status |-> status, key |-> key]
    /\ OfPanel /\ AnswerKept /\ TextKept /\ UNCHANGED <<lost, moves>>
LostLoadEnds(key) ==
    /\ lost' = lost (-) One(key)
    /\ AnswerKept /\ TextKept /\ UNCHANGED <<catalogueVars, visit, screen, visits, request, loads, moves>>

AudioLoaded(key) == cache' = cache \cup {key} /\ UNCHANGED faults
AudioFails == Fault /\ UNCHANGED cache

MarkPlaybackFailed ==
    /\ OfPanel /\ Question.audioKey # None /\ AudioStatus = "ready" /\ Fault
    /\ cache' = cache \ {Question.audioKey} /\ request' = [status |-> "error", key |-> Question.audioKey]
    /\ AnswerKept /\ TextKept /\ UNCHANGED <<loads, lost, moves>>

\* Fifty-five minutes after it came.
UrlExpires(key) ==
    /\ Move /\ cache' = cache \ {key}
    /\ AnswerKept /\ TextKept /\ UNCHANGED <<catalogueVars, visit, screen, visits, request, loads, lost, faults>>

(***************************************************************************)

\* Scripts run; beside the pages one run at most, and not of the fixtures, which it would leave alone (a bound).
Load ==
    /\ CatalogueStep
    /\ visits > 0 => runs'[1].script # "seed" /\ \A i \in 2 .. MaxRuns : runs'[i] = NoRun
    /\ raced' = (raced \/ (HasQuestion /\ \E i \in DOMAIN rows' : rows'[i].key = screen.id /\ rows'[i].v # screen.v))
    /\ UNCHANGED <<visit, screen, panelVars, lost, cache, visits, moves, faults>>

PageStep == GetModulePage \/ GetLessonsPage \/ GetLessonPage \/ GetExercisesPage \/ GetExercisePage \/ PageFails

Next ==
    \/ Load
    \/ \E skill \in {SkillFocus[m] : m \in ModuleIds}, module \in ModuleIds, want \in Exercises \cup {None} : Open(skill, module, want)
    \/ \E want \in Exercises \cup {None} : FollowLink(want)
    \/ PageStep
    \/ HasQuestion /\ \E n \in DOMAIN Question.options : SelectOption(n)
    \/ \E t \in Texts : TypeText(t)
    \/ SubmitAnswer
    \/ \E c \in BagToSet(checks) : GradeAnswer(c) \/ GradeArrives(c) \/ GradingFails(c)
    \/ ToggleTranslation \/ TranslationArrives \/ TranslationFails
    \/ LoadAudio \/ MarkPlaybackFailed
    \/ \E key \in BagToSet(loads) :
          \/ LoadEnds(key, "ready") /\ AudioLoaded(key)
          \/ LoadEnds(key, "error") /\ AudioFails
    \/ \E key \in BagToSet(lost) : LostLoadEnds(key) /\ (AudioLoaded(key) \/ AudioFails)
    \/ \E key \in cache : UrlExpires(key)

Spec == Init /\ [][Next]_vars

(******************************** Properties *******************************)

GradeFits ==
    grading.status = "success" =>
        /\ grading.answer = AttemptedAnswer
        /\ grading.correct = (grading.answer = Content[screen.id][screen.v].answer)
TranslationFits == translation.status = "ready" => translation.v = screen.v
NothingHangs ==
    /\ grading.status = "submitting" => \E c \in BagToSet(checks) : c.id = screen.id
    /\ AudioStatus = "loading" => Question.audioKey \in BagToSet(loads)

\* Whatever answers, failures and pages cross: no button stays disabled with nothing on its
\* way, and a grade or a translation that is shown is that of the answer and of the text that
\* are shown, by the key of the exercise that is shown. The last holds for a panel whose answer
\* did not change during a check and whose exercise was not rewritten since it was read: the
\* answers stay open during a check, the grade is by the key of that moment, and a panel that
\* stays keeps the grade, the choice and the translation of the former text. A tab without a
\* panel holds nothing of one (TypeOK).
PanelSound == TypeOK /\ (HasQuestion => NothingHangs /\ (raced \/ (GradeFits /\ TranslationFits)))
=============================================================================
