------------------------------- MODULE Catalogue -------------------------------
(***************************************************************************)
(* The catalogue of learning-materials-service: the six scripts that load  *)
(* it, statement by statement and with no transaction around them, and     *)
(* what the routes of the service serve of it.                             *)
(*                                                                         *)
(* A script is a sequence of statements that follows from its file. It may *)
(* die between any two, be run again on the same or the next version of    *)
(* the file, and two runs may overlap. What a row says is abstracted to    *)
(* the version of the file that wrote it. A route that takes a limit       *)
(* serves so many rows, in its order if it has one: as no one may know     *)
(* which, it is the set of the answers it may give. The filters of the     *)
(* lists, and the order of those without a limit, are left out.            *)
(***************************************************************************)
EXTENDS Integers, Sequences, FiniteSets, SequencesExt

CONSTANTS
    Fixtures,    \* the modules of seed.ts
    Modules,     \* Modules[v]: version v of generated_content_seed.jsonl
    Words,       \* Words[v]: version v of vocab_seed.jsonl
    Points,      \* Points[v]: version v of grammar_seed.jsonl
    Passages,    \* Passages[v]: version v of passage_seed.jsonl
    Questions,   \* Questions[v]: version v of assessment_seed.jsonl
    Alphabet,    \* the place of a lemma, with its part of speech, in the order of the database
    DEFAULT_LIMIT, MAX_LIMIT,    \* of the rows that one request gets
    MaxRuns      \* bound: runs of scripts

ASSUME CatalogueAssumption ==
    /\ MaxRuns \in Nat \ {0}
    /\ \A file \in {Modules, Words, Points, Passages, Questions} : DOMAIN file = 1 .. 2

VARIABLES
    family,      \* the tables this behaviour is about: no two families share one
    rows,        \* the rows with a unique key, in the order of their creation
    children,    \* senses, pronunciations and examples, which have no key
    runs,        \* runs[i]: the i-th run of a script, and the statement it is at
    settled      \* settled[s]: the file of the last run of s, if it ran through alone (history)

catalogueVars == <<family, rows, children, runs, settled>>

Family == [seed |-> "modules", generated |-> "modules", vocab |-> "words", grammar |-> "points",
           passages |-> "passages", assessment |-> "questions"]
Scripts == DOMAIN Family
Versions == 1 .. 2
Once(list, Id(_)) == list \in Seq(ToSet(list)) /\ \A i, j \in DOMAIN list : Id(list[i]) = Id(list[j]) => i = j

\* A file names a thing once, as the tools that write them see to. An id of generated content
\* begins with that of its lesson and its module, which it therefore never leaves, and "mod-gen".
AllModules == ToSet(Fixtures) \cup ToSet(Modules[1]) \cup ToSet(Modules[2])
ASSUME FilesAssumption ==
    /\ \A v \in Versions :
          /\ Once(Words[v], LAMBDA w : w.lemma) /\ \A w \in ToSet(Words[v]) : {w.senses, w.prons} \subseteq Nat
          /\ Once(Points[v], LAMBDA p : p.title) /\ \A p \in ToSet(Points[v]) : p.examples \in Nat
          /\ Once(Passages[v], LAMBDA p : p.title) /\ Once(Questions[v], LAMBDA q : q.id)
    /\ \A file \in {Fixtures, Modules[1], Modules[2]} : Once(file, LAMBDA m : m.id)
    /\ \A m \in AllModules :
          /\ m = [id |-> m.id, lessons |-> m.lessons] /\ Once(m.lessons, LAMBDA l : l.id)
          /\ \A l \in ToSet(m.lessons) : l = [id |-> l.id, exerciseIds |-> l.exerciseIds] /\ Once(l.exerciseIds, LAMBDA e : e)
    /\ \A m, n \in AllModules : \A l \in ToSet(m.lessons), k \in ToSet(n.lessons) :
          /\ l.id = k.id => m.id = n.id
          /\ ToSet(l.exerciseIds) \cap ToSet(k.exerciseIds) # {} => l.id = k.id
    /\ \A m \in ToSet(Fixtures), n \in ToSet(Modules[1]) \cup ToSet(Modules[2]) : m.id # n.id
Lemmas == {w.lemma : w \in ToSet(Words[1]) \cup ToSet(Words[2])}
ASSUME ListsAssumption ==
    /\ MAX_LIMIT \in Nat \ {0} /\ DEFAULT_LIMIT \in 1 .. MAX_LIMIT
    /\ Alphabet \in [Lemmas -> Nat] /\ \A a, b \in Lemmas : Alphabet[a] = Alphabet[b] => a = b
    /\ \A v \in Versions : \A w \in ToSet(Words[v]) : w.level \in Nat
None == "none"
NoRun == [script |-> None, v |-> 0, at |-> 0, alone |-> FALSE]
Over == [NoRun EXCEPT !.script = "over"]

(***************************** The statements *****************************)

Statement(op, table, key, parent, v) == [op |-> op, table |-> table, key |-> key, parent |-> parent, v |-> v, rank |-> 0]
Insert(table, key, parent) == Statement("insert", table, key, parent, 1)
Upsert(table, key, parent, v) == Statement("upsert", table, key, parent, v)
Clear(table, of) == Statement("clear", table, of, of, 0)
Create(table, of, n, v) == [i \in 1 .. n |-> [Statement("create", table, of, of, v) EXCEPT !.rank = i]]
ForEach(records, Load(_)) == FlattenSeq([i \in DOMAIN records |-> Load(records[i])])
Where(list, Holds(_)) == ForEach(list, LAMBDA x : IF Holds(x) THEN <<x>> ELSE <<>>)

\* The fixtures are created where they are missing and never touched again.
ModuleFixtures == ForEach(Fixtures, LAMBDA m : <<Insert("module", m.id, None)>>)
LessonFixtures == ForEach(Fixtures, LAMBDA m : ForEach(m.lessons, LAMBDA l : <<Insert("lesson", l.id, m.id)>>))
ExerciseFixtures ==
    ForEach(Fixtures, LAMBDA m : ForEach(m.lessons, LAMBDA l : ForEach(l.exerciseIds, LAMBDA e : <<Insert("exercise", e, l.id)>>)))
SeedMain == ModuleFixtures \o LessonFixtures \o ExerciseFixtures

LoadModule(m, v) ==
    <<Upsert("module", m.id, None, v)>>
    \o ForEach(m.lessons, LAMBDA l :
           <<Upsert("lesson", l.id, m.id, v)>> \o ForEach(l.exerciseIds, LAMBDA e : <<Upsert("exercise", e, l.id, v)>>))
GeneratedMain(v) == ForEach(Modules[v], LAMBDA m : LoadModule(m, v))

\* Share-alike licences are blocked unless ALLOW_SHARE_ALIKE is set, which it is not here.
LicenseAllowed(record) == record.license # "share-alike"
Licensed(record, steps) == IF LicenseAllowed(record) THEN steps ELSE <<>>

\* (mutant) The senses of the run before stay.
LoadEntryAdding(w, v) ==
    <<Upsert("entry", w.lemma, None, v), Clear("pron", w.lemma)>>
    \o Create("sense", w.lemma, w.senses, v) \o Create("pron", w.lemma, w.prons, v)
LoadEntry(w, v) ==
    <<Upsert("entry", w.lemma, None, v), Clear("sense", w.lemma), Clear("pron", w.lemma)>>
    \o Create("sense", w.lemma, w.senses, v) \o Create("pron", w.lemma, w.prons, v)
VocabMain(v) == ForEach(Words[v], LAMBDA w : Licensed(w, LoadEntry(w, v)))

LoadPoint(p, v) ==
    <<Upsert("point", p.title, None, v), Clear("example", p.title)>> \o Create("example", p.title, p.examples, v)
GrammarMain(v) == ForEach(Points[v], LAMBDA p : Licensed(p, LoadPoint(p, v)))

LoadPassage(p, v) ==
    (IF p.media = None THEN <<>> ELSE <<Upsert("media", p.media, None, v)>>) \o <<Upsert("passage", p.title, p.media, v)>>
PassagesMain(v) == ForEach(Passages[v], LAMBDA p : Licensed(p, LoadPassage(p, v)))

LoadQuestion(q, v) == <<Upsert("question", q.id, None, v)>>
AssessmentMain(v) == ForEach(Questions[v], LAMBDA q : LoadQuestion(q, v))

Program(script, v) ==
    CASE script = "seed"       -> SeedMain
      [] script = "generated"  -> GeneratedMain(v)
      [] script = "vocab"      -> VocabMain(v)
      [] script = "grammar"    -> GrammarMain(v)
      [] script = "passages"   -> PassagesMain(v)
      [] script = "assessment" -> AssessmentMain(v)
Programs == [script \in Scripts |-> [v \in Versions |-> Program(script, v)]]
\* No file is without a record that may be loaded.
ASSUME ProgramsAssumption == \A script \in Scripts : \A v \in Versions : Programs[script][v] # <<>>

(******************************* What is served ****************************)

Table(table) == Where(rows, LAMBDA r : r.table = table)
Find(table, key) == Where(rows, LAMBDA r : r.table = table /\ r.key = key)
Under(table, parent) == Where(rows, LAMBDA r : r.table = table /\ r.parent = parent)
ChildrenOf(table, of) == Where(children, LAMBDA c : c.table = table /\ c.key = of)
Dto(found, To(_)) == [i \in DOMAIN found |-> To(found[i])]

\* The limits a request may name: 0 is none, or none that is a positive integer.
Requests == 0 .. MAX_LIMIT + 1
ParseLimit(raw) == IF raw = 0 THEN DEFAULT_LIMIT ELSE Min({raw, MAX_LIMIT})
\* The rows that orderBy and take may leave of T: so many, and before all others.
Take(T, Before(_, _), raw) ==
    {S \in kSubset(Min({ParseLimit(raw), Cardinality(T)}), T) : \A r \in S, q \in T \ S : Before(r, q)}
Unordered(q, r) == TRUE
Answers(takes, To(_)) == {{To(r) : r \in S} : S \in takes}

\* The answers of the routes; the empty sequence for one row is a 404.
ModuleDto(r) == [id |-> r.key, v |-> r.v]
GetModules == Dto(Table("module"), ModuleDto)
GetModule(id) == Dto(Find("module", id), ModuleDto)
LessonDto(r) == [id |-> r.key, moduleId |-> r.parent, v |-> r.v]
GetLessons(module) == Dto(Under("lesson", module), LessonDto)
GetLesson(id) == Dto(Find("lesson", id), LessonDto)
ExerciseDto(r) == [id |-> r.key, lessonId |-> r.parent, v |-> r.v]
GetExercises(lesson) == Dto(Under("exercise", lesson), ExerciseDto)
GetExercise(id) == Dto(Find("exercise", id), ExerciseDto)
GetExerciseInternal(id) == GetExercise(id)    \* with the answer key

CatalogSummary ==
    Dto(GetModules, LAMBDA m :
        [id |-> m.id, lessons |-> Dto(GetLessons(m.id), LAMBDA l : [id |-> l.id, exerciseIds |-> Dto(GetExercises(l.id), LAMBDA e : e.id)])])

ChildDto(c) == [rank |-> c.rank, v |-> c.v]
ByRank(list) ==
    LET last == Max({c.rank : c \in ToSet(list)} \cup {0}) IN FlattenSeq([n \in 1 .. last |-> Where(list, LAMBDA c : c.rank = n)])
VocabDto(r) ==
    [lemma |-> r.key, v |-> r.v, pronunciations |-> Dto(ChildrenOf("pron", r.key), ChildDto),
     senses |-> ByRank(Dto(ChildrenOf("sense", r.key), ChildDto))]
GetVocab(raw) == Answers(Take(ToSet(Table("entry")), Unordered, raw), VocabDto)
FirstOf(list) == IF list = <<>> THEN [rank |-> 0, v |-> 0] ELSE list[1]    \* or null
FlashcardDto(r) ==
    LET w == VocabDto(r) IN [term |-> w.lemma, definition |-> FirstOf(w.senses), ipa |-> FirstOf(w.pronunciations)]
WordOf(r) == CHOOSE w \in ToSet(Words[r.v]) : w.lemma = r.key
ByLemma(q, r) == Alphabet[q.key] < Alphabet[r.key]
ByLevel(q, r) == WordOf(q).level < WordOf(r).level \/ (WordOf(q).level = WordOf(r).level /\ ByLemma(q, r))
GetFlashcards(raw) == Answers(Take(ToSet(Table("entry")), ByLevel, raw), FlashcardDto)
\* The topics are the levels, with the number of their cards.
InTopic(level) == Where(Table("entry"), LAMBDA r : WordOf(r).level = level)
FlashcardTopicDto(level) == [level |-> level, totalCards |-> Len(InTopic(level))]
GetFlashcardTopics == {FlashcardTopicDto(WordOf(r).level) : r \in ToSet(Table("entry"))}
GetTopicFlashcards(level, raw) == Answers(Take(ToSet(InTopic(level)), ByLemma, raw), FlashcardDto)

GrammarDto(r) == [title |-> r.key, v |-> r.v, examples |-> Dto(ChildrenOf("example", r.key), ChildDto)]
GetGrammar(raw) == Answers(Take(ToSet(Table("point")), Unordered, raw), GrammarDto)
GrammarSummaryDto(r) == [title |-> r.key, exampleCount |-> Len(ChildrenOf("example", r.key))]
\* The sections are the categories, with the summaries of their points.
CategoryOf(r) == (CHOOSE p \in ToSet(Points[r.v]) : p.title = r.key).category
GrammarSectionsDto(points) ==
    LET section(c) == Where(points, LAMBDA r : CategoryOf(r) = c)
    IN {[category |-> c, lessonCount |-> Len(section(c)), lessons |-> ToSet(Dto(section(c), GrammarSummaryDto))]
            : c \in {CategoryOf(r) : r \in ToSet(points)}}
GetGrammarSections == GrammarSectionsDto(Table("point"))
GetGrammarSection(category) == {section \in GetGrammarSections : section.category = category}
GrammarLessonDto(r) == GrammarDto(r) @@ GrammarSummaryDto(r)
GetGrammarLesson(title) == Dto(Find("point", title), GrammarLessonDto)
PassageDto(r) == [title |-> r.key, v |-> r.v, audioKey |-> r.parent]
GetPassages(raw) == Answers(Take(ToSet(Table("passage")), Unordered, raw), PassageDto)
QuestionDto(r) == [id |-> r.key, v |-> r.v]
GetQuestions == Dto(Table("question"), QuestionDto)
\* The item bank of AGT-05: A1 to C2, here 1 to 6, are the difficulties -2 to 3.
CefrToTheta(level) == level - 3
GetItemBank ==
    Dto(Table("question"), LAMBDA r :
        [item_id |-> r.key, difficulty |-> CefrToTheta((CHOOSE q \in ToSet(Questions[r.v]) : q.id = r.key).level)])

(********************************* The runs ********************************)

\* A passage takes the audio it is given and keeps the one it has when it is given none;
\* the lessons and exercises of a file never change their parent.
Parent(row, s) == IF s.table = "passage" /\ s.parent # None THEN s.parent ELSE row.parent
Updated(row, s) == [row EXCEPT !.v = s.v, !.parent = Parent(row, s)]
Row(s) == [table |-> s.table, key |-> s.key, parent |-> s.parent, v |-> s.v]
Put(s) == [i \in DOMAIN rows |-> IF rows[i].table = s.table /\ rows[i].key = s.key THEN Updated(rows[i], s) ELSE rows[i]]
\* The tables are empty, or the modules have been loaded from the first version of their file.
CatalogueInit ==
    /\ family \in {Family[s] : s \in Scripts}
    /\ \/ rows = <<>> /\ settled = [s \in Scripts |-> 0]
       \/ /\ family = "modules"
          /\ rows = Dto(SeedMain \o GeneratedMain(1), Row)
          /\ settled = [s \in Scripts |-> IF Family[s] = family THEN 1 ELSE 0]
    /\ children = <<>>
    /\ runs = [i \in 1 .. MaxRuns |-> NoRun]

Going(i) == runs[i].at # 0
Rivals(i, script) == {j \in DOMAIN runs \ {i} : Going(j) /\ runs[j].script = script}

\* Someone runs a script, on either version of its file; the others of the script lose their solitude.
Begin(i, script, v) ==
    /\ runs[i] = NoRun /\ \A j \in 1 .. i - 1 : runs[j] # NoRun
    /\ Family[script] = family
    /\ script = "seed" => v = 1
    /\ LET alone == Rivals(i, script) = {}
           rest  == [j \in DOMAIN runs |-> IF j \in Rivals(i, script) THEN [runs[j] EXCEPT !.alone = FALSE] ELSE runs[j]]
       IN runs' = [rest EXCEPT ![i] = [script |-> script, v |-> v, at |-> 1, alone |-> alone]]
    /\ settled' = [settled EXCEPT ![script] = 0]
    /\ UNCHANGED <<family, rows, children>>

RowsAfter(s) ==
    LET found == Find(s.table, s.key) # <<>> IN
    CASE s.op \in {"insert", "upsert"} /\ ~found -> Append(rows, Row(s))
      [] s.op = "upsert" /\ found                -> Put(s)
      [] OTHER                                   -> rows
ChildrenAfter(s) ==
    CASE s.op = "clear"  -> Where(children, LAMBDA c : ~(c.table = s.table /\ c.key = s.key))
      [] s.op = "create" -> Append(children, [table |-> s.table, key |-> s.key, rank |-> s.rank, v |-> s.v])
      [] OTHER           -> children
\* passages.mediaAssetId is unique: an audio that moved to another title stops the script.
Refused(s) ==
    s.table = "passage" /\ s.parent # None /\ \E p \in ToSet(Under("passage", s.parent)) : p.key # s.key

Execute(i) ==
    /\ Going(i)
    /\ LET r     == runs[i]
           steps == Programs[r.script][r.v]
           s     == steps[r.at]
           last  == r.at = Len(steps)
       IN /\ ~Refused(s)
          /\ rows' = RowsAfter(s) /\ children' = ChildrenAfter(s)
          /\ runs' = [runs EXCEPT ![i] = IF last THEN Over ELSE [r EXCEPT !.at = r.at + 1]]
          /\ settled' = IF last /\ r.alone THEN [settled EXCEPT ![r.script] = r.v] ELSE settled
    /\ UNCHANGED family

\* A statement is refused, the database is gone or the process is stopped: main().catch, exit(1).
Dies(i) ==
    /\ Going(i)
    /\ runs' = [runs EXCEPT ![i] = Over]
    /\ UNCHANGED <<family, rows, children, settled>>

CatalogueStep ==
    \E i \in 1 .. MaxRuns :
        \/ \E script \in Scripts, v \in Versions : Begin(i, script, v)
        \/ Execute(i)
        \/ Dies(i)

(******************************** Properties *******************************)

Parts(n, v) == [i \in 1 .. n |-> [rank |-> i, v |-> v]]

SeedServed == \A m \in ToSet(Fixtures) : \E s \in ToSet(CatalogSummary) : s = m /\ GetModule(m.id)[1].v = 1
GeneratedServed(v) ==
    \A m \in ToSet(Modules[v]) :
        /\ \E served \in ToSet(GetModules) : served.id = m.id /\ served.v = v
        /\ \A l \in ToSet(m.lessons) :
              /\ [id |-> l.id, moduleId |-> m.id, v |-> v] \in ToSet(GetLessons(m.id))
              /\ \A e \in ToSet(l.exerciseIds) : [id |-> e, lessonId |-> l.id, v |-> v] \in ToSet(GetExercises(l.id))
\* What every answer says of the thing that is named is told; it is there if the limit admits all of the list.
Tells(answers, Names(_), Says(_), list, raw) ==
    /\ answers # {}
    /\ \A answer \in answers :
          /\ \A d \in answer : Names(d) => Says(d)
          /\ Len(list) <= ParseLimit(raw) => \E d \in answer : Names(d)
VocabServed(v) ==
    LET loaded == {w \in ToSet(Words[v]) : LicenseAllowed(w)} IN
    /\ \A topic \in GetFlashcardTopics : Cardinality({w \in loaded : w.level = topic.level}) <= topic.totalCards
    /\ \A w \in loaded, raw \in Requests :
          LET senses == Parts(w.senses, v)
              prons  == Parts(w.prons, v)
              word   == [lemma |-> w.lemma, v |-> v, pronunciations |-> prons, senses |-> senses]
              card   == [term |-> w.lemma, definition |-> FirstOf(senses), ipa |-> FirstOf(prons)]
              topic  == GetTopicFlashcards(w.level, raw)
          IN /\ Tells(GetVocab(raw), LAMBDA d : d.lemma = w.lemma, LAMBDA d : d = word, Table("entry"), raw)
             /\ Tells(GetFlashcards(raw), LAMBDA d : d.term = w.lemma, LAMBDA d : d = card, Table("entry"), raw)
             /\ Tells(topic, LAMBDA d : d.term = w.lemma, LAMBDA d : d = card, InTopic(w.level), raw)
             /\ \A cards \in topic : card \notin cards =>
                   Cardinality(cards) = ParseLimit(raw) /\ \A d \in cards : Alphabet[d.term] < Alphabet[w.lemma]
GrammarServed(v) ==
    \A p \in {q \in ToSet(Points[v]) : LicenseAllowed(q)} :
        LET served == [title |-> p.title, v |-> v, examples |-> Parts(p.examples, v)]
            counted == [title |-> p.title, exampleCount |-> p.examples]
        IN /\ \A raw \in Requests :
                 Tells(GetGrammar(raw), LAMBDA d : d.title = p.title, LAMBDA d : d = served, Table("point"), raw)
           /\ \A section \in GetGrammarSections : counted \in section.lessons <=> section.category = p.category
           /\ \E section \in GetGrammarSection(p.category) : counted \in section.lessons
           /\ GetGrammarLesson(p.title) = <<served @@ counted>>
PassagesServed(v) ==
    \A p \in {q \in ToSet(Passages[v]) : LicenseAllowed(q)}, raw \in Requests :
        Tells(GetPassages(raw), LAMBDA d : d.title = p.title,
              LAMBDA d : d.v = v /\ (p.media # None => d.audioKey = p.media), Table("passage"), raw)
QuestionsServed(v) ==
    \A q \in ToSet(Questions[v]) :
        /\ [id |-> q.id, v |-> v] \in ToSet(GetQuestions)
        /\ [item_id |-> q.id, difficulty |-> CefrToTheta(q.level)] \in ToSet(GetItemBank)

\* Whatever runs died before it, on whatever version of the file, and whichever readers
\* saw a word between the deletion and the reinsertion of its senses: once a run of a script
\* ran through with no other run of it beside, the routes say of everything in its file what
\* the file says, each sense, pronunciation and example exactly once (seedVocab.ts,
\* seedGrammar.ts: "Replace children so re-runs converge"; seedGeneratedContent.ts:
\* "re-running the same JSONL is a no-op"). A route without a limit serves all of it; one with
\* a limit all of it as long as the list is no longer than the request may get, and of a topic
\* that is longer the cards that come first. Two runs at once may leave the children twice; the
\* next one alone heals that.
Converges ==
    \A script \in Scripts : settled[script] # 0 =>
        LET v == settled[script] IN
        CASE script = "seed"       -> SeedServed
          [] script = "generated"  -> GeneratedServed(v)
          [] script = "vocab"      -> VocabServed(v)
          [] script = "grammar"    -> GrammarServed(v)
          [] script = "passages"   -> PassagesServed(v)
          [] script = "assessment" -> QuestionsServed(v)
=============================================================================
