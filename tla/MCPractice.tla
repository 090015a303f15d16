------------------------------- MODULE MCPractice -------------------------------
EXTENDS Practice

MCFixtures == <<[id |-> "fix", lessons |-> <<[id |-> "fix-l", exerciseIds |-> <<"read">>]>>]>>
Tree(exercises) == <<[id |-> "gen", lessons |-> <<[id |-> "gen-l", exerciseIds |-> exercises]>>]>>
MCModules == <<Tree(<<"hear">>), Tree(<<"hear", "pick">>)>>
Word(lemma, license, level, senses, prons) == [lemma |-> lemma, license |-> license, level |-> level, senses |-> senses, prons |-> prons]
MCWords == <<<<Word("run", "free", 1, 2, 1)>>, <<Word("set", "share-alike", 1, 1, 1), Word("run", "free", 2, 1, 1), Word("go", "free", 2, 0, 0)>>>>
MCAlphabet == [w \in {"go", "run", "set"} |-> CHOOSE n \in 1 .. 3 : <<"go", "run", "set">>[n] = w]
Point(title, category, examples) == [title |-> title, category |-> category, license |-> "free", examples |-> examples]
MCPoints == <<<<Point("past", "verbs", 2)>>, <<Point("past", "tenses", 1), Point("future", "tenses", 1)>>>>
Passage(title, media) == [title |-> title, license |-> "free", media |-> media]
\* One audio is dropped, another moves to another title.
MCPassages == <<<<Passage("rain", "b.mp3"), Passage("storm", "a.mp3")>>, <<Passage("rain", None), Passage("storm", None), Passage("gale", "a.mp3")>>>>
MCQuestions == <<<<[id |-> "q1", level |-> 1], [id |-> "q2", level |-> 6]>>, <<[id |-> "q2", level |-> 2], [id |-> "q1", level |-> 1]>>>>

MCSkillFocus == [m \in {"fix", "gen"} |-> IF m = "fix" THEN "reading" ELSE "listening"]
Exercise(skill, type, options, transcript, passage, audioKey, answer) ==
    [skill |-> skill, type |-> type, options |-> options, transcript |-> transcript, passage |-> passage,
     audioKey |-> audioKey, answer |-> answer]
\* The second version has lost an option, has another key and another recording; the gap has a text and no options.
Hear(v) == Exercise("listening", "listening-comprehension", IF v = 1 THEN <<"a", "b">> ELSE <<"b">>, "words", None,
                    IF v = 1 THEN "1.mp3" ELSE "2.mp3", IF v = 1 THEN "a" ELSE "b")
Pick == Exercise("listening", "mcq", <<"b">>, None, None, None, "b")
Read == Exercise("reading", "fill-blank", <<>>, None, "text", None, "b")
MCContent == [e \in {"hear", "pick", "read"} |-> [v \in 1 .. 2 |-> IF e = "hear" THEN Hear(v) ELSE IF e = "pick" THEN Pick ELSE Read]]
=============================================================================
