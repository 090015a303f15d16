------------------------------- MODULE Placement -------------------------------
(***************************************************************************)
(* The placement of a new learner: how the answers of the test become a    *)
(* level per skill, and how levels become the request for a plan.          *)
(*                                                                         *)
(* The CEFR levels A1 .. C2 are 1 .. 6.  An answer is blank, right or      *)
(* wrong; a draft is the profile the onboarding pages fill in.             *)
(***************************************************************************)
EXTENDS Integers, Sequences, FiniteSetsExt, Functions

CONSTANTS
    Skills,      \* placementSkillIds
    Bank,        \* the assessment questions as they are served: [skill, level]
    SelfLevels   \* the levels the self-assessment offers

ASSUME PlacementAssumption ==
    /\ Skills # {} /\ IsFiniteSet(Skills) /\ SelfLevels \subseteq 1 .. 6 /\ IsFiniteSet(DOMAIN Bank)
    /\ \A n \in DOMAIN Bank : Bank[n].level \in 1 .. 6

Levels == 1 .. 6
NoLevel == 0
Answers == {"blank", "right", "wrong"}

\* The questions of the skills that are placed, in their order; the test needs
\* one of each.
Placing == {m \in DOMAIN Bank : Bank[m].skill \in Skills}
Questions == 1 .. Cardinality(Placing)
Selected == [n \in Questions |-> Bank[CHOOSE m \in Placing : Cardinality({i \in Placing : i <= m}) = n]]
BankComplete == \A k \in Skills : \E n \in Questions : Selected[n].skill = k

-----------------------------------------------------------------------------
(* The scorer of learning-materials-service.                                *)

Asked(k, l) == {n \in Questions : Selected[n].skill = k /\ Selected[n].level = l}
Tested(k) == {l \in Levels : Asked(k, l) # {}}

\* SCORING_THRESHOLD is 0.6.
Passed(answers, k, l) ==
    5 * Cardinality({n \in Asked(k, l) : answers[n] = "right"}) >= 3 * Cardinality(Asked(k, l))

\* The climb stops at the first level that is not passed.
Reached(answers, k) == {l \in Tested(k) : \A m \in Tested(k) : m <= l => Passed(answers, k, m)}

\* A tested skill without a level gets A1.
WithFallback(reached) == IF reached = {} THEN 1 ELSE Max(reached)
Scored(answers) == [k \in Skills |-> IF Tested(k) = {} THEN NoLevel ELSE WithFallback(Reached(answers, k))]

-----------------------------------------------------------------------------
(* The request.                                                             *)

Drafts == [levels : [Skills -> Levels \cup {NoLevel}], counted : BOOLEAN]
DefaultDraft == [levels |-> [k \in Skills |-> NoLevel], counted |-> FALSE]
Rated(levels) == {k \in Skills : levels[k] # NoLevel}

ScoreOfLevel(l) == 2 * (l - 1)

\* The mean of the levels that are there, rounded half up; 5 when none is.
ScoreOf(levels) ==
    LET n == Cardinality(Rated(levels))
        total == FoldFunctionOnSet(LAMBDA l, sum : ScoreOfLevel(l) + sum, 0, levels, Rated(levels))
    IN IF n = 0 THEN 5 ELSE (2 * total + n) \div (2 * n)

\* (mutant) The table gives every odd score to the level above the next.
LevelOfScoreSteep(score) == <<1, 3, 2, 4, 3, 5, 4, 6, 5, 6, 6>>[score + 1]

LevelOfScore(score) == <<1, 2, 2, 3, 3, 4, 4, 5, 5, 6, 6>>[score + 1]

\* What is posted: the level, and an ability per rated skill.
Request(draft) ==
    [level |-> LevelOfScore(ScoreOf(draft.levels)),
     estimates |-> [k \in Rated(draft.levels) |-> draft.levels[k] - 3]]
=============================================================================
