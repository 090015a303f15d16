---------------------------- MODULE MCLearnerProfile ----------------------------
EXTENDS LearnerProfile, TLC

\* Nothing distinguishes two sessions, or two types of error of one skill.
MCSymmetry == Permutations(Sessions) \cup Permutations(Types)
=============================================================================
