---------------------------- MODULE MCTutorSession ----------------------------
EXTENDS TutorSession
=============================================================================
