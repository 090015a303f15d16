--------------------------- MODULE MCConsolidation ---------------------------
EXTENDS Consolidation, TLC

\* One error and one turn more than the buffer holds.
MCTurns == [errors |-> 1, context |-> 2, vocab |-> 0]

\* One entry for every list (for the run that looks for the lost ones only).
MCOneEach == [errors |-> 1, context |-> 1, vocab |-> 1]

\* A turn and an encounter.
MCWords == [errors |-> 0, context |-> 1, vocab |-> 1]

\* The slots are interchangeable (for the safety run only).
MCSymmetry == Permutations(Calls)
=============================================================================
