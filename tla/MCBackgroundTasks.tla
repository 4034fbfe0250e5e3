------------------------- MODULE MCBackgroundTasks -------------------------
EXTENDS BackgroundTasks, TLC

CONSTANTS t1, t2, t3

MCTask == {t1, t2, t3}
MCSymmetry == Permutations(MCTask)
=============================================================================
