------------------------- MODULE MCClassicRunTime --------------------------
EXTENDS ClassicRunTime

CONSTANTS m, t1, t2, t3

MCThreads == {m, t1, t2}
MCThreads4 == {m, t1, t2, t3}
\* One detached source (a node blocking in read()) and one ordinary event.
MCInitialDetached == <<"det">>
MCInitialMixed == <<"det", "norm">>
=============================================================================
