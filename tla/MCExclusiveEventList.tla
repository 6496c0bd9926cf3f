------------------------ MODULE MCExclusiveEventList ------------------------
EXTENDS ExclusiveEventList

CONSTANTS p1, p2, a1, d1, i1, i2, i3

MCThreads == {p1, p2}
MCAtomics == {a1}
MCIds == {i1, i2, i3}
MCDummy == [a \in MCAtomics |-> d1]
\* run_thread gives each thread num_events_per_thread events.
MCHand0 == [p \in MCThreads |-> IF p = p1 THEN <<i1, i2>> ELSE <<i3>>]
=============================================================================
