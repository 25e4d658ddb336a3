-------------------------- MODULE MCReadThroughCache --------------------------
EXTENDS ReadThroughCache

CONSTANTS r1, r2, w1, w2

MCReaders == {r1, r2}
MCWriters == {w1, w2}
MCUncovered == {w2}
==============================================================================
