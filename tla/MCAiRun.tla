------------------------------ MODULE MCAiRun ------------------------------
EXTENDS AiRun, TLC

CONSTANTS s1, s2

MCSlots == {s1, s2}
==============================================================================
