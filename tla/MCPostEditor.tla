----------------------------- MODULE MCPostEditor -----------------------------
EXTENDS PostEditor

CONSTANTS t1, t2, c1, c2

MCTopics == {t1, t2}
MCCategories == {c1, c2}
==============================================================================
