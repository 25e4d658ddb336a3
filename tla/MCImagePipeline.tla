---------------------------- MODULE MCImagePipeline ----------------------------
EXTENDS ImagePipeline, TLC

CONSTANTS c1, c2

MCConfirms1 == {c1}
MCConfirms2 == {c1, c2}
==============================================================================
