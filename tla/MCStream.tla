------------------------------ MODULE MCStream ------------------------------
\* Stream on a small instance: one text that --until matches, one that it does not.
EXTENDS Stream

CONSTANTS open, settled

MCTexts == {open, settled}

MCWantedTexts == {settled}
=============================================================================
