-------------------------- MODULE MCCodexQuestions --------------------------
EXTENDS CodexQuestions, TLC
=============================================================================
