-------------------------- MODULE MCHistoryWindow --------------------------
EXTENDS HistoryWindow, TLC
=============================================================================
