---------------------------- MODULE MCEntriesConfig ----------------------------
EXTENDS EntriesConfig
=============================================================================
