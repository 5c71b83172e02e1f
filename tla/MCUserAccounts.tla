---------------------------- MODULE MCUserAccounts -----------------------------
\* Small instances of UserAccounts.
EXTENDS UserAccounts, TLC

MCPlaceholder == [u \in People |-> <<u>>]
=============================================================================
