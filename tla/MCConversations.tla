---------------------------- MODULE MCConversations ----------------------------
\* Small instances of Conversations; turns are interchangeable.
EXTENDS Conversations, TLC

Symmetry == Permutations(Turns)
=============================================================================
