----------------------------- MODULE MCFlashcards ------------------------------
\* Small instances of Flashcards; reviewers are interchangeable.
EXTENDS Flashcards, TLC

Symmetry == Permutations(Reviewers)
=============================================================================
