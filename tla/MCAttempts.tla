------------------------------ MODULE MCAttempts ------------------------------
(***************************************************************************)
(* Small instances of Attempts: two questions with two options each, the   *)
(* first option the right one.                                             *)
(***************************************************************************)
EXTENDS Attempts, TLC

CONSTANTS qa, qb

MCQuestions == {qa, qb}
MCOptions   == {0, 1}
MCChoices   == -1 .. 2
MCKey       == [q \in MCQuestions |-> 0]

Symmetry == Permutations(Answerers) \cup Permutations(Submitters)
              \cup Permutations(MCQuestions)
=============================================================================
