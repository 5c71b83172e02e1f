--------------------------- MODULE MCExamGeneration ---------------------------
\* Small instances of ExamGeneration; processes and exams are interchangeable.
EXTENDS ExamGeneration, TLC

Symmetry == Permutations(Workers) \cup Permutations(Exams)
=============================================================================
