---------------------------- MODULE MCOperators -----------------------------
(* The inputs: the ends of every range, and what lies just outside.        *)
EXTENDS Operators

\* A gap of two and one of seven: dense, chunked and sparse catalogues.
IndexSet == {0, 1, 2, 4, 7, 14}

AgeSet == {-1, 150, 151}

\* Two codes that differ behind the part that is kept.
CodeSet == {<<"c", "1">>, <<"c", "2">>}

NumberSet == {Missing, Garbage, Falsy, Infinite, -1, 0, 1, 20, 21, 99, 100, 255, 256, 3600, 3601,
              60000, 60001, 65519, 65520, 65535, 65536}
=============================================================================
