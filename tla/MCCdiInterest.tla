---------------------------- MODULE MCCdiInterest ----------------------------
EXTENDS CdiInterest, TLC

\* Catch-ups are interchangeable.
CatchUpSymmetry == Permutations(Workers)

\* Somebody looks at the rates of the first day.
FirstDay == {<<1, 1>>}
=============================================================================
