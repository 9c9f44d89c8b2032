----------------------------- MODULE MCAssets -----------------------------
EXTENDS Assets, TLC

\* Requests are interchangeable.
WorkerSymmetry == Permutations(Workers)

\* Two requests race with each other, or one of them with a report.
OneRace == reports = 0 \/ patches <= 1
=============================================================================
