-------------------------- MODULE MCBrowserSession --------------------------
EXTENDS BrowserSession, TLC

\* Tabs are interchangeable, and so are users.
Symmetry == Permutations(Tabs) \cup Permutations(Users)
=============================================================================
